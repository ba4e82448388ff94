----------------------------- MODULE FecEmulator -----------------------------
(***************************************************************************)
(* The FEC emulator as a source of data: the listen coroutines of the      *)
(* FECs, the sending coroutines that each acq-on spawns, and the frame     *)
(* counter the FECs share.  How a FEC answers is in FecControl.            *)
(*                                                                         *)
(* asio is external.  expires_after on a timer cancels the waits that are  *)
(* under way on it and not over yet: a wait awaited plainly throws out of  *)
(* its coroutine, which ends; one that is an operand of || leaves the      *)
(* other operand waiting, here for a timer that never expires.  The        *)
(* senders of one FEC have one timer, data_sending_control_, no strand and *)
(* no mutex, and so they disturb each other, and may also wait on the      *)
(* timer together: one can call expires_after between another one's        *)
(* expires_after and async_wait.                                           *)
(***************************************************************************)
EXTENDS Naturals

CONSTANTS
  Fecs,
  NSenders,   \* bound: how often an acq-on is executed
  Width       \* number of values of the frame counter, 2^32 in the program

ASSUME EmulatorAssumption ==
  /\ Fecs # {}
  /\ NSenders \in Nat
  /\ Width \in Nat \ {0}

Senders == 1..NSenders
Counter == 0..(Width - 1)

VARIABLES
  nonStop,   \* Config::non_stop of the world
  dataOnly,  \* the FECs with is_sent_data_only
  listen,    \* where listen_coro of a FEC is
  off,       \* is_switched_off_
  counter,   \* frame_counter_ of the world
  spawned,   \* number of senders spawned so far
  fecOf,     \* the FEC a sender belongs to
  at,        \* where start_send_data is
  frame,     \* the counter in data_struct_, for a sender about to send it
  sent,      \* history: counters on the wire in this acquisition
  twice,     \* history: one of them was sent twice
  mixed,     \* history: a sender has sent another one's frame
  extra,     \* history: frames a FEC sent since it was switched off, up to 2
  late,      \* history: the counter started again within an acquisition
  overlap    \* history: FECs switched on while they had a sender

listenVars == <<nonStop, dataOnly, listen, off>>
senderVars == <<spawned, fecOf, at, frame>>
wire == <<sent, twice, mixed, extra>>
vars == <<listenVars, counter, senderVars, wire, late, overlap>>

Init ==
  /\ nonStop \in BOOLEAN
  /\ dataOnly \in SUBSET Fecs
  /\ listen = [f \in Fecs |-> IF f \in dataOnly THEN "launch" ELSE "ready"]
  /\ off = [f \in Fecs |-> TRUE]
  /\ counter = 0
  /\ spawned = 0
  /\ fecOf \in [Senders -> {CHOOSE f \in Fecs : TRUE}]
  /\ at = [k \in Senders |-> "none"]
  /\ frame = [k \in Senders |-> 0]
  /\ sent = {}
  /\ twice = FALSE
  /\ mixed = FALSE
  /\ extra = [f \in Fecs |-> 0]
  /\ late = FALSE
  /\ overlap = {}

\* Senders that will not touch anything any more.
Gone(k) == at[k] \in {"none", "ended", "hung"}

Of(k, f) == k <= spawned /\ fecOf[k] = f

\* The other senders of its FEC that wait on the timer of sender k.
Waiting(k) ==
  {j \in Senders \ {k} : fecOf[j] = fecOf[k] /\ at[j] \in {"starting", "pausing", "resting"}}

-----------------------------------------------------------------------------
(* The commands; a message that is neither acq-on nor acq-off changes nothing. *)

\* do_if_acq_on, on receipt of an acq-on or from wait_for_connection: the
\* counter that all FECs share starts again ...
ResetCounter(f) ==
  /\ listen[f] = IF f \in dataOnly THEN "launch" ELSE "ready"
  /\ spawned < NSenders
  /\ listen' = [listen EXCEPT ![f] = "on"]
  /\ counter' = 0
  /\ late' = (late \/ ((\E k \in Senders : ~Gone(k))
                        /\ (sent # {} \/ \E k \in Senders : at[k] = "constructed")))
  /\ sent' = IF \A k \in Senders : Gone(k) THEN {} ELSE sent
  /\ UNCHANGED <<nonStop, dataOnly, off, senderVars, twice, mixed, extra, overlap>>

\* ... and a sender is spawned, whether or not there is one.
SwitchOn(f) ==
  /\ listen[f] = "on"
  /\ spawned < NSenders
  /\ listen' = [listen EXCEPT ![f] = IF f \in dataOnly THEN "returned" ELSE "ready"]
  /\ off' = [off EXCEPT ![f] = FALSE]
  /\ spawned' = spawned + 1
  /\ fecOf' = [fecOf EXCEPT ![spawned + 1] = f]
  /\ at' = [at EXCEPT ![spawned + 1] = "spawned"]
  /\ extra' = [extra EXCEPT ![f] = 0]
  /\ overlap' = IF \E k \in Senders : Of(k, f) /\ ~Gone(k) THEN overlap \cup {f} ELSE overlap
  /\ UNCHANGED <<nonStop, dataOnly, counter, frame, sent, twice, mixed, late>>

\* do_if_acq_off; without non_stop the coroutine returns.
SwitchOff(f) ==
  /\ listen[f] = "ready"
  /\ listen' = [listen EXCEPT ![f] = IF nonStop THEN "ready" ELSE "returned"]
  /\ off' = [off EXCEPT ![f] = TRUE]
  /\ UNCHANGED <<nonStop, dataOnly, counter, senderVars, wire, late, overlap>>

-----------------------------------------------------------------------------
(* start_send_data *)

ExpireAfterwards(k, place) ==
  \E disturbed \in SUBSET (Waiting(k) \cup {k}) :
    at' = [j \in Senders |->
             IF j \in disturbed THEN IF at[j] = "resting" THEN "hung" ELSE "ended"
             ELSE IF j = k THEN place ELSE at[j]]

\* expires_after, the next step of sender k being async_wait.  Who waits is disturbed,
\* but for those whose wait was over and who had only not been resumed.
ExpiresAfter(k, place) ==
  \E disturbed \in SUBSET Waiting(k) :
    at' = [j \in Senders |->
             IF j \in disturbed THEN IF at[j] = "resting" THEN "hung" ELSE "ended"
             ELSE IF j = k THEN place ELSE at[j]]

\* The second before the first frame.
Start(k) ==
  /\ at[k] = "spawned"
  /\ ExpiresAfter(k, "toStart")
  /\ UNCHANGED <<listenVars, counter, spawned, fecOf, frame, wire, late, overlap>>

Waited == [toStart |-> "starting", toPause |-> "pausing", toRest |-> "resting"]

\* async_wait, on the timer as it is now.
Await(k) ==
  /\ at[k] \in DOMAIN Waited
  /\ at' = [at EXCEPT ![k] = Waited[at[k]]]
  /\ UNCHANGED <<listenVars, counter, spawned, fecOf, frame, wire, late, overlap>>

GoOnForEver(k) ==
  /\ at[k] \in {"starting", "resting"}
  /\ at' = [at EXCEPT ![k] = "looping"]
  /\ UNCHANGED <<listenVars, counter, spawned, fecOf, frame, wire, late, overlap>>

\* The wait is over and the condition of the loop tested, which it is not
\* after the pause.
TestFlag(k) ==
  /\ at[k] \in {"starting", "resting"}
  /\ at' = [at EXCEPT ![k] = IF off[fecOf[k]] THEN "ended" ELSE "looping"]
  /\ UNCHANGED <<listenVars, counter, spawned, fecOf, frame, wire, late, overlap>>

Pause(k) ==
  /\ at[k] = "looping"
  /\ ExpiresAfter(k, "toPause")
  /\ UNCHANGED <<listenVars, counter, spawned, fecOf, frame, wire, late, overlap>>

PeekCounter == UNCHANGED <<counter, late>>

\* World::request_frame_counter, an atomic post-increment.
RequestCounter ==
  /\ counter' = (counter + 1) % Width
  /\ late' = (late \/ counter' = 0)

ShareStatic(k) == {j \in Senders \ {k} : at[j] = "constructed"}

\* The senders whose frame is in the data_struct_ that sender k fills.  (Two that fill it
\* at the same moment tear it, after which it is no more than another one's frame.)
ShareStruct(k) == {j \in Senders \ {k} : fecOf[j] = fecOf[k] /\ at[j] = "constructed"}

\* construct_binary_data, after the pause.  The serializer accepts every frame: the
\* values are drawn from the ranges it checks.
Construct(k) ==
  /\ at[k] = "pausing"
  /\ RequestCounter
  /\ frame' = [j \in Senders |-> IF j \in {k} \cup ShareStruct(k) THEN counter ELSE frame[j]]
  /\ mixed' = (mixed \/ ShareStruct(k) # {})
  /\ at' = [at EXCEPT ![k] = "constructed"]
  /\ UNCHANGED <<listenVars, spawned, fecOf, sent, twice, extra, overlap>>

SendIfOn(k) ==
  LET f == fecOf[k]
  IN  /\ at[k] = "constructed"
      /\ sent' = IF off[f] THEN sent ELSE sent \cup {frame[k]}
      /\ twice' = (twice \/ (~off[f] /\ frame[k] \in sent))
      /\ frame' = [frame EXCEPT ![k] = 0]
      /\ ExpiresAfter(k, "toRest")
      /\ UNCHANGED <<listenVars, counter, spawned, fecOf, mixed, extra, late, overlap>>

\* send_sync_message, then the rest of the frame's time.
Send(k) ==
  LET f == fecOf[k]
  IN  /\ at[k] = "constructed"
      /\ sent' = sent \cup {frame[k]}
      /\ twice' = (twice \/ frame[k] \in sent)
      /\ frame' = [frame EXCEPT ![k] = 0]
      /\ extra' = [extra EXCEPT ![f] = IF off[f] /\ @ < 2 THEN @ + 1 ELSE @]
      /\ ExpiresAfter(k, "toRest")
      /\ UNCHANGED <<listenVars, counter, spawned, fecOf, mixed, late, overlap>>

-----------------------------------------------------------------------------

Sender(k) ==
  Start(k) \/ Await(k) \/ TestFlag(k) \/ Pause(k) \/ Construct(k) \/ Send(k)

Next ==
  \/ \E f \in Fecs : ResetCounter(f) \/ SwitchOn(f) \/ SwitchOff(f)
  \/ \E k \in Senders : Sender(k)

(***************************************************************************)
(* The pool, which has as many threads as FECs or more, resumes every      *)
(* coroutine.  Nothing is assumed of the commands.                         *)
(***************************************************************************)
Fairness ==
  /\ \A f \in Fecs : WF_vars(SwitchOn(f))
  /\ \A k \in Senders : WF_vars(Sender(k))

Spec == Init /\ [][Next]_vars /\ Fairness

-----------------------------------------------------------------------------

TypeOK ==
  /\ nonStop \in BOOLEAN
  /\ dataOnly \in SUBSET Fecs
  /\ listen \in [Fecs -> {"launch", "ready", "on", "returned"}]
  /\ off \in [Fecs -> BOOLEAN]
  /\ counter \in Counter
  /\ spawned \in 0..NSenders
  /\ fecOf \in [Senders -> Fecs]
  /\ at \in [Senders -> {"none", "spawned", "toStart", "starting", "looping", "toPause",
                         "pausing", "constructed", "toRest", "resting", "ended",
                         "hung"}]
  /\ frame \in [Senders -> Counter]
  /\ sent \in SUBSET Counter
  /\ twice \in BOOLEAN
  /\ mixed \in BOOLEAN
  /\ extra \in [Fecs -> 0..2]
  /\ late \in BOOLEAN
  /\ overlap \in SUBSET Fecs

(***************************************************************************)
(* srs-fec-emulator.rst:22: the counters come "from the global             *)
(* incrementing frame_counter".  All FECs together send each counter at    *)
(* most once although each acq-on resets it, unless it wraps or an acq-on  *)
(* comes when frames have been sent and a sender is still active.          *)
(***************************************************************************)
CountersDistinct == twice => late \/ overlap # {}

(***************************************************************************)
(* A sender sends the frame it has constructed, not one that another       *)
(* coroutine put into the same structure, unless its FEC was switched on   *)
(* again before it had ended.                                              *)
(***************************************************************************)
FrameIntact == mixed => overlap # {}

(***************************************************************************)
(* srs-fec-emulator.rst:20: a FEC that is switched off "stops sending the  *)
(* binary data": it sends one frame more, if it was in the pause before    *)
(* it, but not a second one.                                               *)
(***************************************************************************)
OffStops == \A f \in Fecs : off[f] /\ f \notin overlap => extra[f] <= 1

(***************************************************************************)
(* The senders of a FEC disturb each other at every turn, each may end the *)
(* others or hang them, and two may wait on the timer together; yet a FEC  *)
(* that is on always has one that goes on.                                 *)
(***************************************************************************)
NeverSilent == \A f \in Fecs : ~off[f] => \E k \in Senders : Of(k, f) /\ ~Gone(k)

(***************************************************************************)
(* No counter is skipped: each one drawn since the counter was 0 is on the *)
(* wire or in a frame about to be sent, although senders end each other    *)
(* and are switched off at any point.  (FrameCountChecker takes a counter  *)
(* that is skipped for a frame that was lost.)  Only a sender that fills   *)
(* the structure of another one before it is serialised breaks this.       *)
(***************************************************************************)
NoCounterSkipped ==
  mixed \/ \A n \in Counter : n < counter =>
             n \in sent \/ \E k \in Senders : at[k] = "constructed" /\ frame[k] = n

(***************************************************************************)
(* A FEC that stays off ends its senders, all but those that hang.         *)
(***************************************************************************)
SendersEnd ==
  \A f \in Fecs : off[f] ~> ~off[f] \/ \A k \in Senders : Of(k, f) => Gone(k)
=============================================================================
