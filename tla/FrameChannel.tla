---------------------------- MODULE FrameChannel ----------------------------
(***************************************************************************)
(* What srs::BufferQueue promises to its users, with no buffers, recycling *)
(* or allocation in sight: a lossy channel that is first-in first-out for  *)
(* each data socket.  A frame that arrived on a socket is either accepted  *)
(* or lost on the spot, an accepted frame is handed to exactly one         *)
(* analysis line, and stop markers (the empty buffers of enqueue_empty)    *)
(* travel in a lane of their own, so they may overtake accepted frames.    *)
(***************************************************************************)
EXTENDS Integers, Sequences, FiniteSets

CONSTANTS
  Sockets,    \* the data sockets, one producer token each
  Lines,      \* the lines of the analysis pipeline, one consumer token each
  MaxFrames,  \* bound: frames that arrive on one socket
  Nothing     \* neither a frame nor a buffer

Frame == [socket : Sockets, n : 1..MaxFrames]

\* What the channel and the theorems about it assume of the constants.
ChannelAssumption ==
  /\ IsFiniteSet(Sockets)
  /\ IsFiniteSet(Lines)
  /\ MaxFrames \in Nat
  /\ Nothing \notin Frame

VARIABLES
  arrived,   \* arrived[s]: number of frames received by socket s so far
  hand,      \* hand[s]: the frame socket s is about to enqueue
  chan,      \* chan[s]: accepted frames of socket s not yet taken
  held,      \* held[l]: the frame line l is analysing
  lost,      \* frames refused by the channel
  done,      \* frames whose analysis has finished
  stops,     \* stop markers in the channel
  stopping,  \* the stop markers have been sent
  ended      \* lines that took a stop marker

vars == <<arrived, hand, chan, held, lost, done, stops, stopping, ended>>

Init ==
  /\ arrived = [s \in Sockets |-> 0]
  /\ hand = [s \in Sockets |-> Nothing]
  /\ chan = [s \in Sockets |-> <<>>]
  /\ held = [l \in Lines |-> Nothing]
  /\ lost = {}
  /\ done = {}
  /\ stops = 0
  /\ stopping = FALSE
  /\ ended = {}

Arrive(s) ==
  /\ hand[s] = Nothing
  /\ arrived[s] < MaxFrames
  /\ arrived' = [arrived EXCEPT ![s] = @ + 1]
  /\ hand' = [hand EXCEPT ![s] = [socket |-> s, n |-> arrived[s] + 1]]
  /\ UNCHANGED <<chan, held, lost, done, stops, stopping, ended>>

Accept(s) ==
  /\ hand[s] # Nothing
  /\ chan' = [chan EXCEPT ![s] = Append(@, hand[s])]
  /\ hand' = [hand EXCEPT ![s] = Nothing]
  /\ UNCHANGED <<arrived, held, lost, done, stops, stopping, ended>>

Lose(s) ==
  /\ hand[s] # Nothing
  /\ lost' = lost \cup {hand[s]}
  /\ hand' = [hand EXCEPT ![s] = Nothing]
  /\ UNCHANGED <<arrived, chan, held, done, stops, stopping, ended>>

Take(l, s) ==
  /\ l \notin ended
  /\ held[l] = Nothing
  /\ chan[s] # <<>>
  /\ held' = [held EXCEPT ![l] = Head(chan[s])]
  /\ chan' = [chan EXCEPT ![s] = Tail(@)]
  /\ UNCHANGED <<arrived, hand, lost, done, stops, stopping, ended>>

Finish(l) ==
  /\ held[l] # Nothing
  /\ done' = done \cup {held[l]}
  /\ held' = [held EXCEPT ![l] = Nothing]
  /\ UNCHANGED <<arrived, hand, chan, lost, stops, stopping, ended>>

SendStops ==
  /\ ~stopping
  /\ stopping' = TRUE
  /\ stops' = stops + Cardinality(Lines)
  /\ UNCHANGED <<arrived, hand, chan, held, lost, done, ended>>

TakeStop(l) ==
  /\ l \notin ended
  /\ held[l] = Nothing
  /\ stops > 0
  /\ stops' = stops - 1
  /\ ended' = ended \cup {l}
  /\ UNCHANGED <<arrived, hand, chan, held, lost, done, stopping>>

Next ==
  \/ \E s \in Sockets : Arrive(s) \/ Accept(s) \/ Lose(s)
  \/ \E l \in Lines, s \in Sockets : Take(l, s)
  \/ \E l \in Lines : Finish(l) \/ TakeStop(l)
  \/ SendStops

Spec == Init /\ [][Next]_vars

-----------------------------------------------------------------------------

TypeOK ==
  /\ arrived \in [Sockets -> 0..MaxFrames]
  /\ hand \in [Sockets -> Frame \cup {Nothing}]
  /\ chan \in [Sockets -> Seq(Frame)]
  /\ held \in [Lines -> Frame \cup {Nothing}]
  /\ lost \in SUBSET Frame
  /\ done \in SUBSET Frame
  /\ stops \in Nat
  /\ stopping \in BOOLEAN
  /\ ended \in SUBSET Lines

Queued == UNION {{chan[s][i] : i \in DOMAIN chan[s]} : s \in Sockets}
InHand == {hand[s] : s \in Sockets} \ {Nothing}
Held == {held[l] : l \in Lines} \ {Nothing}

(***************************************************************************)
(* Every frame that arrived is in one place, and only in one: about to be  *)
(* enqueued, queued once, with one line, lost or analysed.  The drop and   *)
(* read counters of AnalysisHandle are only meaningful if this holds.      *)
(***************************************************************************)
Conserved ==
  /\ \A f \in Frame :
       f.n <= arrived[f.socket] <=> f \in InHand \cup Queued \cup Held \cup lost \cup done
  /\ InHand \cap (Queued \cup Held \cup lost \cup done) = {}
  /\ Queued \cap (Held \cup lost \cup done) = {}
  /\ Held \cap (lost \cup done) = {}
  /\ lost \cap done = {}
  /\ \A l, m \in Lines : held[l] # Nothing /\ held[l] = held[m] => l = m

(***************************************************************************)
(* First-in first-out for each socket: the queued frames of a socket are   *)
(* in arrival order and all of them arrived after every frame of that      *)
(* socket that a line has taken.  Frames of one FEC reach the lines in the *)
(* order of their frame counters because of this.                          *)
(***************************************************************************)
FifoPerSocket ==
  \A s \in Sockets :
    /\ \A i \in DOMAIN chan[s] : chan[s][i].socket = s
    /\ \A i, j \in DOMAIN chan[s] : i < j => chan[s][i].n < chan[s][j].n
    /\ \A i \in DOMAIN chan[s], f \in Held \cup done :
         f.socket = s => f.n < chan[s][i].n

(***************************************************************************)
(* The stop markers are exactly enough: after they were sent there is one  *)
(* left for every line that has not ended, so no line can block for ever   *)
(* in the wait_dequeue of its last turn.                                   *)
(***************************************************************************)
StopPerLine ==
  IF stopping THEN stops = Cardinality(Lines \ ended) ELSE stops = 0 /\ ended = {}
=============================================================================
