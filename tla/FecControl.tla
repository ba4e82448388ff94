------------------------------ MODULE FecControl ------------------------------
(***************************************************************************)
(* Switching the FECs on and off: App::switch_FECs, FecCommandSocket and   *)
(* the life of a SpecialSocket, the network, and the FECs as the emulator  *)
(* implements them.                                                        *)
(*                                                                         *)
(* There is one round of commands for "on" and one for "off", each with a  *)
(* socket of its own bound to the same local port.  Four kinds of threads  *)
(* take part: the thread that calls switch_FECs, the listen coroutine, the *)
(* coroutine of cancel_listen_after (the waiter) and the exit handler.     *)
(* The last three share the threads of the io context and nothing orders   *)
(* their steps.                                                            *)
(*                                                                         *)
(* asio is external: cancelling the timer completes the coroutine that     *)
(* waits on it, if one waits; that completes the || of listen, which       *)
(* cancels the receive, or makes the next co_await throw if the listen     *)
(* coroutine is executing its handler.                                     *)
(***************************************************************************)
EXTENDS FiniteSets

CONSTANTS
  Fecs,          \* remote_fec_endpoints_, each configured once
  PortTaken,     \* another program may own the port
  Faulty,        \* datagrams get lost, receives fail
  Duplicates,    \* datagrams arrive repeatedly
  Overtakes,     \* commands to one FEC may overtake each other
  LateArming     \* the cancel timer may be cancelled before it is awaited

Rounds == {"on", "off"}

ASSUME FecAssumption ==
  /\ IsFiniteSet(Fecs)
  /\ PortTaken \in BOOLEAN
  /\ Faulty \in BOOLEAN
  /\ Duplicates \in BOOLEAN
  /\ Overtakes \in BOOLEAN
  /\ LateArming \in BOOLEAN

Message == [type : {"command", "response"}, fec : Fecs, round : Rounds]
Command(r, f) == [type |-> "command", fec |-> f, round |-> r]
Response(r, f) == [type |-> "response", fec |-> f, round |-> r]

VARIABLES
  call,        \* where the caller of switch_FECs is
  socket,      \* the UDP socket of a round: none, open, closed
  listening,   \* where async_listen_all_connections is
  inbox,       \* the datagram the listen coroutine is handling
  timer,       \* cancel_timer_: unset, awaited, fired, over
  waiter,      \* where the coroutine of cancel_listen_after is
  registered,  \* keys of all_connections_
  pending,     \* those that still have a command
  outbox,      \* launched send actions
  exit,        \* where exit_and_switch_off is
  net,         \* datagrams under way
  handler,     \* the command a FEC has received and not executed
  fecOn,       \* not is_switched_off_
  received,    \* history: the FECs that received the command of a round
  answered,    \* history: the FECs whose response was recognised
  reported     \* history: the FECs named by print_error

callerVars == <<call, registered, outbox>>
socketVars == <<socket, listening, inbox, timer>>
historyVars == <<received, answered, reported>>
vars == <<callerVars, socketVars, waiter, pending, exit, net, handler, fecOn, historyVars>>

None == [type |-> "none"]

Init ==
  /\ call = [r \in Rounds |-> "idle"]
  /\ socket = [r \in Rounds |-> "none"]
  /\ listening = [r \in Rounds |-> "none"]
  /\ inbox = [r \in Rounds |-> None]
  /\ timer = [r \in Rounds |-> "unset"]
  /\ waiter = [r \in Rounds |-> "none"]
  /\ registered = [r \in Rounds |-> {}]
  /\ pending = [r \in Rounds |-> {}]
  /\ outbox = [r \in Rounds |-> {}]
  /\ exit = "no"
  /\ net = {}
  /\ handler = [f \in Fecs |-> "idle"]
  /\ fecOn = [f \in Fecs |-> FALSE]
  /\ received = [r \in Rounds |-> {}]
  /\ answered = [r \in Rounds |-> {}]
  /\ reported = [r \in Rounds |-> {}]

-----------------------------------------------------------------------------
(* switch_FECs *)

\* The main thread calls switch_on, the exit handler switch_off.
MayCall(r) == call[r] = "idle" /\ (r = "off" => exit = "switching")

PortInUse == \E r \in Rounds : socket[r] = "open"

\* create: the socket is bound and its coroutines are spawned.
Create(r) ==
  /\ MayCall(r)
  /\ ~PortInUse
  /\ call' = [call EXCEPT ![r] = "register"]
  /\ socket' = [socket EXCEPT ![r] = "open"]
  /\ listening' = [listening EXCEPT ![r] = "spawned"]
  /\ UNCHANGED <<inbox, timer, waiter, registered, pending, outbox, exit, net, handler,
                 fecOn, historyVars>>

\* bind fails: the future is an error and no command is sent.
CreateFails(r) ==
  /\ MayCall(r)
  /\ PortInUse \/ PortTaken
  /\ call' = [call EXCEPT ![r] = "failed"]
  /\ UNCHANGED <<registered, outbox, socketVars, waiter, pending, exit, net, handler,
                 fecOn, historyVars>>

\* One turn of the loop over the endpoints: the send action is queued and
\* the command recorded under the lock of response_handler.
Register(r, f) ==
  /\ call[r] = "register"
  /\ f \notin registered[r]
  /\ registered' = [registered EXCEPT ![r] = @ \cup {f}]
  /\ pending' = [pending EXCEPT ![r] = @ \cup {f}]
  /\ UNCHANGED <<call, outbox, socketVars, waiter, exit, net, handler, fecOn, historyVars>>

\* cancel_listen_after spawns the waiter before anything is sent.
SpawnWaiter(r) ==
  /\ call[r] = "register"
  /\ registered[r] = Fecs
  /\ call' = [call EXCEPT ![r] = "launch"]
  /\ waiter' = [waiter EXCEPT ![r] = "spawned"]
  /\ UNCHANGED <<registered, outbox, socketVars, pending, exit, net, handler, fecOn,
                 historyVars>>

\* launch_send_actions; then the future is stored.
Launch(r) ==
  /\ call[r] = "launch"
  /\ call' = [call EXCEPT ![r] = "returned"]
  /\ outbox' = [outbox EXCEPT ![r] = registered[r]]
  /\ UNCHANGED <<registered, socketVars, waiter, pending, exit, net, handler, fecOn,
                 historyVars>>

\* send_message: async_send_to on a closed socket fails.
Send(r, f) ==
  /\ f \in outbox[r]
  /\ outbox' = [outbox EXCEPT ![r] = @ \ {f}]
  /\ net' = IF socket[r] = "open" THEN net \cup {Command(r, f)} ELSE net
  /\ UNCHANGED <<call, registered, socketVars, waiter, pending, exit, handler, fecOn,
                 historyVars>>

-----------------------------------------------------------------------------
(* The listen coroutine and the coroutine of the cancel timer *)

\* The || starts the receive, then the wait on the timer.
StartListening(r) ==
  /\ listening[r] = "spawned"
  /\ listening' = [listening EXCEPT ![r] = "receiving"]
  /\ UNCHANGED <<callerVars, socket, timer, inbox, waiter, pending, exit, net, handler, fecOn,
                 historyVars>>

AwaitTimer(r) ==
  /\ listening[r] \notin {"none", "spawned"}
  /\ timer[r] = "unset"
  /\ timer' = [timer EXCEPT ![r] = "awaited"]
  /\ UNCHANGED <<callerVars, socket, listening, inbox, waiter, pending, exit, net, handler,
                 fecOn, historyVars>>

\* What remains of the network when a datagram is delivered.
AfterDelivery(m) == {net \ {m}} \cup (IF Duplicates THEN {net} ELSE {})

\* A response, of whichever round, reaches the socket that has the port.
Receive(r, m) ==
  /\ listening[r] = "receiving"
  /\ m.type = "response"
  /\ listening' = [listening EXCEPT ![r] = "handling"]
  /\ inbox' = [inbox EXCEPT ![r] = m]
  /\ net' \in AfterDelivery(m)
  /\ UNCHANGED <<callerVars, socket, timer, waiter, pending, exit, handler, fecOn,
                 historyVars>>

ReceiveFails(r) ==
  /\ Faulty
  /\ listening[r] = "receiving"
  /\ listening' = [listening EXCEPT ![r] = "closing"]
  /\ UNCHANGED <<callerVars, socket, inbox, timer, waiter, pending, exit, net, handler,
                 fecOn, historyVars>>

\* Mutant: the response buffer of the command is empty and accepts anything.
AnyResponse(r, m) == m.fec \in pending[r]

\* check_response compares the response with the one the command expects.
Recognised(r, m) == m.fec \in pending[r] /\ m.round = r

\* response_handler, under its lock; a coroutine that was cancelled
\* meanwhile leaves through an exception and does not close the socket.
HandleResponse(r) ==
  LET m == inbox[r] IN
  /\ listening[r] \in {"handling", "cancelled"}
  /\ IF Recognised(r, m)
     THEN /\ pending' = [pending EXCEPT ![r] = @ \ {m.fec}]
          /\ answered' = [answered EXCEPT ![r] = @ \cup {m.fec}]
     ELSE UNCHANGED <<pending, answered>>
  /\ inbox' = [inbox EXCEPT ![r] = None]
  /\ listening' = [listening EXCEPT ![r] =
                     IF @ = "handling" THEN "receiving" ELSE "unwound"]
  /\ UNCHANGED <<callerVars, socket, timer, waiter, exit, net, handler, fecOn, received,
                 reported>>

\* Mutant: a cancellation that finds no receive is forgotten.
CancelReceiveOnly(r) ==
  /\ timer[r] = "fired"
  /\ timer' = [timer EXCEPT ![r] = "over"]
  /\ listening' = [listening EXCEPT ![r] = IF @ = "receiving" THEN "closing" ELSE @]
  /\ UNCHANGED <<callerVars, socket, inbox, waiter, pending, exit, net, handler, fecOn,
                 historyVars>>

\* The coroutine that waited on the timer completes and the || cancels the
\* listen coroutine, or finds it finished.
CancelListen(r) ==
  /\ timer[r] = "fired"
  /\ timer' = [timer EXCEPT ![r] = "over"]
  /\ listening' = [listening EXCEPT ![r] =
                     CASE @ = "receiving" -> "closing"
                       [] @ = "handling"  -> "cancelled"
                       [] OTHER           -> @]
  /\ UNCHANGED <<callerVars, socket, inbox, waiter, pending, exit, net, handler, fecOn,
                 historyVars>>

\* The loop was left: before_socket_close and close_socket.
Close(r) ==
  /\ listening[r] = "closing"
  /\ listening' = [listening EXCEPT ![r] = "ended"]
  /\ socket' = [socket EXCEPT ![r] = "closed"]
  /\ UNCHANGED <<callerVars, inbox, timer, waiter, pending, exit, net, handler, fecOn,
                 historyVars>>

\* After an exception the socket closes with the last coroutine that owns it.
Destroy(r) ==
  /\ listening[r] = "unwound"
  /\ call[r] = "returned" /\ outbox[r] = {}
  /\ waiter[r] = "done"
  /\ socket[r] = "open"
  /\ socket' = [socket EXCEPT ![r] = "closed"]
  /\ UNCHANGED <<callerVars, listening, inbox, timer, waiter, pending, exit, net, handler,
                 fecOn, historyVars>>

-----------------------------------------------------------------------------
(* The waiter *)

\* is_finished decides between no waiting and two seconds.
WaiterStarts(r) ==
  /\ waiter[r] = "spawned"
  /\ waiter' = [waiter EXCEPT ![r] = IF pending[r] = {} THEN "finished" ELSE "timing"]
  /\ UNCHANGED <<callerVars, socketVars, pending, exit, net, handler, fecOn, historyVars>>

\* The timer of the waiter expires: it cancels the socket's timer, which
\* nobody may wait on yet, and is done if all had answered at its start.
WaiterCancels(r) ==
  /\ waiter[r] \in {"finished", "timing"}
  /\ ~LateArming => timer[r] # "unset"
  /\ waiter' = [waiter EXCEPT ![r] = IF @ = "finished" THEN "done" ELSE "check"]
  /\ timer' = IF timer[r] = "awaited" THEN [timer EXCEPT ![r] = "fired"] ELSE timer
  /\ UNCHANGED <<callerVars, socket, listening, inbox, pending, exit, net, handler, fecOn,
                 historyVars>>

\* is_finished once more.
WaiterChecks(r) ==
  /\ waiter[r] = "check"
  /\ waiter' = [waiter EXCEPT ![r] = IF pending[r] = {} THEN "done" ELSE "report"]
  /\ UNCHANGED <<callerVars, socketVars, pending, exit, net, handler, fecOn, historyVars>>

\* print_error names the commands that are still pending.
WaiterReports(r) ==
  /\ waiter[r] = "report"
  /\ waiter' = [waiter EXCEPT ![r] = "done"]
  /\ reported' = [reported EXCEPT ![r] = pending[r]]
  /\ UNCHANGED <<callerVars, socketVars, pending, exit, net, handler, fecOn, received,
                 answered>>

-----------------------------------------------------------------------------
(* exit_and_switch_off, as far as it concerns the FECs *)

\* A signal or the run time: the handler looks at switch_on_future_.
ExitBegins ==
  /\ exit = "no"
  /\ exit' = IF call["on"] = "returned" THEN "waiting" ELSE "skipped"
  /\ UNCHANGED <<callerVars, socketVars, waiter, pending, net, handler, fecOn, historyVars>>

\* The future of the waiter is ready: switch_off is called.
ExitReady ==
  /\ exit = "waiting"
  /\ waiter["on"] = "done"
  /\ exit' = "switching"
  /\ UNCHANGED <<callerVars, socketVars, waiter, pending, net, handler, fecOn, historyVars>>

\* The wait for the future times out: nothing is switched off.
ExitTimesOut ==
  /\ exit = "waiting"
  /\ waiter["on"] # "done"
  /\ exit' = "skipped"
  /\ UNCHANGED <<callerVars, socketVars, waiter, pending, net, handler, fecOn, historyVars>>

-----------------------------------------------------------------------------
(* The FECs and the network *)

\* Mutant: the request type is not recognised and the reply says so.
\* listen_coro: the response is sent by a coroutine of its own, before or
\* after the command is executed.
FecReceives(m) ==
  /\ m.type = "command"
  /\ handler[m.fec] = "idle"
  /\ m.round = "off" /\ ~Overtakes => Command("on", m.fec) \notin net
  /\ \E rest \in AfterDelivery(m) : net' = rest \cup {Response(m.round, m.fec)}
  /\ handler' = [handler EXCEPT ![m.fec] = m.round]
  /\ received' = [received EXCEPT ![m.round] = @ \cup {m.fec}]
  /\ UNCHANGED <<callerVars, socketVars, waiter, pending, exit, fecOn, answered, reported>>

\* Mutant: do_if_acq_off does not store the flag.
NeverOff(f) ==
  /\ handler[f] # "idle"
  /\ fecOn' = [fecOn EXCEPT ![f] = @ \/ handler[f] = "on"]
  /\ handler' = [handler EXCEPT ![f] = "idle"]
  /\ UNCHANGED <<callerVars, socketVars, waiter, pending, exit, net, historyVars>>

\* do_if_acq_on, do_if_acq_off.
FecExecutes(f) ==
  /\ handler[f] # "idle"
  /\ fecOn' = [fecOn EXCEPT ![f] = (handler[f] = "on")]
  /\ handler' = [handler EXCEPT ![f] = "idle"]
  /\ UNCHANGED <<callerVars, socketVars, waiter, pending, exit, net, historyVars>>

\* A datagram is lost, or arrives where nobody listens.
Lose(m) ==
  /\ Faulty \/ (m.type = "response" /\ ~PortInUse)
  /\ net' = net \ {m}
  /\ UNCHANGED <<callerVars, socketVars, waiter, pending, exit, handler, fecOn, historyVars>>

-----------------------------------------------------------------------------

Caller(r) ==
  Create(r) \/ CreateFails(r) \/ SpawnWaiter(r) \/ Launch(r) \/ \E f \in Fecs : Register(r, f)

Listener(r) ==
  \/ StartListening(r) \/ AwaitTimer(r) \/ HandleResponse(r) \/ CancelListen(r)
  \/ Close(r) \/ Destroy(r)

Waiter(r) == WaiterStarts(r) \/ WaiterCancels(r) \/ WaiterChecks(r) \/ WaiterReports(r)

Network ==
  \E m \in net : FecReceives(m) \/ Lose(m) \/ \E r \in Rounds : Receive(r, m)

Next ==
  \/ \E r \in Rounds : Caller(r) \/ Listener(r) \/ Waiter(r) \/ ReceiveFails(r)
  \/ \E r \in Rounds, f \in Fecs : Send(r, f)
  \/ ExitBegins \/ ExitReady \/ ExitTimesOut
  \/ Network
  \/ \E f \in Fecs : FecExecutes(f)

Spec == Init /\ [][Next]_vars

(***************************************************************************)
(* Each coroutine that can run does; a call of switch_FECs runs to its     *)
(* end; the FECs and the network deliver when they are not Faulty.         *)
(* Nothing is assumed of when switch_on is called or the exit begins.      *)
(***************************************************************************)
Fairness ==
  /\ \A r \in Rounds :
       /\ WF_vars(SpawnWaiter(r) \/ Launch(r) \/ \E f \in Fecs : Register(r, f))
       /\ WF_vars(StartListening(r) \/ HandleResponse(r) \/ Close(r))
       /\ WF_vars(AwaitTimer(r))
       /\ WF_vars(CancelListen(r))
       /\ WF_vars(Destroy(r))
       /\ WF_vars(Waiter(r))
       /\ \A f \in Fecs : WF_vars(Send(r, f))
  /\ WF_vars(MayCall("off") /\ Caller("off"))
  /\ \A f \in Fecs : WF_vars(FecExecutes(f))
  /\ \A m \in Message :
       WF_vars(m \in net /\ (FecReceives(m) \/ \E r \in Rounds : Receive(r, m)))

FairSpec == Spec /\ Fairness

-----------------------------------------------------------------------------

TypeOK ==
  /\ call \in [Rounds -> {"idle", "register", "launch", "returned", "failed"}]
  /\ socket \in [Rounds -> {"none", "open", "closed"}]
  /\ listening \in [Rounds -> {"none", "spawned", "receiving", "handling", "cancelled",
                               "closing", "ended", "unwound"}]
  /\ inbox \in [Rounds -> Message \cup {None}]
  /\ timer \in [Rounds -> {"unset", "awaited", "fired", "over"}]
  /\ waiter \in [Rounds -> {"none", "spawned", "finished", "timing", "check", "report", "done"}]
  /\ registered \in [Rounds -> SUBSET Fecs]
  /\ pending \in [Rounds -> SUBSET Fecs]
  /\ outbox \in [Rounds -> SUBSET Fecs]
  /\ exit \in {"no", "waiting", "switching", "skipped"}
  /\ net \in SUBSET Message
  /\ handler \in [Fecs -> Rounds \cup {"idle"}]
  /\ fecOn \in [Fecs -> BOOLEAN]
  /\ received \in [Rounds -> SUBSET Fecs]
  /\ answered \in [Rounds -> SUBSET Fecs]
  /\ reported \in [Rounds -> SUBSET Fecs]

(***************************************************************************)
(* The rounds are those of CommandRounds: a round that has ended leaves no *)
(* FEC neither answered nor reported, and only a FEC that has the command  *)
(* counts as answered, although responses carry no number and a late       *)
(* response to "on" reaches the socket that switches off.                  *)
(***************************************************************************)
Status ==
  [r \in Rounds |-> CASE call[r] \in {"idle", "failed"} -> call[r]
                      [] waiter[r] = "done"             -> "over"
                      [] OTHER                          -> "running"]

AbstractRounds == INSTANCE CommandRounds WITH status <- Status

ImplementsRounds == AbstractRounds!Spec

(***************************************************************************)
(* A FEC that has answered the "off" command is off once it has executed   *)
(* what it received, unless an "on" command is still under way.            *)
(***************************************************************************)
OffMeansOff ==
  \A f \in answered["off"] :
    handler[f] = "idle" /\ Command("on", f) \notin net => ~fecOn[f]

(***************************************************************************)
(* The socket of a round that was launched closes, whether the FECs answer *)
(* or not, and whether it is cancelled while it receives or while it       *)
(* handles a datagram.  Otherwise the io context is never done and the     *)
(* program cannot end.                                                     *)
(***************************************************************************)
SocketCloses == \A r \in Rounds : call[r] = "returned" ~> socket[r] = "closed"

(***************************************************************************)
(* Once the exit handler switches off, and if the port is free, each FEC   *)
(* ends up off for good or is named by print_error, although commands and  *)
(* responses get lost and responses to "on" still arrive.                  *)
(***************************************************************************)
SwitchedOff ==
  exit = "switching" ~>
    \/ call["off"] = "failed"
    \/ [](\A f \in Fecs : ~fecOn[f] \/ f \in reported["off"])

(***************************************************************************)
(* Application.hpp:107, on the exit: "Requesting acquisition off to all    *)
(* FEC devices."  The request must not fail because the socket of the      *)
(* program's own first round still has the port.                           *)
(***************************************************************************)
OffRequested == call["off"] # "failed"
=============================================================================
