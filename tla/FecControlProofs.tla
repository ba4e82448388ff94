--------------------------- MODULE FecControlProofs ---------------------------
(***************************************************************************)
(* Theorems about FecControl, for every set of FECs and every kind of      *)
(* network.                                                                *)
(***************************************************************************)
EXTENDS FecControl, TLAPS

(***************************************************************************)
(* The control locations are the declared ones, whatever the network and   *)
(* the order in which the coroutines run.                                  *)
(***************************************************************************)
THEOREM ControlTyping == Spec => []TypeOK
<1>1. Init => TypeOK
  BY DEF Init, TypeOK, Rounds
<1>2. TypeOK /\ [Next]_vars => TypeOK'
  <2> SUFFICES ASSUME TypeOK, [Next]_vars PROVE TypeOK'
    OBVIOUS
  <2> USE DEF TypeOK
  <2>1. ASSUME NEW r \in Rounds, Caller(r) PROVE TypeOK'
    <3>1. CASE Create(r) \/ CreateFails(r)
      BY <3>1 DEF Create, CreateFails, callerVars, socketVars, historyVars
    <3>2. CASE SpawnWaiter(r) \/ Launch(r)
      BY <3>2 DEF SpawnWaiter, Launch, callerVars, socketVars, historyVars
    <3>3. ASSUME NEW f \in Fecs, Register(r, f) PROVE TypeOK'
      BY <3>3 DEF Register, callerVars, socketVars, historyVars
    <3> QED
      BY <2>1, <3>1, <3>2, <3>3 DEF Caller
  <2>2. ASSUME NEW r \in Rounds, Listener(r) PROVE TypeOK'
    <3>1. CASE StartListening(r) \/ AwaitTimer(r)
      BY <3>1 DEF StartListening, AwaitTimer, callerVars, socketVars, historyVars
    <3>2. CASE HandleResponse(r)
      BY <3>2 DEF HandleResponse, Recognised, callerVars, socketVars, historyVars
    <3>3. CASE CancelListen(r)
      BY <3>3 DEF CancelListen, callerVars, socketVars, historyVars
    <3>4. CASE Close(r) \/ Destroy(r)
      BY <3>4 DEF Close, Destroy, callerVars, socketVars, historyVars
    <3> QED
      BY <2>2, <3>1, <3>2, <3>3, <3>4 DEF Listener
  <2>3. ASSUME NEW r \in Rounds, Waiter(r) PROVE TypeOK'
    BY <2>3 DEF Waiter, WaiterStarts, WaiterCancels, WaiterChecks, WaiterReports,
       callerVars, socketVars, historyVars
  <2>4. ASSUME NEW r \in Rounds, ReceiveFails(r) PROVE TypeOK'
    BY <2>4 DEF ReceiveFails, callerVars, socketVars, historyVars
  <2>5. ASSUME NEW r \in Rounds, NEW f \in Fecs, Send(r, f) PROVE TypeOK'
    BY <2>5 DEF Send, Command, Message, callerVars, socketVars, historyVars
  <2>6. CASE ExitBegins \/ ExitReady \/ ExitTimesOut
    BY <2>6 DEF ExitBegins, ExitReady, ExitTimesOut, callerVars, socketVars, historyVars
  <2>7. ASSUME NEW m \in net, FecReceives(m) PROVE TypeOK'
    BY <2>7 DEF FecReceives, AfterDelivery, Response, Message, callerVars, socketVars, historyVars
  <2>8. ASSUME NEW m \in net, Lose(m) PROVE TypeOK'
    BY <2>8 DEF Lose, callerVars, socketVars, historyVars
  <2>9. ASSUME NEW m \in net, NEW r \in Rounds, Receive(r, m) PROVE TypeOK'
    BY <2>9 DEF Receive, AfterDelivery, callerVars, socketVars, historyVars
  <2>10. ASSUME NEW f \in Fecs, FecExecutes(f) PROVE TypeOK'
    BY <2>10 DEF FecExecutes, callerVars, socketVars, historyVars
  <2>11. CASE UNCHANGED vars
    BY <2>11 DEF vars, callerVars, socketVars, historyVars
  <2> QED
    BY <2>1, <2>2, <2>3, <2>4, <2>5, <2>6, <2>7, <2>8, <2>9, <2>10, <2>11 DEF Next, Network
<1> QED
  BY <1>1, <1>2, PTL DEF Spec

-----------------------------------------------------------------------------
(* What the rounds rest on *)

\* What a FEC answers it has received, wherever the response is.
AnswersTrue ==
  /\ \A m \in net : m.type = "response" => m.fec \in received[m.round]
  /\ \A r \in Rounds : inbox[r] # None =>
       inbox[r].type = "response" /\ inbox[r].fec \in received[inbox[r].round]
  /\ \A r \in Rounds : listening[r] \in {"handling", "cancelled"} => inbox[r] # None

\* Nothing of a round exists before its call, and nothing is sent, waited
\* for or reported before its time.
InOrder ==
  \A r \in Rounds :
    /\ call[r] \in {"idle", "failed"} =>
         listening[r] = "none" /\ registered[r] = {} /\ pending[r] = {}
    /\ waiter[r] # "none" <=> call[r] \in {"launch", "returned"}
    /\ waiter[r] # "none" => registered[r] = Fecs
    /\ outbox[r] # {} => call[r] = "returned"
    /\ \A m \in net : m.type = "command" /\ m.round = r => call[r] = "returned"
    /\ waiter[r] = "finished" => pending[r] = {}
    /\ waiter[r] # "done" => reported[r] = {}

\* A registered FEC has answered or is pending.
AnsweredOrPending == \A r \in Rounds : answered[r] \cup pending[r] = registered[r]

RoundInv == TypeOK /\ AnswersTrue /\ InOrder /\ AnsweredOrPending

LEMMA RoundInit == Init => AnswersTrue /\ InOrder /\ AnsweredOrPending
BY DEF Init, AnswersTrue, InOrder, AnsweredOrPending

LEMMA CallerKeeps ==
  ASSUME RoundInv, NEW r \in Rounds, Caller(r)
  PROVE  AnswersTrue' /\ InOrder' /\ AnsweredOrPending'
<1> USE DEF RoundInv, TypeOK, AnswersTrue, InOrder, AnsweredOrPending
<1>1. CASE Create(r)
  BY <1>1 DEF Create, MayCall, historyVars
<1>2. CASE CreateFails(r)
  BY <1>2 DEF CreateFails, MayCall, historyVars, socketVars
<1>3. CASE SpawnWaiter(r)
  BY <1>3 DEF SpawnWaiter, historyVars, socketVars
<1>4. CASE Launch(r)
  BY <1>4 DEF Launch, historyVars, socketVars
<1>5. ASSUME NEW f \in Fecs, Register(r, f)
      PROVE  AnswersTrue' /\ InOrder' /\ AnsweredOrPending'
  BY <1>5 DEF Register, historyVars, socketVars
<1> QED
  BY <1>1, <1>2, <1>3, <1>4, <1>5 DEF Caller

LEMMA ListenerKeeps ==
  ASSUME RoundInv, NEW r \in Rounds, Listener(r) \/ ReceiveFails(r)
  PROVE  AnswersTrue' /\ InOrder' /\ AnsweredOrPending'
<1> USE DEF RoundInv, TypeOK, AnswersTrue, InOrder, AnsweredOrPending
<1>1. CASE StartListening(r) \/ AwaitTimer(r)
  BY <1>1 DEF StartListening, AwaitTimer, callerVars, historyVars
<1>2. CASE HandleResponse(r)
  BY <1>2 DEF HandleResponse, Recognised, callerVars
<1>3. CASE CancelListen(r) \/ ReceiveFails(r)
  BY <1>3 DEF CancelListen, ReceiveFails, callerVars, historyVars
<1>4. CASE Close(r) \/ Destroy(r)
  BY <1>4 DEF Close, Destroy, callerVars, historyVars
<1> QED
  BY <1>1, <1>2, <1>3, <1>4 DEF Listener

LEMMA WaiterKeeps ==
  ASSUME RoundInv, NEW r \in Rounds, Waiter(r)
  PROVE  AnswersTrue' /\ InOrder' /\ AnsweredOrPending'
BY DEF RoundInv, TypeOK, AnswersTrue, InOrder, AnsweredOrPending, Waiter, WaiterStarts,
   WaiterCancels, WaiterChecks, WaiterReports, callerVars, historyVars, socketVars

LEMMA NetworkKeeps ==
  ASSUME RoundInv, Network
  PROVE  AnswersTrue' /\ InOrder' /\ AnsweredOrPending'
<1> USE DEF RoundInv, TypeOK, AnswersTrue, InOrder, AnsweredOrPending, Message
<1>1. ASSUME NEW m \in net, FecReceives(m)
      PROVE  AnswersTrue' /\ InOrder' /\ AnsweredOrPending'
  <2>1. \A n \in net' : n \in net \/ n = Response(m.round, m.fec)
    BY <1>1 DEF FecReceives, AfterDelivery
  <2>2. /\ m.fec \in Fecs /\ m.round \in Rounds
        /\ received' = [received EXCEPT ![m.round] = @ \cup {m.fec}]
        /\ UNCHANGED <<call, registered, outbox, socket, listening, inbox, timer, waiter,
                       pending, answered, reported>>
    BY <1>1 DEF FecReceives, callerVars, socketVars
  <2> QED
    BY <2>1, <2>2 DEF Response
<1>2. ASSUME NEW m \in net, Lose(m)
      PROVE  AnswersTrue' /\ InOrder' /\ AnsweredOrPending'
  BY <1>2 DEF Lose, callerVars, socketVars, historyVars
<1>3. ASSUME NEW m \in net, NEW r \in Rounds, Receive(r, m)
      PROVE  AnswersTrue' /\ InOrder' /\ AnsweredOrPending'
  <2>1. \A n \in net' : n \in net
    BY <1>3 DEF Receive, AfterDelivery
  <2>2. /\ m.type = "response" /\ listening[r] = "receiving"
        /\ listening' = [listening EXCEPT ![r] = "handling"]
        /\ inbox' = [inbox EXCEPT ![r] = m]
        /\ UNCHANGED <<call, registered, outbox, waiter, pending, received, answered, reported>>
    BY <1>3 DEF Receive, callerVars, historyVars
  <2> QED
    BY <2>1, <2>2 DEF None
<1> QED
  BY <1>1, <1>2, <1>3 DEF Network

LEMMA RoundStep ==
  RoundInv /\ [Next]_vars => AnswersTrue' /\ InOrder' /\ AnsweredOrPending'
<1> SUFFICES ASSUME RoundInv, [Next]_vars
             PROVE  AnswersTrue' /\ InOrder' /\ AnsweredOrPending'
  OBVIOUS
<1>1. ASSUME NEW r \in Rounds, NEW f \in Fecs, Send(r, f)
      PROVE  AnswersTrue' /\ InOrder' /\ AnsweredOrPending'
  <2>1. \A m \in net' : m \in net \/ m = Command(r, f)
    BY <1>1 DEF Send
  <2>2. /\ f \in outbox[r] /\ outbox' = [outbox EXCEPT ![r] = @ \ {f}]
        /\ UNCHANGED <<call, registered, listening, inbox, waiter, pending, received,
                       answered, reported>>
    BY <1>1 DEF Send, socketVars, historyVars
  <2> QED
    BY <2>1, <2>2 DEF RoundInv, TypeOK, AnswersTrue, InOrder, AnsweredOrPending, Command
<1>2. CASE ExitBegins \/ ExitReady \/ ExitTimesOut \/ UNCHANGED vars
  BY <1>2 DEF RoundInv, AnswersTrue, InOrder, AnsweredOrPending, ExitBegins, ExitReady,
     ExitTimesOut, vars, callerVars, socketVars, historyVars
<1>3. ASSUME NEW f \in Fecs, FecExecutes(f)
      PROVE  AnswersTrue' /\ InOrder' /\ AnsweredOrPending'
  BY <1>3 DEF RoundInv, AnswersTrue, InOrder, AnsweredOrPending, FecExecutes, callerVars,
     socketVars, historyVars
<1> QED
  BY <1>1, <1>2, <1>3, CallerKeeps, ListenerKeeps, WaiterKeeps, NetworkKeeps DEF Next

(***************************************************************************)
(* What the refinement and the theorem on "off" rest on: answers are true, *)
(* the steps of a round are in order and no FEC is forgotten.              *)
(***************************************************************************)
THEOREM RoundInvariant == Spec => []RoundInv
<1>1. Init => AnswersTrue /\ InOrder /\ AnsweredOrPending
  BY RoundInit
<1>2. TypeOK /\ TypeOK' /\ RoundInv /\ [Next]_vars => RoundInv'
  BY RoundStep DEF RoundInv
<1>3. TypeOK /\ AnswersTrue /\ InOrder /\ AnsweredOrPending <=> RoundInv
  BY DEF RoundInv
<1> QED
  BY <1>1, <1>2, <1>3, ControlTyping, PTL DEF Spec

-----------------------------------------------------------------------------
(* The rounds *)

LEMMA RoundsInit == Init => AbstractRounds!Init
BY DEF Init, AbstractRounds!Init, Status

\* Steps that change no part of the abstract state.
LEMMA RoundsStutter ==
  ASSUME UNCHANGED <<call, received, answered, reported>>,
         \A r \in Rounds : waiter'[r] = "done" <=> waiter[r] = "done"
  PROVE  UNCHANGED AbstractRounds!roundVars
BY DEF AbstractRounds!roundVars, Status

LEMMA CallerRounds ==
  ASSUME RoundInv, NEW r \in Rounds, Caller(r)
  PROVE  [AbstractRounds!Next]_(AbstractRounds!roundVars)
<1> USE DEF RoundInv, TypeOK, InOrder
<1>1. CASE Create(r)
  <2>1. AbstractRounds!Begin(r)
    BY <1>1 DEF Create, MayCall, AbstractRounds!Begin, Status, historyVars
  <2> QED
    BY <2>1 DEF AbstractRounds!Next
<1>2. CASE CreateFails(r)
  <2>1. AbstractRounds!Fail(r)
    BY <1>2 DEF CreateFails, MayCall, AbstractRounds!Fail, Status, historyVars
  <2> QED
    BY <2>1 DEF AbstractRounds!Next
<1>3. CASE SpawnWaiter(r)
  BY <1>3 DEF SpawnWaiter, historyVars, AbstractRounds!roundVars, Status
<1>4. CASE Launch(r)
  BY <1>4 DEF Launch, historyVars, AbstractRounds!roundVars, Status
<1>5. ASSUME NEW f \in Fecs, Register(r, f) PROVE UNCHANGED AbstractRounds!roundVars
  BY <1>5, RoundsStutter DEF Register, historyVars
<1> QED
  BY <1>1, <1>2, <1>3, <1>4, <1>5 DEF Caller

LEMMA ListenerRounds ==
  ASSUME RoundInv, NEW r \in Rounds, Listener(r) \/ ReceiveFails(r)
  PROVE  [AbstractRounds!Next]_(AbstractRounds!roundVars)
<1>1. CASE HandleResponse(r)
  <2> DEFINE m == inbox[r]
  <2>1. m.type = "response" /\ m.fec \in received[m.round]
    BY <1>1 DEF HandleResponse, RoundInv, AnswersTrue
  <2>2. CASE Recognised(r, m)
    <3>1. m.fec \in Fecs /\ m.fec \in received[r] /\ m.fec \in pending[r]
      BY <2>1, <2>2 DEF Recognised, RoundInv, TypeOK
    <3>2. Status[r] \in {"running", "over"}
      BY <3>1 DEF RoundInv, InOrder, TypeOK, Status
    <3>3. AbstractRounds!Answer(r, m.fec)
      BY <1>1, <2>2, <3>1, <3>2 DEF HandleResponse, AbstractRounds!Answer, Status, callerVars
    <3> QED
      BY <3>1, <3>3 DEF AbstractRounds!Next
  <2>3. CASE ~Recognised(r, m)
    BY <1>1, <2>3, RoundsStutter DEF HandleResponse, callerVars
  <2> QED
    BY <2>2, <2>3
<1>2. CASE StartListening(r) \/ AwaitTimer(r) \/ CancelListen(r) \/ Close(r) \/ Destroy(r)
           \/ ReceiveFails(r)
  BY <1>2, RoundsStutter DEF StartListening, AwaitTimer, CancelListen, Close, Destroy,
     ReceiveFails, callerVars, historyVars
<1> QED
  BY <1>1, <1>2 DEF Listener

LEMMA WaiterRounds ==
  ASSUME RoundInv, NEW r \in Rounds, Waiter(r)
  PROVE  [AbstractRounds!Next]_(AbstractRounds!roundVars)
<1>1. waiter[r] \notin {"none", "done"} =>
        /\ Status[r] = "running"
        /\ reported[r] = {}
        /\ answered[r] \cup pending[r] = Fecs
  BY DEF RoundInv, TypeOK, InOrder, AnsweredOrPending, Status
<1>2. ASSUME waiter[r] \notin {"none", "done"},
             waiter' = [waiter EXCEPT ![r] = "done"],
             NEW silent \in SUBSET Fecs,
             Fecs \ answered[r] \subseteq silent,
             reported' = [reported EXCEPT ![r] = silent],
             UNCHANGED <<call, received, answered>>
      PROVE  AbstractRounds!End(r)
  <2>1. Status' = [Status EXCEPT ![r] = "over"]
    BY <1>2 DEF RoundInv, TypeOK, InOrder, Status
  <2> QED
    BY <1>1, <1>2, <2>1 DEF AbstractRounds!End
<1>3. reported[r] = {} => reported = [reported EXCEPT ![r] = {}]
  BY DEF RoundInv, TypeOK
<1>4. CASE WaiterStarts(r)
  BY <1>4, RoundsStutter DEF WaiterStarts, RoundInv, TypeOK, callerVars, historyVars
<1>5. CASE WaiterCancels(r)
  <2>1. CASE waiter[r] = "finished"
    <3>1. /\ waiter' = [waiter EXCEPT ![r] = "done"]
          /\ UNCHANGED <<call, received, answered, reported>>
      BY <1>5, <2>1 DEF WaiterCancels, callerVars, historyVars
    <3>2. pending[r] = {}
      BY <2>1 DEF RoundInv, InOrder
    <3>3. AbstractRounds!End(r)
      BY <1>1, <1>2, <1>3, <2>1, <3>1, <3>2
    <3> QED
      BY <3>3 DEF AbstractRounds!Next
  <2>2. CASE waiter[r] = "timing"
    BY <1>5, <2>2, RoundsStutter DEF WaiterCancels, RoundInv, TypeOK, callerVars, historyVars
  <2> QED
    BY <1>5, <2>1, <2>2 DEF WaiterCancels
<1>6. CASE WaiterChecks(r)
  <2>1. CASE pending[r] = {}
    <3>1. /\ waiter[r] = "check" /\ waiter' = [waiter EXCEPT ![r] = "done"]
          /\ UNCHANGED <<call, received, answered, reported>>
      BY <1>6, <2>1 DEF WaiterChecks, callerVars, historyVars
    <3>2. AbstractRounds!End(r)
      BY <1>1, <1>2, <1>3, <2>1, <3>1
    <3> QED
      BY <3>2 DEF AbstractRounds!Next
  <2>2. CASE pending[r] # {}
    BY <1>6, <2>2, RoundsStutter DEF WaiterChecks, RoundInv, TypeOK, callerVars, historyVars
  <2> QED
    BY <2>1, <2>2
<1>7. CASE WaiterReports(r)
  <2>1. /\ waiter[r] = "report" /\ waiter' = [waiter EXCEPT ![r] = "done"]
        /\ reported' = [reported EXCEPT ![r] = pending[r]]
        /\ UNCHANGED <<call, received, answered>>
    BY <1>7 DEF WaiterReports, callerVars
  <2>2. pending[r] \in SUBSET Fecs
    BY DEF RoundInv, TypeOK
  <2>3. AbstractRounds!End(r)
    BY <1>1, <1>2, <2>1, <2>2
  <2> QED
    BY <2>3 DEF AbstractRounds!Next
<1> QED
  BY <1>4, <1>5, <1>6, <1>7 DEF Waiter

LEMMA NetworkRounds ==
  ASSUME RoundInv, Network
  PROVE  [AbstractRounds!Next]_(AbstractRounds!roundVars)
<1>1. ASSUME NEW m \in net, FecReceives(m) PROVE AbstractRounds!Next
  <2>1. /\ m.type = "command" /\ m.fec \in Fecs /\ m.round \in Rounds
        /\ received' = [received EXCEPT ![m.round] = @ \cup {m.fec}]
        /\ UNCHANGED <<call, waiter, answered, reported>>
    BY <1>1 DEF FecReceives, RoundInv, TypeOK, Message, callerVars
  <2>2. Status[m.round] \in {"running", "over"}
    BY <2>1 DEF RoundInv, InOrder, Status
  <2>3. AbstractRounds!Obey(m.round, m.fec)
    BY <2>1, <2>2 DEF AbstractRounds!Obey, Status
  <2> QED
    BY <2>1, <2>3 DEF AbstractRounds!Next
<1>2. ASSUME NEW m \in net, Lose(m) \/ \E r \in Rounds : Receive(r, m)
      PROVE  UNCHANGED AbstractRounds!roundVars
  BY <1>2, RoundsStutter DEF Lose, Receive, callerVars, historyVars
<1> QED
  BY <1>1, <1>2 DEF Network

LEMMA RoundsStep ==
  RoundInv /\ [Next]_vars => [AbstractRounds!Next]_(AbstractRounds!roundVars)
<1> SUFFICES ASSUME RoundInv, [Next]_vars
             PROVE  [AbstractRounds!Next]_(AbstractRounds!roundVars)
  OBVIOUS
<1>1. ASSUME NEW r \in Rounds, NEW f \in Fecs, Send(r, f)
      PROVE  UNCHANGED AbstractRounds!roundVars
  BY <1>1, RoundsStutter DEF Send, historyVars
<1>2. CASE ExitBegins \/ ExitReady \/ ExitTimesOut \/ UNCHANGED vars
  BY <1>2, RoundsStutter DEF ExitBegins, ExitReady, ExitTimesOut, vars, callerVars, historyVars
<1>3. ASSUME NEW f \in Fecs, FecExecutes(f) PROVE UNCHANGED AbstractRounds!roundVars
  BY <1>3, RoundsStutter DEF FecExecutes, callerVars, historyVars
<1> QED
  BY <1>1, <1>2, <1>3, CallerRounds, ListenerRounds, WaiterRounds, NetworkRounds DEF Next

(***************************************************************************)
(* Whatever the network does, and in whatever order the coroutines run, a  *)
(* round ends with every FEC answered or reported, and only a FEC that has *)
(* the command counts as answered.                                         *)
(***************************************************************************)
THEOREM RoundsImplemented == Spec => ImplementsRounds
BY RoundsInit, RoundsStep, RoundInvariant, PTL DEF Spec, ImplementsRounds, AbstractRounds!Spec

-----------------------------------------------------------------------------
(* Off means off *)

\* The second socket exists only after the first one is closed.
PortHandedOver ==
  /\ exit \in {"waiting", "switching"} => call["on"] = "returned"
  /\ \A r \in Rounds : call[r] \in {"register", "launch", "returned"} <=> socket[r] # "none"
  /\ socket["off"] # "none" => socket["on"] = "closed"

\* A FEC that has the "off" command will never get the "on" command.
OffIsLast ==
  /\ \A f \in received["off"] :
       /\ socket["off"] # "none"
       /\ Command("on", f) \notin net
       /\ handler[f] # "on"
       /\ handler[f] = "idle" => ~fecOn[f]
  /\ answered["off"] \subseteq received["off"]

LEMMA HandedOver == RoundInv /\ PortHandedOver /\ [Next]_vars => PortHandedOver'
<1> SUFFICES ASSUME RoundInv, PortHandedOver, [Next]_vars PROVE PortHandedOver'
  OBVIOUS
<1> USE DEF RoundInv, TypeOK, PortHandedOver
<1>1. ASSUME NEW r \in Rounds, Caller(r) PROVE PortHandedOver'
  <2>1. CASE Create(r)
    BY <2>1 DEF Create, MayCall, PortInUse, Rounds
  <2>2. CASE CreateFails(r) \/ SpawnWaiter(r) \/ Launch(r)
    BY <2>2 DEF CreateFails, SpawnWaiter, Launch, MayCall, Rounds, socketVars
  <2>3. ASSUME NEW f \in Fecs, Register(r, f) PROVE PortHandedOver'
    BY <2>3 DEF Register, socketVars
  <2> QED
    BY <1>1, <2>1, <2>2, <2>3 DEF Caller
<1>2. ASSUME NEW r \in Rounds, Listener(r) \/ ReceiveFails(r) PROVE PortHandedOver'
  <2>1. CASE Close(r)
    <3>1. socket[r] # "none"
      BY <2>1 DEF Close, InOrder
    <3> QED
      BY <2>1, <3>1 DEF Close, Rounds, callerVars
  <2>2. CASE Destroy(r)
    BY <2>2 DEF Destroy, Rounds, callerVars
  <2>3. CASE StartListening(r) \/ AwaitTimer(r) \/ HandleResponse(r) \/ CancelListen(r)
             \/ ReceiveFails(r)
    BY <2>3 DEF StartListening, AwaitTimer, HandleResponse, CancelListen, ReceiveFails, callerVars
  <2> QED
    BY <1>2, <2>1, <2>2, <2>3 DEF Listener
<1>3. ASSUME NEW r \in Rounds, Waiter(r) PROVE PortHandedOver'
  BY <1>3 DEF Waiter, WaiterStarts, WaiterCancels, WaiterChecks, WaiterReports, callerVars,
     socketVars
<1>4. ASSUME NEW r \in Rounds, NEW f \in Fecs, Send(r, f) PROVE PortHandedOver'
  BY <1>4 DEF Send, socketVars
<1>5. CASE ExitBegins \/ ExitReady \/ ExitTimesOut
  BY <1>5 DEF ExitBegins, ExitReady, ExitTimesOut, InOrder, callerVars, socketVars, Rounds
<1>6. CASE Network
  BY <1>6 DEF Network, FecReceives, Lose, Receive, callerVars, socketVars
<1>7. CASE (\E f \in Fecs : FecExecutes(f)) \/ UNCHANGED vars
  BY <1>7 DEF FecExecutes, vars, callerVars, socketVars
<1> QED
  BY <1>1, <1>2, <1>3, <1>4, <1>5, <1>6, <1>7 DEF Next

LEMMA LastIsKept ==
  ASSUME ~Overtakes
  PROVE  RoundInv /\ PortHandedOver /\ OffIsLast /\ [Next]_vars => OffIsLast'
<1> SUFFICES ASSUME RoundInv, PortHandedOver, OffIsLast, [Next]_vars PROVE OffIsLast'
  OBVIOUS
<1> USE DEF OffIsLast
<1>1. ASSUME NEW r \in Rounds, Caller(r) PROVE OffIsLast'
  <2>1. UNCHANGED <<net, handler, fecOn, received, answered>>
    BY <1>1 DEF Caller, Create, CreateFails, SpawnWaiter, Launch, Register, historyVars
  <2>2. socket["off"] # "none" => socket'["off"] # "none"
    BY <1>1 DEF Caller, Create, CreateFails, SpawnWaiter, Launch, Register, socketVars,
       RoundInv, TypeOK, Rounds
  <2> QED
    BY <2>1, <2>2
<1>2. ASSUME NEW r \in Rounds, Listener(r) \/ ReceiveFails(r) PROVE OffIsLast'
  <2>1. CASE HandleResponse(r)
    <3>1. /\ inbox[r].fec \in received[inbox[r].round]
          /\ UNCHANGED <<socket, net, handler, fecOn, received>>
      BY <2>1 DEF HandleResponse, RoundInv, AnswersTrue
    <3>2. CASE Recognised(r, inbox[r]) /\ r = "off"
      <4>1. /\ inbox[r].round = "off"
            /\ answered'["off"] = answered["off"] \cup {inbox[r].fec}
        BY <2>1, <3>2 DEF HandleResponse, Recognised, RoundInv, TypeOK
      <4> QED
        BY <3>1, <4>1
    <3>3. CASE ~(Recognised(r, inbox[r]) /\ r = "off")
      <4>1. answered'["off"] = answered["off"]
        BY <2>1, <3>3 DEF HandleResponse, RoundInv, TypeOK, Rounds
      <4> QED
        BY <3>1, <4>1
    <3> QED
      BY <3>2, <3>3
  <2>2. CASE StartListening(r) \/ AwaitTimer(r) \/ CancelListen(r) \/ Close(r)
             \/ Destroy(r) \/ ReceiveFails(r)
    <3>1. UNCHANGED <<net, handler, fecOn, received, answered>>
      BY <2>2 DEF StartListening, AwaitTimer, CancelListen, Close, Destroy, ReceiveFails,
         historyVars
    <3>2. socket["off"] # "none" => socket'["off"] # "none"
      BY <2>2 DEF StartListening, AwaitTimer, CancelListen, Close, Destroy, ReceiveFails,
         RoundInv, TypeOK, Rounds
    <3> QED
      BY <3>1, <3>2
  <2> QED
    BY <1>2, <2>1, <2>2 DEF Listener
<1>3. ASSUME NEW r \in Rounds, Waiter(r) PROVE OffIsLast'
  BY <1>3 DEF Waiter, WaiterStarts, WaiterCancels, WaiterChecks, WaiterReports, socketVars,
     historyVars
<1>4. ASSUME NEW r \in Rounds, NEW f \in Fecs, Send(r, f) PROVE OffIsLast'
  <2>1. /\ net' = IF socket[r] = "open" THEN net \cup {Command(r, f)} ELSE net
        /\ UNCHANGED <<socket, handler, fecOn, received, answered>>
    BY <1>4 DEF Send, socketVars, historyVars
  <2>2. ASSUME NEW g \in received["off"] PROVE Command("on", g) \notin net'
    <3>1. socket["on"] = "closed"
      BY DEF PortHandedOver
    <3>2. Command("on", g) # Command(r, f) \/ r = "on"
      BY DEF Command
    <3> QED
      BY <2>1, <3>1, <3>2
  <2> QED
    BY <2>1, <2>2
<1>5. CASE ExitBegins \/ ExitReady \/ ExitTimesOut \/ UNCHANGED vars
  BY <1>5 DEF ExitBegins, ExitReady, ExitTimesOut, vars, socketVars, historyVars
<1>6. ASSUME NEW m \in net, FecReceives(m) PROVE OffIsLast'
  <2>1. /\ m \in Message /\ m.type = "command" /\ m = Command(m.round, m.fec)
    BY <1>6 DEF FecReceives, RoundInv, TypeOK, Message, Command
  <2>2. /\ handler' = [handler EXCEPT ![m.fec] = m.round]
        /\ received' = [received EXCEPT ![m.round] = @ \cup {m.fec}]
        /\ UNCHANGED <<socket, fecOn, answered>>
    BY <1>6 DEF FecReceives, socketVars
  <2>3. \A f : Command("on", f) \in net' => Command("on", f) \in net
    BY <1>6 DEF FecReceives, AfterDelivery, Command, Response
  <2>4. /\ m.round \in Rounds /\ m.fec \in Fecs
        /\ handler \in [Fecs -> Rounds \cup {"idle"}] /\ received \in [Rounds -> SUBSET Fecs]
    BY <2>1 DEF Message, RoundInv, TypeOK
  <2>5. CASE m.round = "on"
    <3>1. m.fec \notin received["off"] /\ received'["off"] = received["off"]
      BY <2>1, <2>2, <2>4, <2>5 DEF Rounds
    <3> QED
      BY <2>2, <2>3, <2>4, <3>1 DEF Rounds
  <2>6. CASE m.round = "off"
    <3>1. Command("on", m.fec) \notin net
      BY <1>6, <2>6 DEF FecReceives
    <3>2. socket["off"] # "none"
      BY <2>1, <2>4, <2>6 DEF RoundInv, InOrder, PortHandedOver
    <3>3. received'["off"] = received["off"] \cup {m.fec}
      BY <2>2, <2>4, <2>6 DEF Rounds
    <3>4. handler'[m.fec] = "off" /\ \A f \in Fecs : f # m.fec => handler'[f] = handler[f]
      BY <2>2, <2>4, <2>6
    <3>5. received["off"] \in SUBSET Fecs
      BY <2>4 DEF Rounds
    <3> QED
      BY <2>2, <2>3, <3>1, <3>2, <3>3, <3>4, <3>5
  <2> QED
    BY <2>4, <2>5, <2>6 DEF Rounds
<1>7. ASSUME NEW m \in net, Lose(m) \/ \E r \in Rounds : Receive(r, m) PROVE OffIsLast'
  BY <1>7 DEF Lose, Receive, AfterDelivery, socketVars, historyVars
<1>8. ASSUME NEW f \in Fecs, FecExecutes(f) PROVE OffIsLast'
  BY <1>8 DEF FecExecutes, RoundInv, TypeOK, Rounds, socketVars, historyVars
<1> QED
  BY <1>1, <1>2, <1>3, <1>4, <1>5, <1>6, <1>7, <1>8 DEF Next, Network

(***************************************************************************)
(* A FEC that has answered the "off" command is off once it has executed   *)
(* what it received: the second socket cannot be bound before the first    *)
(* is closed, so no "on" command is sent after an "off" command.           *)
(***************************************************************************)
THEOREM AnsweredOffIsOff ==
  ASSUME ~Overtakes
  PROVE  Spec => []OffMeansOff
<1>1. Init => PortHandedOver /\ OffIsLast
  BY DEF Init, PortHandedOver, OffIsLast, Rounds
<1>2. RoundInv /\ PortHandedOver /\ OffIsLast /\ [Next]_vars => OffIsLast'
  BY LastIsKept
<1>3. PortHandedOver /\ OffIsLast => OffMeansOff
  BY DEF OffIsLast, OffMeansOff
<1> QED
  BY <1>1, <1>2, <1>3, HandedOver, RoundInvariant, PTL DEF Spec

-----------------------------------------------------------------------------
(* The end of a round *)

\* When the waiter is done every FEC has answered or is reported.
NoneForgotten ==
  \A r \in Rounds : waiter[r] = "done" => Fecs \subseteq answered[r] \cup reported[r]

LEMMA NoneForgottenStep == RoundInv /\ NoneForgotten /\ [Next]_vars => NoneForgotten'
<1> SUFFICES ASSUME RoundInv, NoneForgotten, [Next]_vars PROVE NoneForgotten'
  OBVIOUS
<1> USE DEF NoneForgotten, RoundInv, TypeOK
<1>1. ASSUME NEW r \in Rounds, Caller(r) PROVE NoneForgotten'
  BY <1>1 DEF Caller, Create, CreateFails, SpawnWaiter, Launch, Register, historyVars
<1>2. ASSUME NEW r \in Rounds, Listener(r) \/ ReceiveFails(r) PROVE NoneForgotten'
  <2>1. CASE HandleResponse(r)
    <3>1. \A q \in Rounds : answered[q] \subseteq answered'[q]
      BY <2>1 DEF HandleResponse
    <3> QED
      BY <2>1, <3>1 DEF HandleResponse
  <2>2. CASE StartListening(r) \/ AwaitTimer(r) \/ CancelListen(r) \/ Close(r)
             \/ Destroy(r) \/ ReceiveFails(r)
    BY <2>2 DEF StartListening, AwaitTimer, CancelListen, Close, Destroy, ReceiveFails,
       historyVars
  <2> QED
    BY <1>2, <2>1, <2>2 DEF Listener
<1>3. ASSUME NEW r \in Rounds, Waiter(r) PROVE NoneForgotten'
  <2>1. Fecs = answered[r] \cup pending[r] \/ waiter[r] = "none"
    BY DEF InOrder, AnsweredOrPending
  <2>2. CASE WaiterStarts(r)
    BY <2>2 DEF WaiterStarts, historyVars
  <2>3. CASE WaiterCancels(r)
    BY <2>1, <2>3 DEF WaiterCancels, InOrder, historyVars
  <2>4. CASE WaiterChecks(r)
    BY <2>1, <2>4 DEF WaiterChecks, historyVars
  <2>5. CASE WaiterReports(r)
    BY <2>1, <2>5 DEF WaiterReports
  <2> QED
    BY <1>3, <2>2, <2>3, <2>4, <2>5 DEF Waiter
<1>4. ASSUME NEW r \in Rounds, NEW f \in Fecs, Send(r, f) PROVE NoneForgotten'
  BY <1>4 DEF Send, historyVars
<1>5. CASE ExitBegins \/ ExitReady \/ ExitTimesOut \/ UNCHANGED vars
  BY <1>5 DEF ExitBegins, ExitReady, ExitTimesOut, vars, historyVars
<1>6. CASE Network
  BY <1>6 DEF Network, FecReceives, Lose, Receive, historyVars
<1>7. ASSUME NEW f \in Fecs, FecExecutes(f) PROVE NoneForgotten'
  BY <1>7 DEF FecExecutes, historyVars
<1> QED
  BY <1>1, <1>2, <1>3, <1>4, <1>5, <1>6, <1>7 DEF Next

(***************************************************************************)
(* However the round goes, when its waiter is done each FEC has answered   *)
(* or was named by print_error: none is forgotten between the two looks at *)
(* the pending commands and an answer that comes in between.               *)
(***************************************************************************)
THEOREM NobodyForgotten == Spec => []NoneForgotten
<1>1. Init => NoneForgotten
  BY DEF Init, NoneForgotten
<1> QED
  BY <1>1, NoneForgottenStep, RoundInvariant, PTL DEF Spec

\* The FEC is off once it has executed what it received, and stays off.
OffForGood(f) ==
  /\ Command("on", f) \notin net
  /\ handler[f] # "on"
  /\ handler[f] = "idle" => ~fecOn[f]

(***************************************************************************)
(* What the end of the switching off tells.  When its waiter is done, and  *)
(* on a network that keeps the order of the commands, each FEC that was    *)
(* not named by print_error is off for good once it has executed what it   *)
(* received: what SwitchedOff says of the end, in every state, under       *)
(* losses, duplicates and answers that come after the reports.             *)
(***************************************************************************)
THEOREM OffOrReported ==
  ASSUME ~Overtakes
  PROVE  Spec => [](waiter["off"] = "done" =>
                      \A f \in Fecs \ reported["off"] : OffForGood(f))
<1>1. Init => PortHandedOver /\ OffIsLast
  BY DEF Init, PortHandedOver, OffIsLast, Rounds
<1>2. RoundInv /\ PortHandedOver /\ OffIsLast /\ [Next]_vars => OffIsLast'
  BY LastIsKept
<1>3. OffIsLast /\ NoneForgotten =>
        (waiter["off"] = "done" => \A f \in Fecs \ reported["off"] : OffForGood(f))
  BY DEF OffIsLast, NoneForgotten, OffForGood, Rounds
<1> QED
  BY <1>1, <1>2, <1>3, HandedOver, NobodyForgotten, RoundInvariant, PTL DEF Spec
=============================================================================
