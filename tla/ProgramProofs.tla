---------------------------- MODULE ProgramProofs ----------------------------
(***************************************************************************)
(* Proofs about srs_control as a program: about AppLifecycle for every     *)
(* number of data ports, with and without the frame counter check, and     *)
(* about RunFiles for all scopes and every number of runs, lines, frames   *)
(* and reads.                                                              *)
(***************************************************************************)
EXTENDS AppLifecycle, RunFiles, FiniteSetTheorems, WellFoundedInduction, SequenceTheorems, TLAPS

LEMMA PortStays == ASSUME NEW n \in 1..(NPorts + 1), n <= NPorts
                   PROVE  n \in Ports /\ n + 1 \in 1..(NPorts + 1)
BY AppAssumption DEF Ports

\* The types in three parts.
ThreadTypes ==
  /\ mode \in Modes
  /\ main \in {"init", "workflow", "read", "on", "off", "wait", "statistics", "unwinding",
               "crashed", "handler", "future", "join", "ended"}
  /\ port \in 1..(NPorts + 1)
  /\ work \in {"none", "started", "built", "launched", "running", "over"}
  /\ exit \in {"idle", "clock", "flag", "future", "sleep", "close", "await", "stop",
               "doze", "asleep", "scan", "hung", "unlock", "over"}

SocketTypes ==
  /\ sockets \in Seq(Ports)
  /\ sock \in [Ports -> {"none", "bound", "receiving", "handling", "reporting", "closed"}]
  /\ cancelled \in SUBSET Ports
  /\ reported \in SUBSET Ports
  /\ closing \in Seq(Ports)
  /\ exit = "await" => closing # <<>>

RestTypes ==
  /\ monitor \in {"absent", "testing", "arming", "waiting", "aborted", "ended"}
  /\ misses \in {"absent", "running", "stopped", "ended"}
  /\ round \in [Rounds -> {"none", "sent", "ready", "closed", "failed"}]
  /\ mishaps \in SUBSET {"on", "monitor", "socket", "report", "fault", "timeout", "lag",
                        "wakeup", "nested"}

LEMMA ThreadTyping == ThreadTypes /\ [Next]_vars => ThreadTypes'
<1> SUFFICES ASSUME ThreadTypes, [Next]_vars PROVE ThreadTypes'
  OBVIOUS
<1> USE DEF ThreadTypes
<1>1. CASE InitApp \/ InitThrows \/ StartWorkflow \/ ReadDataReturns
  BY <1>1 DEF InitApp, InitThrows, StartWorkflow, ReadDataReturns, Modes, exitVars
<1>2. CASE CreateSocket
  BY <1>2, PortStays DEF CreateSocket, exitVars
<1>3. CASE SwitchOn \/ SwitchOffOnly
  BY <1>3 DEF SwitchOn, SwitchOffOnly, exitVars
<1>4. CASE WaitForWorkflow \/ PrintStatistics \/ DestroyHandler \/ WaitForSwitchOff \/ JoinWorkingThread
  BY <1>4 DEF WaitForWorkflow, PrintStatistics, DestroyHandler, WaitForSwitchOff,
              JoinWorkingThread, exitVars
<1>5. CASE Workflow
  BY <1>5 DEF Workflow, BuildDiagram, LaunchMonitors, Notify, WorkflowReturns, mainVars, exitVars
<1>6. CASE (\E p \in Ports : Listen(p) \/ Datagram(p)) \/ (\E r \in Rounds : RoundAdvances(r))
  BY <1>6 DEF Listen, StartListening, Handled, ReceiveEnds, ReportAndClose, Datagram,
              RoundAdvances, mainVars, exitVars
<1>7. CASE PrintCycle \/ MissLoopEnds
  BY <1>7 DEF PrintCycle, MissLoopEnds, mainVars, exitVars
<1>8. CASE Signal \/ SpuriousWake \/ Exit
  BY <1>8 DEF Signal, Exit, StopClock, StopMonitors, SwitchOffIfOn, Sleep, CancelSocket,
              AwaitSocket, SocketsDone, TestDiagram, FallAsleep, SpuriousWake, StopWorkflow,
              ScanHangs, Unlock, mainVars
<1>9. CASE UNCHANGED vars
  BY <1>9 DEF vars, mainVars, exitVars
<1> QED
  BY <1>1, <1>2, <1>3, <1>4, <1>5, <1>6, <1>7, <1>8, <1>9 DEF Next, Main

LEMMA SocketTyping == SocketTypes /\ ThreadTypes /\ [Next]_vars => SocketTypes'
<1> SUFFICES ASSUME SocketTypes, port \in 1..(NPorts + 1), [Next]_vars PROVE SocketTypes'
  BY DEF ThreadTypes
<1> USE DEF SocketTypes
<1>1. CASE CreateSocket
  <2>1. port \in Ports
    BY <1>1, PortStays DEF CreateSocket
  <2>2. Append(sockets, port) \in Seq(Ports) /\ UNCHANGED <<cancelled, reported, closing, exit>>
    BY <1>1, <2>1 DEF CreateSocket, exitVars
  <2>3. sockets' \in Seq(Ports)
    BY <1>1, <2>2 DEF CreateSocket
  <2>4. sock' \in [Ports -> {"none", "bound", "receiving", "handling", "reporting", "closed"}]
    BY <1>1, <2>1 DEF CreateSocket
  <2> QED
    BY <2>2, <2>3, <2>4
<1>2. ASSUME NEW p \in Ports, Listen(p) \/ Datagram(p) PROVE SocketTypes'
  BY <1>2 DEF Listen, StartListening, Handled, ReceiveEnds, ReportAndClose, Datagram, exitVars
<1>3. CASE CancelSocket
  <2>1. Head(closing) \in Ports
    BY <1>3 DEF CancelSocket
  <2> QED
    BY <1>3, <2>1 DEF CancelSocket
<1>4. ASSUME AwaitSocket PROVE SocketTypes'
  <2>1. Tail(closing) \in Seq(Ports)
    BY <1>4 DEF AwaitSocket
  <2> QED
    BY <1>4, <2>1 DEF AwaitSocket, socketVars
<1>5. CASE UNCHANGED <<socketVars, closing>> /\ (exit' = exit \/ exit' # "await")
  BY <1>5 DEF socketVars
<1>6. CASE Sleep
  BY <1>6 DEF Sleep, socketVars
<1>7. CASE InitApp \/ InitThrows \/ StartWorkflow \/ ReadDataReturns \/ SwitchOn \/ SwitchOffOnly
           \/ WaitForWorkflow \/ PrintStatistics \/ DestroyHandler \/ WaitForSwitchOff
           \/ JoinWorkingThread
  BY <1>5, <1>7 DEF InitApp, InitThrows, StartWorkflow, ReadDataReturns, SwitchOn, SwitchOffOnly,
              WaitForWorkflow, PrintStatistics, DestroyHandler, WaitForSwitchOff,
              JoinWorkingThread, exitVars
<1>8. CASE Workflow \/ PrintCycle \/ MissLoopEnds \/ (\E r \in Rounds : RoundAdvances(r))
  BY <1>5, <1>8 DEF Workflow, BuildDiagram, LaunchMonitors, Notify, WorkflowReturns, PrintCycle,
              MissLoopEnds, RoundAdvances, exitVars
<1>9. CASE Signal \/ StopClock \/ StopMonitors \/ SwitchOffIfOn \/ SocketsDone
           \/ TestDiagram \/ FallAsleep \/ SpuriousWake \/ StopWorkflow \/ ScanHangs \/ Unlock
  BY <1>5, <1>9 DEF Signal, StopClock, StopMonitors, SwitchOffIfOn, SocketsDone, TestDiagram,
              FallAsleep, SpuriousWake, StopWorkflow, ScanHangs, Unlock
<1>10. CASE UNCHANGED vars
  BY <1>5, <1>10 DEF vars, exitVars
<1> QED
  BY <1>1, <1>2, <1>3, <1>4, <1>6, <1>7, <1>8, <1>9, <1>10 DEF Next, Main, Exit

LEMMA RestTyping == RestTypes /\ [Next]_vars => RestTypes'
<1> SUFFICES ASSUME RestTypes, [Next]_vars PROVE RestTypes'
  OBVIOUS
<1> USE DEF RestTypes
<1>1. CASE Main
  BY <1>1 DEF Main, InitApp, InitThrows, StartWorkflow, CreateSocket, ReadDataReturns, SwitchOn,
              SwitchOffOnly, Switch, Mishap, Rounds, WaitForWorkflow, PrintStatistics,
              DestroyHandler, WaitForSwitchOff, JoinWorkingThread, monitorVars
<1>2. CASE Workflow
  BY <1>2 DEF Workflow, BuildDiagram, LaunchMonitors, Notify, WorkflowReturns, Mishap, monitorVars
<1>3. CASE \E p \in Ports : Listen(p) \/ Datagram(p)
  BY <1>3 DEF Listen, StartListening, Handled, ReceiveEnds, ReportAndClose, Datagram, Mishap, monitorVars
<1>4. CASE PrintCycle \/ MissLoopEnds
  BY <1>4 DEF PrintCycle, MissLoopEnds
<1>5. ASSUME NEW r \in Rounds, RoundAdvances(r) PROVE RestTypes'
  BY <1>5 DEF RoundAdvances, monitorVars
<1>6. CASE Signal \/ StopClock \/ StopMonitors
  BY <1>6 DEF Signal, StopClock, StopMonitors, monitorVars
<1>7. CASE SwitchOffIfOn
  BY <1>7 DEF SwitchOffIfOn, Switch, Mishap, Rounds, monitorVars
<1>8. CASE Sleep \/ CancelSocket \/ AwaitSocket
  BY <1>8 DEF Sleep, CancelSocket, AwaitSocket, Mishap, monitorVars
<1>9. CASE SocketsDone \/ TestDiagram \/ FallAsleep \/ SpuriousWake \/ StopWorkflow
           \/ ScanHangs \/ Unlock
  BY <1>9 DEF SocketsDone, TestDiagram, FallAsleep, SpuriousWake, StopWorkflow, ScanHangs, Unlock,
              Mishap, monitorVars
<1>10. CASE UNCHANGED vars
  BY <1>10 DEF vars, monitorVars
<1> QED
  BY <1>1, <1>2, <1>3, <1>4, <1>5, <1>6, <1>7, <1>8, <1>9, <1>10 DEF Next, Exit

FlagType == isCancelled \in BOOLEAN

LEMMA FlagTyping == FlagType /\ [Next]_vars => FlagType'
BY Zenon DEF FlagType, Next, Main, InitApp, InitThrows, StartWorkflow, CreateSocket, ReadDataReturns,
             SwitchOn, SwitchOffOnly, WaitForWorkflow, PrintStatistics, DestroyHandler,
             WaitForSwitchOff, JoinWorkingThread, Workflow, BuildDiagram, LaunchMonitors,
             Notify, WorkflowReturns, Listen, StartListening, Handled, ReceiveEnds, ReportAndClose,
             Datagram, PrintCycle, MissLoopEnds, RoundAdvances, Signal, Exit, StopClock,
             StopMonitors, SwitchOffIfOn, Sleep, CancelSocket, AwaitSocket, SocketsDone,
             TestDiagram, FallAsleep, SpuriousWake, StopWorkflow, ScanHangs, Unlock, vars, monitorVars

(***************************************************************************)
(* The variables of the application always have their types.               *)
(***************************************************************************)
THEOREM AppTyping == Spec => []TypeOK
<1>1. Init => ThreadTypes
  <2>1. 1 \in 1..(NPorts + 1)
    BY AppAssumption
  <2> QED
    BY <2>1 DEF Init, ThreadTypes
<1>5. Init => SocketTypes /\ RestTypes
  <2>1. <<>> \in Seq(Ports)
    OBVIOUS
  <2> QED
    BY <2>1 DEF Init, SocketTypes, RestTypes
<1>2. Init => FlagType
  BY Zenon DEF Init, FlagType
<1>3. ThreadTypes /\ SocketTypes /\ RestTypes /\ FlagType => TypeOK
  BY Zenon DEF TypeOK, ThreadTypes, SocketTypes, RestTypes, FlagType
<1> QED
  BY <1>1, <1>2, <1>3, <1>5, ThreadTyping, SocketTyping, RestTyping, FlagTyping, PTL DEF Spec

-----------------------------------------------------------------------------

\* What the main thread has reached tells whether the workflow was started, and
\* that it has returned; a workflow that returned was stopped by the exit handler.
RunModes == {"all", "read_only"}
Before == {"init", "workflow", "unwinding"}

WorkInv ==
  /\ main \in Before => work = "none"
  /\ mode \notin RunModes => work = "none"
  /\ main \in {"workflow", "read", "wait"} => mode \in RunModes
  /\ main = "on" => mode \in {"all", "acq_on"}
  /\ main = "off" => mode = "acq_off"
  /\ main = "statistics" /\ mode \in RunModes => work = "over"
  /\ main \in {"handler", "future", "join", "ended"} => mode \in RunModes /\ work = "over"
  /\ main = "crashed" => work = "none"
  /\ work = "over" => exit \in {"unlock", "over"}

LEMMA WorkStep == WorkInv /\ ThreadTypes /\ [Next]_vars => WorkInv'
<1> SUFFICES ASSUME WorkInv, ThreadTypes, [Next]_vars PROVE WorkInv'
  OBVIOUS
<1> USE DEF WorkInv, RunModes, Before
<1>1. CASE InitApp \/ InitThrows
  BY <1>1 DEF InitApp, InitThrows, exitVars, ThreadTypes, Modes
<1>2. CASE StartWorkflow \/ CreateSocket \/ ReadDataReturns
  BY <1>2 DEF StartWorkflow, CreateSocket, ReadDataReturns, exitVars
<1>3. CASE SwitchOn \/ SwitchOffOnly
  BY <1>3 DEF SwitchOn, SwitchOffOnly, exitVars
<1>4. CASE WaitForWorkflow \/ PrintStatistics \/ DestroyHandler \/ WaitForSwitchOff \/ JoinWorkingThread
  BY <1>4 DEF WaitForWorkflow, PrintStatistics, DestroyHandler, WaitForSwitchOff,
              JoinWorkingThread, exitVars
<1>5. CASE Workflow
  BY <1>5 DEF Workflow, BuildDiagram, LaunchMonitors, Notify, WorkflowReturns, mainVars, exitVars
<1>6. CASE (\E p \in Ports : Listen(p) \/ Datagram(p)) \/ (\E r \in Rounds : RoundAdvances(r))
  BY <1>6 DEF Listen, StartListening, Handled, ReceiveEnds, ReportAndClose, Datagram,
              RoundAdvances, mainVars, exitVars
<1>7. CASE PrintCycle \/ MissLoopEnds
  BY <1>7 DEF PrintCycle, MissLoopEnds, mainVars, exitVars
<1>8. CASE Signal \/ SpuriousWake \/ Exit
  BY <1>8 DEF Signal, Exit, StopClock, StopMonitors, SwitchOffIfOn, Sleep, CancelSocket,
              AwaitSocket, SocketsDone, TestDiagram, FallAsleep, SpuriousWake, StopWorkflow,
              ScanHangs, Unlock, mainVars
<1>9. CASE UNCHANGED vars
  BY <1>9 DEF vars, mainVars, exitVars
<1> QED
  BY <1>1, <1>2, <1>3, <1>4, <1>5, <1>6, <1>7, <1>8, <1>9 DEF Next, Main

LEMMA WorkInvariance == Spec => [](WorkInv /\ ThreadTypes /\ SocketTypes /\ RestTypes)
<1>1. Init => WorkInv
  BY DEF Init, WorkInv, Before
<1>2. Spec => [](ThreadTypes /\ SocketTypes /\ RestTypes)
  <2>1. Init => ThreadTypes /\ SocketTypes /\ RestTypes
    <3>1. 1 \in 1..(NPorts + 1) /\ <<>> \in Seq(Ports)
      BY AppAssumption
    <3> QED
      BY <3>1 DEF Init, ThreadTypes, SocketTypes, RestTypes
  <2> QED
    BY <2>1, ThreadTyping, SocketTyping, RestTyping, PTL DEF Spec
<1> QED
  BY <1>1, <1>2, WorkStep, PTL DEF Spec

(***************************************************************************)
(* ~App crashes only if the workflow was never started: in a mode without  *)
(* one, or when init refuses the configuration.                            *)
(***************************************************************************)
THEOREM CrashesExplained == Spec => []CrashOnlyWithoutWorkflow
<1>1. WorkInv => CrashOnlyWithoutWorkflow
  BY DEF WorkInv, CrashOnlyWithoutWorkflow
<1> QED
  BY <1>1, WorkInvariance, PTL

(***************************************************************************)
(* switch_off_future_ is read on the main thread only after the exit       *)
(* handler has written it.                                                 *)
(***************************************************************************)
THEOREM OffFutureOrdered == Spec => []OffFutureSettled
<1>1. WorkInv => OffFutureSettled
  BY DEF WorkInv, OffFutureSettled
<1> QED
  BY <1>1, WorkInvariance, PTL

-----------------------------------------------------------------------------

Early == {"idle", "clock", "flag", "future"}

\* Once the exit handler has decided, the FECs were not switched on, or they were
\* told to switch off.
OffInv ==
  /\ exit \notin Early /\ "on" \notin mishaps =>
       \/ round["on"] \in {"none", "failed"}
       \/ round["on"] \in {"ready", "closed"} /\ round["off"] # "none"
  /\ main = "ended" => exit = "over" /\ \A r \in Rounds : round[r] \notin {"sent", "ready"}

LEMMA OffStep == OffInv /\ WorkInv /\ ThreadTypes /\ RestTypes /\ [Next]_vars => OffInv'
<1> SUFFICES ASSUME OffInv, WorkInv, ThreadTypes, RestTypes, [Next]_vars PROVE OffInv'
  OBVIOUS
<1> USE DEF OffInv, Early
<1>1. ASSUME NEW r \in Rounds, Switch(r)
      PROVE  /\ round'[r] \in {"sent", "failed"}
             /\ \A q \in Rounds \ {r} : round'[q] = round[q]
  BY <1>1 DEF Switch, RestTypes
<1>2. "on" \in Rounds /\ "off" \in Rounds
  BY DEF Rounds
<1>3. CASE SwitchOn
  BY <1>1, <1>2, <1>3 DEF SwitchOn, Mishap, exitVars
<1>4. CASE SwitchOffOnly
  <2>1. exit' = exit /\ mishaps' = mishaps /\ main' = "statistics"
    BY <1>4 DEF SwitchOffOnly, exitVars
  <2>2. round'["on"] = round["on"] /\ round'["off"] \in {"sent", "failed"}
    BY <1>1, <1>2, <1>4 DEF SwitchOffOnly
  <2> QED
    BY <2>1, <2>2
<1>5. CASE SwitchOffIfOn
  <2>1. exit = "future" /\ main' = main
    BY <1>5 DEF SwitchOffIfOn, mainVars
  <2>2. CASE round["on"] \in {"ready", "closed"}
    <3>1. round'["on"] = round["on"] /\ round'["off"] \in {"sent", "failed"}
      BY <1>1, <1>2, <1>5, <2>2 DEF SwitchOffIfOn
    <3> QED
      BY <2>1, <2>2, <3>1
  <2>3. CASE round["on"] \notin {"ready", "closed"}
    <3>1. round' = round /\ (round["on"] = "sent" => "on" \in mishaps')
      BY <1>5, <2>3 DEF SwitchOffIfOn, Mishap
    <3>2. round["on"] \in {"none", "sent", "failed"}
      BY <1>2, <2>3 DEF RestTypes
    <3> QED
      BY <2>1, <3>1, <3>2
  <2> QED
    BY <2>2, <2>3
<1>6. ASSUME NEW r \in Rounds, RoundAdvances(r) PROVE OffInv'
  BY <1>2, <1>6 DEF RoundAdvances, RestTypes, mainVars, exitVars
<1>7. CASE JoinWorkingThread
  BY <1>7 DEF JoinWorkingThread, exitVars
<1>8. CASE InitApp \/ InitThrows \/ StartWorkflow \/ ReadDataReturns \/ WaitForWorkflow
           \/ PrintStatistics \/ DestroyHandler \/ WaitForSwitchOff
  BY <1>8 DEF InitApp, InitThrows, StartWorkflow, ReadDataReturns, WaitForWorkflow,
              PrintStatistics, DestroyHandler, WaitForSwitchOff, exitVars, ThreadTypes, Modes
<1>9. CASE CreateSocket
  BY <1>9 DEF CreateSocket, Mishap, exitVars
<1>10. CASE Workflow
  BY <1>10 DEF Workflow, BuildDiagram, LaunchMonitors, Notify, WorkflowReturns, Mishap, mainVars, exitVars
<1>11. CASE \E p \in Ports : Listen(p) \/ Datagram(p)
  BY <1>11 DEF Listen, StartListening, Handled, ReceiveEnds, ReportAndClose, Datagram, Mishap,
               mainVars, exitVars
<1>12. CASE PrintCycle \/ MissLoopEnds
  BY <1>12 DEF PrintCycle, MissLoopEnds, mainVars, exitVars
<1>13. CASE Signal \/ StopClock \/ StopMonitors \/ Sleep
  BY <1>13 DEF Signal, StopClock, StopMonitors, Sleep, Mishap, mainVars
<1>14. CASE CancelSocket \/ AwaitSocket \/ SocketsDone \/ TestDiagram \/ FallAsleep
           \/ SpuriousWake \/ StopWorkflow \/ ScanHangs \/ Unlock
  BY <1>14 DEF CancelSocket, AwaitSocket, SocketsDone, TestDiagram, FallAsleep, SpuriousWake,
               StopWorkflow, ScanHangs, Unlock, Mishap, mainVars
<1>15. CASE UNCHANGED vars
  BY <1>15 DEF vars, mainVars, exitVars
<1> QED
  BY <1>3, <1>4, <1>5, <1>6, <1>7, <1>8, <1>9, <1>10, <1>11, <1>12, <1>13, <1>14, <1>15
     DEF Next, Main, Exit

(***************************************************************************)
(* FECs that were switched on have been told to switch off when the        *)
(* program ends, or the local port was not to be had, unless the exit      *)
(* handler looked too early for the future of switch_on.                   *)
(***************************************************************************)
THEOREM FecsAreToldOff == Spec => []FecsToldOff
<1>1. Init => OffInv
  BY DEF Init, OffInv, Early
<1>2. OffInv /\ RestTypes => FecsToldOff
  BY DEF OffInv, RestTypes, FecsToldOff, Early, Rounds
<1> QED
  BY <1>1, <1>2, OffStep, WorkInvariance, PTL DEF Spec

-----------------------------------------------------------------------------

\* The two monitors have ended when the sleep of the exit handler is over, or one of
\* them has lagged.
MonitorInv == exit \notin Early \cup {"sleep"} /\ "lag" \notin mishaps => ~MonitorsRun

LEMMA MonitorStep == MonitorInv /\ [Next]_vars => MonitorInv'
<1> SUFFICES ASSUME MonitorInv, [Next]_vars PROVE MonitorInv'
  OBVIOUS
<1> USE DEF MonitorInv, MonitorsRun, Early
<1>1. CASE Main
  BY <1>1 DEF Main, InitApp, InitThrows, StartWorkflow, CreateSocket, ReadDataReturns, SwitchOn,
              SwitchOffOnly, Mishap, WaitForWorkflow, PrintStatistics, DestroyHandler,
              WaitForSwitchOff, JoinWorkingThread, monitorVars, exitVars
<1>2. CASE Workflow
  BY <1>2 DEF Workflow, BuildDiagram, LaunchMonitors, Notify, WorkflowReturns, Mishap, monitorVars, exitVars
<1>3. CASE (\E p \in Ports : Listen(p) \/ Datagram(p)) \/ (\E r \in Rounds : RoundAdvances(r))
  BY <1>3 DEF Listen, StartListening, Handled, ReceiveEnds, ReportAndClose, Datagram, Mishap,
              RoundAdvances, monitorVars, exitVars
<1>4. CASE PrintCycle \/ MissLoopEnds
  BY <1>4 DEF PrintCycle, MissLoopEnds, exitVars
<1>5. CASE Signal \/ StopClock \/ StopMonitors \/ SwitchOffIfOn
  BY <1>5 DEF Signal, StopClock, StopMonitors, SwitchOffIfOn, Mishap, monitorVars
<1>6. CASE Sleep
  BY <1>6 DEF Sleep, Mishap, monitorVars
<1>7. CASE CancelSocket \/ AwaitSocket \/ SocketsDone \/ TestDiagram \/ FallAsleep
           \/ SpuriousWake \/ StopWorkflow \/ ScanHangs \/ Unlock
  BY <1>7 DEF CancelSocket, AwaitSocket, SocketsDone, TestDiagram, FallAsleep, SpuriousWake,
              StopWorkflow, ScanHangs, Unlock, Mishap, monitorVars
<1>8. CASE UNCHANGED vars
  BY <1>8 DEF vars, monitorVars, exitVars
<1> QED
  BY <1>1, <1>2, <1>3, <1>4, <1>5, <1>6, <1>7, <1>8 DEF Next, Exit

\* The exit handler is done with the data sockets.
Stopping == {"stop", "doze", "asleep", "scan", "hung", "unlock", "over"}

In(p, s) == \E i \in 1..Len(s) : s[i] = p

\* The exit handler comes to every data socket that was created in time, and goes
\* on when that socket has closed; only a socket it has just cancelled reports.
SocketInv ==
  /\ \A p \in Ports : sock[p] # "none" <=> In(p, sockets)
  /\ mode \notin RunModes \/ main \in Before => \A p \in Ports : sock[p] = "none"
  /\ mishaps \cap {"socket", "timeout"} = {} =>
       /\ exit \in Stopping => \A p \in Ports : ~Unfinished(p)
       /\ exit \in {"close", "await"} => \A p \in Ports : Unfinished(p) => In(p, closing)
       /\ \A p \in cancelled : sock[p] = "closed" \/ (exit = "await" /\ p = Head(closing))
  /\ exit \in Early \cup {"sleep"} => cancelled = {}
  /\ "report" \notin mishaps => \A p \in Ports : sock[p] = "closed" => p \in reported
  /\ "fault" \notin mishaps => \A p \in Ports : sock[p] = "reporting" => p \in cancelled

LEMMA SocketStep ==
  SocketInv /\ WorkInv /\ ThreadTypes /\ SocketTypes /\ [Next]_vars => SocketInv'
<1> SUFFICES ASSUME SocketInv, WorkInv, ThreadTypes, SocketTypes, [Next]_vars PROVE SocketInv'
  OBVIOUS
<1> USE DEF SocketInv, Early, RunModes, Before, Stopping, Unfinished
<1>1. CASE CreateSocket
  <2>1. port \in Ports /\ UNCHANGED <<mode, main, cancelled, reported, exit, closing>>
    BY <1>1, PortStays DEF CreateSocket, ThreadTypes, exitVars
  <2>2. mode \in RunModes /\ main = "read"
    BY <1>1 DEF CreateSocket, WorkInv
  <2>3. CASE UNCHANGED <<sockets, sock, mishaps>>
    BY <2>1, <2>2, <2>3 DEF In
  <2>4. CASE /\ sockets' = Append(sockets, port)
             /\ sock' = [sock EXCEPT ![port] = "bound"]
             /\ Mishap("socket", exit \notin {"idle", "clock", "flag", "future", "sleep"})
    <3>1. ASSUME NEW p \in Ports PROVE In(p, sockets') <=> In(p, sockets) \/ p = port
      BY <2>1, <2>4 DEF In, SocketTypes
    <3>2. \A p \in Ports : In(p, sockets)' <=> In(p, sockets')
      BY DEF In
    <3>3. \A p \in Ports : In(p, closing)' <=> In(p, closing)
      BY <2>1 DEF In
    <3>4. sock'[port] = "bound" /\ \A p \in Ports \ {port} : sock'[p] = sock[p]
      BY <2>1, <2>4 DEF SocketTypes
    <3>5. mishaps \subseteq mishaps'
      BY <2>4 DEF Mishap
    <3>6. "socket" \notin mishaps' => exit \in Early \cup {"sleep"} /\ cancelled = {}
      BY <2>4 DEF Mishap
    <3>7. \A p \in Ports : sock'[p] # "none" <=> In(p, sockets)'
      BY <3>1, <3>2, <3>4
    <3>8. mishaps' \cap {"socket", "timeout"} = {} => exit' \in Early \cup {"sleep"} /\ cancelled' = {}
      BY <2>1, <3>6
    <3>9. "report" \notin mishaps' => \A p \in Ports : sock'[p] = "closed" => p \in reported'
      BY <2>1, <3>4, <3>5
    <3>10. "fault" \notin mishaps' => \A p \in Ports : sock'[p] = "reporting" => p \in cancelled'
      BY <2>1, <3>4, <3>5
    <3> HIDE DEF In
    <3> QED
      BY <2>1, <2>2, <3>7, <3>8, <3>9, <3>10
  <2> QED
    BY <1>1, <2>3, <2>4 DEF CreateSocket
<1>2. ASSUME NEW p \in Ports, Listen(p) \/ Datagram(p) PROVE SocketInv'
  <2>1. /\ UNCHANGED <<mode, main, sockets, cancelled, exit, closing>>
        /\ mishaps \subseteq mishaps' /\ reported \subseteq reported'
    BY <1>2 DEF Listen, StartListening, Handled, ReceiveEnds, ReportAndClose, Datagram, Mishap,
                mainVars, exitVars
  <2>2. /\ sock[p] \notin {"none", "closed"} /\ sock'[p] # "none"
        /\ \A q \in Ports \ {p} : sock'[q] = sock[q]
    BY <1>2 DEF Listen, StartListening, Handled, ReceiveEnds, ReportAndClose, Datagram, SocketTypes
  <2>3. "report" \notin mishaps' /\ sock'[p] = "closed" => p \in reported'
    BY <1>2 DEF Listen, StartListening, Handled, ReceiveEnds, ReportAndClose, Datagram, Mishap, SocketTypes
  <2>4. "fault" \notin mishaps' /\ sock'[p] = "reporting" => p \in cancelled'
    BY <1>2 DEF Listen, StartListening, Handled, ReceiveEnds, ReportAndClose, Datagram, Mishap, SocketTypes
  <2>5. \A q \in Ports : (In(q, closing)' <=> In(q, closing)) /\ (In(q, sockets)' <=> In(q, sockets))
    BY <2>1 DEF In
  <2>6. Head(closing)' = Head(closing)
    BY <2>1
  <2>7. mode' \notin RunModes \/ main' \in Before => \A q \in Ports : sock'[q] = "none"
    BY <2>1, <2>2
  <2>8. mishaps' \cap {"socket", "timeout"} = {} =>
          /\ exit' \in Stopping => \A q \in Ports : ~Unfinished(q)'
          /\ exit' \in {"close", "await"} => \A q \in Ports : Unfinished(q)' => In(q, closing)'
          /\ \A q \in cancelled' :
               sock'[q] = "closed" \/ (exit' = "await" /\ q = Head(closing)')
    <3> SUFFICES ASSUME mishaps \cap {"socket", "timeout"} = {}
                 PROVE  /\ exit \in Stopping => \A q \in Ports : ~Unfinished(q)'
                        /\ exit \in {"close", "await"} =>
                             \A q \in Ports : Unfinished(q)' => In(q, closing)
                        /\ \A q \in cancelled :
                             sock'[q] = "closed" \/ (exit = "await" /\ q = Head(closing))
      BY <2>1, <2>5, <2>6
    <3>1. \A q \in Ports : Unfinished(q)' => Unfinished(q)
      BY <2>2
    <3>2. \A q \in cancelled : q \in Ports /\ (sock[q] = "closed" => sock'[q] = "closed")
      BY <2>2 DEF SocketTypes
    <3> QED
      BY <3>1, <3>2
  <2>9. /\ "report" \notin mishaps' => \A q \in Ports : sock'[q] = "closed" => q \in reported'
        /\ "fault" \notin mishaps' => \A q \in Ports : sock'[q] = "reporting" => q \in cancelled'
    BY <2>1, <2>2, <2>3, <2>4
  <2>10. \A q \in Ports : sock'[q] # "none" <=> In(q, sockets)'
    BY <2>2, <2>5
  <2> HIDE DEF In, Unfinished
  <2> QED
    BY <2>1, <2>7, <2>8, <2>9, <2>10
<1>3. ASSUME UNCHANGED <<sockets, sock, cancelled, reported, closing>>, mishaps \subseteq mishaps',
             mode' \notin RunModes => mode \notin RunModes \/ main \in Before,
             main' \in Before => main \in Before,
             exit' = exit \/ (exit' \in Early \cup {"sleep"} /\ exit \in Early)
                          \/ (exit' \in Stopping /\ exit \in Stopping)
      PROVE  SocketInv'
  <2>1. \A q \in Ports : (In(q, closing)' <=> In(q, closing)) /\ (In(q, sockets)' <=> In(q, sockets))
    BY <1>3 DEF In
  <2> QED
    BY <1>3, <2>1
<1>4. CASE Main /\ ~CreateSocket
  <2>1. /\ UNCHANGED <<sockets, sock, cancelled, reported, closing, exit>>
        /\ mishaps \subseteq mishaps'
    BY <1>4 DEF Main, InitApp, InitThrows, StartWorkflow, ReadDataReturns, SwitchOn,
                SwitchOffOnly, Mishap, WaitForWorkflow, PrintStatistics, DestroyHandler,
                WaitForSwitchOff, JoinWorkingThread, socketVars, exitVars
  <2>2. /\ mode' \notin RunModes => mode \notin RunModes \/ main \in Before
        /\ main' \in Before => main \in Before
    BY <1>4 DEF Main, InitApp, InitThrows, StartWorkflow, ReadDataReturns, SwitchOn,
                SwitchOffOnly, WaitForWorkflow, PrintStatistics, DestroyHandler,
                WaitForSwitchOff, JoinWorkingThread
  <2> QED
    BY <1>3, <2>1, <2>2
<1>5. CASE Workflow \/ PrintCycle \/ MissLoopEnds \/ (\E r \in Rounds : RoundAdvances(r))
  <2>1. /\ UNCHANGED <<mode, main, sockets, sock, cancelled, reported, closing>>
        /\ mishaps \subseteq mishaps'
        /\ exit' = exit \/ (exit' \in Stopping /\ exit \in Stopping)
    BY <1>5 DEF Workflow, BuildDiagram, LaunchMonitors, Notify, WorkflowReturns, PrintCycle,
                MissLoopEnds, RoundAdvances, Mishap, mainVars, socketVars, exitVars
  <2> QED
    BY <1>3, <2>1
<1>6. CASE \/ Signal \/ StopClock \/ StopMonitors \/ SwitchOffIfOn \/ TestDiagram \/ FallAsleep
           \/ SpuriousWake \/ StopWorkflow \/ ScanHangs \/ Unlock
  <2>1. /\ UNCHANGED <<mode, main, sockets, sock, cancelled, reported, closing>>
        /\ mishaps \subseteq mishaps'
        /\ \/ exit' \in Early \cup {"sleep"} /\ exit \in Early
           \/ exit' \in Stopping /\ exit \in Stopping
    BY <1>6 DEF Signal, StopClock, StopMonitors, SwitchOffIfOn, TestDiagram, FallAsleep,
                SpuriousWake, StopWorkflow, ScanHangs, Unlock, Mishap, mainVars, socketVars
  <2> QED
    BY <1>3, <2>1
<1>7. CASE Sleep
  <2>1. /\ UNCHANGED <<mode, main, sockets, sock, cancelled, reported>>
        /\ mishaps \subseteq mishaps' /\ exit = "sleep" /\ exit' = "close" /\ closing' = sockets
    BY <1>7 DEF Sleep, Mishap, mainVars, socketVars
  <2>2. \A q \in Ports : (In(q, closing)' <=> In(q, sockets)) /\ (In(q, sockets)' <=> In(q, sockets))
    BY <2>1 DEF In
  <2> QED
    BY <2>1, <2>2
<1>8. CASE CancelSocket
  <2>1. /\ UNCHANGED <<mode, main, sockets, sock, reported, closing>>
        /\ mishaps \subseteq mishaps' /\ exit = "close" /\ exit' = "await"
        /\ cancelled \subseteq cancelled' /\ cancelled' \subseteq cancelled \cup {Head(closing)}
    BY <1>8 DEF CancelSocket, Mishap, mainVars
  <2>2. \A q \in Ports : (In(q, closing)' <=> In(q, closing)) /\ (In(q, sockets)' <=> In(q, sockets))
    BY <2>1 DEF In
  <2>3. Head(closing)' = Head(closing)
    BY <2>1
  <2> QED
    BY <2>1, <2>2, <2>3
<1>9. CASE AwaitSocket
  <2>1. /\ UNCHANGED <<mode, main, sockets, sock, reported, cancelled>>
        /\ mishaps \subseteq mishaps' /\ exit = "await" /\ exit' = "close"
        /\ closing' = Tail(closing) /\ closing # <<>>
        /\ "timeout" \notin mishaps' => sock[Head(closing)] = "closed"
    BY <1>9 DEF AwaitSocket, Mishap, SocketTypes, mainVars, socketVars
  <2>2. ASSUME NEW q \in Ports, In(q, closing), q # Head(closing) PROVE In(q, closing')
    <3>1. PICK i \in 1..Len(closing) : closing[i] = q
      BY <2>2 DEF In
    <3>2. i # 1 /\ Len(closing) \in Nat /\ Len(Tail(closing)) = Len(closing) - 1
      BY <2>1, <2>2, <3>1 DEF SocketTypes
    <3>3. i - 1 \in 1..Len(Tail(closing)) /\ Tail(closing)[i - 1] = q
      BY <2>1, <3>1, <3>2 DEF SocketTypes
    <3> QED
      BY <2>1, <3>3 DEF In
  <2>3. \A q \in Ports : (In(q, closing)' <=> In(q, closing')) /\ (In(q, sockets)' <=> In(q, sockets))
    BY <2>1 DEF In
  <2> QED
    BY <2>1, <2>2, <2>3
<1>10. CASE SocketsDone
  <2>1. /\ UNCHANGED <<mode, main, sockets, sock, reported, cancelled, mishaps, closing>>
        /\ exit = "close" /\ exit' = "stop" /\ closing = <<>>
    BY <1>10 DEF SocketsDone, mainVars, socketVars
  <2>2. \A q \in Ports : ~In(q, closing) /\ (In(q, sockets)' <=> In(q, sockets))
    BY <2>1 DEF In
  <2> QED
    BY <2>1, <2>2
<1>11. CASE UNCHANGED vars
  <2>1. UNCHANGED <<mode, main, sockets, sock, reported, cancelled, mishaps, closing, exit>>
    BY <1>11 DEF vars, mainVars, socketVars, exitVars
  <2> QED
    BY <1>3, <2>1
<1> QED
  BY <1>1, <1>2, <1>4, <1>5, <1>6, <1>7, <1>8, <1>9, <1>10, <1>11 DEF Next, Exit

LEMMA SocketInvariance ==
  Spec => [](SocketInv /\ MonitorInv /\ WorkInv /\ ThreadTypes /\ SocketTypes)
<1>1. Init => SocketInv /\ MonitorInv
  BY DEF Init, SocketInv, MonitorInv, Early, Before, Stopping, In, Unfinished
<1> QED
  BY <1>1, SocketStep, MonitorStep, WorkInvariance, PTL DEF Spec

(***************************************************************************)
(* When the AnalysisHandle is destroyed no data socket and no monitor uses *)
(* it any more, the workflow thread has left it and the exit handler has   *)
(* at most its mutex to unlock.                                            *)
(***************************************************************************)
THEOREM HandlerOutlivesItsUsers == Spec => []HandlerOutlivesUsers
<1>1. SocketInv /\ MonitorInv /\ WorkInv => HandlerOutlivesUsers
  BY DEF SocketInv, MonitorInv, WorkInv, HandlerOutlivesUsers, Early, Stopping
<1> QED
  BY <1>1, SocketInvariance, PTL

(***************************************************************************)
(* Every data socket has closed and reported when ~App has registered the  *)
(* statistics.                                                             *)
(***************************************************************************)
THEOREM StatisticsAreFinal == Spec => []StatisticsFinal
<1>1. SocketInv /\ WorkInv /\ SocketTypes => StatisticsFinal
  <2> SUFFICES ASSUME SocketInv, WorkInv, SocketTypes,
                      main \in {"handler", "future", "join", "ended"},
                      mishaps \cap {"socket", "report", "timeout"} = {},
                      NEW i \in 1..Len(sockets)
               PROVE  sock[sockets[i]] = "closed" /\ sockets[i] \in reported
    BY DEF StatisticsFinal
  <2>1. exit \in {"unlock", "over"}
    BY DEF WorkInv
  <2>2. sockets[i] \in Ports /\ In(sockets[i], sockets)
    BY DEF SocketTypes, In
  <2>3. sock[sockets[i]] # "none" /\ ~Unfinished(sockets[i])
    BY <2>1, <2>2 DEF SocketInv, Stopping
  <2> QED
    BY <2>2, <2>3 DEF SocketInv, Unfinished
<1> QED
  BY <1>1, SocketInvariance, PTL

(***************************************************************************)
(* AppReport, which has no mutex, is appended to by one thread at a time.  *)
(***************************************************************************)
THEOREM ReportIsNotShared == Spec => []ReportNotShared
<1>1. SocketInv /\ WorkInv /\ SocketTypes => ReportNotShared
  <2> SUFFICES ASSUME SocketInv, WorkInv, SocketTypes,
                      mishaps \cap {"socket", "fault", "timeout"} = {}
               PROVE  Cardinality({p \in Ports : sock[p] = "reporting"}
                                   \cup ({main} \cap {"statistics"})) <= 1
    BY DEF ReportNotShared
  <2> DEFINE R == {p \in Ports : sock[p] = "reporting"}
             W == {main} \cap {"statistics"}
  <2>1. \A p \in R : exit = "await" /\ p = Head(closing)
    BY DEF SocketInv
  <2>2. R # {} => main # "statistics"
    <3> SUFFICES ASSUME R # {}, main = "statistics" PROVE FALSE
      OBVIOUS
    <3>1. exit = "await" /\ \E p \in Ports : sock[p] = "reporting"
      BY <2>1
    <3>2. mode \in RunModes
      BY <3>1 DEF SocketInv
    <3> QED
      BY <3>1, <3>2 DEF WorkInv
  <2>3. R \cup W = {} \/ \E x : R \cup W = {x}
    BY <2>1, <2>2
  <2> HIDE DEF R, W
  <2>4. Cardinality(R \cup W) <= 1
    BY <2>3, FS_EmptySet, FS_Singleton
  <2> QED
    BY <2>4 DEF R, W
<1> QED
  BY <1>1, SocketInvariance, PTL

-----------------------------------------------------------------------------
(* The files of a run *)

LEMMA LeastNatural ==
  ASSUME NEW T \in SUBSET Nat, T # {}
  PROVE  \E n \in T : \A m \in T : n <= m
<1>1. PICK n \in T : \A m \in T : <<m, n>> \notin OpToRel(<, Nat)
  BY WFMin, NatLessThanWellFounded
<1>2. ASSUME NEW m \in T, m < n PROVE FALSE
  <2>1. <<m, n>> \in Nat \X Nat
    BY <1>1
  <2>2. <<m, n>>[1] < <<m, n>>[2]
    BY <1>2
  <2> QED
    BY <2>1, <2>2, <1>1 DEF OpToRel
<1>3. \A m \in T : n <= m
  BY <1>2
<1> QED
  BY <1>3

LEMMA GreatestUpTo ==
  ASSUME NEW n \in Nat, NEW S \in SUBSET (1..n), S # {}
  PROVE  \E i \in S : \A j \in S : j <= i
<1> DEFINE T == {k \in Nat : n - k \in S}
<1>1. PICK s \in S : TRUE
  OBVIOUS
<1>2. n - s \in T
  <2>1. s \in 1..n
    BY <1>1
  <2>2. n - s \in Nat /\ n - (n - s) = s
    BY <2>1
  <2> QED
    BY <2>2, <1>1
<1>3. PICK k \in T : \A m \in T : k <= m
  BY <1>2, LeastNatural
<1>4. ASSUME NEW j \in S PROVE j <= n - k
  <2>1. n - j \in Nat /\ n - (n - j) = j /\ j \in Int
    OBVIOUS
  <2>2. n - j \in T
    BY <2>1
  <2>3. k <= n - j /\ k \in Nat
    BY <2>2, <1>3
  <2> QED
    BY <2>1, <2>3
<1> QED
  BY <1>3, <1>4

-----------------------------------------------------------------------------

Kinds == {"new", "begin", "end"}
Line == [kind : Kinds, scope : Scopes \cup {"none"}]

Count(content, line) == Cardinality({i \in DOMAIN content : content[i] = line})

LEMMA NewLine == New \in Line
BY DEF New, Line, Kinds

LEMMA CountAppend ==
  ASSUME NEW content \in Seq(Line), NEW line \in Line, NEW x
  PROVE  /\ Count(content, x) \in Nat
         /\ Count(Append(content, line), x) = Count(content, x) + (IF line = x THEN 1 ELSE 0)
<1> DEFINE S == {i \in DOMAIN content : content[i] = x}
           n == Len(content)
           longer == Append(content, line)
<1>1. n \in Nat /\ S \subseteq 1..n /\ n + 1 \notin S
  OBVIOUS
<1>2. IsFiniteSet(S) /\ Cardinality(S) \in Nat
  <2> HIDE DEF S, n
  <2>1. IsFiniteSet(1..n)
    BY <1>1, FS_Interval
  <2>2. IsFiniteSet(S)
    BY <1>1, <2>1, FS_Subset
  <2> QED
    BY <2>2, FS_CardinalityType
<1>3. {i \in DOMAIN longer : longer[i] = x} = IF line = x THEN S \cup {n + 1} ELSE S
  <2>1. /\ DOMAIN longer = 1..n \cup {n + 1} /\ longer[n + 1] = line
        /\ DOMAIN content = 1..n /\ \A i \in 1..n : longer[i] = content[i]
    OBVIOUS
  <2> HIDE DEF longer, n
  <2> QED
    BY <2>1
<1>4. Cardinality(S \cup {n + 1}) = Cardinality(S) + 1
  BY <1>1, <1>2, FS_AddElement
<1>5. Count(content, x) = Cardinality(S)
  BY DEF Count
<1>6. Count(longer, x) = IF line = x THEN Cardinality(S \cup {n + 1}) ELSE Cardinality(S)
  BY <1>3 DEF Count
<1> HIDE DEF S, n
<1> QED
  BY <1>2, <1>4, <1>5, <1>6

LEMMA StartsOf ==
  ASSUME NEW file \in Seq(Line)
  PROVE  \E start \in 0..Len(file) :
           /\ Read(file) = SubSeq(file, start + 1, Len(file))
           /\ start # 0 => file[start] = New
           /\ \A i \in DOMAIN file : file[i] = New => i <= start
<1> DEFINE starts == {i \in DOMAIN file : file[i] = New}
           start == IF starts = {} THEN 0 ELSE CHOOSE i \in starts : \A j \in starts : j <= i
<1>1. starts \in SUBSET (1..Len(file)) /\ Len(file) \in Nat
  OBVIOUS
<1>2. starts # {} => start \in starts /\ \A j \in starts : j <= start
  <2> SUFFICES ASSUME starts # {} PROVE start \in starts /\ \A j \in starts : j <= start
    OBVIOUS
  <2>1. \E i \in starts : \A j \in starts : j <= i
    BY <1>1, GreatestUpTo
  <2> HIDE DEF starts
  <2> QED
    BY <2>1
<1>3. Read(file) = SubSeq(file, start + 1, Len(file))
  BY DEF Read
<1>4. start \in 0..Len(file) /\ (start # 0 => file[start] = New)
  <2> HIDE DEF start
  <2>1. starts = {} => start = 0
    BY DEF start
  <2> QED
    BY <1>1, <1>2, <2>1
<1>5. \A i \in DOMAIN file : file[i] = New => i <= start
  <2> HIDE DEF start
  <2> QED
    BY <1>2
<1> QED
  BY <1>3, <1>4, <1>5

LEMMA SubSeqAppend ==
  ASSUME NEW file \in Seq(Line), NEW line \in Line, NEW a \in 0..Len(file)
  PROVE  /\ SubSeq(file, a + 1, Len(file)) \in Seq(Line)
         /\ SubSeq(Append(file, line), a + 1, Len(file) + 1)
              = Append(SubSeq(file, a + 1, Len(file)), line)
<1> DEFINE n == Len(file)
           longer == Append(file, line)
           short == SubSeq(file, a + 1, n)
<1>1. /\ longer \in Seq(Line) /\ Len(longer) = n + 1 /\ longer[n + 1] = line
      /\ \A i \in 1..n : longer[i] = file[i]
  OBVIOUS
<1>2. /\ short \in Seq(Line) /\ Len(short) = n - a
      /\ \A i \in 1..(n - a) : short[i] = file[a + i]
  OBVIOUS
<1>3. /\ SubSeq(longer, a + 1, n + 1) \in Seq(Line)
      /\ Len(SubSeq(longer, a + 1, n + 1)) = n - a + 1
      /\ \A i \in 1..(n - a + 1) : SubSeq(longer, a + 1, n + 1)[i] = longer[a + i]
  <2> HIDE DEF longer
  <2> QED
    BY <1>1
<1>4. /\ Append(short, line) \in Seq(Line) /\ Len(Append(short, line)) = n - a + 1
      /\ \A i \in 1..(n - a) : Append(short, line)[i] = short[i]
      /\ Append(short, line)[n - a + 1] = line
  <2> HIDE DEF short
  <2>1. /\ Append(short, line) \in Seq(Line)
        /\ Len(Append(short, line)) = Len(short) + 1
        /\ \A i \in 1..Len(short) : Append(short, line)[i] = short[i]
        /\ Append(short, line)[Len(short) + 1] = line
    BY <1>2, AppendProperties
  <2> QED
    BY <2>1, <1>2
<1>5. \A i \in 1..(n - a + 1) : SubSeq(longer, a + 1, n + 1)[i] = Append(short, line)[i]
  <2> TAKE i \in 1..(n - a + 1)
  <2> HIDE DEF longer, short
  <2>1. CASE i = n - a + 1
    BY <2>1, <1>1, <1>3, <1>4
  <2>2. CASE i # n - a + 1
    <3>1. i \in 1..(n - a) /\ a + i \in 1..n /\ n \in Nat
      BY <2>2
    <3>2. longer[a + i] = file[a + i] /\ short[i] = file[a + i]
      BY <3>1, <1>1, <1>2
    <3>3. SubSeq(longer, a + 1, n + 1)[i] = longer[a + i]
      BY <1>3
    <3>4. Append(short, line)[i] = short[i]
      BY <3>1, <1>4
    <3> QED
      BY <3>2, <3>3, <3>4
  <2> QED
    BY <2>1, <2>2
<1> DEFINE left == SubSeq(longer, a + 1, n + 1)
           right == Append(short, line)
<1>6. /\ left \in Seq(Line) /\ right \in Seq(Line) /\ Len(left) = Len(right)
      /\ \A i \in 1..Len(left) : left[i] = right[i]
  BY <1>3, <1>4, <1>5
<1>7. left = right
  <2> HIDE DEF left, right
  <2> QED
    BY <1>6, SeqEqual
<1> QED
  BY <1>2, <1>7

LEMMA ReadAppend ==
  ASSUME NEW file \in Seq(Line), NEW line \in Line
  PROVE  /\ Read(file) \in Seq(Line)
         /\ Read(Append(file, line)) = IF line = New THEN <<>> ELSE Append(Read(file), line)
<1> DEFINE n == Len(file)
           longer == Append(file, line)
<1>1. /\ longer \in Seq(Line) /\ Len(longer) = n + 1 /\ longer[n + 1] = line /\ n \in Nat
      /\ DOMAIN longer = 1..(n + 1) /\ DOMAIN file = 1..n
      /\ \A i \in 1..n : longer[i] = file[i]
  OBVIOUS
<1>2. PICK a \in 0..n : /\ Read(file) = SubSeq(file, a + 1, n)
                        /\ a # 0 => file[a] = New
                        /\ \A i \in DOMAIN file : file[i] = New => i <= a
  BY StartsOf
<1> HIDE DEF longer
<1>3. PICK b \in 0..(n + 1) : /\ Read(longer) = SubSeq(longer, b + 1, n + 1)
                              /\ b # 0 => longer[b] = New
                              /\ \A i \in DOMAIN longer : longer[i] = New => i <= b
  BY StartsOf, <1>1
<1>4. Read(file) \in Seq(Line)
  BY <1>2, SubSeqAppend
<1>5. CASE line = New
  <2>1. b = n + 1
    BY <1>1, <1>3, <1>5
  <2>2. SubSeq(longer, n + 2, n + 1) = <<>>
    BY <1>1, SubSeqEmpty
  <2> QED
    BY <2>1, <2>2, <1>1, <1>3, <1>4, <1>5 DEF longer
<1>6. CASE line # New
  <2> HIDE DEF n
  <2>1. b # 0 => b <= a
    <3> SUFFICES ASSUME b # 0 PROVE b <= a
      OBVIOUS
    <3>1. longer[b] = New /\ b # n + 1
      BY <1>1, <1>3, <1>6
    <3>2. b \in 1..n
      BY <3>1, <1>1
    <3>3. b \in DOMAIN file /\ file[b] = New
      BY <3>1, <3>2, <1>1
    <3> QED
      BY <3>3, <1>2
  <2>2. a # 0 => a <= b
    <3> SUFFICES ASSUME a # 0 PROVE a <= b
      OBVIOUS
    <3>1. a \in 1..n /\ file[a] = New
      BY <1>1, <1>2
    <3>2. a \in DOMAIN longer /\ longer[a] = New
      BY <3>1, <1>1
    <3> QED
      BY <3>2, <1>3
  <2>3. a = b
    BY <1>1, <2>1, <2>2
  <2> QED
    BY <2>3, <1>2, <1>3, <1>4, <1>6, SubSeqAppend DEF longer, n
<1> QED
  BY <1>5, <1>6

Begin(s) == [kind |-> "begin", scope |-> s]
End(s) == [kind |-> "end", scope |-> s]

LEMMA BalanceAppend ==
  ASSUME NEW content \in Seq(Line), NEW line \in Line, NEW s
  PROVE  /\ Balance(content, s) \in Int
         /\ Balance(Append(content, line), s)
              = Balance(content, s) + (IF line = Begin(s) THEN 1 ELSE 0) - (IF line = End(s) THEN 1 ELSE 0)
<1>1. \A c : Balance(c, s) = Count(c, Begin(s)) - Count(c, End(s))
  BY DEF Balance, Count, Begin, End
<1>2. /\ Count(content, Begin(s)) \in Nat /\ Count(content, End(s)) \in Nat
      /\ Count(Append(content, line), Begin(s))
            = Count(content, Begin(s)) + (IF line = Begin(s) THEN 1 ELSE 0)
      /\ Count(Append(content, line), End(s))
            = Count(content, End(s)) + (IF line = End(s) THEN 1 ELSE 0)
  BY CountAppend
<1> QED
  BY <1>1, <1>2

LEMMA BalanceEmpty == ASSUME NEW s PROVE Balance(<<>>, s) = 0
<1>1. \A x : {i \in DOMAIN <<>> : <<>>[i] = x} = {}
  OBVIOUS
<1> QED
  BY <1>1, FS_EmptySet DEF Balance

-----------------------------------------------------------------------------

\* The types of the files and of what reads them.
LogTypes ==
  /\ run \in {"none", "parse", "create", "dump", "start", "run", "over"}
  /\ disk \in Seq(Line)
  /\ held \in Seq(Line)
  /\ open \in [Scopes -> Nat]

ReaderTypes ==
  /\ wrote \in 0..MaxFrames
  /\ onDisk \in 0..wrote
  /\ tail \in {"none", "size", "body"}
  /\ reader \in [at : 0..MaxFrames, eof : BOOLEAN, buffer : 0..Torn, results : Seq(0..Torn)]

FilesTypes == LogTypes /\ ReaderTypes

LEMMA LogTyping == LogTypes /\ [FilesNext]_filesVars => LogTypes'
<1> SUFFICES ASSUME LogTypes, [FilesNext]_filesVars PROVE LogTypes'
  OBVIOUS
<1> USE DEF LogTypes
<1>1. CASE EditConfig \/ Launch \/ DumpConfig \/ ReadConfig \/ CreateConfig \/ WriteConfig \/ UseDefaults
  BY <1>1 DEF EditConfig, Launch, DumpConfig, ReadConfig, CreateConfig, WriteConfig, UseDefaults,
              logVars, rawVars, configVars
<1>2. CASE Start
  <2>1. <<New>> \in Seq(Line)
    BY NewLine
  <2>2. run' = "run" /\ disk' = disk /\ held' = <<New>> /\ open' = [s \in Scopes |-> 0]
    BY <1>2 DEF Start
  <2> QED
    BY <2>1, <2>2
<1>3. CASE FlushLog \/ Rotate \/ Finish
  <2>1. /\ run' \in {run, "over"} /\ open' = open /\ held' = <<>>
        /\ disk' \in {disk \o held, <<>>}
    BY <1>3 DEF FlushLog, Rotate, Finish
  <2>2. disk \o held \in Seq(Line) /\ <<>> \in Seq(Line)
    OBVIOUS
  <2> QED
    BY <2>1, <2>2
<1>4. CASE WriteFrame \/ FlushFrames \/ Check \/ ReadOneFrame \/ ResetReader
  BY <1>4 DEF WriteFrame, FlushFrames, Check, ReadOneFrame, ResetReader, logVars
<1>5. CASE Kill
  <2>1. run' = "over" /\ disk' = disk /\ held' = <<>> /\ open' = open
    BY <1>5 DEF Kill
  <2> QED
    BY <2>1
<1>6. ASSUME NEW s \in Scopes, BeginScope(s) PROVE LogTypes'
  <2>1. [kind |-> "begin", scope |-> s] \in Line
    BY DEF Line, Kinds
  <2> QED
    BY <1>6, <2>1 DEF BeginScope, Log
<1>7. ASSUME NEW s \in Scopes, EndScope(s) PROVE LogTypes'
  <2>1. [kind |-> "end", scope |-> s] \in Line
    BY DEF Line, Kinds
  <2> QED
    BY <1>7, <2>1 DEF EndScope, Log
<1>8. CASE UNCHANGED filesVars
  BY <1>8 DEF filesVars, logVars
<1> QED
  BY <1>1, <1>2, <1>3, <1>4, <1>5, <1>6, <1>7, <1>8 DEF FilesNext

LEMMA FileBounds == MaxFrames \in Nat /\ Torn = MaxFrames + 1
BY FilesAssumption DEF Torn

LEMMA ReaderFields ==
  ASSUME NEW r \in [at : 0..MaxFrames, eof : BOOLEAN, buffer : 0..Torn, results : Seq(0..Torn)]
  PROVE  \A at, eof, buffer :
           [r EXCEPT !.buffer = buffer, !.eof = eof, !.at = at]
             = [at |-> at, eof |-> eof, buffer |-> buffer, results |-> r.results]
<1> TAKE at, eof, buffer
<1>1. r = [at |-> r.at, eof |-> r.eof, buffer |-> r.buffer, results |-> r.results]
  OBVIOUS
<1> DEFINE r1 == [r EXCEPT !.buffer = buffer]
           r2 == [r1 EXCEPT !.eof = eof]
<1>2. r1 = [at |-> r.at, eof |-> r.eof, buffer |-> buffer, results |-> r.results]
  BY <1>1
<1>3. r2 = [at |-> r.at, eof |-> eof, buffer |-> buffer, results |-> r.results]
  <2> HIDE DEF r1
  <2> QED
    BY <1>2
<1>4. [r2 EXCEPT !.at = at] = [at |-> at, eof |-> eof, buffer |-> buffer, results |-> r.results]
  <2> HIDE DEF r2
  <2> QED
    BY <1>3
<1> QED
  BY <1>4

\* What a call of read_one_frame leaves in each member, by what the buffer then holds.
LEMMA ReadEffect ==
  ASSUME ReaderTypes, ReadOneFrame
  PROVE  /\ reader' \in [at : Nat, eof : BOOLEAN, buffer : 0..Torn, results : Seq(0..Torn)]
         /\ UNCHANGED <<run, wrote, onDisk, tail>>
         /\ reader'.at = IF reader.at < onDisk THEN reader.at + 1 ELSE reader.at
         /\ reader'.eof <=> reader.eof \/ reader.at >= onDisk
         /\ reader'.results = Append(reader.results, reader'.buffer)
         /\ reader.eof => reader'.buffer = reader.buffer
         /\ ~reader.eof /\ reader.at < onDisk => reader'.buffer = reader.at + 1
         /\ ~reader.eof /\ reader.at >= onDisk /\ tail = "none" => reader'.buffer = Empty
<1> DEFINE choice == CASE reader.eof -> {reader.buffer}
                       [] ~reader.eof /\ reader.at < onDisk -> {reader.at + 1}
                       [] ~reader.eof /\ reader.at >= onDisk /\ tail = "none" -> {Empty}
                       [] OTHER -> {Torn, reader.buffer}
           read(buffer) == [reader EXCEPT !.buffer = buffer,
                                          !.eof = @ \/ reader.at >= onDisk,
                                          !.at = IF @ < onDisk THEN @ + 1 ELSE @]
<1>1. PICK buffer \in choice : reader' = Result(read(buffer))
  BY DEF ReadOneFrame
<1>2. /\ buffer \in 0..Torn
      /\ reader.eof => buffer = reader.buffer
      /\ ~reader.eof /\ reader.at < onDisk => buffer = reader.at + 1
      /\ ~reader.eof /\ reader.at >= onDisk /\ tail = "none" => buffer = Empty
  BY <1>1, FileBounds DEF ReaderTypes, Empty
<1> HIDE DEF choice
<1>3. read(buffer) = [at |-> IF reader.at < onDisk THEN reader.at + 1 ELSE reader.at,
                      eof |-> (reader.eof \/ reader.at >= onDisk),
                      buffer |-> buffer, results |-> reader.results]
  <2> DEFINE at == IF reader.at < onDisk THEN reader.at + 1 ELSE reader.at
             eof == reader.eof \/ reader.at >= onDisk
  <2> HIDE DEF at, eof
  <2>1. [reader EXCEPT !.buffer = buffer, !.eof = eof, !.at = at]
          = [at |-> at, eof |-> eof, buffer |-> buffer, results |-> reader.results]
    <3>1. reader \in [at : 0..MaxFrames, eof : BOOLEAN, buffer : 0..Torn, results : Seq(0..Torn)]
      BY DEF ReaderTypes
    <3> QED
      BY <3>1, ReaderFields
  <2> QED
    BY <2>1 DEF at, eof
<1>4. Append(reader.results, buffer) \in Seq(0..Torn)
  BY <1>2 DEF ReaderTypes
<1>5. reader' = [at |-> IF reader.at < onDisk THEN reader.at + 1 ELSE reader.at,
                 eof |-> (reader.eof \/ reader.at >= onDisk),
                 buffer |-> buffer, results |-> Append(reader.results, buffer)]
  BY <1>1, <1>3 DEF Result
<1>6. (IF reader.at < onDisk THEN reader.at + 1 ELSE reader.at) \in Nat
  BY FileBounds DEF ReaderTypes
<1>7. UNCHANGED <<run, wrote, onDisk, tail>>
  BY DEF ReadOneFrame
<1> QED
  BY <1>2, <1>4, <1>5, <1>6, <1>7

LEMMA ReaderTyping == ReaderTypes /\ [FilesNext]_filesVars => ReaderTypes'
<1> SUFFICES ASSUME ReaderTypes, [FilesNext]_filesVars PROVE ReaderTypes'
  OBVIOUS
<1> USE FileBounds DEF ReaderTypes
<1>1. CASE EditConfig \/ Launch \/ DumpConfig \/ ReadConfig \/ CreateConfig \/ WriteConfig \/ UseDefaults
  BY <1>1 DEF EditConfig, Launch, DumpConfig, ReadConfig, CreateConfig, WriteConfig, UseDefaults,
              rawVars
<1>2. CASE Start
  <2>1. wrote' = 0 /\ onDisk' = 0 /\ tail' = "none" /\ reader' = Closed
    BY <1>2 DEF Start
  <2> QED
    BY <2>1 DEF Closed, Empty
<1>3. CASE FlushLog \/ Rotate \/ Check
  BY <1>3 DEF FlushLog, Rotate, Check, rawVars
<1>4. CASE WriteFrame \/ FlushFrames \/ Finish
  BY <1>4 DEF WriteFrame, FlushFrames, Finish
<1>5. CASE Kill
  BY <1>5 DEF Kill
<1>6. CASE ReadOneFrame
  <2>1. PICK buffer \in 0..Torn :
          /\ reader'.at = IF reader.at < onDisk THEN reader.at + 1 ELSE reader.at
          /\ reader'.buffer = buffer
          /\ reader'.results = Append(reader.results, buffer)
    BY <1>6, ReadEffect
  <2>2. Append(reader.results, buffer) \in Seq(0..Torn)
    OBVIOUS
  <2>3. reader'.at \in 0..MaxFrames
    BY <2>1
  <2> QED
    BY <1>6, <2>1, <2>2, <2>3, ReadEffect DEF ReadOneFrame
<1>7. CASE ResetReader
  <2>1. reader' = [reader EXCEPT !.at = 0, !.eof = FALSE, !.results = <<>>]
    BY <1>7 DEF ResetReader
  <2>2. reader' = [at |-> 0, eof |-> FALSE, buffer |-> reader.buffer, results |-> <<>>]
    BY <2>1
  <2>3. reader' \in [at : 0..MaxFrames, eof : BOOLEAN, buffer : 0..Torn, results : Seq(0..Torn)]
    BY <2>2
  <2> QED
    BY <1>7, <2>3 DEF ResetReader
<1>8. ASSUME NEW s \in Scopes, BeginScope(s) \/ EndScope(s) PROVE ReaderTypes'
  BY <1>8 DEF BeginScope, EndScope, Log, rawVars
<1>9. CASE UNCHANGED filesVars
  BY <1>9 DEF filesVars, rawVars
<1> QED
  BY <1>1, <1>2, <1>3, <1>4, <1>5, <1>6, <1>7, <1>8, <1>9 DEF FilesNext

(***************************************************************************)
(* The variables of the files always have their types.                     *)
(***************************************************************************)
THEOREM FilesTyping == FilesSpec => []FilesTypes
<1>1. FilesInit => FilesTypes
  <2> SUFFICES ASSUME FilesInit PROVE FilesTypes
    OBVIOUS
  <2>1. LogTypes
    BY DEF FilesInit, LogTypes
  <2>2. ReaderTypes
    BY FileBounds DEF FilesInit, ReaderTypes, Closed, Empty
  <2> QED
    BY <2>1, <2>2 DEF FilesTypes
<1>2. FilesTypes /\ [FilesNext]_filesVars => FilesTypes'
  BY LogTyping, ReaderTyping DEF FilesTypes
<1> QED
  BY <1>1, <1>2, PTL DEF FilesSpec

-----------------------------------------------------------------------------

\* Until a configuration is read or created no file was asked for, and while one is
\* created the values are the defaults.
ConfigInv ==
  /\ run = "parse" => values = "default" /\ ~asked
  /\ run = "create" => values = "default" /\ config = "broken"
  /\ run \in {"start", "run"} /\ asked => config \in {values, "absent"}

LEMMA ConfigStep == ConfigInv /\ [FilesNext]_filesVars => ConfigInv'
<1> SUFFICES ASSUME ConfigInv, [FilesNext]_filesVars PROVE ConfigInv'
  OBVIOUS
<1> USE DEF ConfigInv
<1>1. CASE EditConfig \/ Launch
  BY <1>1 DEF EditConfig, Launch, Idle
<1>2. CASE DumpConfig \/ ReadConfig \/ CreateConfig \/ WriteConfig
  BY <1>2 DEF DumpConfig, ReadConfig, CreateConfig, WriteConfig
<1>3. CASE UseDefaults
  BY <1>3 DEF UseDefaults, configVars
<1>4. CASE \/ Start \/ FlushLog \/ Rotate \/ WriteFrame \/ FlushFrames
           \/ Finish \/ Kill \/ Check \/ ReadOneFrame \/ ResetReader
  <2>1. /\ UNCHANGED <<config, values, asked>>
        /\ run' = run \/ run' = "over" \/ (run = "start" /\ run' = "run")
    BY <1>4 DEF Start, FlushLog, Rotate, WriteFrame, FlushFrames, Finish, Kill, Check,
                ReadOneFrame, ResetReader, configVars
  <2> QED
    BY <2>1
<1>5. ASSUME NEW s \in Scopes, BeginScope(s) \/ EndScope(s) PROVE ConfigInv'
  BY <1>5 DEF BeginScope, EndScope, Log, configVars
<1>6. CASE UNCHANGED filesVars
  BY <1>6 DEF filesVars, configVars
<1> QED
  BY <1>1, <1>2, <1>3, <1>4, <1>5, <1>6 DEF FilesNext

(***************************************************************************)
(* No run overwrites what a user has written, and a run that was given a   *)
(* file has the values that the file has: set_config_from_file and         *)
(* output_config_to_file look whether the file exists.                     *)
(***************************************************************************)
THEOREM ConfigIsKept == FilesSpec => ConfigKept
<1> DEFINE Kept == config' # config /\ config # "absent" => EditConfig \/ WriteConfig
           Given == run \in {"start", "run"} /\ asked => config \in {values, "absent"}
<1>1. ASSUME [FilesNext]_filesVars PROVE Kept
  <2>1. CASE EditConfig \/ WriteConfig
    BY <2>1
  <2>2. CASE Launch \/ DumpConfig \/ ReadConfig \/ CreateConfig
    BY <2>2 DEF Launch, DumpConfig, ReadConfig, CreateConfig
  <2>3. CASE \/ UseDefaults \/ Start \/ FlushLog \/ Rotate \/ WriteFrame \/ FlushFrames
             \/ Finish \/ Kill \/ Check \/ ReadOneFrame \/ ResetReader
    BY <2>3 DEF UseDefaults, Start, FlushLog, Rotate, WriteFrame, FlushFrames, Finish, Kill, Check,
                ReadOneFrame, ResetReader, configVars
  <2>4. ASSUME NEW s \in Scopes, BeginScope(s) \/ EndScope(s) PROVE Kept
    BY <2>4 DEF BeginScope, EndScope, Log, configVars
  <2>5. CASE UNCHANGED filesVars
    BY <2>5 DEF filesVars, configVars
  <2> QED
    BY <1>1, <2>1, <2>2, <2>3, <2>4, <2>5 DEF FilesNext
<1>2. FilesInit => ConfigInv
  BY DEF FilesInit, ConfigInv
<1>3. ConfigInv => Given
  BY DEF ConfigInv
<1> QED
  BY <1>1, <1>2, <1>3, ConfigStep, PTL DEF FilesSpec, ConfigKept

-----------------------------------------------------------------------------

(***************************************************************************)
(* The reader has given frame after frame and, since it met the end, its   *)
(* buffer.  While a run writes the file nobody has read from it.           *)
(***************************************************************************)
ReaderInv ==
  LET n == Len(reader.results)
  IN /\ run = "run" => reader = Closed
     /\ reader.at = IF n <= onDisk THEN n ELSE onDisk
     /\ reader.eof <=> n > onDisk
     /\ \A i \in 1..n : reader.results[i] = IF i <= onDisk THEN i ELSE reader.buffer
     /\ n > onDisk /\ tail = "none" => reader.buffer = Empty

LEMMA ReaderStays ==
  ASSUME ReaderInv, UNCHANGED <<onDisk, tail, reader>>, run' = "run" => run = "run"
  PROVE  ReaderInv'
BY DEF ReaderInv

LEMMA ReaderAtStart ==
  ASSUME reader' = Closed, onDisk' \in Nat
  PROVE  ReaderInv'
BY DEF ReaderInv, Closed, Empty

LEMMA ReaderStep == ReaderInv /\ FilesTypes /\ [FilesNext]_filesVars => ReaderInv'
<1> SUFFICES ASSUME ReaderInv, FilesTypes, [FilesNext]_filesVars PROVE ReaderInv'
  OBVIOUS
<1>1. CASE EditConfig \/ Launch \/ DumpConfig \/ ReadConfig \/ CreateConfig \/ WriteConfig \/ UseDefaults
  <2>1. UNCHANGED <<onDisk, tail, reader>> /\ (run' = "run" => run = "run")
    BY <1>1 DEF EditConfig, Launch, DumpConfig, ReadConfig, CreateConfig, WriteConfig, UseDefaults,
                rawVars, Idle
  <2> QED
    BY <2>1, ReaderStays
<1>2. CASE Start
  <2>1. reader' = Closed /\ onDisk' \in Nat
    BY <1>2 DEF Start
  <2> QED
    BY <2>1, ReaderAtStart
<1>3. CASE FlushLog \/ Rotate \/ WriteFrame \/ Check
  <2>1. UNCHANGED <<onDisk, tail, reader, run>>
    BY <1>3 DEF FlushLog, Rotate, WriteFrame, Check, rawVars
  <2> QED
    BY <2>1, ReaderStays
<1>4. CASE FlushFrames \/ Finish
  <2>1. run = "run" /\ reader' = reader /\ onDisk' = wrote
    BY <1>4 DEF FlushFrames, Finish
  <2>2. reader' = Closed /\ onDisk' \in Nat
    BY <2>1, FileBounds DEF ReaderInv, FilesTypes, ReaderTypes
  <2> QED
    BY <2>2, ReaderAtStart
<1>5. CASE Kill
  <2>1. CASE run = "run"
    <3>1. reader' = Closed /\ onDisk' \in onDisk..wrote
      BY <1>5, <2>1 DEF Kill, ReaderInv
    <3>2. onDisk' \in Nat
      BY <3>1, FileBounds DEF FilesTypes, ReaderTypes
    <3> QED
      BY <3>1, <3>2, ReaderAtStart
  <2>2. CASE run # "run"
    <3>1. UNCHANGED <<onDisk, tail, reader>> /\ run' = "over"
      BY <1>5, <2>2 DEF Kill
    <3> QED
      BY <3>1, ReaderStays
  <2> QED
    BY <2>1, <2>2
<1>6. CASE ReadOneFrame
  <2> DEFINE n == Len(reader.results)
  <2>1. run = "over" /\ run' = "over" /\ onDisk' = onDisk /\ tail' = tail
    BY <1>6, ReadEffect DEF ReadOneFrame, FilesTypes
  <2>2. /\ reader'.at = IF reader.at < onDisk THEN reader.at + 1 ELSE reader.at
        /\ reader'.eof <=> reader.eof \/ reader.at >= onDisk
        /\ reader'.results = Append(reader.results, reader'.buffer)
        /\ reader.eof => reader'.buffer = reader.buffer
        /\ ~reader.eof /\ reader.at < onDisk => reader'.buffer = reader.at + 1
        /\ ~reader.eof /\ reader.at >= onDisk /\ tail = "none" => reader'.buffer = Empty
    BY <1>6, ReadEffect DEF FilesTypes
  <2>3. /\ n \in Nat /\ onDisk \in Nat /\ Len(reader'.results) = n + 1
        /\ \A i \in 1..n : reader'.results[i] = reader.results[i]
        /\ reader'.results[n + 1] = reader'.buffer
    BY <2>2, FileBounds DEF FilesTypes, ReaderTypes
  <2>4. /\ reader.at = IF n <= onDisk THEN n ELSE onDisk
        /\ reader.eof <=> n > onDisk
        /\ \A i \in 1..n : reader.results[i] = IF i <= onDisk THEN i ELSE reader.buffer
        /\ n > onDisk /\ tail = "none" => reader.buffer = Empty
    BY DEF ReaderInv
  <2> HIDE DEF n
  <2>5. reader'.at = IF n + 1 <= onDisk THEN n + 1 ELSE onDisk
    BY <2>2, <2>3, <2>4
  <2>6. reader'.eof <=> n + 1 > onDisk
    BY <2>2, <2>3, <2>4
  <2>7. \A i \in 1..(n + 1) : reader'.results[i] = IF i <= onDisk THEN i ELSE reader'.buffer
    <3> TAKE i \in 1..(n + 1)
    <3>1. CASE i = n + 1
      BY <3>1, <2>2, <2>3, <2>4
    <3>2. CASE i # n + 1
      <4>1. i \in 1..n /\ reader'.results[i] = reader.results[i]
        BY <3>2, <2>3
      <4>2. i > onDisk => reader.eof
        BY <4>1, <2>3, <2>4
      <4>3. reader.results[i] = IF i <= onDisk THEN i ELSE reader.buffer
        BY <4>1, <2>4
      <4>4. i > onDisk => reader'.buffer = reader.buffer
        BY <4>2, <2>2
      <4> QED
        BY <4>1, <4>3, <4>4, <2>3
    <3> QED
      BY <3>1, <3>2
  <2>8. n + 1 > onDisk /\ tail = "none" => reader'.buffer = Empty
    BY <2>2, <2>3, <2>4
  <2> QED
    BY <2>1, <2>3, <2>5, <2>6, <2>7, <2>8 DEF ReaderInv
<1>7. CASE ResetReader
  <2>1. /\ reader' = [reader EXCEPT !.at = 0, !.eof = FALSE, !.results = <<>>]
        /\ run' = "over" /\ onDisk' = onDisk /\ onDisk \in Nat
    BY <1>7, FileBounds DEF ResetReader, FilesTypes, ReaderTypes
  <2>2. reader'.at = 0 /\ ~reader'.eof /\ reader'.results = <<>>
    BY <2>1 DEF FilesTypes, ReaderTypes
  <2> QED
    BY <2>1, <2>2 DEF ReaderInv
<1>8. ASSUME NEW s \in Scopes, BeginScope(s) \/ EndScope(s) PROVE ReaderInv'
  <2>1. UNCHANGED <<onDisk, tail, reader, run>>
    BY <1>8 DEF BeginScope, EndScope, Log, rawVars
  <2> QED
    BY <2>1, ReaderStays
<1>9. CASE UNCHANGED filesVars
  <2>1. UNCHANGED <<onDisk, tail, reader, run>>
    BY <1>9 DEF filesVars, rawVars
  <2> QED
    BY <2>1, ReaderStays
<1> QED
  BY <1>1, <1>2, <1>3, <1>4, <1>5, <1>6, <1>7, <1>8, <1>9 DEF FilesNext

(***************************************************************************)
(* RawFrameReader gives the frames of the file in order, then empty ones;  *)
(* behind a cut the same buffer again and again, also after a reset.       *)
(***************************************************************************)
THEOREM FramesAreReadInOrder == FilesSpec => []ReadsInOrder
<1>1. FilesInit => ReaderInv
  BY DEF FilesInit, ReaderInv, Closed, Empty
<1>2. ReaderInv /\ FilesTypes => ReadsInOrder
  <2> SUFFICES ASSUME ReaderInv, FilesTypes PROVE ReadsInOrder
    OBVIOUS
  <2>1. reader.results \in Seq(0..Torn) /\ onDisk \in Nat
    BY FileBounds DEF FilesTypes, ReaderTypes
  <2> SUFFICES ASSUME NEW i \in 1..Len(reader.results)
               PROVE  /\ i <= onDisk => reader.results[i] = i
                      /\ i > onDisk /\ tail = "none" => reader.results[i] = Empty
                      /\ i > onDisk => reader.results[i] = reader.results[onDisk + 1]
    BY <2>1 DEF ReadsInOrder
  <2>2. i > onDisk => onDisk + 1 \in 1..Len(reader.results) /\ Len(reader.results) > onDisk
    BY <2>1
  <2> QED
    BY <2>1, <2>2 DEF ReaderInv
<1> QED
  BY <1>1, <1>2, ReaderStep, FilesTyping, PTL DEF FilesSpec

-----------------------------------------------------------------------------

LEMMA ConcatAppend ==
  ASSUME NEW S, NEW a \in Seq(S), NEW b \in Seq(S), NEW e \in S
  PROVE  a \o Append(b, e) = Append(a \o b, e)
<1>1. /\ <<e>> \in Seq(S) /\ Append(b, e) = b \o <<e>> /\ a \o b \in Seq(S)
  BY AppendIsConcat, ConcatProperties
<1>2. Append(a \o b, e) = (a \o b) \o <<e>>
  BY <1>1, AppendIsConcat
<1> QED
  BY <1>1, <1>2, ConcatAssociative

\* For every scope the log, with what its stream holds, tells how often it is open.
Logged == \A s \in Scopes : Balance(Read(disk \o held), s) = open[s]

(***************************************************************************)
(* The log tells of each scope how often it is open as long as no line of  *)
(* this run is lost, wherever the stream was flushed.                      *)
(***************************************************************************)
LogInv ==
  /\ run # "run" => held = <<>>
  /\ run = "run" => ~lost /\ verdict = "none"
  /\ ~lost /\ ~rotated => Logged

LEMMA LogStays ==
  ASSUME LogInv, VerdictRight, UNCHANGED <<disk, held, open, verdict, lost, rotated>>,
         run' = "run" <=> run = "run"
  PROVE  LogInv' /\ VerdictRight'
BY DEF LogInv, VerdictRight, Logged

LEMMA Logging ==
  ASSUME LogInv, LogTypes, NEW s \in Scopes, NEW line \in Line,
         run = "run", UNCHANGED <<run, disk, lost, rotated, verdict>>,
         held' = Append(held, line),
         \/ line = Begin(s) /\ open' = [open EXCEPT ![s] = @ + 1]
         \/ line = End(s) /\ open' = [open EXCEPT ![s] = @ - 1]
  PROVE  LogInv' /\ VerdictRight'
<1> DEFINE file == disk \o held
           content == Read(file)
<1>1. /\ file \in Seq(Line) /\ content \in Seq(Line) /\ line # New
      /\ disk' \o held' = Append(file, line)
  <2>1. file \in Seq(Line) /\ disk \in Seq(Line) /\ held \in Seq(Line)
    BY ConcatProperties DEF LogTypes
  <2>2. disk' \o held' = Append(file, line)
    BY <2>1, ConcatAppend
  <2>3. line # New
    BY DEF Begin, End, New
  <2> QED
    BY <2>1, <2>2, <2>3, ReadAppend
<1>2. Read(disk' \o held') = Append(content, line)
  BY <1>1, ReadAppend
<1> HIDE DEF content
<1>3. ASSUME Logged, NEW t \in Scopes PROVE Balance(Append(content, line), t) = open'[t]
  <2>1. Balance(content, t) = open[t]
    BY <1>3 DEF Logged, content
  <2>2. Balance(Append(content, line), t)
          = Balance(content, t) + (IF line = Begin(t) THEN 1 ELSE 0) - (IF line = End(t) THEN 1 ELSE 0)
    BY <1>1, BalanceAppend
  <2>3. open[t] \in Nat /\ open'[t] = IF t # s THEN open[t]
                                      ELSE IF line = Begin(s) THEN open[s] + 1 ELSE open[s] - 1
    BY DEF LogTypes, Begin, End
  <2>4. /\ line = Begin(t) <=> t = s /\ line = Begin(s)
        /\ line = End(t) <=> t = s /\ line = End(s)
        /\ line = Begin(s) <=> line # End(s)
    BY DEF Begin, End
  <2> QED
    BY <2>1, <2>2, <2>3, <2>4
<1>4. Logged => Logged'
  BY <1>2, <1>3 DEF Logged
<1> QED
  BY <1>4 DEF LogInv, VerdictRight

LEMMA StartLogged == ASSUME LogTypes, held = <<>>, Start PROVE Logged'
<1>1. disk' \o held' = Append(disk, New) /\ open' = [s \in Scopes |-> 0]
  BY NewLine, AppendIsConcat DEF Start, LogTypes
<1>2. Read(disk' \o held') = <<>>
  BY <1>1, NewLine, ReadAppend DEF LogTypes
<1> QED
  BY <1>1, <1>2, BalanceEmpty DEF Logged

LEMMA LogStep == LogInv /\ VerdictRight /\ LogTypes /\ [FilesNext]_filesVars => LogInv' /\ VerdictRight'
<1> SUFFICES ASSUME LogInv, VerdictRight, LogTypes, [FilesNext]_filesVars
             PROVE  LogInv' /\ VerdictRight'
  OBVIOUS
<1>1. CASE EditConfig \/ Launch \/ DumpConfig \/ ReadConfig \/ CreateConfig \/ WriteConfig \/ UseDefaults
  <2>1. UNCHANGED <<disk, held, open, verdict, lost, rotated>> /\ run # "run" /\ run' # "run"
    BY <1>1 DEF EditConfig, Launch, DumpConfig, ReadConfig, CreateConfig, WriteConfig, UseDefaults,
                logVars, Idle
  <2> QED
    BY <2>1, LogStays
<1>2. CASE Start
  <2>1. held = <<>> /\ run' = "run" /\ ~lost' /\ verdict' = "none"
    BY <1>2 DEF Start, LogInv
  <2>2. Logged'
    BY <1>2, <2>1, StartLogged
  <2> QED
    BY <2>1, <2>2 DEF LogInv, VerdictRight
<1>3. CASE FlushLog \/ Finish
  <2>1. /\ run = "run" /\ disk' = disk \o held /\ held' = <<>> /\ open' = open
        /\ UNCHANGED <<lost, rotated, verdict>>
    BY <1>3 DEF FlushLog, Finish
  <2>2. disk' \o held' = disk \o held
    BY <2>1, ConcatProperties, ConcatEmptySeq DEF LogTypes
  <2>3. Logged => Logged'
    BY <2>1, <2>2 DEF Logged
  <2> QED
    BY <2>1, <2>3 DEF LogInv, VerdictRight
<1>4. CASE Rotate
  BY <1>4 DEF Rotate, LogInv, VerdictRight
<1>5. CASE Kill
  <2>1. CASE run = "run"
    <3>1. /\ run' = "over" /\ held' = <<>> /\ disk' = disk /\ open' = open
          /\ UNCHANGED <<rotated, verdict>> /\ verdict = "none" /\ ~lost
          /\ lost' <=> held # <<>>
      BY <1>5, <2>1 DEF Kill, LogInv
    <3>2. held = <<>> /\ Logged => Logged'
      BY <3>1 DEF Logged
    <3> QED
      BY <3>1, <3>2 DEF LogInv, VerdictRight
  <2>2. CASE run # "run"
    <3>1. /\ UNCHANGED <<disk, open, verdict, lost, rotated>> /\ held' = <<>> /\ held = <<>>
          /\ run' = "over"
      BY <1>5, <2>2 DEF Kill, LogInv
    <3> QED
      BY <3>1, <2>2, LogStays
  <2> QED
    BY <2>1, <2>2
<1>6. CASE Check
  <2>1. /\ run = "over" /\ run' = "over" /\ held = <<>>
        /\ UNCHANGED <<disk, held, open, lost, rotated>>
        /\ verdict' = Summarize(Read(disk))
    BY <1>6 DEF Check, LogInv
  <2>2. disk \o held = disk
    BY <2>1, ConcatEmptySeq DEF LogTypes
  <2>3. Logged => (verdict' = "stuck" <=> \E s \in Scopes : open[s] > 0)
    <3> SUFFICES ASSUME Logged PROVE verdict' = "stuck" <=> \E s \in Scopes : open[s] > 0
      OBVIOUS
    <3>1. \A s \in Scopes : Balance(Read(disk), s) = open[s] /\ open[s] \in Nat
      BY <2>2 DEF Logged, LogTypes
    <3>2. CASE Read(disk) = <<>>
      <4>1. \A s \in Scopes : open[s] = 0
        BY <3>1, <3>2, BalanceEmpty
      <4> QED
        BY <4>1, <3>2, <2>1 DEF Summarize
    <3>3. CASE Read(disk) # <<>>
      <4>1. verdict' = "stuck" <=> ~(\A s \in Scopes : Balance(Read(disk), s) = 0)
        BY <3>3, <2>1 DEF Summarize
      <4> QED
        BY <4>1, <3>1
    <3> QED
      BY <3>2, <3>3
  <2>4. Logged => Logged'
    BY <2>1 DEF Logged
  <2> QED
    BY <2>1, <2>3, <2>4 DEF LogInv, VerdictRight
<1>7. CASE WriteFrame \/ FlushFrames \/ ReadOneFrame \/ ResetReader
  <2>1. UNCHANGED <<disk, held, open, verdict, lost, rotated, run>>
    BY <1>7 DEF WriteFrame, FlushFrames, ReadOneFrame, ResetReader, logVars
  <2> QED
    BY <2>1, LogStays
<1>8. ASSUME NEW s \in Scopes, BeginScope(s) PROVE LogInv' /\ VerdictRight'
  <2>1. Begin(s) \in Line
    BY DEF Begin, Line, Kinds
  <2> QED
    BY <1>8, <2>1, Logging DEF BeginScope, Log, Begin
<1>9. ASSUME NEW s \in Scopes, EndScope(s) PROVE LogInv' /\ VerdictRight'
  <2>1. End(s) \in Line
    BY DEF End, Line, Kinds
  <2> QED
    BY <1>9, <2>1, Logging DEF EndScope, Log, End
<1>10. CASE UNCHANGED filesVars
  <2>1. UNCHANGED <<disk, held, open, verdict, lost, rotated, run>>
    BY <1>10 DEF filesVars, logVars
  <2> QED
    BY <2>1, LogStays
<1> QED
  BY <1>1, <1>2, <1>3, <1>4, <1>5, <1>6, <1>7, <1>8, <1>9, <1>10 DEF FilesNext

(***************************************************************************)
(* srs-check says "stuck" exactly if a scope of the last run is open, for  *)
(* every log of every number of runs, finished or killed, that is complete *)
(* and was not rotated in that run.                                        *)
(***************************************************************************)
THEOREM VerdictIsRight == FilesSpec => []VerdictRight
<1>1. FilesInit => LogInv /\ VerdictRight
  <2> SUFFICES ASSUME FilesInit PROVE LogInv /\ VerdictRight
    OBVIOUS
  <2>1. Read(<<>>) = <<>>
    <3>1. <<>> \in Seq(Line) /\ Len(<<>>) = 0
      OBVIOUS
    <3>2. PICK start \in 0..0 : Read(<<>>) = SubSeq(<<>>, start + 1, 0)
      BY <3>1, StartsOf
    <3> QED
      BY <3>2, SubSeqEmpty
  <2>2. disk \o held = <<>> /\ open = [s \in Scopes |-> 0]
    BY DEF FilesInit
  <2>3. Logged
    BY <2>1, <2>2, BalanceEmpty DEF Logged
  <2> QED
    BY <2>3 DEF FilesInit, LogInv, VerdictRight
<1>2. FilesTypes => LogTypes
  BY DEF FilesTypes
<1> QED
  BY <1>1, <1>2, LogStep, FilesTyping, PTL DEF FilesSpec
=============================================================================
