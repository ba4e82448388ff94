----------------------------- MODULE AppLifecycle -----------------------------
(***************************************************************************)
(* The life of the application: the calls main makes in each action mode,  *)
(* the signal or timer handler that runs exit_and_switch_off, the workflow *)
(* thread, the data sockets, the two monitors, and the destruction of App  *)
(* and its members in the inverse order of their declaration.              *)
(*                                                                         *)
(* The workflow is what the module Workflow shows of it (it returns once   *)
(* the empty buffers were sent, but the wait for the diagram and the scan  *)
(* before that may never end), a round of commands what FecControl shows   *)
(* (its future is ready before its socket is closed).                      *)
(*                                                                         *)
(* The threads interleave freely.  What goes wrong because a step came too *)
(* early or too late is remembered in mishaps, and the properties say what *)
(* holds unless one of the mishaps they name has happened:                 *)
(*   "on"       the exit handler looked for the future of switch_on before *)
(*              there was one, or in vain for as long as it waits          *)
(*   "monitor"  the frame monitor was launched after stop_monitor          *)
(*   "socket"   a data socket was created after the exit handler began to  *)
(*              close them, or cancelled before it awaited its timer       *)
(*   "report"   a data socket was cancelled while it handled a frame       *)
(*   "fault"    a receive failed                                           *)
(*   "timeout"  the wait for a data socket to close ran out                *)
(*   "lag"      a monitor outlived the sleep of the exit handler, or was   *)
(*              launched after it                                          *)
(*   "wakeup"   the notification of start fell between the test of the     *)
(*              exit handler and its sleep                                 *)
(*   "nested"   the scan for idle lines met a turn nested in a corun       *)
(***************************************************************************)
EXTENDS Naturals, Sequences, FiniteSets

CONSTANTS
  NPorts,      \* number of fec_data_receive_ports
  FrameCheck   \* enable_frame_counter_check

ASSUME AppAssumption == NPorts \in Nat /\ FrameCheck \in BOOLEAN

Ports == 1..NPorts

Modes == {"all", "read_only", "acq_on", "acq_off", "none"}
Rounds == {"on", "off"}

VARIABLES
  mode,       \* action_mode_enum
  main,       \* the call the main thread is in
  port,       \* the next one in read_data
  work,       \* the workflow thread in AnalysisHandle::start
  sockets,    \* data_sockets_
  sock,       \* sock[p]: where the listen coroutine of a data socket is
  cancelled,  \* the sockets whose listen coroutine was cancelled
  reported,   \* the sockets whose result the report has
  monitor,    \* DataMonitor::print_cycle
  isCancelled,\* its is_cancelled_
  misses,     \* FrameMissMonitor
  round,      \* switch_on_future_ and switch_off_future_
  exit,       \* where exit_and_switch_off is
  closing,    \* the data sockets its loop has not come to
  mishaps

mainVars == <<mode, main, port>>
socketVars == <<sockets, sock, cancelled, reported>>
monitorVars == <<monitor, isCancelled, misses>>
exitVars == <<exit, closing>>
vars == <<mainVars, work, socketVars, monitorVars, round, exitVars, mishaps>>

Init ==
  /\ mode \in Modes
  /\ main = "init"
  /\ port = 1
  /\ work = "none"
  /\ sockets = <<>>
  /\ sock = [p \in Ports |-> "none"]
  /\ cancelled = {}
  /\ reported = {}
  /\ monitor = "absent"
  /\ isCancelled = FALSE
  /\ misses = "absent"
  /\ round = [r \in Rounds |-> "none"]
  /\ exit = "idle"
  /\ closing = <<>>
  /\ mishaps = {}

\* A mishap that happens if the condition holds.
Mishap(name, condition) == mishaps' = IF condition THEN mishaps \cup {name} ELSE mishaps

-----------------------------------------------------------------------------
(* The main thread *)

\* App::init: the handler is created and the signal or the timer awaited.
InitApp ==
  /\ main = "init"
  /\ main' = CASE mode \in {"all", "read_only"} -> "workflow"
               [] mode = "acq_on" -> "on"
               [] mode = "acq_off" -> "off"
               [] OTHER -> "statistics"
  /\ UNCHANGED <<mode, port, work, socketVars, monitorVars, round, exitVars, mishaps>>

\* The control port is one of the data ports: the exception leaves main, which
\* destroys App before it reports it.  No signal is awaited yet.
InitThrows ==
  /\ main = "init"
  /\ main' = "unwinding"
  /\ UNCHANGED <<mode, port, work, socketVars, monitorVars, round, exitVars, mishaps>>

StartWorkflow ==
  /\ main = "workflow"
  /\ main' = "read"
  /\ work' = "started"
  /\ UNCHANGED <<mode, port, socketVars, monitorVars, round, exitVars, mishaps>>

\* read_data: one port after the other; a port that is not available is skipped.
CreateSocket ==
  /\ main = "read"
  /\ port <= NPorts
  /\ port' = port + 1
  /\ \/ /\ sockets' = Append(sockets, port)
        /\ sock' = [sock EXCEPT ![port] = "bound"]
        /\ Mishap("socket", exit \notin {"idle", "clock", "flag", "future", "sleep"})
     \/ UNCHANGED <<sockets, sock, mishaps>>
  /\ UNCHANGED <<mode, main, work, cancelled, reported, monitorVars, round, exitVars>>

ReadDataReturns ==
  /\ main = "read"
  /\ port > NPorts
  /\ main' = IF mode = "all" THEN "on" ELSE "wait"
  /\ UNCHANGED <<mode, port, work, socketVars, monitorVars, round, exitVars, mishaps>>

\* The local port may be taken; a round of this program whose socket is not
\* closed does take it.
Switch(r) ==
  /\ round' \in {[round EXCEPT ![r] = "failed"], [round EXCEPT ![r] = "sent"]}
  /\ round'[r] = "failed" \/ \A q \in Rounds : round[q] \in {"none", "failed", "closed"}

SwitchOn ==
  /\ main = "on"
  /\ Switch("on")
  /\ main' = IF mode = "all" THEN "wait" ELSE "statistics"
  /\ Mishap("on", exit \notin {"idle", "clock", "flag", "future"})
  /\ UNCHANGED <<mode, port, work, socketVars, monitorVars, exitVars>>

\* The mode acq_off.
SwitchOffOnly ==
  /\ main = "off"
  /\ Switch("off")
  /\ main' = "statistics"
  /\ UNCHANGED <<mode, port, work, socketVars, monitorVars, exitVars, mishaps>>

ReturnAtOnce ==
  /\ main = "wait"
  /\ main' = "statistics"
  /\ UNCHANGED <<mode, port, work, socketVars, monitorVars, round, exitVars, mishaps>>

WaitForWorkflow ==
  /\ main = "wait"
  /\ work = "over"
  /\ main' = "statistics"
  /\ UNCHANGED <<mode, port, work, socketVars, monitorVars, round, exitVars, mishaps>>

\* ~App registers the results of the workflow, through a null pointer if
\* start has not constructed task_diagram_.
PrintStatistics ==
  /\ main \in {"statistics", "unwinding"}
  /\ main' = IF work \in {"none", "started"} THEN "crashed" ELSE "handler"
  /\ UNCHANGED <<mode, port, work, socketVars, monitorVars, round, exitVars, mishaps>>

\* data_sockets_ goes first, but the coroutines own the sockets as well.
DestroyHandler ==
  /\ main = "handler"
  /\ main' = "future"
  /\ UNCHANGED <<mode, port, work, socketVars, monitorVars, round, exitVars, mishaps>>

\* action_after_destructor: the work guard is reset, the future of switch_off
\* awaited, if there is one, for a limited time.
WaitForSwitchOff ==
  /\ main = "future"
  /\ main' = "join"
  /\ UNCHANGED <<mode, port, work, socketVars, monitorVars, round, exitVars, mishaps>>

Unfinished(p) == sock[p] \notin {"none", "closed"}

\* The context has run out of work, and the report is printed.
JoinWorkingThread ==
  /\ main = "join"
  /\ exit = "over"
  /\ monitor \in {"absent", "ended"}
  /\ misses \in {"absent", "ended"}
  /\ \A p \in Ports : ~Unfinished(p)
  /\ \A r \in Rounds : round[r] \notin {"sent", "ready"}
  /\ main' = "ended"
  /\ UNCHANGED <<mode, port, work, socketVars, monitorVars, round, exitVars, mishaps>>

-----------------------------------------------------------------------------
(* The workflow thread *)

BuildDiagram ==
  /\ work = "started"
  /\ work' = "built"
  /\ UNCHANGED <<mainVars, socketVars, monitorVars, round, exitVars, mishaps>>

\* The data monitor only prints in one of the print modes.
LaunchMonitors ==
  /\ work = "built"
  /\ work' = "launched"
  /\ monitor' \in {monitor, "testing"}
  /\ misses' = IF FrameCheck THEN "running" ELSE misses
  /\ mishaps' = mishaps \cup {m \in {"monitor", "lag"} :
       IF m = "lag" THEN exit \notin {"idle", "clock", "flag", "future", "sleep"}
                    ELSE FrameCheck /\ exit \notin {"idle", "clock", "flag"}}
  /\ UNCHANGED <<mainVars, isCancelled, socketVars, round, exitVars>>

\* notify_all, without the mutex: it only wakes a thread that sleeps already.  Then
\* the pipeline runs.
Notify ==
  /\ work = "launched"
  /\ work' = "running"
  /\ exit' = IF exit = "asleep" THEN "stop" ELSE exit
  /\ Mishap("wakeup", exit = "doze")
  /\ UNCHANGED <<mainVars, socketVars, monitorVars, round, closing>>

\* The pipeline has found the empty buffers.
WorkflowReturns ==
  /\ work = "running"
  /\ exit \in {"unlock", "over"}
  /\ work' = "over"
  /\ UNCHANGED <<mainVars, socketVars, monitorVars, round, exitVars, mishaps>>

-----------------------------------------------------------------------------
(* Coroutines of the io context *)

\* The listen operation is spawned: both coroutines get to their first co_await.
StartListening(p) ==
  /\ sock[p] = "bound"
  /\ sock' = [sock EXCEPT ![p] = "receiving"]
  /\ UNCHANGED <<mainVars, work, sockets, cancelled, reported, monitorVars, round, exitVars, mishaps>>

Datagram(p) ==
  /\ sock[p] = "receiving"
  /\ p \notin cancelled
  /\ sock' = [sock EXCEPT ![p] = "handling"]
  /\ UNCHANGED <<mainVars, work, sockets, cancelled, reported, monitorVars, round, exitVars, mishaps>>

\* read_data_once returns; a co_await throws if the coroutine was cancelled.
Handled(p) ==
  /\ sock[p] = "handling"
  /\ sock' = [sock EXCEPT ![p] = IF p \in cancelled THEN "closed" ELSE "receiving"]
  /\ Mishap("report", p \in cancelled)
  /\ UNCHANGED <<mainVars, work, sockets, cancelled, reported, monitorVars, round, exitVars>>

\* The receive ends with an error: it was cancelled, or it failed.
ReceiveEnds(p) ==
  /\ sock[p] = "receiving"
  /\ sock' = [sock EXCEPT ![p] = "reporting"]
  /\ Mishap("fault", p \notin cancelled)
  /\ UNCHANGED <<mainVars, work, sockets, cancelled, reported, monitorVars, round, exitVars>>

CloseUnreported(p) ==
  /\ sock[p] = "reporting"
  /\ sock' = [sock EXCEPT ![p] = "closed"]
  /\ UNCHANGED <<mainVars, work, sockets, cancelled, reported, monitorVars, round, exitVars, mishaps>>

\* before_socket_close appends to the report, then the socket is closed.
ReportAndClose(p) ==
  /\ sock[p] = "reporting"
  /\ sock' = [sock EXCEPT ![p] = "closed"]
  /\ reported' = reported \cup {p}
  /\ UNCHANGED <<mainVars, work, sockets, cancelled, monitorVars, round, exitVars, mishaps>>

\* DataMonitor::print_cycle: the test of is_cancelled_, the wait, the printing.
PrintCycle ==
  /\ \/ monitor = "testing" /\ monitor' = IF isCancelled THEN "ended" ELSE "arming"
     \/ monitor = "arming" /\ monitor' = "waiting"
     \/ monitor = "waiting" /\ monitor' = "testing"
     \/ monitor = "aborted" /\ monitor' = "ended"
  /\ UNCHANGED <<mainVars, work, isCancelled, misses, socketVars, round, exitVars, mishaps>>

\* FrameMissMonitor::main_loop sees its flag; until then it keeps its thread.
MissLoopEnds ==
  /\ misses = "stopped"
  /\ misses' = "ended"
  /\ UNCHANGED <<mainVars, work, monitor, isCancelled, socketVars, round, exitVars, mishaps>>

\* The future of cancel_listen_after, then the end of the listen coroutine.
RoundAdvances(r) ==
  /\ \/ round[r] = "sent" /\ round' = [round EXCEPT ![r] = "ready"]
     \/ round[r] = "ready" /\ round' = [round EXCEPT ![r] = "closed"]
  /\ UNCHANGED <<mainVars, work, socketVars, monitorVars, exitVars, mishaps>>

-----------------------------------------------------------------------------
(* exit_and_switch_off, on a thread of the io context *)

\* SIGINT, SIGTERM or the end of the run time.
Signal ==
  /\ exit = "idle"
  /\ main \notin {"init", "unwinding"}
  /\ exit' = "clock"
  /\ UNCHANGED <<mainVars, work, socketVars, monitorVars, round, closing, mishaps>>

\* DataMonitor::stop cancels the clock ...
StopClock ==
  /\ exit = "clock"
  /\ exit' = "flag"
  /\ monitor' = IF monitor = "waiting" THEN "aborted" ELSE monitor
  /\ UNCHANGED <<mainVars, work, isCancelled, misses, socketVars, round, closing, mishaps>>

StopClockOnly ==
  /\ exit = "flag"
  /\ exit' = "future"
  /\ isCancelled' = TRUE
  /\ UNCHANGED <<mainVars, work, monitor, misses, socketVars, round, closing, mishaps>>

\* ... and then sets its flag; the frame monitor is stopped if it exists.
StopMonitors ==
  /\ exit = "flag"
  /\ exit' = "future"
  /\ isCancelled' = TRUE
  /\ misses' = IF misses = "running" THEN "stopped" ELSE misses
  /\ UNCHANGED <<mainVars, work, monitor, socketVars, round, closing, mishaps>>

DoNotWait ==
  /\ exit = "future"
  /\ exit' = "sleep"
  /\ \/ round["on"] \in {"ready", "closed"} /\ Switch("off")
     \/ round["on"] \notin {"ready", "closed"} /\ UNCHANGED round
  /\ UNCHANGED <<mainVars, work, socketVars, monitorVars, closing, mishaps>>

\* wait_for_switch_action(switch_on_future_): ready, timeout, or no future.
SwitchOffIfOn ==
  /\ exit = "future"
  /\ exit' = "sleep"
  /\ \/ round["on"] \in {"ready", "closed"} /\ Switch("off")
     \/ round["on"] \notin {"ready", "closed"} /\ UNCHANGED round
  /\ Mishap("on", round["on"] = "sent")
  /\ UNCHANGED <<mainVars, work, socketVars, monitorVars, closing>>

MonitorsRun == monitor \notin {"absent", "ended"} \/ misses \notin {"absent", "ended"}

\* time_wait_after_acq_off_ms; then the loop of wait_for_reading_finish begins.
Sleep ==
  /\ exit = "sleep"
  /\ exit' = "close"
  /\ closing' = sockets
  /\ Mishap("lag", MonitorsRun)
  /\ UNCHANGED <<mainVars, work, socketVars, monitorVars, round>>

\* DataSocket::cancel: a timer that nobody awaits is not cancelled.
CancelSocket ==
  /\ exit = "close"
  /\ closing # <<>>
  /\ exit' = "await"
  /\ LET p == Head(closing)
     IN  /\ cancelled' = IF sock[p] = "bound" THEN cancelled ELSE cancelled \cup {p}
         /\ Mishap("socket", sock[p] = "bound")
  /\ UNCHANGED <<mainVars, work, sockets, sock, reported, monitorVars, round, closing>>

GoOn ==
  /\ exit = "await"
  /\ exit' = "close"
  /\ closing' = Tail(closing)
  /\ UNCHANGED <<mainVars, work, socketVars, monitorVars, round, mishaps>>

\* The socket has closed, or the wait runs out.
AwaitSocket ==
  /\ exit = "await"
  /\ exit' = "close"
  /\ closing' = Tail(closing)
  /\ Mishap("timeout", sock[Head(closing)] # "closed")
  /\ UNCHANGED <<mainVars, work, socketVars, monitorVars, round>>

CloseNone ==
  /\ exit = "close"
  /\ exit' = "stop"
  /\ UNCHANGED <<mainVars, work, socketVars, monitorVars, round, closing, mishaps>>

SocketsDone ==
  /\ exit = "close"
  /\ closing = <<>>
  /\ exit' = "stop"
  /\ UNCHANGED <<mainVars, work, socketVars, monitorVars, round, closing, mishaps>>

\* stop_workflow: the wait for the diagram tests its predicate ...
TestDiagram ==
  /\ exit = "stop"
  /\ exit' = IF work \in {"none", "started"} THEN "doze" ELSE "scan"
  /\ UNCHANGED <<mainVars, work, socketVars, monitorVars, round, closing, mishaps>>

\* ... and then sleeps.
FallAsleep ==
  /\ exit = "doze"
  /\ exit' = "asleep"
  /\ UNCHANGED <<mainVars, work, socketVars, monitorVars, round, closing, mishaps>>

SpuriousWake ==
  /\ exit = "asleep"
  /\ exit' = "stop"
  /\ UNCHANGED <<mainVars, work, socketVars, monitorVars, round, closing, mishaps>>

\* Every line was seen idle, before the pipeline runs or between two frames: the empty
\* buffers are sent ...
StopWorkflow ==
  /\ exit = "scan"
  /\ exit' = "unlock"
  /\ UNCHANGED <<mainVars, work, socketVars, monitorVars, round, closing, mishaps>>

\* ... but the scan does not end while a line waits for a frame inside the corun of
\* another one.
ScanHangs ==
  /\ exit = "scan"
  /\ work = "running"
  /\ exit' = "hung"
  /\ Mishap("nested", TRUE)
  /\ UNCHANGED <<mainVars, work, socketVars, monitorVars, round, closing>>

\* stop_workflow unlocks its mutex.
Unlock ==
  /\ exit = "unlock"
  /\ exit' = "over"
  /\ UNCHANGED <<mainVars, work, socketVars, monitorVars, round, closing, mishaps>>

-----------------------------------------------------------------------------

Main ==
  \/ InitApp \/ InitThrows \/ StartWorkflow \/ CreateSocket
  \/ ReadDataReturns \/ SwitchOn \/ SwitchOffOnly \/ WaitForWorkflow \/ PrintStatistics
  \/ DestroyHandler \/ WaitForSwitchOff \/ JoinWorkingThread

Workflow == BuildDiagram \/ LaunchMonitors \/ Notify \/ WorkflowReturns

Listen(p) == StartListening(p) \/ Handled(p) \/ ReceiveEnds(p) \/ ReportAndClose(p)

Exit ==
  \/ StopClock \/ StopMonitors \/ SwitchOffIfOn \/ Sleep \/ CancelSocket \/ AwaitSocket
  \/ SocketsDone \/ TestDiagram \/ FallAsleep \/ StopWorkflow \/ ScanHangs \/ Unlock

Next ==
  /\ main # "crashed"
  /\ \/ Main \/ Workflow \/ Exit \/ Signal \/ SpuriousWake \/ PrintCycle \/ MissLoopEnds
     \/ \E p \in Ports : Listen(p) \/ Datagram(p)
     \/ \E r \in Rounds : RoundAdvances(r)

(***************************************************************************)
(* The three threads run on unless they wait, and the pool resumes every   *)
(* coroutine: of its four threads the exit handler blocks one and the      *)
(* frame monitor another.  Nothing is assumed of signals, datagrams,       *)
(* receives that fail and sleeping threads that wake up by themselves.     *)
(***************************************************************************)
Alive(A) == main # "crashed" /\ A

Fairness ==
  /\ WF_vars(Alive(Main)) /\ WF_vars(Alive(Workflow)) /\ WF_vars(Alive(Exit))
  /\ WF_vars(Alive(PrintCycle)) /\ WF_vars(Alive(MissLoopEnds))
  /\ \A p \in Ports : /\ WF_vars(Alive(StartListening(p) \/ Handled(p) \/ ReportAndClose(p)))
                      /\ WF_vars(Alive(p \in cancelled /\ ReceiveEnds(p)))
  /\ \A r \in Rounds : WF_vars(Alive(RoundAdvances(r)))

Spec == Init /\ [][Next]_vars /\ Fairness

-----------------------------------------------------------------------------

TypeOK ==
  /\ mode \in Modes
  /\ main \in {"init", "workflow", "read", "on", "off", "wait", "statistics", "unwinding",
               "crashed", "handler", "future", "join", "ended"}
  /\ port \in 1..(NPorts + 1)
  /\ work \in {"none", "started", "built", "launched", "running", "over"}
  /\ sockets \in Seq(Ports)
  /\ sock \in [Ports -> {"none", "bound", "receiving", "handling", "reporting", "closed"}]
  /\ cancelled \in SUBSET Ports
  /\ reported \in SUBSET Ports
  /\ monitor \in {"absent", "testing", "arming", "waiting", "aborted", "ended"}
  /\ isCancelled \in BOOLEAN
  /\ misses \in {"absent", "running", "stopped", "ended"}
  /\ round \in [Rounds -> {"none", "sent", "ready", "closed", "failed"}]
  /\ exit \in {"idle", "clock", "flag", "future", "sleep", "close", "await", "stop",
               "doze", "asleep", "scan", "hung", "unlock", "over"}
  /\ closing \in Seq(Ports)
  /\ mishaps \in SUBSET {"on", "monitor", "socket", "report", "fault", "timeout", "lag",
                        "wakeup", "nested"}

(***************************************************************************)
(* ~App reads the results of the workflow through task_diagram_, which the *)
(* workflow thread constructs: once it was started, main has waited for it *)
(* to end by then.  So the pointer is null only if the workflow was never  *)
(* started, in another mode or after init has refused the configuration.   *)
(***************************************************************************)
CrashOnlyWithoutWorkflow == main = "crashed" => work = "none"

(***************************************************************************)
(* doc/CLIs/srs-control.rst:39: the option --action is "used to perform an *)
(* individual action, like switch on or off the FEC devices ("acq-on" or   *)
(* "acq-off")".  The program ends when it has performed one: it does not   *)
(* crash after it has sent the commands.                                   *)
(***************************************************************************)
ActionEnds ==
  mode \in {"acq_on", "acq_off"} /\ (\E r \in Rounds : round[r] \in {"sent", "ready", "closed"})
    => main # "crashed"

(***************************************************************************)
(* action_after_destructor reads switch_off_future_ on the main thread     *)
(* only after the exit handler has written it, on its own thread, if it    *)
(* ever does: the join of the workflow thread is all that orders the two.  *)
(***************************************************************************)
OffFutureSettled ==
  main \in {"future", "join", "ended"} => exit \in {"unlock", "over"}

(***************************************************************************)
(* Application.hpp:107: when the program ends, FECs that were switched on  *)
(* have been told to switch off, or the local port was not to be had,      *)
(* unless the exit handler looked too early for the future of switch_on.   *)
(***************************************************************************)
FecsToldOff ==
  main = "ended" /\ round["on"] = "closed" /\ "on" \notin mishaps
    => round["off"] \in {"closed", "failed"}

(***************************************************************************)
(* The AnalysisHandle outlives its users: when it is destroyed, no data    *)
(* socket and no monitor will touch it again, the workflow thread has left *)
(* it, and the exit handler has at most its mutex to unlock.  (That unlock *)
(* can come after the destruction.)                                        *)
(***************************************************************************)
HandlerOutlivesUsers ==
  main \in {"future", "join", "ended"} /\ mishaps \cap {"socket", "timeout", "lag"} = {}
    => /\ \A p \in Ports : ~Unfinished(p)
       /\ ~MonitorsRun
       /\ work = "over"
       /\ exit \in {"unlock", "over"}

(***************************************************************************)
(* The statistics are final when ~App registers them: every data socket    *)
(* that was created has closed and handed over its counts.                 *)
(***************************************************************************)
StatisticsFinal ==
  main \in {"handler", "future", "join", "ended"}
  /\ mishaps \cap {"socket", "report", "timeout"} = {}
    => \A i \in 1..Len(sockets) : sock[sockets[i]] = "closed" /\ sockets[i] \in reported

(***************************************************************************)
(* AppReport has no mutex: its vectors are appended to by one thread at a  *)
(* time, of the coroutines of the data sockets and main, because the exit  *)
(* handler closes the sockets one after the other before it stops the      *)
(* workflow.                                                               *)
(***************************************************************************)
ReportNotShared ==
  mishaps \cap {"socket", "fault", "timeout"} = {}
    => Cardinality({p \in Ports : sock[p] = "reporting"} \cup ({main} \cap {"statistics"})) <= 1

(***************************************************************************)
(* A signal ends the program, in whatever it was, unless the frame monitor *)
(* or a data socket came too late to be stopped, or stop_workflow hangs:   *)
(* start notified it before it slept, or its scan met a nested turn.       *)
(***************************************************************************)
StopEnds ==
  exit # "idle" ~>
    \/ main \in {"ended", "crashed"}
    \/ mishaps \cap {"monitor", "socket", "wakeup", "nested"} # {}
=============================================================================
