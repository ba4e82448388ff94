------------------------------ MODULE Workflow ------------------------------
(***************************************************************************)
(* The start and the stop of the analysis: AnalysisHandle::start on the    *)
(* workflow thread, the Taskflow pipeline of TaskDiagram on the executor's *)
(* workers, and the end of App::exit_and_switch_off (stop_monitor, closing *)
(* of the data sockets, stop_workflow) on the exit thread.                 *)
(*                                                                         *)
(* The buffer queue is its abstraction, FrameChannel, whose actions the    *)
(* steps here are made of.  Taskflow 3.10 is external:                     *)
(*   - a SERIAL pipe serves the lines in the order 0, 1, ..., 0, ...;      *)
(*   - Pipeflow::stop in a pipe that is not the first one throws, which    *)
(*     cancels the run and skips the rest of the pipe; a cancelled run     *)
(*     returns when no worker executes one of its tasks, and what was      *)
(*     still scheduled is dropped or not;                                  *)
(*   - a worker inside corun executes any task that is ready, another      *)
(*     line's next turn included (NestedCorun).                            *)
(***************************************************************************)
EXTENDS Integers, Sequences, FiniteSets

CONSTANTS
  Sockets, MaxFrames, Nothing,
  NLines,       \* output_split
  NestedCorun,  \* a worker inside corun may run the next turn of another line
  FrameCheck    \* enable_frame_counter_check

Lines == 0..(NLines - 1)

ASSUME WorkflowAssumption ==
  /\ IsFiniteSet(Sockets)
  /\ MaxFrames \in Nat
  /\ NLines \in Nat \ {0}
  /\ NestedCorun \in BOOLEAN
  /\ FrameCheck \in BOOLEAN
  /\ Nothing \notin Lines \cup [socket : Sockets, n : 1..MaxFrames]

VARIABLES
  \* the buffer queue, see FrameChannel
  arrived, hand, chan, held, lost, done, stops, stopping, ended,
  \* the pipeline
  stage,       \* stage[l]: where line l is in its turn
  flag,        \* is_pipeline_stopped_[l]
  head,        \* the line whose first pipe is next
  tail,        \* the line whose last pipe is next
  cancelled,   \* a pipe has thrown
  nest,        \* nest[l]: the line whose turn runs inside the corun of line l
  \* the workflow thread
  work,        \* where AnalysisHandle::start is
  diagram,     \* task_diagram_ != nullptr
  isStopped,   \* is_stopped_
  monitor,     \* FrameMissMonitor
  \* the exit thread
  exit,        \* where exit_and_switch_off is
  scan,        \* is_taskflow_abort_ready: lines 0..scan-1 were seen stopped
  open,        \* data sockets that have not been closed
  busy         \* history: frames in analysis when is_stopped_ was set

channel == <<arrived, hand, chan, held, lost, done, stops, stopping, ended>>
pipeline == <<stage, flag, head, tail, cancelled, nest>>
starter == <<work, diagram, isStopped, monitor>>
stopper == <<exit, scan, open, busy>>
vars == <<channel, pipeline, starter, stopper>>

Ch == INSTANCE FrameChannel

Init ==
  /\ Ch!Init
  /\ stage = [l \in Lines |-> "idle"]
  /\ flag = [l \in Lines |-> TRUE]
  /\ head = 0
  /\ tail = 0
  /\ cancelled = FALSE
  /\ nest = [l \in Lines |-> Nothing]
  /\ work = "store"
  /\ diagram = FALSE
  /\ isStopped = TRUE
  /\ monitor = "absent"
  /\ exit = "idle"
  /\ scan = 0
  /\ open = Sockets
  /\ busy = {}

-----------------------------------------------------------------------------
(* The data sockets *)

Receive(s) == s \in open /\ Ch!Arrive(s) /\ UNCHANGED <<pipeline, starter, stopper>>

Enqueue(s) == (Ch!Accept(s) \/ Ch!Lose(s)) /\ UNCHANGED <<pipeline, starter, stopper>>

\* The listen loop ends after it was cancelled, between two frames.
SocketCloses(s) ==
  /\ exit # "idle"
  /\ s \in open
  /\ hand[s] = Nothing
  /\ open' = open \ {s}
  /\ UNCHANGED <<channel, pipeline, starter, exit, scan, busy>>

-----------------------------------------------------------------------------
(* AnalysisHandle::start *)

NoReset ==
  /\ work = "store"
  /\ work' = "build"
  /\ UNCHANGED <<channel, pipeline, diagram, isStopped, monitor, stopper>>

StoreStopped ==
  /\ work = "store"
  /\ isStopped' = FALSE
  /\ work' = "build"
  /\ UNCHANGED <<channel, pipeline, diagram, monitor, stopper>>

BuildDiagram ==
  /\ work = "build"
  /\ diagram' = TRUE
  /\ work' = "monitors"
  /\ UNCHANGED <<channel, pipeline, isStopped, monitor, stopper>>

LaunchMonitors ==
  /\ work = "monitors"
  /\ monitor' = IF FrameCheck THEN "running" ELSE monitor
  /\ work' = "notify"
  /\ UNCHANGED <<channel, pipeline, diagram, isStopped, stopper>>

\* notify_all, without the mutex: it only wakes a thread that sleeps already.
Notify ==
  /\ work = "notify"
  /\ exit' = IF exit = "asleep" THEN "test" ELSE exit
  /\ work' = "run"
  /\ UNCHANGED <<channel, pipeline, diagram, isStopped, monitor, scan, open, busy>>

NoWait ==
  /\ work = "run"
  /\ work' = "done"
  /\ UNCHANGED <<channel, pipeline, diagram, isStopped, monitor, stopper>>

\* tf_executor_.run(...).wait() returns.
RunReturns ==
  /\ work = "run"
  /\ cancelled
  /\ \A l \in Lines : stage[l] \in {"idle", "gate", "ended"}
  /\ work' = "done"
  /\ UNCHANGED <<channel, pipeline, diagram, isStopped, monitor, stopper>>

\* The loop of FrameMissMonitor::main_loop sees its flag.
MonitorEnds ==
  /\ monitor = "stopped"
  /\ monitor' = "ended"
  /\ UNCHANGED <<channel, pipeline, work, diagram, isStopped, stopper>>

-----------------------------------------------------------------------------
(* The pipeline *)

Next1(l) == (l + 1) % NLines

\* Host(m): the worker of line m can execute another task, inside its corun.
Host(m) == NestedCorun /\ stage[m] \in {"corun", "sunk"} /\ nest[m] = Nothing

\* The first, SERIAL, pipe; the second one starts at once.
EnterPipe(l) ==
  /\ work = "run"
  /\ stage[l] = "idle"
  /\ head = l
  /\ head' = Next1(l)
  /\ stage' = [stage EXCEPT ![l] = "dequeue"]
  /\ \/ UNCHANGED nest
     \/ \E m \in Lines \ {l} : Host(m) /\ nest' = [nest EXCEPT ![m] = l]
  /\ UNCHANGED <<channel, flag, tail, cancelled, starter, stopper>>

StopOnFrame(l, s) ==
  /\ stage[l] = "dequeue"
  /\ Ch!Take(l, s)
  /\ cancelled' = TRUE
  /\ stage' = [stage EXCEPT ![l] = "ended"]
  /\ UNCHANGED <<flag, head, tail, nest, starter, stopper>>

\* run_task returns true ...
DequeueFrame(l, s) ==
  /\ stage[l] = "dequeue"
  /\ Ch!Take(l, s)
  /\ stage' = [stage EXCEPT ![l] = "taken"]
  /\ UNCHANGED <<flag, head, tail, cancelled, nest, starter, stopper>>

\* ... or false: stop() throws out of the pipe.
DequeueStop(l) ==
  /\ stage[l] = "dequeue"
  /\ Ch!TakeStop(l)
  /\ cancelled' = TRUE
  /\ stage' = [stage EXCEPT ![l] = "ended"]
  /\ UNCHANGED <<flag, head, tail, nest, starter, stopper>>

StoreBusy(l) ==
  /\ stage[l] = "taken"
  /\ flag' = [flag EXCEPT ![l] = FALSE]
  /\ stage' = [stage EXCEPT ![l] = "corun"]
  /\ UNCHANGED <<channel, head, tail, cancelled, nest, starter, stopper>>

\* The converters and sinks of the line's taskflow have all run.
RunTaskflow(l) ==
  /\ stage[l] = "corun"
  /\ Ch!Finish(l)
  /\ stage' = [stage EXCEPT ![l] = "sunk"]
  /\ UNCHANGED <<flag, head, tail, cancelled, nest, starter, stopper>>

\* A turn executed inside a corun goes back to it when it waits for a SERIAL pipe.
Unnest(m) ==
  /\ nest[m] # Nothing
  /\ stage[nest[m]] \in {"idle", "gate", "ended"}
  /\ nest' = [nest EXCEPT ![m] = Nothing]
  /\ UNCHANGED <<channel, stage, flag, head, tail, cancelled, starter, stopper>>

CorunReturns(l) ==
  /\ stage[l] = "sunk"
  /\ nest[l] = Nothing
  /\ flag' = [flag EXCEPT ![l] = TRUE]
  /\ stage' = [stage EXCEPT ![l] = "gate"]
  /\ UNCHANGED <<channel, head, tail, cancelled, nest, starter, stopper>>

\* The last, SERIAL, pipe.
PassGate(l) ==
  /\ work = "run"
  /\ stage[l] = "gate"
  /\ tail = l
  /\ tail' = Next1(l)
  /\ stage' = [stage EXCEPT ![l] = "idle"]
  /\ UNCHANGED <<channel, flag, head, cancelled, nest, starter, stopper>>

-----------------------------------------------------------------------------
(* App::exit_and_switch_off, from stop_monitor on *)

StopMonitor ==
  /\ exit = "idle"
  /\ monitor' = IF monitor = "running" THEN "stopped" ELSE monitor
  /\ exit' = "sockets"
  /\ UNCHANGED <<channel, pipeline, work, diagram, isStopped, scan, open, busy>>

\* wait_for_reading_finish: every socket has closed, or the wait timed out.
WaitedForSockets ==
  /\ exit = "sockets"
  /\ exit' = "test"
  /\ UNCHANGED <<channel, pipeline, starter, scan, open, busy>>

\* cv_.wait tests its predicate ...
TestDiagram ==
  /\ exit = "test"
  /\ exit' = IF diagram THEN "cas" ELSE "doze"
  /\ UNCHANGED <<channel, pipeline, starter, scan, open, busy>>

\* ... and then sleeps.
Sleep ==
  /\ exit = "doze"
  /\ exit' = "asleep"
  /\ UNCHANGED <<channel, pipeline, starter, scan, open, busy>>

SpuriousWake ==
  /\ exit = "asleep"
  /\ exit' = "test"
  /\ UNCHANGED <<channel, pipeline, starter, scan, open, busy>>

CasStopped ==
  /\ exit = "cas"
  /\ isStopped' = TRUE
  /\ exit' = IF isStopped THEN "done" ELSE "scan"
  /\ busy' = {held[l] : l \in {m \in Lines : ~flag[m]}} \ {Nothing}
  /\ UNCHANGED <<channel, pipeline, work, diagram, monitor, scan, open>>

AnyLine ==
  /\ exit = "scan"
  /\ scan < NLines
  /\ scan' = IF flag[scan] THEN NLines ELSE (scan + 1) % NLines
  /\ UNCHANGED <<channel, pipeline, starter, exit, open, busy>>

\* is_taskflow_abort_ready reads one flag after the other and starts again.
ScanLine ==
  /\ exit = "scan"
  /\ scan < NLines
  /\ scan' = IF flag[scan] THEN scan + 1 ELSE 0
  /\ UNCHANGED <<channel, pipeline, starter, exit, open, busy>>

OneShort ==
  /\ exit = "scan"
  /\ scan = NLines
  /\ stopping' = TRUE
  /\ stops' = stops + NLines - 1
  /\ exit' = "done"
  /\ UNCHANGED <<arrived, hand, chan, held, lost, done, ended>>
  /\ UNCHANGED <<pipeline, starter, scan, open, busy>>

SendStops ==
  /\ exit = "scan"
  /\ scan = NLines
  /\ Ch!SendStops
  /\ exit' = "done"
  /\ UNCHANGED <<pipeline, starter, scan, open, busy>>

-----------------------------------------------------------------------------

Socket(s) == Receive(s) \/ Enqueue(s) \/ SocketCloses(s)

Start == StoreStopped \/ BuildDiagram \/ LaunchMonitors \/ Notify \/ RunReturns

SerialPipe(l) == EnterPipe(l) \/ PassGate(l)

ParallelPipe(l) ==
  \/ DequeueStop(l) \/ (\E s \in Sockets : DequeueFrame(l, s)) \/ StoreBusy(l)
  \/ RunTaskflow(l) \/ Unnest(l) \/ CorunReturns(l)

Stop == WaitedForSockets \/ TestDiagram \/ Sleep \/ CasStopped \/ ScanLine \/ SendStops

Next ==
  \/ \E s \in Sockets : Socket(s)
  \/ Start
  \/ MonitorEnds
  \/ \E l \in Lines : SerialPipe(l) \/ ParallelPipe(l)
  \/ StopMonitor
  \/ Stop
  \/ SpuriousWake

(***************************************************************************)
(* Threads and workers that can take a step take one, and a handler that   *)
(* runs ends.  Nothing says that a frame arrives, a signal is raised, a    *)
(* socket closes, a sleeping thread wakes up by itself or a task of a      *)
(* cancelled run is still executed.                                        *)
(***************************************************************************)
Fairness ==
  /\ \A s \in Sockets : WF_vars(Enqueue(s))
  /\ WF_vars(Start)
  /\ WF_vars(MonitorEnds)
  /\ \A l \in Lines : WF_vars(ParallelPipe(l)) /\ WF_vars(~cancelled /\ SerialPipe(l))
  /\ WF_vars(Stop)

Spec == Init /\ [][Next]_vars /\ Fairness

-----------------------------------------------------------------------------

TypeOK ==
  /\ Ch!TypeOK
  /\ stage \in [Lines -> {"idle", "dequeue", "taken", "corun", "sunk", "gate", "ended"}]
  /\ flag \in [Lines -> BOOLEAN]
  /\ head \in Lines
  /\ tail \in Lines
  /\ cancelled \in BOOLEAN
  /\ nest \in [Lines -> Lines \cup {Nothing}]
  /\ work \in {"store", "build", "monitors", "notify", "run", "done"}
  /\ diagram \in BOOLEAN
  /\ isStopped \in BOOLEAN
  /\ monitor \in {"absent", "running", "stopped", "ended"}
  /\ exit \in {"idle", "sockets", "test", "doze", "asleep", "cas", "scan", "done"}
  /\ scan \in 0..NLines
  /\ open \in SUBSET Sockets
  /\ busy \in SUBSET Ch!Frame

(***************************************************************************)
(* When AnalysisHandle::start returns, stop_workflow has made it return,   *)
(* and no line is in the middle of a frame: every frame is analysed, lost  *)
(* on arrival, or still in the queue.  The thread then destroys the sinks. *)
(***************************************************************************)
CleanReturn ==
  work = "done" => stopping /\ \A l \in Lines : held[l] = Nothing /\ flag[l]

(***************************************************************************)
(* What is_taskflow_abort_ready is for: a line that was seen busy when     *)
(* is_stopped_ was set has finished that frame before the empty buffers    *)
(* are sent, although the flags are read one by one and change meanwhile.  *)
(***************************************************************************)
BusyLinesFinish == stopping => busy \cap Ch!Held = {}

\* The guards of SerialPipe(l) and ParallelPipe(l) while the workflow runs.
CanMove(l) ==
  \/ stage[l] = "idle" /\ head = l
  \/ /\ stage[l] = "dequeue" /\ l \notin ended /\ held[l] = Nothing
     /\ stops > 0 \/ \E s \in Sockets : chan[s] # <<>>
  \/ stage[l] = "taken"
  \/ stage[l] = "corun" /\ held[l] # Nothing
  \/ stage[l] = "sunk" /\ nest[l] = Nothing
  \/ nest[l] # Nothing /\ stage[nest[l]] \in {"idle", "gate", "ended"}
  \/ stage[l] = "gate" /\ tail = l

\* The guard of RunReturns.
RunIsOver == cancelled /\ \A l \in Lines : stage[l] \in {"idle", "gate", "ended"}

\* The pipeline waits for frames, and for nothing else.
AwaitsFrames == ~stopping /\ Ch!Queued = {} /\ \E l \in Lines : stage[l] = "dequeue"

(***************************************************************************)
(* The pipeline cannot deadlock, although each line blocks in dequeue, in  *)
(* the corun that hosts another line and before the two SERIAL pipes: a    *)
(* line can take a step, or the cancelled run can return, or no stop was   *)
(* made and a line waits for the next frame.  After a stop each line that  *)
(* waits in dequeue finds an empty buffer at last, whichever took others.  *)
(***************************************************************************)
NeverStuck == work = "run" => RunIsOver \/ AwaitsFrames \/ \E l \in Lines : CanMove(l)

(***************************************************************************)
(* A stop that has found the diagram ends the workflow: the scan of the    *)
(* flags succeeds at last, and each line leaves its blocking dequeue.      *)
(***************************************************************************)
StopTakesEffect == exit = "cas" ~> work = "done"

(***************************************************************************)
(* Only such a nesting keeps it from doing so, as long as the frames that  *)
(* arrive are not endless (MaxFrames): a stop ends the workflow unless a   *)
(* worker runs the turn of one line inside the corun of another.  And the  *)
(* scan is the only place to hang: once the empty buffers were sent, the   *)
(* workflow ends whatever is nested.                                       *)
(***************************************************************************)
OnlyNestingDelays ==
  /\ exit = "cas" ~> work = "done" \/ \E m \in Lines : nest[m] # Nothing
  /\ stopping ~> work = "done"

(***************************************************************************)
(* The SERIAL pipes do not starve the queue: a frame that is queued while  *)
(* the workflow is up is taken, unless the stop overtakes it.              *)
(***************************************************************************)
QueueServed ==
  \A f \in Ch!Frame : f \in Ch!Queued ~> (f \notin Ch!Queued \/ stopping)

(***************************************************************************)
(* workflow/AnalysisHandle.cpp:96-97: "stop may be called before start,    *)
(* where the task_diagram_ is constructed.  To prevent task_diagram_ to be *)
(* nullptr, wait for a condition variable, notified by the start           *)
(* function", and AnalysisHandle.hpp:107: "mutex and cv make sure the stop *)
(* always wait for start".                                                 *)
(***************************************************************************)
StopAfterStart == exit = "test" ~> exit = "done"
=============================================================================
