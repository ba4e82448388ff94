--------------------------- MODULE WorkflowProofs ---------------------------
(***************************************************************************)
(* Proofs about Workflow for every number of sockets, frames and lines,    *)
(* with and without nested turns.  What the module FrameChannelProofs      *)
(* shows of the channel holds of the workflow because each of its steps is *)
(* a step of the channel or leaves it alone.                               *)
(***************************************************************************)
EXTENDS Workflow, FiniteSetTheorems, WellFoundedInduction, TLAPS

ChP == INSTANCE FrameChannelProofs

LEMMA ChannelConstants ==
  /\ IsFiniteSet(Sockets) /\ IsFiniteSet(Lines)
  /\ MaxFrames \in Nat /\ NLines \in Nat \ {0}
  /\ Nothing \notin Ch!Frame /\ Nothing \notin Lines
  /\ Cardinality(Lines) = NLines
<1>1. 0 \in Int /\ NLines - 1 \in Int
  BY WorkflowAssumption
<1>2. IsFiniteSet(Lines) /\ Cardinality(Lines) = NLines
  BY <1>1, FS_Interval, WorkflowAssumption DEF Lines
<1> QED
  BY <1>2, WorkflowAssumption DEF Ch!Frame

(***************************************************************************)
(* The workflow, with whatever the exit thread and the executor do, uses   *)
(* the buffer queue as FrameChannel describes it.                          *)
(***************************************************************************)
THEOREM WorkflowUsesChannel == Spec => Ch!Spec
<1>1. Init => Ch!Init
  BY DEF Init
<1>2. [Next]_vars => [Ch!Next]_Ch!vars
  <2> SUFFICES ASSUME [Next]_vars PROVE Ch!Next \/ UNCHANGED channel
    BY DEF channel, Ch!vars
  <2>1. ASSUME NEW s \in Sockets, Socket(s) PROVE Ch!Next \/ UNCHANGED channel
    BY <2>1 DEF Socket, Receive, Enqueue, SocketCloses, Ch!Next
  <2>2. CASE Start
    BY <2>2 DEF Start, StoreStopped, BuildDiagram, LaunchMonitors, Notify, RunReturns
  <2>3. CASE MonitorEnds
    BY <2>3 DEF MonitorEnds
  <2>4. ASSUME NEW l \in Lines, SerialPipe(l) PROVE Ch!Next \/ UNCHANGED channel
    BY <2>4 DEF SerialPipe, EnterPipe, PassGate
  <2>5. ASSUME NEW l \in Lines, ParallelPipe(l) PROVE Ch!Next \/ UNCHANGED channel
    BY <2>5 DEF ParallelPipe, DequeueStop, DequeueFrame, StoreBusy, RunTaskflow, Unnest,
                CorunReturns, Ch!Next
  <2>6. CASE StopMonitor \/ SpuriousWake
    BY <2>6 DEF StopMonitor, SpuriousWake
  <2>7. CASE Stop
    BY <2>7 DEF Stop, WaitedForSockets, TestDiagram, Sleep, CasStopped, ScanLine, SendStops, Ch!Next
  <2>8. CASE UNCHANGED vars
    BY <2>8 DEF vars, channel
  <2> QED
    BY <2>1, <2>2, <2>3, <2>4, <2>5, <2>6, <2>7, <2>8 DEF Next
<1> QED
  BY <1>1, <1>2, PTL DEF Spec, Ch!Spec

LEMMA ChannelInvariants == Spec => [](Ch!TypeOK /\ Ch!Conserved /\ Ch!StopPerLine)
<1>1. ChP!ChannelAssumption
  BY ChannelConstants
     DEF ChP!ChannelAssumption, ChP!Frame, Ch!Frame, ChP!IsFiniteSet, IsFiniteSet
<1>2. Ch!Init => ChP!Init
  BY DEF Ch!Init, ChP!Init
<1>3. [Ch!Next]_Ch!vars => [ChP!Next]_ChP!vars
  BY DEF Ch!Next, Ch!vars, Ch!Arrive, Ch!Accept, Ch!Lose, Ch!Take, Ch!Finish, Ch!TakeStop,
         Ch!SendStops, Ch!Cardinality, ChP!Next, ChP!vars, ChP!Arrive, ChP!Accept, ChP!Lose,
         ChP!Take, ChP!Finish, ChP!TakeStop, ChP!SendStops, ChP!Cardinality
<1>4. ChP!TypeOK => Ch!TypeOK
  BY DEF Ch!TypeOK, ChP!TypeOK, Ch!Frame, ChP!Frame
<1>5. ChP!Conserved => Ch!Conserved
  BY DEF Ch!Conserved, ChP!Conserved, Ch!Frame, ChP!Frame, Ch!InHand, ChP!InHand,
         Ch!Queued, ChP!Queued, Ch!Held, ChP!Held
<1>6. ChP!StopPerLine => Ch!StopPerLine
  BY DEF Ch!StopPerLine, ChP!StopPerLine, Ch!Cardinality, ChP!Cardinality
<1>7. ChP!Spec => [](ChP!TypeOK /\ ChP!Conserved /\ ChP!StopPerLine)
  BY <1>1, ChP!ChannelTyping, ChP!FramesConserved, ChP!StopsSuffice, PTL
<1> QED
  BY <1>2, <1>3, <1>4, <1>5, <1>6, <1>7, WorkflowUsesChannel, PTL DEF Ch!Spec, ChP!Spec

-----------------------------------------------------------------------------

\* The types of the variables that are not the channel's.
LocalTypes ==
  /\ stage \in [Lines -> {"idle", "dequeue", "taken", "corun", "sunk", "gate", "ended"}]
  /\ flag \in [Lines -> BOOLEAN]
  /\ head \in Lines /\ tail \in Lines
  /\ cancelled \in BOOLEAN
  /\ nest \in [Lines -> Lines \cup {Nothing}]
  /\ work \in {"store", "build", "monitors", "notify", "run", "done"}
  /\ diagram \in BOOLEAN /\ isStopped \in BOOLEAN
  /\ monitor \in {"absent", "running", "stopped", "ended"}
  /\ exit \in {"idle", "sockets", "test", "doze", "asleep", "cas", "scan", "done"}
  /\ scan \in 0..NLines
  /\ open \in SUBSET Sockets
  /\ busy \in SUBSET Ch!Frame

LEMMA LineAfter == ASSUME NEW l \in Lines PROVE Next1(l) \in Lines
BY ChannelConstants DEF Next1, Lines

LEMMA TypesStep == LocalTypes /\ Ch!TypeOK /\ [Next]_vars => LocalTypes'
<1> SUFFICES ASSUME LocalTypes, Ch!TypeOK, [Next]_vars PROVE LocalTypes'
  OBVIOUS
<1> USE DEF LocalTypes
<1>1. ASSUME NEW s \in Sockets, Socket(s) PROVE LocalTypes'
  BY <1>1 DEF Socket, Receive, Enqueue, SocketCloses, pipeline, starter, stopper
<1>2. CASE Start
  <2>1. CASE StoreStopped
    BY <2>1 DEF StoreStopped, pipeline, stopper
  <2>2. CASE BuildDiagram
    BY <2>2 DEF BuildDiagram, pipeline, stopper
  <2>3. CASE LaunchMonitors \/ Notify \/ RunReturns
    BY <2>3 DEF LaunchMonitors, Notify, RunReturns, pipeline, stopper
  <2> QED
    BY <1>2, <2>1, <2>2, <2>3 DEF Start
<1>3. CASE MonitorEnds
  BY <1>3 DEF MonitorEnds, pipeline, stopper
<1>4. ASSUME NEW l \in Lines, SerialPipe(l) PROVE LocalTypes'
  BY <1>4, LineAfter DEF SerialPipe, EnterPipe, PassGate, starter, stopper
<1>5. ASSUME NEW l \in Lines, ParallelPipe(l) PROVE LocalTypes'
  <2>1. CASE DequeueStop(l)
    BY <2>1 DEF DequeueStop, starter, stopper
  <2>2. CASE StoreBusy(l)
    BY <2>2 DEF StoreBusy, starter, stopper
  <2>3. CASE CorunReturns(l)
    BY <2>3 DEF CorunReturns, starter, stopper
  <2>4. CASE (\E s \in Sockets : DequeueFrame(l, s)) \/ RunTaskflow(l) \/ Unnest(l)
    BY <2>4 DEF DequeueFrame, RunTaskflow, Unnest, starter, stopper
  <2> QED
    BY <1>5, <2>1, <2>2, <2>3, <2>4 DEF ParallelPipe
<1>6. CASE StopMonitor \/ SpuriousWake
  BY <1>6 DEF StopMonitor, SpuriousWake, pipeline, starter
<1>7. CASE Stop
  <2>1. CASE CasStopped
    <3>1. busy' \subseteq Ch!Frame
      BY <2>1 DEF CasStopped, Ch!TypeOK
    <3> QED
      BY <2>1, <3>1 DEF CasStopped, pipeline
  <2>2. CASE ScanLine
    <3>1. scan' \in 0..NLines
      BY <2>2, ChannelConstants DEF ScanLine
    <3> QED
      BY <2>2, <3>1 DEF ScanLine, pipeline, starter
  <2>3. CASE WaitedForSockets \/ TestDiagram \/ Sleep \/ SendStops
    BY <2>3 DEF WaitedForSockets, TestDiagram, Sleep, SendStops, pipeline, starter
  <2> QED
    BY <1>7, <2>1, <2>2, <2>3 DEF Stop
<1>8. CASE UNCHANGED vars
  BY <1>8 DEF vars, pipeline, starter, stopper
<1> QED
  BY <1>1, <1>2, <1>3, <1>4, <1>5, <1>6, <1>7, <1>8 DEF Next

(***************************************************************************)
(* The variables of the workflow always have their types.                  *)
(***************************************************************************)
THEOREM WorkflowTyping == Spec => []TypeOK
<1>1. Init => LocalTypes
  <2>1. 0 \in Lines
    BY ChannelConstants DEF Lines
  <2>2. 0 \in 0..NLines
    BY ChannelConstants
  <2> QED
    BY <2>1, <2>2 DEF Init, LocalTypes
<1>2. LocalTypes /\ Ch!TypeOK => TypeOK
  BY Zenon DEF LocalTypes, TypeOK
<1> QED
  BY <1>1, <1>2, TypesStep, ChannelInvariants, PTL DEF Spec

-----------------------------------------------------------------------------

\* Where a line is in its turn tells what it holds, what its flag is and
\* whether it took an empty buffer; only an empty buffer cancels the run.
PipeInv ==
  /\ \A l \in Lines : stage[l] = "ended" <=> l \in ended
  /\ \A l \in Lines : held[l] # Nothing <=> stage[l] \in {"taken", "corun"}
  /\ \A l \in Lines : flag[l] <=> stage[l] \notin {"corun", "sunk"}
  /\ cancelled => stopping
  /\ work = "done" => cancelled /\ \A l \in Lines : stage[l] \in {"idle", "gate", "ended"}

\* A frame that a queue hands over is a frame, and not Nothing.
LEMMA TakenFrame ==
  ASSUME Ch!TypeOK, NEW l \in Lines, NEW s \in Sockets, Ch!Take(l, s)
  PROVE  /\ held' = [held EXCEPT ![l] = Head(chan[s])]
         /\ Head(chan[s]) \in Ch!Frame /\ Head(chan[s]) # Nothing
         /\ Head(chan[s]) \in Ch!Queued
<1>1. chan[s] \in Seq(Ch!Frame) /\ chan[s] # <<>>
  BY DEF Ch!Take, Ch!TypeOK
<1>2. 1 \in DOMAIN chan[s] /\ Head(chan[s]) = chan[s][1] /\ Head(chan[s]) \in Ch!Frame
  BY <1>1
<1>3. Head(chan[s]) \in Ch!Queued
  BY <1>2 DEF Ch!Queued
<1> QED
  BY <1>2, <1>3, ChannelConstants DEF Ch!Take

LEMMA PipeStep == PipeInv /\ LocalTypes /\ Ch!TypeOK /\ Ch!StopPerLine /\ [Next]_vars => PipeInv'
<1> SUFFICES ASSUME PipeInv, LocalTypes, Ch!TypeOK, Ch!StopPerLine, [Next]_vars PROVE PipeInv'
  OBVIOUS
<1> USE DEF PipeInv, LocalTypes, Ch!TypeOK
<1>1. ASSUME NEW s \in Sockets, Socket(s) PROVE PipeInv'
  BY <1>1 DEF Socket, Receive, Enqueue, SocketCloses, Ch!Arrive, Ch!Accept, Ch!Lose,
              pipeline, starter, stopper, channel
<1>2. CASE Start
  BY <1>2 DEF Start, StoreStopped, BuildDiagram, LaunchMonitors, Notify, RunReturns,
              channel, pipeline, stopper
<1>3. CASE MonitorEnds
  BY <1>3 DEF MonitorEnds, channel, pipeline, stopper
<1>4. ASSUME NEW l \in Lines, SerialPipe(l) PROVE PipeInv'
  <2>1. CASE EnterPipe(l)
    BY <2>1 DEF EnterPipe, channel, starter
  <2>2. CASE PassGate(l)
    BY <2>2 DEF PassGate, channel, starter
  <2> QED
    BY <1>4, <2>1, <2>2 DEF SerialPipe
<1>5. ASSUME NEW l \in Lines, ParallelPipe(l) PROVE PipeInv'
  <2>1. CASE DequeueStop(l)
    <3>1. stopping
      BY <2>1 DEF DequeueStop, Ch!TakeStop, Ch!StopPerLine
    <3> QED
      BY <2>1, <3>1 DEF DequeueStop, Ch!TakeStop, starter
  <2>2. ASSUME NEW s \in Sockets, DequeueFrame(l, s) PROVE PipeInv'
    BY <2>2, TakenFrame DEF DequeueFrame, Ch!Take, starter
  <2>3. CASE StoreBusy(l)
    BY <2>3 DEF StoreBusy, channel, starter
  <2>4. CASE RunTaskflow(l)
    BY <2>4 DEF RunTaskflow, Ch!Finish, starter
  <2>5. CASE Unnest(l)
    BY <2>5 DEF Unnest, channel, starter
  <2>6. CASE CorunReturns(l)
    BY <2>6 DEF CorunReturns, channel, starter
  <2> QED
    BY <1>5, <2>1, <2>2, <2>3, <2>4, <2>5, <2>6 DEF ParallelPipe
<1>6. CASE StopMonitor \/ SpuriousWake
  BY <1>6 DEF StopMonitor, SpuriousWake, channel, pipeline, starter
<1>7. CASE Stop
  BY <1>7 DEF Stop, WaitedForSockets, TestDiagram, Sleep, CasStopped, ScanLine, SendStops,
              Ch!SendStops, channel, pipeline, starter
<1>8. CASE UNCHANGED vars
  BY <1>8 DEF vars, channel, pipeline, starter, stopper
<1> QED
  BY <1>1, <1>2, <1>3, <1>4, <1>5, <1>6, <1>7, <1>8 DEF Next

LEMMA PipeInvariance ==
  Spec => [](PipeInv /\ LocalTypes /\ Ch!TypeOK /\ Ch!Conserved /\ Ch!StopPerLine)
<1>1. Init => PipeInv
  BY DEF Init, Ch!Init, PipeInv
<1>2. Spec => []LocalTypes
  BY WorkflowTyping, PTL DEF TypeOK, LocalTypes
<1> QED
  BY <1>1, <1>2, PipeStep, ChannelInvariants, PTL DEF Spec

\* A line that waits in dequeue after the empty buffers were sent finds one.
NoStrandedLine == \A l \in Lines : stopping /\ stage[l] = "dequeue" => stops > 0

(***************************************************************************)
(* A line that waits in dequeue after the stop finds an empty buffer: it   *)
(* is one of those that have not ended, and there is a buffer for each.    *)
(***************************************************************************)
THEOREM NoLineStranded == Spec => []NoStrandedLine
<1>1. PipeInv /\ Ch!TypeOK /\ Ch!StopPerLine => NoStrandedLine
  <2> SUFFICES ASSUME PipeInv, Ch!TypeOK, Ch!StopPerLine, stopping,
                      NEW l \in Lines, stage[l] = "dequeue"
               PROVE  stops > 0
    BY DEF NoStrandedLine
  <2>1. l \in Lines \ ended
    BY DEF PipeInv
  <2>2. IsFiniteSet(Lines \ ended)
    BY ChannelConstants, FS_Difference
  <2>3. Cardinality(Lines \ ended) # 0
    BY <2>1, <2>2, FS_EmptySet
  <2>4. stops = Ch!Cardinality(Lines \ ended)
    BY DEF Ch!StopPerLine
  <2>5. stops = Cardinality(Lines \ ended)
    BY <2>4 DEF Ch!Cardinality, Cardinality
  <2> QED
    BY <2>3, <2>5 DEF Ch!TypeOK
<1> QED
  BY <1>1, PipeInvariance, PTL

(***************************************************************************)
(* When AnalysisHandle::start returns, the stop has been made and no line  *)
(* has a frame or an unset flag.                                           *)
(***************************************************************************)
THEOREM ReturnsClean == Spec => []CleanReturn
<1>1. PipeInv => CleanReturn
  BY DEF PipeInv, CleanReturn
<1> QED
  BY <1>1, PipeInvariance, PTL

(***************************************************************************)
(* So the counts that exit reports add up when start returns: each frame   *)
(* that arrived was analysed, was refused, or is still with its socket or  *)
(* in the queue, and in one of these only.                                 *)
(***************************************************************************)
THEOREM ReturnAccountsFrames ==
  Spec => [](work = "done" =>
    /\ \A f \in Ch!Frame :
         f.n <= arrived[f.socket] <=> f \in Ch!InHand \cup Ch!Queued \cup lost \cup done
    /\ Ch!InHand \cap (Ch!Queued \cup lost \cup done) = {}
    /\ Ch!Queued \cap (lost \cup done) = {} /\ lost \cap done = {})
<1>1. PipeInv /\ Ch!Conserved =>
        (work = "done" =>
          /\ \A f \in Ch!Frame :
               f.n <= arrived[f.socket] <=> f \in Ch!InHand \cup Ch!Queued \cup lost \cup done
          /\ Ch!InHand \cap (Ch!Queued \cup lost \cup done) = {}
          /\ Ch!Queued \cap (lost \cup done) = {} /\ lost \cap done = {})
  <2> SUFFICES ASSUME PipeInv, Ch!Conserved, work = "done" PROVE Ch!Held = {}
    BY DEF Ch!Conserved
  <2> QED
    BY DEF PipeInv, Ch!Held
<1> QED
  BY <1>1, PipeInvariance, PTL

-----------------------------------------------------------------------------

\* A frame that was seen in analysis when is_stopped_ was set is analysed or
\* still in the corun of its line, and not there once the scan has passed the
\* line: no line takes it again, for it is not in the queue.
ScanInv ==
  /\ busy \subseteq Ch!Held \cup done
  /\ \A l \in Lines : held[l] \in busy => stage[l] = "corun"
  /\ exit \notin {"scan", "done"} => scan = 0 /\ busy = {}
  /\ exit = "scan" => \A l \in Lines : l < scan => held[l] \notin busy
  /\ stopping => exit = "done" /\ \A l \in Lines : held[l] \notin busy

LEMMA ScanStep ==
  ScanInv /\ PipeInv /\ LocalTypes /\ Ch!TypeOK /\ Ch!Conserved /\ [Next]_vars => ScanInv'
<1> SUFFICES ASSUME ScanInv, PipeInv, LocalTypes, Ch!TypeOK, Ch!Conserved, [Next]_vars
             PROVE  ScanInv'
  OBVIOUS
<1>0. Nothing \notin busy /\ busy \subseteq Ch!Frame
  BY ChannelConstants DEF LocalTypes
<1> USE DEF ScanInv, LocalTypes
<1>1. ASSUME NEW s \in Sockets, Socket(s) PROVE ScanInv'
  BY <1>1 DEF Socket, Receive, Enqueue, SocketCloses, Ch!Arrive, Ch!Accept, Ch!Lose,
              pipeline, starter, stopper, channel, Ch!Held
<1>2. CASE Start
  BY <1>2 DEF Start, StoreStopped, BuildDiagram, LaunchMonitors, Notify, RunReturns,
              channel, pipeline, stopper, Ch!Held
<1>3. CASE MonitorEnds
  BY <1>3 DEF MonitorEnds, channel, pipeline, stopper, Ch!Held
<1>4. ASSUME NEW l \in Lines, SerialPipe(l) PROVE ScanInv'
  BY <1>4 DEF SerialPipe, EnterPipe, PassGate, channel, starter, stopper, Ch!Held
<1>5. ASSUME NEW l \in Lines, ParallelPipe(l) PROVE ScanInv'
  <2>1. CASE DequeueStop(l) \/ StoreBusy(l) \/ Unnest(l)
    BY <2>1 DEF DequeueStop, Ch!TakeStop, StoreBusy, Unnest, channel, starter, stopper, Ch!Held
  <2>2. ASSUME NEW s \in Sockets, DequeueFrame(l, s) PROVE ScanInv'
    <3>1. /\ Head(chan[s]) \in Ch!Queued
          /\ held' = [held EXCEPT ![l] = Head(chan[s])]
      BY <2>2, TakenFrame DEF DequeueFrame
    <3>2. Head(chan[s]) \notin busy
      BY <3>1 DEF Ch!Conserved
    <3>3. held[l] = Nothing
      BY <2>2 DEF DequeueFrame, Ch!Take
    <3>4. Ch!Held \subseteq Ch!Held'
      BY <3>1, <3>3 DEF Ch!Held, Ch!TypeOK
    <3> QED
      BY <2>2, <3>1, <3>2, <3>4 DEF DequeueFrame, Ch!Take, Ch!TypeOK, stopper
  <2>3. CASE RunTaskflow(l)
    <3>1. Ch!Held \subseteq Ch!Held' \cup {held[l]}
      BY <2>3 DEF RunTaskflow, Ch!Finish, Ch!Held, Ch!TypeOK
    <3> QED
      BY <1>0, <2>3, <3>1 DEF RunTaskflow, Ch!Finish, Ch!TypeOK, stopper
  <2>4. CASE CorunReturns(l)
    <3>1. held[l] \notin busy
      BY <2>4 DEF CorunReturns
    <3> QED
      BY <2>4, <3>1 DEF CorunReturns, channel, stopper, Ch!Held
  <2> QED
    BY <1>5, <2>1, <2>2, <2>3, <2>4 DEF ParallelPipe
<1>6. CASE StopMonitor \/ SpuriousWake
  BY <1>6 DEF StopMonitor, SpuriousWake, channel, pipeline, starter, Ch!Held
<1>7. CASE Stop
  <2>1. CASE CasStopped
    <3>1. busy' = {held[l] : l \in {m \in Lines : ~flag[m]}} \ {Nothing}
      BY <2>1 DEF CasStopped
    <3>2. busy' \subseteq Ch!Held
      BY <3>1 DEF Ch!Held
    <3>3. ASSUME NEW l \in Lines, held[l] \in busy' PROVE stage[l] = "corun"
      <4>1. PICK m \in Lines : ~flag[m] /\ held[m] = held[l] /\ held[l] # Nothing
        BY <3>1, <3>3
      <4>2. m = l
        BY <4>1 DEF Ch!Conserved
      <4> QED
        BY <4>1, <4>2 DEF PipeInv
    <3>4. scan = 0 /\ ~stopping /\ \A l \in Lines : ~(l < 0)
      BY <2>1 DEF CasStopped, Lines
    <3> QED
      BY <2>1, <3>2, <3>3, <3>4 DEF CasStopped, channel, pipeline, Ch!Held
  <2>2. CASE ScanLine
    <3>1. scan \in Lines
      BY <2>2, ChannelConstants DEF ScanLine, Lines
    <3>2. flag[scan] => held[scan] \notin busy
      BY <3>1 DEF PipeInv
    <3>3. \A l \in Lines : l \in Int /\ l >= 0
      BY DEF Lines
    <3> QED
      BY <2>2, <3>1, <3>2, <3>3 DEF ScanLine, channel, pipeline, starter, Ch!Held
  <2>3. CASE SendStops
    <3>1. \A l \in Lines : l < scan
      BY <2>3, ChannelConstants DEF SendStops, Lines
    <3> QED
      BY <2>3, <3>1 DEF SendStops, Ch!SendStops, pipeline, starter, Ch!Held
  <2>4. CASE WaitedForSockets \/ TestDiagram \/ Sleep
    BY <2>4 DEF WaitedForSockets, TestDiagram, Sleep, channel, pipeline, starter, Ch!Held
  <2> QED
    BY <1>7, <2>1, <2>2, <2>3, <2>4 DEF Stop
<1>8. CASE UNCHANGED vars
  BY <1>8 DEF vars, channel, pipeline, starter, stopper, Ch!Held
<1> QED
  BY <1>1, <1>2, <1>3, <1>4, <1>5, <1>6, <1>7, <1>8 DEF Next

(***************************************************************************)
(* A line that was busy when is_stopped_ was set has finished its frame    *)
(* before the empty buffers are sent: is_taskflow_abort_ready is right,    *)
(* though it reads the flags one by one while they change.                 *)
(***************************************************************************)
THEOREM BusyLinesHaveFinished == Spec => []BusyLinesFinish
<1>1. Init => ScanInv
  BY ChannelConstants DEF Init, Ch!Init, ScanInv, Ch!Held
<1>2. ScanInv => BusyLinesFinish
  BY DEF ScanInv, BusyLinesFinish, Ch!Held
<1> QED
  BY <1>1, <1>2, ScanStep, PipeInvariance, PTL DEF Spec

-----------------------------------------------------------------------------

\* How many turns after that of the tail the turn of line l is.
Place(l) == IF l >= tail THEN l - tail ELSE l - tail + NLines

\* The lines in a turn are the k ones from the tail on, the head is next.
Ring(k) ==
  /\ head = tail + k \/ head = tail + k - NLines
  /\ \A l \in Lines : stage[l] # "idle" <=> Place(l) < k

\* A turn is nested in that of a line before it, and a turn ends by throwing.
TurnInv ==
  /\ \E k \in 0..NLines : Ring(k)
  /\ \A m \in Lines : nest[m] # Nothing =>
       stage[m] \in {"corun", "sunk"} /\ stage[nest[m]] # "idle" /\ Place(m) < Place(nest[m])
  /\ \A l \in Lines : stage[l] = "ended" => cancelled

LEMMA NextLine == ASSUME NEW l \in Lines PROVE Next1(l) = IF l = NLines - 1 THEN 0 ELSE l + 1
BY ChannelConstants DEF Next1, Lines

LEMMA Places ==
  ASSUME tail \in Lines
  PROVE  /\ tail \in 0..(NLines - 1) /\ NLines \in Nat \ {0}
         /\ \A l \in Lines : l \in 0..(NLines - 1) /\ Place(l) \in 0..(NLines - 1)
         /\ Place(tail) = 0
         /\ \A l, m \in Lines : Place(l) = Place(m) => l = m
BY ChannelConstants DEF Place, Lines

LEMMA NextPlace ==
  ASSUME tail \in Lines, tail' = Next1(tail)
  PROVE  \A l \in Lines : Place(l)' = IF l = tail THEN NLines - 1 ELSE Place(l) - 1
BY ChannelConstants, NextLine DEF Place, Lines

\* A step that leaves the head, the tail and the nesting, and who is in a turn.
LEMMA TurnKept ==
  ASSUME TurnInv, head' = head, tail' = tail,
         \A l \in Lines : stage'[l] = "idle" <=> stage[l] = "idle",
         \A m \in Lines : nest'[m] # Nothing =>
            nest'[m] = nest[m] /\ nest[m] \in Lines /\ stage'[m] \in {"corun", "sunk"},
         \A l \in Lines : stage'[l] = "ended" => cancelled'
  PROVE  TurnInv'
<1>1. \A l : Place(l)' = Place(l)
  BY DEF Place
<1>2. PICK k \in 0..NLines : Ring(k)
  BY DEF TurnInv
<1>3. Ring(k)'
  BY <1>1, <1>2 DEF Ring
<1> QED
  BY <1>1, <1>3 DEF TurnInv

LEMMA EnterTurn ==
  ASSUME TurnInv, LocalTypes, NEW l \in Lines, EnterPipe(l)
  PROVE  TurnInv'
<1> USE DEF LocalTypes
<1>1. PICK k \in 0..NLines : Ring(k)
  BY DEF TurnInv
<1>2. k < NLines /\ Place(l) = k
  <2>1. head = l /\ head \in Lines /\ tail \in Lines /\ stage[l] = "idle"
    BY DEF EnterPipe
  <2>2. ~(Place(l) < k)
    BY <1>1, <2>1 DEF Ring
  <2> QED
    BY <1>1, <2>1, <2>2, Places DEF Ring, Place
<1>3. Ring(k + 1)'
  <2>1. tail' = tail /\ \A j : Place(j)' = Place(j)
    BY DEF EnterPipe, Place
  <2>2. head' = tail + (k + 1) \/ head' = tail + (k + 1) - NLines
    BY <1>1, <1>2, NextLine, Places DEF EnterPipe, Ring
  <2>3. ASSUME NEW j \in Lines PROVE stage'[j] # "idle" <=> Place(j) < k + 1
    <3>1. stage'[j] = IF j = l THEN "dequeue" ELSE stage[j]
      BY DEF EnterPipe
    <3>2. stage[j] # "idle" <=> Place(j) < k
      BY <1>1 DEF Ring
    <3>3. j # l => Place(j) # k
      BY <1>2, Places
    <3> QED
      BY <1>2, <3>1, <3>2, <3>3, Places
  <2> QED
    BY <2>1, <2>2, <2>3 DEF Ring
<1>4. k + 1 \in 0..NLines
  BY <1>2, ChannelConstants
<1>5. ASSUME NEW m \in Lines, nest'[m] # Nothing
      PROVE  /\ stage'[m] \in {"corun", "sunk"} /\ stage'[nest'[m]] # "idle"
             /\ Place(m)' < Place(nest[m])'
  <2>1. tail' = tail /\ \A j : Place(j)' = Place(j)
    BY DEF EnterPipe, Place
  <2>2. stage' = [stage EXCEPT ![l] = "dequeue"] /\ stage[l] = "idle"
    BY DEF EnterPipe
  <2>3. CASE nest'[m] = nest[m]
    <3>1. /\ stage[m] \in {"corun", "sunk"} /\ stage[nest[m]] # "idle"
          /\ Place(m) < Place(nest[m])
      BY <1>5, <2>3 DEF TurnInv
    <3>2. nest[m] \in Lines /\ m # l
      BY <1>5, <2>2, <2>3, <3>1
    <3>3. Place(m)' = Place(m) /\ Place(nest[m])' = Place(nest[m])
      BY <2>1, <2>3 DEF Place
    <3> QED
      BY <2>2, <2>3, <3>1, <3>2, <3>3
  <2>4. CASE nest'[m] # nest[m]
    <3>1. nest'[m] = l /\ m # l /\ Host(m)
      BY <2>4 DEF EnterPipe
    <3>2. stage[m] \in {"corun", "sunk"}
      BY <3>1 DEF Host
    <3>3. Place(m) < k
      BY <1>1, <3>2 DEF Ring
    <3>4. Place(m)' = Place(m) /\ Place(nest[m])' = k
      BY <1>2, <2>1, <3>1 DEF Place
    <3> QED
      BY <2>2, <3>1, <3>2, <3>3, <3>4
  <2> QED
    BY <2>3, <2>4
<1>6. \A j \in Lines : stage'[j] = "ended" => cancelled'
  BY DEF EnterPipe, TurnInv
<1>7. \E j \in 0..NLines : Ring(j)'
  BY <1>3, <1>4
<1> QED
  BY <1>5, <1>6, <1>7 DEF TurnInv

LEMMA LeaveTurn ==
  ASSUME TurnInv, LocalTypes, NEW l \in Lines, PassGate(l)
  PROVE  TurnInv'
<1> USE DEF LocalTypes
<1>1. PICK k \in 0..NLines : Ring(k)
  BY DEF TurnInv
<1>2. /\ tail = l /\ tail' = Next1(tail) /\ stage[l] = "gate" /\ head' = head /\ nest' = nest
      /\ cancelled' = cancelled /\ stage' = [stage EXCEPT ![l] = "idle"]
  BY DEF PassGate
<1>3. k > 0
  BY <1>1, <1>2, Places DEF Ring
<1>4. \A j \in Lines : Place(j)' = IF j = l THEN NLines - 1 ELSE Place(j) - 1
  BY <1>2, NextPlace
<1>5. Ring(k - 1)'
  <2>1. head = tail' + (k - 1) \/ head = tail' + (k - 1) - NLines
    BY <1>1, <1>2, <1>3, NextLine, Places DEF Ring
  <2>2. ASSUME NEW j \in Lines PROVE stage'[j] # "idle" <=> Place(j)' < k - 1
    <3>1. stage'[j] = IF j = l THEN "idle" ELSE stage[j]
      BY <1>2
    <3>2. stage[j] # "idle" <=> Place(j) < k
      BY <1>1 DEF Ring
    <3> QED
      BY <1>2, <1>4, <3>1, <3>2, Places
  <2> QED
    BY <1>2, <2>1, <2>2 DEF Ring
<1>6. k - 1 \in 0..NLines
  BY <1>3, ChannelConstants
<1>7. ASSUME NEW m \in Lines, nest'[m] # Nothing
      PROVE  /\ stage'[m] \in {"corun", "sunk"} /\ stage'[nest'[m]] # "idle"
             /\ Place(m)' < Place(nest[m])'
  <2>1. stage[m] \in {"corun", "sunk"} /\ stage[nest[m]] # "idle" /\ Place(m) < Place(nest[m])
    BY <1>2, <1>7 DEF TurnInv
  <2>2. nest[m] \in Lines /\ m # l
    BY <1>2, <1>7, <2>1
  <2>3. nest[m] # l
    BY <1>2, <2>1, Places
  <2>4. Place(m)' = Place(m) - 1 /\ Place(nest[m])' = Place(nest[m]) - 1
    <3>1. \A n \in Lines : n = nest[m] => Place(n)' = Place(nest[m])'
      BY <1>2 DEF Place
    <3> QED
      BY <1>4, <2>2, <2>3, <3>1
  <2>5. Place(m) \in Int /\ Place(nest[m]) \in Int
    BY <1>2, <2>2, Places
  <2>6. stage'[m] = stage[m] /\ stage'[nest'[m]] = stage[nest[m]]
    BY <1>2, <2>2, <2>3
  <2> QED
    BY <2>1, <2>4, <2>5, <2>6
<1>8. \A j \in Lines : stage'[j] = "ended" => cancelled'
  BY <1>2 DEF TurnInv
<1>9. \E j \in 0..NLines : Ring(j)'
  BY <1>5, <1>6
<1> QED
  BY <1>7, <1>8, <1>9 DEF TurnInv

LEMMA TurnStep == TurnInv /\ LocalTypes /\ [Next]_vars => TurnInv'
<1> SUFFICES ASSUME TurnInv, LocalTypes, [Next]_vars PROVE TurnInv'
  OBVIOUS
<1>0. ASSUME UNCHANGED pipeline PROVE TurnInv'
  BY <1>0, TurnKept DEF TurnInv, LocalTypes, pipeline
<1>1. ASSUME NEW s \in Sockets, Socket(s) PROVE TurnInv'
  BY <1>0, <1>1 DEF Socket, Receive, Enqueue, SocketCloses
<1>2. CASE Start
  BY <1>0, <1>2 DEF Start, StoreStopped, BuildDiagram, LaunchMonitors, Notify, RunReturns
<1>3. CASE MonitorEnds
  BY <1>0, <1>3 DEF MonitorEnds
<1>4. ASSUME NEW l \in Lines, SerialPipe(l) PROVE TurnInv'
  BY <1>4, EnterTurn, LeaveTurn DEF SerialPipe
<1>5. ASSUME NEW l \in Lines, ParallelPipe(l) PROVE TurnInv'
  <2> USE DEF LocalTypes
  <2>1. CASE DequeueStop(l)
    BY <2>1, TurnKept DEF DequeueStop, TurnInv
  <2>2. ASSUME NEW s \in Sockets, DequeueFrame(l, s) PROVE TurnInv'
    BY <2>2, TurnKept DEF DequeueFrame, TurnInv
  <2>3. CASE StoreBusy(l)
    BY <2>3, TurnKept DEF StoreBusy, TurnInv
  <2>4. CASE RunTaskflow(l)
    BY <2>4, TurnKept DEF RunTaskflow, TurnInv
  <2>5. CASE Unnest(l)
    BY <2>5, TurnKept DEF Unnest, TurnInv
  <2>6. CASE CorunReturns(l)
    BY <2>6, TurnKept DEF CorunReturns, TurnInv
  <2> QED
    BY <1>5, <2>1, <2>2, <2>3, <2>4, <2>5, <2>6 DEF ParallelPipe
<1>6. CASE StopMonitor \/ SpuriousWake
  BY <1>0, <1>6 DEF StopMonitor, SpuriousWake
<1>7. CASE Stop
  BY <1>0, <1>7 DEF Stop, WaitedForSockets, TestDiagram, Sleep, CasStopped, ScanLine, SendStops
<1>8. CASE UNCHANGED vars
  BY <1>0, <1>8 DEF vars
<1> QED
  BY <1>1, <1>2, <1>3, <1>4, <1>5, <1>6, <1>7, <1>8 DEF Next

\* Of some lines, one has the last turn.
LEMMA LastLine ==
  ASSUME tail \in Lines, NEW L \in SUBSET Lines, L # {}
  PROVE  \E l \in L : \A m \in L : Place(m) <= Place(l)
<1> DEFINE T == {NLines - Place(l) : l \in L}
<1>1. T \in SUBSET Nat /\ T # {}
  BY Places
<1>2. PICK n \in T : \A m \in T : <<m, n>> \notin OpToRel(<, Nat)
  BY <1>1, WFMin, NatLessThanWellFounded
<1>3. PICK l \in L : n = NLines - Place(l)
  BY <1>2
<1>4. ASSUME NEW m \in L, ~(Place(m) <= Place(l)) PROVE FALSE
  <2>1. NLines - Place(m) \in T /\ NLines - Place(m) < n
    BY <1>3, <1>4, Places
  <2>2. <<NLines - Place(m), n>> \in OpToRel(<, Nat)
    BY <1>1, <1>2, <2>1 DEF OpToRel
  <2> QED
    BY <1>2, <2>1, <2>2
<1> QED
  BY <1>4

(***************************************************************************)
(* However many lines there are, and with turns nested in the corun of     *)
(* other lines, the pipeline cannot deadlock: while the workflow runs, a   *)
(* pipe can take a step, or the run is cancelled and can return, or no     *)
(* stop has been made and a line waits for the next frame.                 *)
(***************************************************************************)
THEOREM PipelineNeverStuck == Spec => []NeverStuck
<1>1. ASSUME TurnInv, PipeInv, LocalTypes, Ch!TypeOK, NoStrandedLine PROVE NeverStuck
  <2> SUFFICES ASSUME ~RunIsOver, ~AwaitsFrames, \A l \in Lines : ~CanMove(l) PROVE FALSE
    BY DEF NeverStuck
  <2> DEFINE Mid == {l \in Lines : stage[l] \in {"dequeue", "taken", "corun", "sunk"}}
  <2>1. tail \in Lines /\ head \in Lines
    BY <1>1 DEF LocalTypes
  <2>2. CASE Mid = {}
    <3>1. \A l \in Lines : stage[l] \in {"idle", "gate", "ended"}
      BY <1>1, <2>2 DEF LocalTypes
    <3>2. ~cancelled
      BY <3>1 DEF RunIsOver
    <3>3. \A l \in Lines : stage[l] \in {"idle", "gate"}
      BY <1>1, <3>1, <3>2 DEF TurnInv
    <3>4. stage[tail] = "idle" /\ stage[head] = "gate"
      BY <2>1, <3>3 DEF CanMove
    <3>5. PICK k \in 0..NLines : Ring(k)
      BY <1>1 DEF TurnInv
    <3>6. k = 0
      BY <2>1, <3>4, <3>5, Places DEF Ring
    <3>7. head = tail
      BY <2>1, <3>5, <3>6, Places DEF Ring
    <3> QED
      BY <3>4, <3>7
  <2>3. CASE Mid # {}
    <3>1. PICK l \in Mid : \A m \in Mid : Place(m) <= Place(l)
      BY <2>1, <2>3, LastLine
    <3>2. stage[l] # "dequeue"
      <4> SUFFICES ASSUME stage[l] = "dequeue" PROVE FALSE
        OBVIOUS
      <4>1. l \notin ended /\ held[l] = Nothing
        BY <1>1, <3>1 DEF PipeInv
      <4>2. ~(stops > 0) /\ \A s \in Sockets : chan[s] = <<>>
        BY <3>1, <4>1 DEF CanMove
      <4>3. ~stopping
        BY <1>1, <3>1, <4>2 DEF NoStrandedLine
      <4>4. Ch!Queued = {}
        BY <4>2 DEF Ch!Queued
      <4> QED
        BY <3>1, <4>3, <4>4 DEF AwaitsFrames
    <3>3. stage[l] # "taken" /\ stage[l] # "corun"
      BY <1>1, <3>1 DEF PipeInv, CanMove
    <3>4. stage[l] = "sunk" /\ nest[l] # Nothing
      BY <3>1, <3>2, <3>3 DEF CanMove
    <3>5. nest[l] \in Lines /\ Place(l) < Place(nest[l])
      BY <1>1, <3>1, <3>4 DEF TurnInv, LocalTypes
    <3>6. nest[l] \notin Mid
      BY <2>1, <3>1, <3>5, Places
    <3>7. stage[nest[l]] \in {"idle", "gate", "ended"}
      BY <1>1, <3>5, <3>6 DEF LocalTypes
    <3> QED
      BY <3>1, <3>4, <3>7 DEF CanMove
  <2> QED
    BY <2>2, <2>3
<1>2. Init => TurnInv
  <2> SUFFICES ASSUME Init PROVE TurnInv
    OBVIOUS
  <2>1. tail = 0 /\ head = 0 /\ tail \in Lines
    BY ChannelConstants DEF Init, Lines
  <2>2. Ring(0)
    BY <2>1, Places DEF Init, Ring
  <2> QED
    BY <2>2, ChannelConstants DEF Init, TurnInv
<1> QED
  BY <1>1, <1>2, TurnStep, PipeInvariance, NoLineStranded, PTL DEF Spec
=============================================================================
