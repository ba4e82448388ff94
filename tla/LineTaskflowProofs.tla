-------------------------- MODULE LineTaskflowProofs --------------------------
(***************************************************************************)
(* Proofs about LineTaskflow for all lines, output names, datagrams and    *)
(* numbers of frames.                                                      *)
(***************************************************************************)
EXTENDS LineTaskflow, WellFoundedInduction, SequenceTheorems, TLAPS

(***************************************************************************)
(* Lemmas about the outputs and the conversions.                           *)
(***************************************************************************)

\* The sinks that Manager accepts, and what they require.
SinksOK == sinks \subseteq {f \in Files : Writer(f) # "no_output"} \cup {Checker}

LEMMA SinkKinds ==
  ASSUME NEW f \in Files, Writer(f) # "no_output"
  PROVE  /\ f # Checker /\ f \notin Converters /\ f # "raw"
         /\ Previous(f) = Required(f)
         /\ \/ Writer(f) = "bin" /\ Required(f) \in {"raw_frame", "proto_frame"}
            \/ Writer(f) \in {"root", "json"} /\ Required(f) = "structure"
            \/ Writer(f) = "udp" /\ Required(f) \in {"raw", "proto"}
<1>1. f # Checker /\ f \notin Converters /\ f # "raw"
  BY LineAssumption
<1>2. Previous(f) = Required(f)
  BY <1>1 DEF Previous, Converters
<1>3. Writer(f) = FileType(Extension[f])[1] /\ Required(f) = FileType(Extension[f])[2]
  BY <1>1 DEF Writer, Required
<1> QED
  BY <1>1, <1>2, <1>3 DEF FileType

LEMMA CheckerKind == Writer(Checker) = "checker" /\ Required(Checker) = "raw" /\ Previous(Checker) = "raw"
  BY DEF Writer, Required, Previous, Checker

\* One step along the relations.
LEMMA DependersStep ==
  ASSUME NEW X, NEW y
  PROVE  y \in Dependers(X) <=>
           \/ y \in X
           \/ "raw" \in X /\ y \in {"raw_frame", "structure"}
           \/ "structure" \in X /\ y = "structure_to_proto"
           \/ "structure_to_proto" \in X /\ y \in {"proto", "proto_frame"}
<1>1. y \in Dependers(X) <=> y \in X \/ \E r \in Relations : r[1] \in X /\ y = r[2]
  BY Zenon DEF Dependers
<1>2. (\E r \in Relations : r[1] \in X /\ y = r[2]) <=>
        \/ "raw" \in X /\ y \in {"raw_frame", "structure"}
        \/ "structure" \in X /\ y = "structure_to_proto"
        \/ "structure_to_proto" \in X /\ y \in {"proto", "proto_frame"}
  BY DEF Relations
<1> QED
  BY <1>1, <1>2

LEMMA Dependencies ==
  ASSUME NEW y
  PROVE  /\ HasDependency("raw_frame", y) <=> y = "raw_frame"
         /\ HasDependency("structure", y)
              <=> y \in {"structure", "structure_to_proto", "proto", "proto_frame"}
         /\ HasDependency("structure_to_proto", y)
              <=> y \in {"structure_to_proto", "proto", "proto_frame"}
         /\ HasDependency("proto", y) <=> y = "proto"
         /\ HasDependency("proto_frame", y) <=> y = "proto_frame"
  BY DependersStep, SMTT(60) DEF HasDependency

\* Every conversion that is required has a task, and every sink.
LEMMA TasksMade ==
  LineTasks = {c \in Converters : IsConvertRequired(c)}
                \cup {s \in sinks : Previous(s) \in {c \in Converters : IsConvertRequired(c)} \cup {"raw"}}
<1> DEFINE After(done) == {c \in Converters : Previous(c) \in done \cup {"raw"} /\ IsConvertRequired(c)}
           R == {c \in Converters : IsConvertRequired(c)}
<1>1. /\ IsConvertRequired("structure_to_proto") => IsConvertRequired("structure")
      /\ IsConvertRequired("proto") => IsConvertRequired("structure_to_proto")
      /\ IsConvertRequired("proto_frame") => IsConvertRequired("structure_to_proto")
  BY Dependencies DEF IsConvertRequired
<1>2. /\ Previous("raw_frame") = "raw" /\ Previous("structure") = "raw"
      /\ Previous("structure_to_proto") = "structure"
      /\ Previous("proto") = "structure_to_proto" /\ Previous("proto_frame") = "structure_to_proto"
  BY DEF Previous
<1>3. \A c \in {"raw_frame", "structure"} \cap R : c \in After({}) /\ c \in After(After({}))
                                                  /\ c \in After(After(After({})))
  BY <1>2
<1>4. "structure_to_proto" \in R => /\ "structure_to_proto" \in After(After({}))
                                    /\ "structure_to_proto" \in After(After(After({})))
  BY <1>1, <1>2, <1>3 DEF Converters
<1>5. \A c \in {"proto", "proto_frame"} \cap R : c \in After(After(After({})))
  BY <1>1, <1>2, <1>4 DEF Converters
<1>6. After(After(After({}))) = R
  BY <1>3, <1>4, <1>5 DEF Converters
<1>7. LineTasks = After(After(After({})))
                    \cup {s \in sinks : Previous(s) \in After(After(After({}))) \cup {"raw"}}
  BY DEF LineTasks
<1> QED
  BY <1>6, <1>7

LEMMA SinksHaveTasks ==
  ASSUME SinksOK
  PROVE  /\ LineTasks = {c \in Converters : IsConvertRequired(c)} \cup sinks
         /\ \A t \in LineTasks : Previous(t) \in LineTasks \cup {"raw"}
         /\ \A c \in LineTasks \cap Converters : \E t \in LineTasks : Previous(t) = c
<1>1. ASSUME NEW s \in sinks
      PROVE  Previous(s) \in {c \in Converters : IsConvertRequired(c)} \cup {"raw"}
  <2>1. CASE s = Checker
    BY <2>1, CheckerKind
  <2>2. CASE s # Checker
    <3>1. Previous(s) = Required(s)
          /\ Required(s) \in {"raw_frame", "proto_frame", "structure", "raw", "proto"}
      BY <2>2, SinkKinds DEF SinksOK
    <3>2. Required(s) # "raw" => HasDependency(Required(s), Required(s))
      BY <3>1, Dependencies
    <3> QED
      BY <3>1, <3>2 DEF IsConvertRequired, Converters
  <2> QED
    BY <2>1, <2>2
<1>2. LineTasks = {c \in Converters : IsConvertRequired(c)} \cup sinks
  BY <1>1, TasksMade
<1>3. /\ IsConvertRequired("structure_to_proto") => IsConvertRequired("structure")
      /\ IsConvertRequired("proto") => IsConvertRequired("structure_to_proto")
      /\ IsConvertRequired("proto_frame") => IsConvertRequired("structure_to_proto")
  BY Dependencies DEF IsConvertRequired
<1>4. /\ Previous("raw_frame") = "raw" /\ Previous("structure") = "raw"
      /\ Previous("structure_to_proto") = "structure"
      /\ Previous("proto") = "structure_to_proto" /\ Previous("proto_frame") = "structure_to_proto"
  BY DEF Previous
<1>5. \A t \in LineTasks : Previous(t) \in LineTasks \cup {"raw"}
  BY <1>1, <1>2, <1>3, <1>4 DEF Converters
<1>6. ASSUME NEW c \in LineTasks \cap Converters PROVE \E t \in LineTasks : Previous(t) = c
  <2>1. IsConvertRequired(c)
    BY <1>2, LineAssumption DEF SinksOK, Converters, Checker
  <2>2. PICK s \in sinks : HasDependency(c, Required(s))
    BY <2>1 DEF IsConvertRequired
  <2>3. Required(s) \in Converters => s \in LineTasks /\ Previous(s) = Required(s)
    BY <1>2, CheckerKind, SinkKinds DEF SinksOK, Converters
  <2>4. CASE c = Required(s)
    BY <2>3, <2>4
  <2>5. CASE c # Required(s)
    <3>1. \/ c = "structure" /\ Required(s) \in {"structure_to_proto", "proto", "proto_frame"}
          \/ c = "structure_to_proto" /\ Required(s) \in {"proto", "proto_frame"}
      BY <2>2, <2>5, Dependencies DEF Converters
    <3>2. CASE c = "structure"
      <4>1. IsConvertRequired("structure_to_proto")
        BY <3>1, <3>2, Dependencies DEF IsConvertRequired
      <4> QED
        BY <1>2, <1>4, <3>2, <4>1 DEF Converters
    <3>3. CASE c = "structure_to_proto"
      <4>1. IsConvertRequired("proto") \/ IsConvertRequired("proto_frame")
        BY <3>1, <3>3, Dependencies DEF IsConvertRequired
      <4> QED
        BY <1>2, <1>4, <3>3, <4>1 DEF Converters
    <3> QED
      BY <3>1, <3>2, <3>3
  <2> QED
    BY <2>4, <2>5
<1> QED
  BY <1>2, <1>5, <1>6

(***************************************************************************)
(* Typing.                                                                 *)
(***************************************************************************)

\* The tasks of the lines are made once the sinks are there, and a line has tasks
\* left to run only if it has dequeued something.
FedInv ==
  /\ SinksOK
  /\ phase = "config" => sinks = {}
  /\ phase \in {"run", "end"} => \A l \in Lines : tasks[l] = LineTasks
  /\ phase \in {"config", "construct"} => \A l \in Lines : taken[l] = <<>> /\ todo[l] = {}
  /\ \A l \in Lines : todo[l] \subseteq tasks[l]
  /\ \A l \in Lines : todo[l] # {} => taken[l] # <<>>
  /\ phase = "end" => \A l \in Lines : todo[l] = {}

LEMMA TasksStay == sinks' = sinks => LineTasks' = LineTasks
  BY DEF LineTasks, IsConvertRequired

LEMMA AcceptedSinks ==
  ASSUME NEW resolved, filenames \in Seq(Files)
  PROVE  Accepted(resolved) \subseteq {f \in Files : Writer(f) # "no_output"}
<1> SUFFICES ASSUME NEW f \in Accepted(resolved) PROVE f \in Files /\ Writer(f) # "no_output"
  OBVIOUS
<1>1. f \in {filenames[i] : i \in DOMAIN filenames}
  BY DEF Accepted
<1>2. CASE Writer(f) = "no_output"
  BY <1>2 DEF Accepted
<1> QED
  BY <1>1, <1>2

LEMMA TasksTyped == SinksOK => LineTasks \in SUBSET (Converters \cup Files \cup {Checker})
  BY SinksHaveTasks DEF SinksOK

LEMMA FedStep == FedInv /\ TypeOK /\ [Next]_vars => FedInv'
<1> SUFFICES ASSUME FedInv, TypeOK, [Next]_vars PROVE FedInv'
  OBVIOUS
<1> USE DEF FedInv, SinksOK
<1>1. CASE SetOutputFilenames
  <2>1. PICK resolved \in Resolutions : sinks' = Accepted(resolved) \cup EnabledChecker
    BY <1>1 DEF SetOutputFilenames
  <2>2. SinksOK'
    BY <2>1, AcceptedSinks DEF TypeOK, EnabledChecker
  <2> QED
    BY <1>1, <2>2 DEF SetOutputFilenames, frameVars
<1>2. CASE ConstructTaskflow
  <2>1. LineTasks' = LineTasks
    BY <1>2, TasksStay DEF ConstructTaskflow
  <2> HIDE DEF SinksOK
  <2> QED
    BY <1>2, <2>1 DEF ConstructTaskflow, SinksOK
<1>3. ASSUME UNCHANGED <<sinks, tasks>>, phase' = phase \/ (phase = "run" /\ phase' = "end")
      PROVE  /\ SinksOK' /\ (phase' # "config" \/ sinks' = {})
             /\ phase' \in {"run", "end"} => \A l \in Lines : tasks'[l] = LineTasks'
  BY <1>3, TasksStay
<1>4. ASSUME NEW l \in Lines, TakeFrame(l) PROVE FedInv'
  <2>1. PICK d \in Datagrams : taken' = [taken EXCEPT ![l] = Append(@, d)]
    BY <1>4 DEF TakeFrame
  <2>2. taken'[l] # <<>>
    BY <2>1 DEF TypeOK
  <2>3. \A k \in Lines \ {l} : taken'[k] = taken[k] /\ todo'[k] = todo[k]
    BY <1>4, <2>1 DEF TakeFrame, TypeOK
  <2>4. todo'[l] = tasks[l]
    BY <1>4 DEF TakeFrame, TypeOK
  <2> QED
    BY <1>3, <1>4, <2>2, <2>3, <2>4 DEF TakeFrame
<1>5. ASSUME NEW l \in Lines, NEW t, RunOnce(t, l) PROVE FedInv'
  <2>1. \A k \in Lines : todo'[k] \subseteq todo[k]
    BY <1>5 DEF RunOnce, TypeOK
  <2> QED
    BY <1>3, <1>5, <2>1 DEF RunOnce, Ready
<1>6. CASE Destroy
  BY <1>3, <1>6 DEF Destroy, frameVars
<1>7. CASE UNCHANGED vars
  BY <1>3, <1>7 DEF vars, frameVars
<1> QED
  BY <1>1, <1>2, <1>4, <1>5, <1>6, <1>7 DEF Next, Ended, RunConverter, RunSink

LEMMA TypeStep == FedInv /\ TypeOK /\ [Next]_vars => TypeOK'
<1> SUFFICES ASSUME FedInv, TypeOK, [Next]_vars PROVE TypeOK'
  OBVIOUS
<1>0. FedInv'
  BY FedStep
<1>1. CASE SetOutputFilenames
  <2>1. sinks' \in SUBSET (Files \cup {Checker})
    BY <1>0 DEF FedInv, SinksOK
  <2>2. /\ DOMAIN written' = sinks' /\ \A s \in sinks' : DOMAIN written'[s] = Lines
        /\ first' \in [sinks' -> [Lines -> BOOLEAN]]
    BY <1>1 DEF SetOutputFilenames
  <2> QED
    BY <1>1, <2>1, <2>2 DEF SetOutputFilenames, frameVars, TypeOK
<1>2. CASE ConstructTaskflow
  <2>1. LineTasks' = LineTasks /\ LineTasks \in SUBSET (Converters \cup Files \cup {Checker})
    BY <1>2, TasksStay, TasksTyped DEF ConstructTaskflow, FedInv
  <2> QED
    BY <1>2, <2>1 DEF ConstructTaskflow, sinkVars, TypeOK
<1>3. ASSUME NEW l \in Lines, TakeFrame(l) PROVE TypeOK'
  <2>1. LineTasks' = LineTasks
    BY <1>3, TasksStay DEF TakeFrame
  <2>2. PICK d \in Datagrams : taken' = [taken EXCEPT ![l] = Append(@, d)]
    BY <1>3 DEF TakeFrame
  <2>3. taken' \in [Lines -> Seq(Datagrams)]
    BY <2>2 DEF TypeOK
  <2> QED
    BY <1>3, <2>1, <2>3 DEF TakeFrame, sinkVars, TypeOK
<1>4. ASSUME NEW l \in Lines, NEW t, RunOnce(t, l)
      PROVE  /\ LineTasks' = LineTasks /\ t \in LineTasks /\ phase = "run" /\ phase' = "run"
             /\ todo' \in [Lines -> SUBSET (Converters \cup Files \cup {Checker})]
             /\ samples' \in [LineTasks -> [Lines -> Nat]]
  <2>1. LineTasks' = LineTasks
    BY <1>4, TasksStay DEF RunOnce
  <2>2. t \in tasks[l] /\ phase = "run" /\ t \in LineTasks
    BY <1>4 DEF RunOnce, Ready, FedInv, TypeOK
  <2> QED
    BY <1>4, <2>1, <2>2 DEF RunOnce, TypeOK
<1>5. ASSUME NEW l \in Lines, NEW c \in Converters, RunConverter(c, l) PROVE TypeOK'
  <2>1. DOMAIN output' = Converters /\ \A k \in Converters : DOMAIN output'[k] = Lines
    BY <1>5 DEF RunConverter, TypeOK
  <2> QED
    BY <1>4, <1>5, <2>1 DEF RunConverter, RunOnce, sinkVars, TypeOK
<1>6. ASSUME NEW l \in Lines, NEW s \in sinks, RunSink(s, l) PROVE TypeOK'
  <2>1. RunOnce(s, l)
    BY <1>6 DEF RunSink
  <2>2. DOMAIN written' = sinks /\ \A k \in sinks : DOMAIN written'[k] = Lines
    <3>1. DOMAIN written = sinks /\ \A k \in sinks : DOMAIN written[k] = Lines
      BY <1>4, <2>1 DEF TypeOK
    <3> QED
      BY <1>6, <3>1 DEF RunSink
  <2>3. first' \in [sinks -> [Lines -> BOOLEAN]]
    BY <1>4, <1>6, <2>1 DEF RunSink, TypeOK
  <2> QED
    BY <1>4, <1>6, <2>1, <2>2, <2>3 DEF RunSink, RunOnce, TypeOK
<1>7. CASE Destroy
  <2>1. LineTasks' = LineTasks
    BY <1>7, TasksStay DEF Destroy
  <2> QED
    BY <1>7, <2>1 DEF Destroy, frameVars, TypeOK
<1>8. CASE UNCHANGED vars
  <2>1. LineTasks' = LineTasks
    BY <1>8, TasksStay DEF vars
  <2> QED
    BY <1>8, <2>1 DEF vars, frameVars, sinkVars, TypeOK
<1> QED
  BY <1>1, <1>2, <1>3, <1>5, <1>6, <1>7, <1>8 DEF Next, Ended

LEMMA TypeInvariance == Spec => [](FedInv /\ TypeOK)
<1>1. Init => FedInv /\ TypeOK
  <2> SUFFICES ASSUME Init PROVE FedInv /\ TypeOK
    OBVIOUS
  <2>1. filenames \in Seq(Files)
    <3>1. PICK n \in 0..MaxOutputs : filenames \in [1..n -> Files]
      BY DEF Init
    <3>2. MaxOutputs \in Nat
      BY LineAssumption
    <3> QED
      BY <3>1, <3>2
  <2>2. FedInv
    BY DEF Init, FedInv, SinksOK
  <2>3. DOMAIN output = Converters /\ \A c \in Converters : DOMAIN output[c] = Lines
    BY DEF Init
  <2>4. phase = "config" /\ sinks = {}
    BY DEF Init
  <2>5. tasks = [l \in Lines |-> {}] /\ todo = [l \in Lines |-> {}] /\ taken = [l \in Lines |-> <<>>]
    BY DEF Init
  <2> QED
    BY <2>1, <2>2, <2>3, <2>4, <2>5 DEF TypeOK
<1> QED
  BY <1>1, FedStep, TypeStep, PTL DEF Spec

(***************************************************************************)
(* The variables of the taskflow always have their types.                  *)
(***************************************************************************)
THEOREM LineTyping == Spec => []TypeOK
  BY TypeInvariance, PTL

(***************************************************************************)
(* Whatever outputs the user names, each sink that is accepted has a task  *)
(* on every line that follows the one it reads from.                       *)
(***************************************************************************)
THEOREM EverySinkIsFed == Spec => []EverySinkFed
<1>1. FedInv => EverySinkFed
  BY SinksHaveTasks DEF FedInv, EverySinkFed
<1> QED
  BY <1>1, TypeInvariance, PTL

(***************************************************************************)
(* The report.                                                             *)
(***************************************************************************)

\* How often task t has run on line l.
Done(t, l) == IF t \in todo[l] THEN Len(taken[l]) - 1 ELSE Len(taken[l])

SamplesInv ==
  phase \in {"run", "end"} => \A t \in LineTasks, l \in Lines : samples[t][l] = Done(t, l)

ReportInv ==
  phase = "end" => \A t \in LineTasks, l \in Lines :
    TaskName(t) \in DOMAIN report /\ report[TaskName(t)][l] = Len(taken[l])

\* What a step of the lines does to the number of runs.
LEMMA DoneAfterFrame ==
  ASSUME FedInv, TypeOK, NEW l \in Lines, TakeFrame(l), NEW t \in LineTasks, NEW k \in Lines
  PROVE  Done(t, k)' = Done(t, k)
<1>1. PICK d \in Datagrams : taken' = [taken EXCEPT ![l] = Append(@, d)]
  BY DEF TakeFrame
<1>2. todo[l] = {} /\ todo' = [todo EXCEPT ![l] = tasks[l]] /\ tasks[l] = LineTasks
  BY DEF TakeFrame, FedInv
<1>3. Len(taken'[l]) = Len(taken[l]) + 1 /\ Len(taken[l]) \in Nat
  BY <1>1 DEF TypeOK
<1>4. CASE k = l
  <2>1. t \in todo'[l] /\ t \notin todo[l]
    BY <1>2 DEF TypeOK
  <2> QED
    BY <1>3, <1>4, <2>1 DEF Done
<1>5. CASE k # l
  BY <1>1, <1>2, <1>5 DEF Done, TypeOK
<1> QED
  BY <1>4, <1>5

LEMMA DoneAfterRun ==
  ASSUME FedInv, TypeOK, NEW l \in Lines, NEW t, RunOnce(t, l), NEW u, NEW k \in Lines
  PROVE  /\ t \in todo[l] /\ Len(taken[l]) \in Nat \ {0}
         /\ Done(t, l) = Len(taken[l]) - 1 /\ Done(t, l)' = Len(taken[l])
         /\ u # t \/ k # l => Done(u, k)' = Done(u, k)
<1>1. t \in todo[l] /\ todo' = [todo EXCEPT ![l] = @ \ {t}] /\ taken' = taken
  BY DEF RunOnce, Ready
<1>2. Len(taken[l]) \in Nat \ {0}
  <2>1. taken[l] # <<>> /\ taken[l] \in Seq(Datagrams)
    BY <1>1 DEF FedInv, TypeOK
  <2> QED
    BY <2>1
<1> QED
  BY <1>1, <1>2 DEF Done, TypeOK

LEMMA SamplesStep == SamplesInv /\ FedInv /\ TypeOK /\ [Next]_vars => SamplesInv'
<1> SUFFICES ASSUME SamplesInv, FedInv, TypeOK, [Next]_vars PROVE SamplesInv'
  OBVIOUS
<1>1. CASE SetOutputFilenames
  BY <1>1 DEF SetOutputFilenames, SamplesInv
<1>2. CASE ConstructTaskflow
  <2>1. LineTasks' = LineTasks
    BY <1>2, TasksStay DEF ConstructTaskflow
  <2>2. \A t \in LineTasks, l \in Lines : Done(t, l)' = 0 /\ samples'[t][l] = 0
    BY <1>2 DEF ConstructTaskflow, FedInv, Done
  <2> QED
    BY <2>1, <2>2 DEF SamplesInv
<1>3. ASSUME NEW l \in Lines, TakeFrame(l) PROVE SamplesInv'
  <2>1. LineTasks' = LineTasks /\ samples' = samples /\ phase = "run"
    BY <1>3, TasksStay DEF TakeFrame
  <2>2. \A t \in LineTasks, k \in Lines : Done(t, k)' = Done(t, k)
    BY <1>3, DoneAfterFrame
  <2> QED
    BY <2>1, <2>2 DEF SamplesInv
<1>4. ASSUME NEW l \in Lines, NEW t, RunOnce(t, l) PROVE SamplesInv'
  <2>1. LineTasks' = LineTasks /\ phase = "run"
    BY <1>4, TasksStay DEF RunOnce, Ready, FedInv, TypeOK
  <2>2. samples' = [samples EXCEPT ![t][l] = @ + 1] /\ samples \in [LineTasks -> [Lines -> Nat]]
    BY <1>4, <2>1 DEF RunOnce, TypeOK
  <2>3. ASSUME NEW u \in LineTasks, NEW k \in Lines PROVE samples'[u][k] = Done(u, k)'
    <3>1. samples[u][k] = Done(u, k)
      BY <2>1 DEF SamplesInv
    <3>2. CASE u = t /\ k = l
      <4>1. samples'[u][k] = samples[u][k] + 1
        BY <2>2, <3>2
      <4> QED
        BY <1>4, <3>1, <3>2, <4>1, DoneAfterRun
    <3>3. CASE ~(u = t /\ k = l)
      <4>1. samples'[u][k] = samples[u][k]
        BY <2>2, <3>3
      <4>2. Done(u, k)' = Done(u, k)
        BY <1>4, <3>3, DoneAfterRun
      <4> QED
        BY <3>1, <4>1, <4>2
    <3> QED
      BY <3>2, <3>3
  <2> QED
    BY <2>1, <2>3 DEF SamplesInv
<1>5. CASE Destroy \/ UNCHANGED vars
  <2>1. UNCHANGED <<sinks, samples, taken, todo>> /\ (phase' \in {"run", "end"} => phase \in {"run", "end"})
    BY <1>5 DEF Destroy, vars, frameVars
  <2>2. LineTasks' = LineTasks
    BY <2>1, TasksStay
  <2> QED
    BY <2>1, <2>2 DEF SamplesInv, Done
<1> QED
  BY <1>1, <1>2, <1>3, <1>4, <1>5 DEF Next, Ended, RunConverter, RunSink

\* What is registered under a name are the samples of a task.
LEMMA RegisteredSamples ==
  ASSUME SinksOK, DOMAIN samples = LineTasks, NEW t \in LineTasks,
         NEW binary \in {s \in sinks : Writer(s) = "bin"} \cup {Checker},
         binary # Checker \/ \A s \in sinks : Writer(s) # "bin"
  PROVE  \E u \in LineTasks : Registered(TaskName(t), binary) = samples[u]
<1>1. CASE TaskName(t) = "Struct deserializer" /\ "structure_to_proto" \in DOMAIN samples
  BY <1>1 DEF Registered
<1>2. CASE TaskName(t) = "BinaryWriter"
  <2>1. t \in sinks /\ Writer(t) = "bin"
    <3>1. t \notin Converters /\ t # Checker
      BY <1>2 DEF TaskName, Converters, Checker
    <3>2. t \in sinks /\ t \in Files
      BY <3>1, SinksHaveTasks DEF SinksOK
    <3> QED
      BY <1>2, <3>1, <3>2, LineAssumption DEF TaskName
  <2>2. binary \in sinks
    BY <2>1
  <2> QED
    BY <1>2, <2>2, SinksHaveTasks DEF Registered
<1>3. CASE ~(TaskName(t) = "Struct deserializer" /\ "structure_to_proto" \in DOMAIN samples)
           /\ TaskName(t) # "BinaryWriter"
  <2> DEFINE u == CHOOSE u \in DOMAIN samples : TaskName(u) = TaskName(t)
  <2>1. u \in LineTasks
    OBVIOUS
  <2>2. Registered(TaskName(t), binary) = samples[u]
    BY <1>3 DEF Registered
  <2> QED
    BY <2>1, <2>2
<1> QED
  BY <1>1, <1>2, <1>3

LEMMA ReportStep == ReportInv /\ SamplesInv /\ FedInv /\ TypeOK /\ [Next]_vars => ReportInv'
<1> SUFFICES ASSUME ReportInv, SamplesInv, FedInv, TypeOK, [Next]_vars, phase' = "end"
             PROVE  ReportInv'
  BY DEF ReportInv
<1>1. CASE Destroy
  <2>1. LineTasks' = LineTasks /\ taken' = taken /\ DOMAIN samples = LineTasks /\ SinksOK
    BY <1>1, TasksStay DEF Destroy, frameVars, TypeOK, FedInv
  <2>2. PICK binary \in {t \in sinks : Writer(t) = "bin"} \cup {Checker} :
          /\ binary # Checker \/ \A t \in sinks : Writer(t) # "bin"
          /\ report' = [name \in {TaskName(t) : t \in DOMAIN samples} |-> Registered(name, binary)]
    BY <1>1 DEF Destroy
  <2>3. ASSUME NEW t \in LineTasks, NEW l \in Lines
        PROVE  TaskName(t) \in DOMAIN report' /\ report'[TaskName(t)][l] = Len(taken[l])
    <3>1. TaskName(t) \in DOMAIN report' /\ report'[TaskName(t)] = Registered(TaskName(t), binary)
      BY <2>1, <2>2
    <3>2. PICK u \in LineTasks : Registered(TaskName(t), binary) = samples[u]
      BY <2>1, <2>2, RegisteredSamples
    <3>3. samples[u][l] = Len(taken[l])
      BY <1>1 DEF Destroy, SamplesInv, Done
    <3> QED
      BY <3>1, <3>2, <3>3
  <2> QED
    BY <2>1, <2>3 DEF ReportInv
<1>2. CASE UNCHANGED vars
  <2>1. LineTasks' = LineTasks
    BY <1>2, TasksStay DEF vars
  <2> QED
    BY <1>2, <2>1 DEF vars, frameVars, ReportInv
<1>3. Destroy \/ UNCHANGED vars
  <2>1. ASSUME NEW l \in Lines, NEW t, RunOnce(t, l) PROVE phase' # "end"
    BY <2>1 DEF RunOnce, Ready, FedInv
  <2> QED
    BY <2>1, Zenon DEF Next, SetOutputFilenames, ConstructTaskflow, TakeFrame, RunConverter, RunSink, Ended
<1> QED
  BY <1>1, <1>2, <1>3

LEMMA SamplesInvariance == Spec => [](FedInv /\ TypeOK /\ SamplesInv /\ ReportInv)
<1>1. Init => SamplesInv /\ ReportInv
  BY DEF Init, SamplesInv, ReportInv
<1> QED
  BY <1>1, TypeInvariance, SamplesStep, ReportStep, PTL DEF Spec

(***************************************************************************)
(* Although tasks share names, the report has every name at the end, and   *)
(* for each line as many samples as it has dequeued datagrams.             *)
(***************************************************************************)
THEOREM ReportIsComplete == Spec => []ReportComplete
<1>1. FedInv /\ ReportInv => ReportComplete
  BY DEF FedInv, ReportInv, ReportComplete
<1> QED
  BY <1>1, SamplesInvariance, PTL

(***************************************************************************)
(* The records.                                                            *)
(***************************************************************************)

\* The output of a converter for a datagram, whatever was there before.
Converted(c, datagram) ==
  LET data == Deserialize(datagram, EmptyStruct)
  IN CASE c = "raw_frame" -> Delimit(datagram)
       [] c = "structure" -> Item("struct", data)
       [] c = "structure_to_proto" -> Item("proto", ToProto(data))
       [] c = "proto" -> SerializeProto(ToProto(data))
       [] OTHER -> SerializeDelimited(ToProto(data))

\* Once a converter has run, its output is that of the last datagram.
OutputInv ==
  \A l \in Lines : \A c \in tasks[l] \cap Converters :
    c \notin todo[l] /\ taken[l] # <<>> => output[c][l] = Converted(c, RawData(l))

\* A task whose turn it is finds the output it reads.
LEMMA PreviousConverted ==
  ASSUME FedInv, TypeOK, OutputInv, NEW l \in Lines, NEW t, Ready(t, l)
  PROVE  /\ t \in LineTasks /\ taken[l] # <<>>
         /\ Previous(t) # "raw" => /\ Previous(t) \in Converters
                                   /\ output[Previous(t)][l] = Converted(Previous(t), RawData(l))
<1>1. t \in LineTasks /\ tasks[l] = LineTasks /\ taken[l] # <<>>
  BY DEF Ready, FedInv, TypeOK
<1>2. Previous(t) \in LineTasks \cup {"raw"}
  BY <1>1, SinksHaveTasks DEF FedInv
<1>3. Previous(t) # "raw" => Previous(t) \in Converters
  <2>1. CASE t \in Converters
    BY <2>1 DEF Previous, Converters
  <2>2. CASE t = Checker
    BY <2>2, CheckerKind
  <2>3. CASE t \notin Converters /\ t # Checker
    <3>1. t \in Files /\ Writer(t) # "no_output"
      BY <1>1, <2>3, SinksHaveTasks DEF FedInv, SinksOK
    <3> QED
      BY <3>1, SinkKinds DEF Converters
  <2> QED
    BY <2>1, <2>2, <2>3
<1> QED
  BY <1>1, <1>2, <1>3 DEF OutputInv, Ready

LEMMA ConvertCorrect ==
  ASSUME FedInv, TypeOK, OutputInv, NEW l \in Lines, NEW c \in Converters, Ready(c, l)
  PROVE  Convert(c, l) = Converted(c, RawData(l))
<1>1. Previous(c) # "raw" => output[Previous(c)][l] = Converted(Previous(c), RawData(l))
  BY PreviousConverted
<1>2. CASE c = "raw_frame"
  BY <1>2 DEF Convert, Converted
<1>3. CASE c = "structure"
  BY <1>3 DEF Convert, Converted, Reset
<1>4. CASE c = "structure_to_proto"
  <2>1. output["structure"][l] = Item("struct", Deserialize(RawData(l), EmptyStruct))
    BY <1>1, <1>4 DEF Previous, Converted
  <2> QED
    BY <1>4, <2>1 DEF Convert, Converted, Item
<1>5. CASE c \in {"proto", "proto_frame"}
  <2>1. output["structure_to_proto"][l] = Item("proto", ToProto(Deserialize(RawData(l), EmptyStruct)))
    BY <1>1, <1>5 DEF Previous, Converted
  <2> QED
    BY <1>5, <2>1 DEF Convert, Converted, Item, SerializeProto, SerializeDelimited
<1> QED
  BY <1>2, <1>3, <1>4, <1>5 DEF Converters

LEMMA OutputStep == OutputInv /\ FedInv /\ TypeOK /\ [Next]_vars => OutputInv'
<1> SUFFICES ASSUME OutputInv, FedInv, TypeOK, [Next]_vars PROVE OutputInv'
  OBVIOUS
<1>1. CASE ConstructTaskflow
  BY <1>1 DEF ConstructTaskflow, FedInv, OutputInv
<1>2. CASE UNCHANGED <<tasks, taken, todo, output>>
  BY <1>2 DEF OutputInv, RawData
<1>3. ASSUME NEW l \in Lines, TakeFrame(l) PROVE OutputInv'
  <2>1. PICK d \in Datagrams : taken' = [taken EXCEPT ![l] = Append(@, d)]
    BY <1>3 DEF TakeFrame
  <2>2. todo'[l] = tasks[l]
    BY <1>3 DEF TakeFrame, TypeOK
  <2>3. \A k \in Lines \ {l} : taken'[k] = taken[k] /\ todo'[k] = todo[k]
    BY <1>3, <2>1 DEF TakeFrame, TypeOK
  <2>4. tasks' = tasks /\ output' = output
    BY <1>3 DEF TakeFrame
  <2> QED
    BY <2>2, <2>3, <2>4 DEF OutputInv, RawData
<1>4. ASSUME NEW l \in Lines, NEW c \in Converters, RunConverter(c, l) PROVE OutputInv'
  <2>1. RunOnce(c, l) /\ Ready(c, l) /\ tasks' = tasks /\ taken' = taken
    BY <1>4 DEF RunConverter, RunOnce
  <2>2. output'[c][l] = Converted(c, RawData(l))
    BY <1>4, <2>1, ConvertCorrect DEF RunConverter, TypeOK
  <2>3. \A b \in Converters, k \in Lines : b # c \/ k # l => output'[b][k] = output[b][k]
    BY <1>4 DEF RunConverter, TypeOK
  <2>4. \A b \in Converters, k \in Lines : b # c \/ k # l => (b \in todo'[k] <=> b \in todo[k])
    BY <2>1 DEF RunOnce, TypeOK
  <2>5. ASSUME NEW k \in Lines, NEW b \in tasks[k] \cap Converters, b \notin todo'[k], taken[k] # <<>>
        PROVE  output'[b][k] = Converted(b, RawData(k))
    <3>1. CASE b = c /\ k = l
      BY <2>2, <3>1
    <3>2. CASE b # c \/ k # l
      BY <2>3, <2>4, <2>5, <3>2 DEF OutputInv
    <3> QED
      BY <3>1, <3>2
  <2>6. \A k \in Lines : RawData(k)' = RawData(k)
    BY <2>1 DEF RawData
  <2> QED
    BY <2>1, <2>5, <2>6 DEF OutputInv, RawData
<1>5. ASSUME NEW l \in Lines, NEW s \in sinks, RunSink(s, l) PROVE OutputInv'
  <2>1. RunOnce(s, l) /\ UNCHANGED <<tasks, taken, output>>
    BY <1>5 DEF RunSink, RunOnce
  <2>2. s \notin Converters
    BY LineAssumption DEF FedInv, SinksOK, Checker, Converters
  <2>3. \A b \in Converters, k \in Lines : b \in todo'[k] <=> b \in todo[k]
    BY <2>1, <2>2 DEF RunOnce, TypeOK
  <2> QED
    BY <2>1, <2>3 DEF OutputInv, RawData
<1> QED
  BY <1>1, <1>2, <1>3, <1>4, <1>5, Zenon
     DEF Next, SetOutputFilenames, Destroy, Ended, vars, frameVars

\* What a sink writes for the datagram its line is at.
LEMMA InputCorrect ==
  ASSUME FedInv, TypeOK, OutputInv, NEW l \in Lines, NEW s \in Writers, Ready(s, l)
  PROVE  /\ Writer(s) # "json" => Input(s, l) = Expected(s, RawData(l))
         /\ Writer(s) = "json" => JsonItem(s, l) = Expected(s, RawData(l))
<1> DEFINE data == Deserialize(RawData(l), EmptyStruct)
<1>1. s \in Files /\ Writer(s) # "no_output"
  BY DEF Writers, FedInv, SinksOK
<1>2. Previous(s) = Required(s)
  BY <1>1, SinkKinds
<1>3. Required(s) # "raw" => output[Required(s)][l] = Converted(Required(s), RawData(l))
  BY <1>2, PreviousConverted
<1>4. CASE Required(s) = "raw"
  <2>1. Writer(s) \notin {"root", "json"}
    BY <1>1, <1>4, SinkKinds
  <2>2. Input(s, l) = Item("datagram", RawData(l))
    BY <1>2, <1>4 DEF Input
  <2>3. Expected(s, RawData(l)) = Item("datagram", RawData(l))
    BY <1>4, <2>1 DEF Expected
  <2> QED
    BY <2>1, <2>2, <2>3
<1>5. CASE Required(s) = "raw_frame"
  <2>1. Writer(s) \notin {"root", "json"}
    BY <1>1, <1>5, SinkKinds
  <2>2. Input(s, l) = Item("frame", RawData(l))
    BY <1>2, <1>3, <1>5 DEF Input, Converted, Delimit
  <2>3. Expected(s, RawData(l)) = Item("frame", RawData(l))
    BY <1>5, <2>1 DEF Expected
  <2> QED
    BY <2>1, <2>2, <2>3
<1>6. CASE Required(s) = "structure"
  <2>1. Input(s, l) = Item("struct", data) /\ Writer(s) \in {"root", "json"}
    BY <1>1, <1>2, <1>3, <1>6, SinkKinds DEF Input, Converted
  <2>2. Expected(s, RawData(l)) =
          IF Writer(s) = "json" THEN Item("columns", Export(data)) ELSE Item("struct", data)
    BY <1>6, <2>1 DEF Expected
  <2>3. JsonItem(s, l) = Item("columns", Export(data))
    BY <2>1 DEF JsonItem, Item
  <2> QED
    BY <2>1, <2>2, <2>3
<1>7. CASE Required(s) \in {"proto", "proto_frame"}
  <2>1. Input(s, l) = Item(IF Required(s) = "proto" THEN "message" ELSE "delimited", ToProto(data))
    BY <1>2, <1>3, <1>7 DEF Input, Converted, SerializeProto, SerializeDelimited
  <2>2. Writer(s) \notin {"root", "json"}
    BY <1>1, <1>7, SinkKinds
  <2> QED
    BY <1>7, <2>1, <2>2 DEF Expected
<1> QED
  BY <1>1, <1>4, <1>5, <1>6, <1>7, SinkKinds

\* What a sink wrote, up to its n-th datagram.
Content(s) == {Mark(token) : token \in {"[", ",", "]", "lost"}}
                \cup {Expected(s, d) : d \in Datagrams}

Recorded(s, l) ==
  /\ Len(written[s][l]) = Done(s, l)
  /\ \A i \in 1..Done(s, l) : \/ written[s][l][i] = Expected(s, taken[l][i])
                              \/ written[s][l][i] = Mark("lost") /\ Writer(s) = "udp"

Opening(s, l) == IF Done(s, l) = 0 THEN 1 ELSE 2 * Done(s, l)

Listed(s, l) ==
  /\ Len(written[s][l]) = IF phase = "end" THEN Opening(s, l) + 1 ELSE Opening(s, l)
  /\ first[s][l] <=> Done(s, l) = 0
  /\ written[s][l][1] = Mark("[")
  /\ \A i \in 1..Done(s, l) : written[s][l][2 * i] = Expected(s, taken[l][i])
  /\ \A i \in 1..(Done(s, l) - 1) : written[s][l][2 * i + 1] = Mark(",")
  /\ phase = "end" => written[s][l][Len(written[s][l])] = Mark("]")

WrittenOK(s, l) ==
  /\ written[s][l] \in Seq(Content(s))
  /\ Writer(s) # "json" => Recorded(s, l)
  /\ Writer(s) = "json" => Listed(s, l)

WrittenInv == phase # "config" => \A s \in Writers, l \in Lines : WrittenOK(s, l)

LEMMA DoneBounds ==
  ASSUME FedInv, TypeOK, NEW t, NEW l \in Lines
  PROVE  /\ Done(t, l) \in Nat /\ Done(t, l) <= Len(taken[l]) /\ Len(taken[l]) \in Nat
         /\ t \in todo[l] => Done(t, l) = Len(taken[l]) - 1
         /\ t \notin todo[l] => Done(t, l) = Len(taken[l])
<1>1. Len(taken[l]) \in Nat /\ (todo[l] # {} => Len(taken[l]) # 0)
  BY DEF TypeOK, FedInv
<1> QED
  BY <1>1 DEF Done

\* A step that writes nothing, does not run the task and keeps the datagrams it has
\* run on.
LEMMA WrittenStays ==
  ASSUME FedInv, TypeOK, NEW s \in Writers, NEW l \in Lines, WrittenOK(s, l),
         written'[s][l] = written[s][l], first'[s][l] = first[s][l],
         Done(s, l)' = Done(s, l), phase' = "end" <=> phase = "end",
         \A i \in 1..Done(s, l) : taken'[l][i] = taken[l][i]
  PROVE  WrittenOK(s, l)'
<1> DEFINE n == Done(s, l)
           w == written[s][l]
<1>1. Recorded(s, l) => Recorded(s, l)'
  BY DEF Recorded
<1>2. Listed(s, l) => Listed(s, l)'
  BY DEF Listed, Opening
<1> QED
  BY <1>1, <1>2 DEF WrittenOK

\* What is appended to a file.
LEMMA AppendOne ==
  ASSUME NEW S, NEW w \in Seq(S), NEW x \in S
  PROVE  /\ w \o <<x>> = Append(w, x) /\ Append(w, x) \in Seq(S)
         /\ Len(w) \in Nat /\ Len(Append(w, x)) = Len(w) + 1
         /\ Append(w, x)[Len(w) + 1] = x
         /\ \A i \in 1..Len(w) : Append(w, x)[i] = w[i]
  OBVIOUS

LEMMA ConcatTwo ==
  ASSUME NEW S, NEW w \in Seq(S), NEW x \in S, NEW y \in S
  PROVE  w \o <<x, y>> = Append(Append(w, x), y)
  OBVIOUS

\* A sink writes the record of the datagram its line is at.
LEMMA WrittenNext ==
  ASSUME FedInv, TypeOK, OutputInv, NEW s \in Writers, NEW l \in Lines, WrittenOK(s, l),
         phase = "run", RunSink(s, l)
  PROVE  WrittenOK(s, l)'
<1> DEFINE n == Done(s, l)
           w == written[s][l]
           v == written'[s][l]
           item == Expected(s, RawData(l))
<1>1. /\ n \in Nat /\ Len(taken[l]) = n + 1 /\ Done(s, l)' = n + 1
      /\ taken' = taken /\ phase' = phase /\ Ready(s, l)
  <2>1. RunOnce(s, l) /\ Ready(s, l) /\ taken' = taken /\ phase' = phase
    BY DEF RunSink, RunOnce
  <2>2. Len(taken[l]) \in Nat \ {0} /\ n = Len(taken[l]) - 1 /\ Done(s, l)' = Len(taken[l])
    BY <2>1, DoneAfterRun
  <2> QED
    BY <2>1, <2>2
<1>0. n \in Nat
  BY <1>1
<1>2. s \in Files /\ s \in sinks /\ RawData(l) \in Datagrams /\ RawData(l) = taken[l][n + 1]
  <2>1. RawData(l) = taken[l][n + 1] /\ taken[l] \in Seq(Datagrams)
    BY <1>1 DEF RawData, TypeOK
  <2> QED
    BY <1>1, <2>1 DEF Writers, FedInv, SinksOK
<1>3. item \in Content(s) /\ Mark(",") \in Content(s) /\ Mark("lost") \in Content(s)
  <2>1. item \in {Expected(s, d) : d \in Datagrams}
    BY <1>2, Zenon
  <2>2. Mark(",") \in {Mark(token) : token \in {"[", ",", "]", "lost"}}
    BY Zenon
  <2>3. Mark("lost") \in {Mark(token) : token \in {"[", ",", "]", "lost"}}
    BY Zenon
  <2> QED
    BY <2>1, <2>2, <2>3, Zenon DEF Content
<1>4. s \in DOMAIN written /\ l \in DOMAIN written[s]
  BY <1>1, <1>2 DEF TypeOK
<1>5. Writer(s) # "checker" /\ w \in Seq(Content(s))
  BY <1>2, SinkKinds DEF FedInv, SinksOK, Writers, WrittenOK
<1>6. \/ written' = [written EXCEPT ![s][l] = @ \o Put(s, l)]
      \/ /\ written' = [written EXCEPT ![s][l] = Append(@, Mark("lost"))]
         /\ Writer(s) = "udp"
  BY <1>5 DEF RunSink
<1>7. v = w \o Put(s, l) \/ (v = Append(w, Mark("lost")) /\ Writer(s) = "udp")
  BY <1>4, <1>6
<1>8. first'[s][l] = FALSE
  BY <1>1, <1>2 DEF RunSink, TypeOK
<1>9. CASE Writer(s) # "json"
  <2>1. Put(s, l) = <<item>>
    BY <1>1, <1>9, InputCorrect DEF Put
  <2>2. PICK e \in {item, Mark("lost")} : v = Append(w, e) /\ (e = item \/ Writer(s) = "udp")
    <3>1. w \o <<item>> = Append(w, item)
      <4>1. \A x \in Content(s) : w \o <<x>> = Append(w, x)
        BY <1>5, AppendOne
      <4> QED
        BY <1>3, <4>1, Zenon
    <3> HIDE DEF w, v, item
    <3> QED
      BY <1>7, <2>1, <3>1
  <2>3. Recorded(s, l)
    BY <1>9 DEF WrittenOK
  <2>4. Len(w) = n
    BY <2>3 DEF Recorded
  <2>5. ASSUME NEW i \in 1..n
        PROVE  w[i] = Expected(s, taken[l][i]) \/ (w[i] = Mark("lost") /\ Writer(s) = "udp")
    BY <2>3 DEF Recorded
  <2> HIDE DEF n, w, v, item
  <2>6. /\ v \in Seq(Content(s)) /\ Len(v) = n + 1 /\ v[n + 1] = e
        /\ \A i \in 1..n : v[i] = w[i]
    <3>1. e \in Content(s)
      BY <1>3, <2>2
    <3>2. /\ Append(w, e) \in Seq(Content(s))
          /\ Len(Append(w, e)) = Len(w) + 1 /\ Append(w, e)[Len(w) + 1] = e
          /\ \A i \in 1..Len(w) : Append(w, e)[i] = w[i]
      <4>1. \A x \in Content(s) :
              /\ Append(w, x) \in Seq(Content(s)) /\ Len(Append(w, x)) = Len(w) + 1
              /\ Append(w, x)[Len(w) + 1] = x /\ \A i \in 1..Len(w) : Append(w, x)[i] = w[i]
        BY <1>5, AppendOne
      <4> QED
        BY <3>1, <4>1, Zenon
    <3> QED
      BY <2>2, <2>4, <3>2
  <2>7. ASSUME NEW i \in 1..(n + 1)
        PROVE  v[i] = Expected(s, taken[l][i]) \/ (v[i] = Mark("lost") /\ Writer(s) = "udp")
    <3>1. CASE i = n + 1
      BY <1>2, <2>2, <2>6, <3>1 DEF item
    <3>2. CASE i \in 1..n
      BY <2>5, <2>6, <3>2
    <3> QED
      BY <1>1, <3>1, <3>2
  <2>8. Recorded(s, l)'
    BY <1>1, <2>6, <2>7 DEF Recorded, n, v
  <2> QED
    BY <1>9, <2>6, <2>8 DEF WrittenOK, v
<1>10. CASE Writer(s) = "json"
  <2>1. JsonItem(s, l) = item /\ Put(s, l) = WriteJson(s, l)
    BY <1>1, <1>10, InputCorrect DEF Put
  <2>2. v = w \o (IF first[s][l] THEN <<item>> ELSE <<Mark(","), item>>)
    BY <1>7, <1>10, <2>1 DEF WriteJson
  <2>3. Listed(s, l)
    BY <1>10 DEF WrittenOK
  <2>4. Len(w) = Opening(s, l)
    BY <2>3, phase = "run" DEF Listed
  <2>5. (first[s][l] <=> n = 0) /\ w[1] = Mark("[")
    BY <2>3, Zenon DEF Listed
  <2>6. \A i \in 1..n : w[2 * i] = Expected(s, taken[l][i])
    BY <2>3, Zenon DEF Listed
  <2>7. \A i \in 1..(n - 1) : w[2 * i + 1] = Mark(",")
    BY <2>3, Zenon DEF Listed
  <2>8. Len(w) = (IF n = 0 THEN 1 ELSE 2 * n)
    BY <2>4 DEF Opening
  <2> HIDE DEF n, w, v, item
  <2>9. /\ v \in Seq(Content(s)) /\ Len(v) = 2 * (n + 1) /\ v[2 * (n + 1)] = item
        /\ n # 0 => v[2 * n + 1] = Mark(",")
        /\ \A i \in 1..Len(w) : v[i] = w[i]
    <3>1. CASE n = 0
      <4>1. v = w \o <<item>>
        BY <2>2, <2>5, <3>1, Zenon
      <4>2. Len(w) = 1 /\ 2 * (n + 1) = Len(w) + 1
        BY <2>8, <3>1
      <4>3. /\ w \o <<item>> = Append(w, item) /\ Append(w, item) \in Seq(Content(s))
            /\ Len(Append(w, item)) = Len(w) + 1 /\ Append(w, item)[Len(w) + 1] = item
            /\ \A i \in 1..Len(w) : Append(w, item)[i] = w[i]
        <5>1. \A x \in Content(s) :
                /\ w \o <<x>> = Append(w, x) /\ Append(w, x) \in Seq(Content(s))
                /\ Len(Append(w, x)) = Len(w) + 1 /\ Append(w, x)[Len(w) + 1] = x
                /\ \A i \in 1..Len(w) : Append(w, x)[i] = w[i]
          BY <1>5, AppendOne
        <5> QED
          BY <1>3, <5>1, Zenon
      <4> QED
        BY <3>1, <4>1, <4>2, <4>3
    <3>2. CASE n # 0
      <4> DEFINE u == Append(w, Mark(","))
      <4>1. u \in Seq(Content(s)) /\ Len(u) = Len(w) + 1 /\ u[Len(w) + 1] = Mark(",")
            /\ \A i \in 1..Len(w) : u[i] = w[i]
        <5>1. \A x \in Content(s) :
                /\ Append(w, x) \in Seq(Content(s)) /\ Len(Append(w, x)) = Len(w) + 1
                /\ Append(w, x)[Len(w) + 1] = x /\ \A i \in 1..Len(w) : Append(w, x)[i] = w[i]
          BY <1>5, AppendOne
        <5> QED
          BY <1>3, <5>1, Zenon
      <4>2. w \o <<Mark(","), item>> = Append(u, item)
        <5>1. \A x, y \in Content(s) : w \o <<x, y>> = Append(Append(w, x), y)
          BY <1>5, ConcatTwo
        <5> QED
          BY <1>3, <5>1, Zenon DEF u
      <4>3. v = Append(u, item)
        BY <2>2, <2>5, <3>2, <4>2, Zenon
      <4> HIDE DEF u
      <4>4. /\ v \in Seq(Content(s)) /\ Len(v) = Len(u) + 1 /\ v[Len(u) + 1] = item
            /\ \A i \in 1..Len(u) : v[i] = u[i]
        <5>1. \A x \in Content(s) :
                /\ Append(u, x) \in Seq(Content(s)) /\ Len(Append(u, x)) = Len(u) + 1
                /\ Append(u, x)[Len(u) + 1] = x /\ \A i \in 1..Len(u) : Append(u, x)[i] = u[i]
          BY <4>1, AppendOne
        <5> QED
          BY <1>3, <4>3, <5>1, Zenon
      <4>5. Len(w) = 2 * n /\ Len(u) = 2 * n + 1 /\ Len(u) + 1 = 2 * (n + 1)
        <5>1. Len(w) = 2 * n
          BY <2>8, <3>2
        <5>2. Len(u) = Len(w) + 1
          BY <4>1
        <5> QED
          BY <1>0, <5>1, <5>2
      <4>6. Len(w) + 1 \in 1..Len(u) /\ \A i \in 1..Len(w) : i \in 1..Len(u)
        BY <1>0, <4>5
      <4>7. v[2 * n + 1] = Mark(",") /\ \A i \in 1..Len(w) : v[i] = w[i]
        BY <4>1, <4>4, <4>5, <4>6
      <4>8. Len(v) = 2 * (n + 1) /\ v[2 * (n + 1)] = item
        BY <4>4, <4>5, Zenon
      <4> QED
        BY <4>4, <4>7, <4>8, Zenon
    <3> QED
      BY <3>1, <3>2, Zenon
  <2>10. ASSUME NEW i \in 1..(n + 1) PROVE v[2 * i] = Expected(s, taken[l][i])
    <3>1. CASE i = n + 1
      BY <1>2, <2>9, <3>1 DEF item
    <3>2. CASE i \in 1..n
      <4>1. 2 * i \in 1..Len(w)
        BY <1>1, <2>8, <3>2
      <4> QED
        BY <2>6, <2>9, <3>2, <4>1
    <3> QED
      BY <1>1, <3>1, <3>2
  <2>11. ASSUME NEW i \in 1..n PROVE v[2 * i + 1] = Mark(",")
    <3>1. CASE i = n
      <4>1. n # 0
        BY <1>0, <3>1
      <4> QED
        BY <2>9, <3>1, <4>1, Zenon
    <3>2. CASE i \in 1..(n - 1)
      <4>1. 2 * i + 1 \in 1..Len(w)
        BY <1>0, <2>8, <3>2
      <4> QED
        BY <2>7, <2>9, <3>2, <4>1
    <3>3. i = n \/ i \in 1..(n - 1)
      BY <1>0
    <3> QED
      BY <3>1, <3>2, <3>3
  <2>12. v[1] = Mark("[")
    <3>1. 1 \in 1..Len(w)
      BY <1>1, <2>8
    <3> QED
      BY <2>5, <2>9, <3>1
  <2>13. Opening(s, l)' = 2 * (n + 1) /\ (n + 1) - 1 = n
    BY <1>1 DEF Opening, n
  <2>14. Listed(s, l)'
    <3>1. Len(v) = IF phase' = "end" THEN Opening(s, l)' + 1 ELSE Opening(s, l)'
      BY <1>1, <2>9, <2>13
    <3>2. (first'[s][l] <=> Done(s, l)' = 0) /\ phase' # "end"
      BY <1>0, <1>1, <1>8
    <3>3. \A i \in 1..Done(s, l)' : v[2 * i] = Expected(s, taken[l][i])
      BY <1>1, <2>10
    <3>4. \A i \in 1..(Done(s, l)' - 1) : v[2 * i + 1] = Mark(",")
      BY <1>1, <2>11, <2>13
    <3> QED
      BY <1>1, <2>12, <3>1, <3>2, <3>3, <3>4, Zenon DEF Listed, v
  <2> QED
    BY <1>10, <2>9, <2>14 DEF WrittenOK, v
<1> QED
  BY <1>9, <1>10

\* The constructor of a sink.
LEMMA WrittenFirst ==
  ASSUME FedInv, TypeOK, SetOutputFilenames
  PROVE  WrittenInv'
<1>1. /\ written' = [s \in sinks' |-> [l \in Lines |-> Opened(s)]]
      /\ first' = [s \in sinks' |-> [l \in Lines |-> TRUE]]
      /\ phase' = "construct" /\ taken' = taken /\ todo' = todo /\ phase = "config"
  BY DEF SetOutputFilenames, frameVars
<1> SUFFICES ASSUME NEW s \in Writers', NEW l \in Lines PROVE WrittenOK(s, l)'
  BY DEF WrittenInv
<1>2. s \in sinks'
  BY DEF Writers
<1>3. taken'[l] = <<>> /\ todo'[l] = {}
  BY <1>1 DEF FedInv
<1>4. Done(s, l)' = 0
  BY <1>3 DEF Done
<1>5. written'[s][l] = Opened(s) /\ first'[s][l] = TRUE
  BY <1>1, <1>2
<1>6. CASE Writer(s) # "json"
  <2>1. written'[s][l] = <<>>
    BY <1>5, <1>6 DEF Opened
  <2> QED
    BY <1>4, <1>6, <2>1 DEF WrittenOK, Recorded
<1>7. CASE Writer(s) = "json"
  <2>1. written'[s][l] = <<Mark("[")>>
    BY <1>5, <1>7 DEF Opened
  <2>2. Mark("[") \in Content(s)
    <3>1. Mark("[") \in {Mark(token) : token \in {"[", ",", "]", "lost"}}
      BY Zenon
    <3> QED
      BY <3>1, Zenon DEF Content
  <2>3. written'[s][l] \in Seq(Content(s)) /\ Len(written'[s][l]) = 1 /\ written'[s][l][1] = Mark("[")
    BY <2>1, <2>2
  <2>4. Listed(s, l)'
    BY <1>1, <1>4, <1>5, <2>3 DEF Listed, Opening
  <2> QED
    BY <1>7, <2>3, <2>4 DEF WrittenOK
<1> QED
  BY <1>6, <1>7

\* The destructor of a sink.
LEMMA WrittenLast ==
  ASSUME FedInv, TypeOK, NEW s \in Writers, NEW l \in Lines, WrittenOK(s, l), Destroy
  PROVE  WrittenOK(s, l)'
<1> DEFINE n == Done(s, l)
           w == written[s][l]
           v == written'[s][l]
<1>1. /\ s \in sinks /\ v = w \o Bracket(s) /\ first' = first
      /\ phase = "run" /\ phase' = "end" /\ taken' = taken /\ todo' = todo
  BY DEF Destroy, frameVars, Writers
<1>2. Done(s, l)' = n
  BY <1>1 DEF Done
<1>3. n \in Nat
  BY DoneBounds
<1>4. w \in Seq(Content(s))
  BY DEF WrittenOK
<1>5. CASE Writer(s) # "json"
  <2>1. Bracket(s) = <<>>
    BY <1>5 DEF Bracket
  <2>2. v = w
    BY <1>1, <1>4, <2>1
  <2>3. Recorded(s, l)
    BY <1>5 DEF WrittenOK
  <2>4. Recorded(s, l)'
    BY <1>1, <1>2, <2>2, <2>3 DEF Recorded
  <2> QED
    BY <1>4, <1>5, <2>2, <2>4 DEF WrittenOK
<1>6. CASE Writer(s) = "json"
  <2> DEFINE close == Mark("]")
  <2>1. v = w \o <<close>>
    BY <1>1, <1>6 DEF Bracket
  <2>2. close \in Content(s)
    <3>1. close \in {Mark(token) : token \in {"[", ",", "]", "lost"}}
      BY Zenon
    <3> QED
      BY <3>1, Zenon DEF Content
  <2>3. Listed(s, l)
    BY <1>6 DEF WrittenOK
  <2>4. Len(w) = IF n = 0 THEN 1 ELSE 2 * n
    BY <1>1, <2>3 DEF Listed, Opening
  <2>5. (first[s][l] <=> n = 0) /\ w[1] = Mark("[")
    BY <2>3, Zenon DEF Listed
  <2>6. \A i \in 1..n : w[2 * i] = Expected(s, taken[l][i])
    BY <2>3, Zenon DEF Listed
  <2>7. \A i \in 1..(n - 1) : w[2 * i + 1] = Mark(",")
    BY <2>3, Zenon DEF Listed
  <2>8. Opening(s, l)' = IF n = 0 THEN 1 ELSE 2 * n
    BY <1>2 DEF Opening
  <2> HIDE DEF n, w, v, close
  <2>9. /\ v \in Seq(Content(s)) /\ Len(v) = Len(w) + 1 /\ v[Len(w) + 1] = close
        /\ \A i \in 1..Len(w) : v[i] = w[i]
    <3>1. \A x \in Content(s) :
            /\ w \o <<x>> = Append(w, x) /\ Append(w, x) \in Seq(Content(s))
            /\ Len(Append(w, x)) = Len(w) + 1 /\ Append(w, x)[Len(w) + 1] = x
            /\ \A i \in 1..Len(w) : Append(w, x)[i] = w[i]
      BY <1>4, AppendOne
    <3> QED
      BY <2>1, <2>2, <3>1, Zenon
  <2>10. ASSUME NEW i \in 1..n PROVE v[2 * i] = Expected(s, taken[l][i])
    <3>1. 2 * i \in 1..Len(w)
      BY <1>3, <2>4
    <3> QED
      BY <2>6, <2>9, <3>1
  <2>11. ASSUME NEW i \in 1..(n - 1) PROVE v[2 * i + 1] = Mark(",")
    <3>1. 2 * i + 1 \in 1..Len(w)
      BY <1>3, <2>4
    <3> QED
      BY <2>7, <2>9, <3>1
  <2>12. v[1] = Mark("[")
    <3>1. 1 \in 1..Len(w)
      BY <1>3, <2>4
    <3> QED
      BY <2>5, <2>9, <3>1
  <2>13. Len(v) = Opening(s, l)' + 1
    BY <2>4, <2>8, <2>9
  <2>14. v[Len(v)] = close
    BY <2>9
  <2>15. Listed(s, l)'
    <3>1. \A i \in 1..Done(s, l)' : v[2 * i] = Expected(s, taken[l][i])
      BY <1>2, <2>10
    <3>2. \A i \in 1..(Done(s, l)' - 1) : v[2 * i + 1] = Mark(",")
      BY <1>2, <2>11
    <3>3. first'[s][l] <=> Done(s, l)' = 0
      BY <1>1, <1>2, <2>5
    <3> QED
      BY <1>1, <2>12, <2>13, <2>14, <3>1, <3>2, <3>3 DEF Listed, v, close
  <2> QED
    BY <1>6, <2>9, <2>15 DEF WrittenOK, v
<1> QED
  BY <1>5, <1>6

LEMMA WrittenStep == WrittenInv /\ OutputInv /\ FedInv /\ TypeOK /\ [Next]_vars => WrittenInv'
<1> SUFFICES ASSUME WrittenInv, OutputInv, FedInv, TypeOK, [Next]_vars PROVE WrittenInv'
  OBVIOUS
<1>1. CASE SetOutputFilenames
  BY <1>1, WrittenFirst
<1>2. ASSUME ~ SetOutputFilenames, NEW s \in Writers', NEW k \in Lines, phase' # "config"
      PROVE  WrittenOK(s, k)'
  <2>0. /\ phase # "config" /\ sinks' = sinks
    BY <1>2, Zenon DEF Next, ConstructTaskflow, Destroy, Ended, TakeFrame, RunConverter, RunSink, RunOnce,
       vars
  <2>1. /\ s \in Writers /\ s \in sinks /\ s \in LineTasks /\ WrittenOK(s, k)
        /\ s \notin Converters
    <3>1. s \in Writers
      BY <2>0 DEF Writers
    <3>2. s \in sinks /\ s \in LineTasks
      BY <3>1, SinksHaveTasks DEF Writers, FedInv
    <3>3. s \notin Converters
      BY <3>1, LineAssumption DEF Writers, FedInv, SinksOK
    <3> QED
      BY <2>0, <3>1, <3>2, <3>3 DEF WrittenInv
  <2>2. Done(s, k) \in Nat /\ Len(taken[k]) \in Nat /\ Done(s, k) <= Len(taken[k])
    BY DoneBounds
  <2>3. CASE ConstructTaskflow \/ UNCHANGED vars
    <3>1. /\ UNCHANGED <<taken, todo, written, first>> /\ (phase' = "end" <=> phase = "end")
      BY <2>3 DEF ConstructTaskflow, sinkVars, vars, frameVars
    <3>2. Done(s, k)' = Done(s, k)
      BY <3>1 DEF Done
    <3> QED
      BY <2>1, <3>1, <3>2, WrittenStays
  <2>4. ASSUME NEW l \in Lines, TakeFrame(l) PROVE WrittenOK(s, k)'
    <3>1. UNCHANGED <<phase, written, first>>
      BY <2>4 DEF TakeFrame, sinkVars
    <3>2. Done(s, k)' = Done(s, k)
      BY <2>1, <2>4, DoneAfterFrame
    <3>3. \A i \in 1..Done(s, k) : taken'[k][i] = taken[k][i]
      <4>1. PICK d \in Datagrams : taken' = [taken EXCEPT ![l] = Append(@, d)]
        BY <2>4 DEF TakeFrame
      <4>2. taken[k] \in Seq(Datagrams) /\ (taken'[k] = taken[k] \/ taken'[k] = Append(taken[k], d))
        BY <4>1 DEF TypeOK
      <4> QED
        BY <2>2, <4>2
    <3> QED
      BY <2>1, <3>1, <3>2, <3>3, WrittenStays
  <2>5. ASSUME NEW l \in Lines, NEW c \in Converters, RunConverter(c, l) PROVE WrittenOK(s, k)'
    <3>1. UNCHANGED <<phase, written, first, taken>> /\ RunOnce(c, l) /\ s # c
      BY <2>1, <2>5 DEF RunConverter, RunOnce, sinkVars
    <3>2. Done(s, k)' = Done(s, k)
      BY <3>1, DoneAfterRun
    <3> QED
      BY <2>1, <3>1, <3>2, WrittenStays
  <2>6. ASSUME NEW l \in Lines, NEW t \in sinks, RunSink(t, l) PROVE WrittenOK(s, k)'
    <3>1. CASE s = t /\ k = l
      <4>1. phase = "run"
        BY <2>6 DEF RunSink, RunOnce, Ready, FedInv, TypeOK
      <4> QED
        BY <2>1, <2>6, <3>1, <4>1, WrittenNext
    <3>2. CASE s # t \/ k # l
      <4>1. UNCHANGED <<phase, taken>> /\ RunOnce(t, l)
        BY <2>6 DEF RunSink, RunOnce
      <4>2. Done(s, k)' = Done(s, k)
        BY <3>2, <4>1, DoneAfterRun
      <4>3. DOMAIN written = sinks /\ \A r \in sinks : DOMAIN written[r] = Lines
        BY <2>0 DEF TypeOK
      <4>4. written'[s][k] = written[s][k]
        BY <2>1, <2>6, <3>2, <4>3 DEF RunSink
      <4>5. first'[s][k] = first[s][k]
        <5>1. first \in [sinks -> [Lines -> BOOLEAN]] /\ first' = [first EXCEPT ![t][l] = FALSE]
          BY <2>0, <2>6 DEF RunSink, TypeOK
        <5> QED
          BY <2>1, <3>2, <5>1
      <4> QED
        BY <2>1, <4>1, <4>2, <4>4, <4>5, WrittenStays
    <3> QED
      BY <3>1, <3>2
  <2>7. CASE Destroy
    BY <2>1, <2>7, WrittenLast
  <2> QED
    BY <1>2, <2>3, <2>4, <2>5, <2>6, <2>7, Zenon DEF Next, Ended
<1> QED
  BY <1>1, <1>2 DEF WrittenInv

LEMMA WrittenInvariance == Spec => [](FedInv /\ TypeOK /\ OutputInv /\ WrittenInv)
<1>1. Init => OutputInv /\ WrittenInv
  BY DEF Init, OutputInv, WrittenInv
<1> QED
  BY <1>1, TypeInvariance, OutputStep, WrittenStep, PTL DEF Spec

(***************************************************************************)
(* What a sink wrote for a line is the conversion of every datagram the    *)
(* line has dequeued, in their order, one record each: the results that    *)
(* run_once drops and the output the tasks reuse change nothing of it.     *)
(***************************************************************************)
THEOREM RecordsAreFaithful == Spec => []RecordsFaithful
<1>1. FedInv /\ TypeOK /\ WrittenInv => RecordsFaithful
  <2> SUFFICES ASSUME FedInv, TypeOK, WrittenInv, NEW s \in Writers, NEW l \in Lines
               PROVE  LET records == Records(s, l)
                      IN /\ Len(records) = IF s \in todo[l] THEN Len(taken[l]) - 1 ELSE Len(taken[l])
                         /\ \A i \in DOMAIN records :
                              \/ records[i] = Expected(s, taken[l][i])
                              \/ records[i] = Mark("lost") /\ Writer(s) = "udp"
    BY DEF RecordsFaithful
  <2> DEFINE n == Done(s, l)
             w == written[s][l]
  <2>1. n \in Nat /\ n = IF s \in todo[l] THEN Len(taken[l]) - 1 ELSE Len(taken[l])
    BY DoneBounds
  <2>2. WrittenOK(s, l)
    BY DEF WrittenInv, FedInv, Writers
  <2>3. CASE Writer(s) # "json"
    <3>1. Records(s, l) = w /\ w \in Seq(Content(s)) /\ Recorded(s, l)
      BY <2>2, <2>3 DEF Records, WrittenOK
    <3> QED
      BY <2>1, <3>1 DEF Recorded
  <2>4. CASE Writer(s) = "json"
    <3> DEFINE closed == IF phase = "end" THEN 1 ELSE 0
    <3>1. Listed(s, l)
      BY <2>2, <2>4 DEF WrittenOK
    <3>2. Records(s, l) = [i \in 1..((Len(w) - closed) \div 2) |-> w[2 * i]]
      BY <2>4 DEF Records
    <3>3. Len(w) = IF phase = "end" THEN Opening(s, l) + 1 ELSE Opening(s, l)
      BY <3>1, Zenon DEF Listed
    <3>4. (Len(w) - closed) \div 2 = n
      <4>1. Opening(s, l) \in Nat /\ Opening(s, l) \div 2 = n
        <5>1. CASE n = 0
          BY <5>1 DEF Opening
        <5>2. CASE n # 0
          <6>1. Opening(s, l) = 2 * n
            BY <5>2 DEF Opening
          <6>2. \A m \in Nat : 2 * m \in Nat /\ (2 * m) \div 2 = m
            OBVIOUS
          <6>3. n \in Nat
            BY <2>1
          <6> QED
            BY <6>1, <6>2, <6>3, Zenon
        <5> QED
          BY <5>1, <5>2
      <4> HIDE DEF n, w
      <4> QED
        BY <3>3, <4>1
    <3>5. \A i \in 1..n : w[2 * i] = Expected(s, taken[l][i])
      BY <3>1, Zenon DEF Listed
    <3>6. Records(s, l) = [i \in 1..n |-> w[2 * i]]
      BY <3>2, <3>4
    <3>7. Len(Records(s, l)) = n /\ DOMAIN Records(s, l) = 1..n
          /\ \A i \in 1..n : Records(s, l)[i] = w[2 * i]
      BY <2>1, <3>6
    <3> QED
      BY <2>1, <3>5, <3>7
  <2> QED
    BY <2>3, <2>4
<1> QED
  BY <1>1, WrittenInvariance, PTL

(***************************************************************************)
(* A JSON file is a list at the end, of one item or of many or of none.    *)
(***************************************************************************)
THEOREM JsonIsWellFormed == Spec => []JsonWellFormed
<1>1. FedInv /\ TypeOK /\ WrittenInv => JsonWellFormed
  <2> SUFFICES ASSUME FedInv, TypeOK, WrittenInv, NEW s \in Writers, NEW l \in Lines,
                      Writer(s) = "json", phase = "end"
               PROVE  LET tokens == [i \in DOMAIN written[s][l] |-> written[s][l][i].token]
                          n == Len(tokens)
                      IN /\ tokens[1] = "[" /\ tokens[n] = "]"
                         /\ n = 2 \/ n % 2 = 1
                         /\ \A i \in 2..(n - 1) : tokens[i] = IF i % 2 = 0 THEN "columns" ELSE ","
    BY DEF JsonWellFormed
  <2> DEFINE k == Done(s, l)
             w == written[s][l]
             tokens == [i \in DOMAIN w |-> w[i].token]
             size == IF k = 0 THEN 2 ELSE 2 * k + 1
  <2>1. k \in Nat
    BY DoneBounds
  <2>2. WrittenOK(s, l)
    BY DEF WrittenInv, FedInv, Writers
  <2>3. w \in Seq(Content(s)) /\ Listed(s, l)
    BY <2>2 DEF WrittenOK
  <2>4. Len(w) = size
    <3>1. Len(w) = Opening(s, l) + 1
      BY <2>3, phase = "end" DEF Listed
    <3>2. Opening(s, l) = IF k = 0 THEN 1 ELSE 2 * k
      BY DEF Opening
    <3> HIDE DEF k, w
    <3> QED
      BY <2>1, <3>1, <3>2
  <2>5. w[1] = Mark("[") /\ w[Len(w)] = Mark("]")
    BY <2>3, Zenon DEF Listed
  <2>6. \A i \in 1..k : w[2 * i] = Expected(s, taken[l][i])
    BY <2>3, Zenon DEF Listed
  <2>7. \A i \in 1..(k - 1) : w[2 * i + 1] = Mark(",")
    BY <2>3, Zenon DEF Listed
  <2>8. \A d : Expected(s, d).token = "columns"
    <3>1. Required(s) = "structure"
      BY SinkKinds DEF FedInv, SinksOK, Writers, Checker
    <3> QED
      BY <3>1 DEF Expected, Item
  <2>9. DOMAIN w = 1..size
    BY <2>3, <2>4
  <2> HIDE DEF k, w
  <2>10. Len(tokens) = size /\ DOMAIN tokens = 1..size /\ \A i \in 1..size : tokens[i] = w[i].token
    BY <2>1, <2>9
  <2>11. tokens[1] = "[" /\ tokens[size] = "]"
    BY <2>1, <2>4, <2>5, <2>10 DEF Mark, Item
  <2>12. size = 2 \/ size % 2 = 1
    BY <2>1
  <2>13. ASSUME NEW i \in 2..(size - 1) PROVE tokens[i] = IF i % 2 = 0 THEN "columns" ELSE ","
    <3>1. CASE i % 2 = 0
      <4>1. PICK j \in 1..k : i = 2 * j
        <5>1. i = 2 * (i \div 2) /\ i \div 2 \in 1..k
          BY <2>1, <3>1
        <5> QED
          BY <5>1
      <4> QED
        BY <2>6, <2>8, <2>10, <3>1, <4>1
    <3>2. CASE i % 2 # 0
      <4>1. PICK j \in 1..(k - 1) : i = 2 * j + 1
        <5>1. i = 2 * (i \div 2) + 1 /\ i \div 2 \in 1..(k - 1)
          BY <2>1, <3>2
        <5> QED
          BY <5>1
      <4> QED
        <5>1. w[i] = Mark(",") /\ Mark(",").token = ","
          <6>1. w[2 * j + 1] = Mark(",")
            BY <2>7, Zenon
          <6>2. Mark(",").token = ","
            BY DEF Mark, Item
          <6> QED
            BY <4>1, <6>1, <6>2, Zenon
        <5>2. i \in 1..size
          BY <2>1
        <5>3. tokens[i] = ","
          BY <2>10, <5>1, <5>2, Zenon
        <5> QED
          BY <3>2, <5>3, Zenon
    <3> QED
      BY <3>1, <3>2
  <2> QED
    BY <2>10, <2>11, <2>12, <2>13, Zenon DEF w
<1> QED
  BY <1>1, WrittenInvariance, PTL

(***************************************************************************)
(* What comes back.  The recursions run over the bits of a number and the  *)
(* elements of a datagram; that the functions they define exist is shown   *)
(* by naming them.                                                         *)
(***************************************************************************)

\* A set of numbers has a least one: an induction is the search for a least
\* counterexample.
LEMMA LeastNatural ==
  ASSUME NEW T \in SUBSET Nat, T # {}
  PROVE  \E n \in T : \A m \in T : n <= m
<1>1. PICK n \in T : \A m \in T : <<m, n>> \notin OpToRel(<, Nat)
  BY WFMin, NatLessThanWellFounded
<1>2. ASSUME NEW m \in T, m < n PROVE FALSE
  <2>1. <<m, n>> \in Nat \X Nat
    BY <1>1
  <2>2. <<m, n>>[1] < <<m, n>>[2]
    BY <1>2
  <2> QED
    BY <2>1, <2>2, <1>1 DEF OpToRel
<1>3. \A m \in T : n <= m
  BY <1>2
<1> QED
  BY <1>3

\* The numbers of k bits.
Bits(k) == SUBSET (0..(k - 1))

LEMMA XorFacts ==
  ASSUME NEW a, NEW b
  PROVE  Xor(Xor(a, b), b) = a /\ Xor(a, b) = Xor(b, a) /\ Xor({}, {}) = {}
BY DEF Xor

LEMMA ShiftXor ==
  ASSUME NEW a \in SUBSET Nat, NEW b \in SUBSET Nat
  PROVE  ShiftRight(Xor(a, b), 1) = Xor(ShiftRight(a, 1), ShiftRight(b, 1))
<1>1. \A v \in SUBSET Nat : \A i : i \in ShiftRight(v, 1) <=> i \in Nat /\ i + 1 \in v
  BY DEF ShiftRight
<1>2. Xor(a, b) \in SUBSET Nat
  BY DEF Xor
<1>3. ASSUME NEW i
      PROVE  i \in ShiftRight(Xor(a, b), 1) <=> i \in Xor(ShiftRight(a, 1), ShiftRight(b, 1))
  BY <1>1, <1>2 DEF Xor
<1> QED
  BY <1>3

LEMMA ShiftBits ==
  ASSUME NEW k \in Nat \ {0}, NEW v \in Bits(k)
  PROVE  ShiftRight(v, 1) \in Bits(k - 1) /\ Bits(k - 1) \subseteq Bits(k)
BY DEF ShiftRight, Bits

LEMMA XorBits ==
  ASSUME NEW k \in Nat, NEW v \in Bits(k), NEW w \in Bits(k)
  PROVE  Xor(v, w) \in Bits(k)
BY DEF Xor, Bits

LEMMA NoBits == Bits(0) = {{}} /\ ShiftRight({}, 1) = {} /\ BinaryToGray({}) = {}
BY DEF Bits, ShiftRight, BinaryToGray, Xor

\* The Gray code commutes with a shift, and what it was made from comes back when
\* the shifted number is added again.
LEMMA GrayShift ==
  ASSUME NEW k \in Nat, NEW v \in Bits(k)
  PROVE  /\ BinaryToGray(ShiftRight(v, 1)) = ShiftRight(BinaryToGray(v), 1)
         /\ Xor(BinaryToGray(v), ShiftRight(v, 1)) = v
         /\ BinaryToGray(v) \in Bits(k)
<1>1. v \in SUBSET Nat /\ ShiftRight(v, 1) \in SUBSET Nat
  BY DEF Bits, ShiftRight
<1>2. ShiftRight(v, 1) \in Bits(k)
  BY DEF Bits, ShiftRight
<1> QED
  BY <1>1, <1>2, ShiftXor, XorFacts, XorBits DEF BinaryToGray

\* The Gray code is one to one on the numbers of k bits,
LEMMA GrayInjective ==
  ASSUME NEW k \in Nat, NEW v \in Bits(k), NEW w \in Bits(k), BinaryToGray(v) = BinaryToGray(w)
  PROVE  v = w
<1> DEFINE Same(n) == \A a, b \in Bits(n) : BinaryToGray(a) = BinaryToGray(b) => a = b
           T == {n \in Nat : ~Same(n)}
<1>1. SUFFICES T = {}
  BY <1>1
<1>2. SUFFICES ASSUME T # {} PROVE FALSE
  OBVIOUS
<1>3. PICK n \in T : \A m \in T : n <= m
  BY <1>2, LeastNatural
<1>4. PICK a \in Bits(n), b \in Bits(n) : BinaryToGray(a) = BinaryToGray(b) /\ a # b
  BY <1>3
<1>5. n # 0
  <2>1. n = 0 => a = {} /\ b = {}
    BY NoBits
  <2> QED
    BY <1>4, <2>1
<1>6. Same(n - 1)
  <2>1. n - 1 \in Nat /\ ~(n <= n - 1)
    BY <1>3, <1>5
  <2> QED
    BY <2>1, <1>3
<1>7. ShiftRight(a, 1) \in Bits(n - 1) /\ ShiftRight(b, 1) \in Bits(n - 1)
  BY <1>3, <1>5, ShiftBits
<1>8. BinaryToGray(ShiftRight(a, 1)) = BinaryToGray(ShiftRight(b, 1))
  BY <1>3, <1>4, GrayShift
<1>9. ShiftRight(a, 1) = ShiftRight(b, 1)
  BY <1>6, <1>7, <1>8
<1> QED
  BY <1>3, <1>4, <1>9, GrayShift

\* and every one of them is the Gray code of one.
LEMMA GraySurjective ==
  ASSUME NEW k \in Nat, NEW g \in Bits(k)
  PROVE  \E v \in Bits(k) : BinaryToGray(v) = g
<1> DEFINE Reached(n) == \A a \in Bits(n) : \E v \in Bits(n) : BinaryToGray(v) = a
           T == {n \in Nat : ~Reached(n)}
<1>1. SUFFICES T = {}
  BY <1>1
<1>2. SUFFICES ASSUME T # {} PROVE FALSE
  OBVIOUS
<1>3. PICK n \in T : \A m \in T : n <= m
  BY <1>2, LeastNatural
<1>4. PICK a \in Bits(n) : ~\E v \in Bits(n) : BinaryToGray(v) = a
  BY <1>3
<1>5. n # 0
  BY <1>4, NoBits
<1>6. Reached(n - 1)
  <2>1. n - 1 \in Nat /\ ~(n <= n - 1)
    BY <1>3, <1>5
  <2> QED
    BY <2>1, <1>3
<1>7. ShiftRight(a, 1) \in Bits(n - 1) /\ Bits(n - 1) \subseteq Bits(n)
  BY <1>3, <1>5, ShiftBits
<1>8. PICK u \in Bits(n - 1) : BinaryToGray(u) = ShiftRight(a, 1)
  BY <1>6, <1>7
<1> DEFINE v == Xor(a, u)
<1>9. v \in Bits(n)
  BY <1>3, <1>7, XorBits
<1>10. ShiftRight(v, 1) = u
  <2>1. a \in SUBSET Nat /\ u \in SUBSET Nat
    BY <1>3 DEF Bits
  <2>2. ShiftRight(v, 1) = Xor(BinaryToGray(u), ShiftRight(u, 1))
    BY <2>1, <1>8, ShiftXor
  <2> QED
    BY <2>2, <1>3, <1>7, GrayShift
<1>11. BinaryToGray(v) = a
  BY <1>10, XorFacts DEF BinaryToGray
<1> QED
  BY <1>4, <1>9, <1>11

(***************************************************************************)
(* gray_to_binary undoes binary_to_gray, for every number that fits in the *)
(* width of a BCID.                                                        *)
(***************************************************************************)
THEOREM GrayInverse ==
  ASSUME NEW v, Fits(v, BcLen)
  PROVE  GrayToBinary[BinaryToGray(v)] = v
<1> DEFINE W == Bits(BcLen)
           Step(bin, gray) == IF gray = {} THEN {} ELSE Xor(gray, bin[ShiftRight(gray, 1)])
           Is(bin) == bin = [gray \in W |-> Step(bin, gray)]
           h == [gray \in W |-> CHOOSE a \in W : BinaryToGray(a) = gray]
<1>1. BcLen \in Nat /\ v \in W /\ {} \in W
  BY CodecAssumption DEF Fits, Bits
<1>2. \A gray \in W : ShiftRight(gray, 1) \in W
  BY <1>1 DEF ShiftRight, Bits
<1>3. \A gray \in W : h[gray] \in W /\ BinaryToGray(h[gray]) = gray
  BY <1>1, GraySurjective
<1>4. Is(h)
  <2> HIDE DEF h, W
  <2>1. ASSUME NEW gray \in W PROVE h[gray] = Step(h, gray)
    <3>1. CASE gray = {}
      <4>1. h[gray] \in Bits(BcLen) /\ {} \in Bits(BcLen)
        BY <1>1, <1>3 DEF W
      <4>2. BinaryToGray(h[gray]) = BinaryToGray({})
        BY <1>3, <3>1, NoBits
      <4> QED
        BY <1>1, <3>1, <4>1, <4>2, GrayInjective
    <3>2. CASE gray # {}
      <4>1. h[gray] \in Bits(BcLen)
        BY <1>3 DEF W
      <4>2. BinaryToGray(ShiftRight(h[gray], 1)) = ShiftRight(gray, 1)
        BY <1>1, <1>3, <4>1, GrayShift
      <4>3. BinaryToGray(h[ShiftRight(gray, 1)]) = ShiftRight(gray, 1)
        BY <1>2, <1>3
      <4>4. ShiftRight(h[gray], 1) \in Bits(BcLen) /\ h[ShiftRight(gray, 1)] \in Bits(BcLen)
        BY <1>2, <1>3 DEF W
      <4>5. ShiftRight(h[gray], 1) = h[ShiftRight(gray, 1)]
        BY <1>1, <4>2, <4>3, <4>4, GrayInjective
      <4>6. Xor(gray, ShiftRight(h[gray], 1)) = h[gray]
        BY <1>1, <1>3, <4>1, GrayShift
      <4> QED
        BY <3>2, <4>5, <4>6
    <3> QED
      BY <3>1, <3>2
  <2>2. h = [gray \in W |-> h[gray]]
    BY DEF h
  <2> QED
    BY <2>1, <2>2
<1>5. Is(GrayToBinary)
  <2> HIDE DEF h
  <2>1. GrayToBinary = CHOOSE bin : Is(bin)
    BY DEF GrayToBinary, Bits
  <2> HIDE DEF Is
  <2> QED
    BY <1>4, <2>1, Zenon
<1>6. \A gray \in W : GrayToBinary[gray] = Step(GrayToBinary, gray)
  <2> HIDE DEF W
  <2> QED
    BY <1>5
<1> DEFINE Undone(n) == \A a \in Bits(n) : GrayToBinary[BinaryToGray(a)] = a
           T == {n \in 0..BcLen : ~Undone(n)}
<1>7. SUFFICES T = {}
  BY <1>1, <1>7
<1>8. SUFFICES ASSUME T # {} PROVE FALSE
  OBVIOUS
<1>9. PICK n \in T : \A m \in T : n <= m
  <2>1. T \in SUBSET Nat
    OBVIOUS
  <2> HIDE DEF T
  <2> QED
    BY <1>8, <2>1, LeastNatural
<1>10. PICK a \in Bits(n) : GrayToBinary[BinaryToGray(a)] # a
  BY <1>9
<1> HIDE DEF h
<1>11. n \in Nat /\ a \in W
  BY <1>1, <1>9 DEF Bits
<1>12. BinaryToGray(a) # {}
  <2>1. SUFFICES ASSUME BinaryToGray(a) = {} PROVE FALSE
    OBVIOUS
  <2>2. a = {}
    <3>1. {} \in Bits(n) /\ BinaryToGray(a) = BinaryToGray({})
      BY <2>1, NoBits DEF Bits
    <3> QED
      BY <3>1, <1>11, GrayInjective
  <2>3. GrayToBinary[{}] = {}
    BY <1>1, <1>6
  <2> QED
    BY <1>10, <2>1, <2>2, <2>3
<1>13. n # 0
  BY <1>10, <1>12, NoBits
<1>14. Undone(n - 1)
  <2>1. n - 1 \in 0..BcLen /\ ~(n <= n - 1)
    BY <1>1, <1>9, <1>13
  <2> QED
    BY <2>1, <1>9
<1>15. GrayToBinary[ShiftRight(BinaryToGray(a), 1)] = ShiftRight(a, 1)
  <2>1. ShiftRight(a, 1) \in Bits(n - 1)
    BY <1>11, <1>13, ShiftBits
  <2>2. BinaryToGray(ShiftRight(a, 1)) = ShiftRight(BinaryToGray(a), 1)
    BY <1>11, GrayShift
  <2> QED
    BY <1>14, <2>1, <2>2
<1>16. GrayToBinary[BinaryToGray(a)] = Xor(BinaryToGray(a), ShiftRight(a, 1))
  <2>1. BinaryToGray(a) \in W
    BY <1>1, <1>11, GrayShift
  <2> QED
    BY <1>6, <1>12, <1>15, <2>1
<1> QED
  BY <1>10, <1>11, <1>16, GrayShift

LEMMA MergeInverse ==
  ASSUME NEW v, Fits(v, LowLen + HighLen)
  PROVE  MergeBits(GetHigh(v), GetLow(v)) = v
<1>1. LowLen \in Nat /\ HighLen \in Nat /\ v \subseteq 0..(LowLen + HighLen - 1)
  BY CodecAssumption DEF Fits
<1>0. v \subseteq Nat
  BY <1>1
<1>2. GetLow(v) = {i \in v : i < LowLen}
  <2>1. \A i \in Nat : i \in 0..(LowLen - 1) <=> i < LowLen
    BY <1>1
  <2> QED
    BY <1>0, <2>1, Zenon DEF GetLow
<1>3. \A i : i \in GetHigh(v) <=> i \in Nat /\ i + LowLen \in v
  <2>1. \A i : i \in ShiftRight(v, LowLen) <=> i \in Nat /\ i + LowLen \in v
    BY <1>1 DEF ShiftRight
  <2> QED
    BY <1>1, <2>1 DEF GetHigh
<1>4. ShiftLeft(GetHigh(v), LowLen) = {i \in v : i >= LowLen}
  <2>1. ASSUME NEW i \in ShiftLeft(GetHigh(v), LowLen) PROVE i \in v /\ i >= LowLen
    BY <1>1, <1>3, <2>1 DEF ShiftLeft
  <2>2. ASSUME NEW i \in v, i >= LowLen PROVE i \in ShiftLeft(GetHigh(v), LowLen)
    <3>1. i - LowLen \in Nat /\ (i - LowLen) + LowLen = i
      BY <1>0, <1>1, <2>2
    <3>2. i - LowLen \in GetHigh(v)
      BY <1>3, <3>1
    <3> QED
      BY <3>1, <3>2 DEF ShiftLeft
  <2> QED
    BY <2>1, <2>2
<1>5. \A i \in v : i < LowLen \/ i >= LowLen
  BY <1>0, <1>1
<1> QED
  BY <1>2, <1>4, <1>5 DEF MergeBits

\* A hit and a marker come back from their element of a datagram.
LEMMA HitInverse ==
  ASSUME NEW hit \in Hits, HitFits(hit)
  PROVE  ArrayToHit(HitToCompact(hit)) = hit /\ IsHit(HitToCompact(hit))
<1>1. GrayToBinary[BinaryToGray(hit.bc_id)] = hit.bc_id
  BY GrayInverse DEF HitFits
<1>2. ArrayToHit(HitToCompact(hit)) =
        [channel_num |-> hit.channel_num, adc |-> hit.adc, bc_id |-> hit.bc_id]
  BY <1>1 DEF ArrayToHit, HitToCompact
<1> QED
  BY <1>2 DEF Hits, IsHit, HitToCompact

LEMMA MarkerInverse ==
  ASSUME NEW marker \in Markers, MarkerFits(marker)
  PROVE  ArrayToMarker(MarkerToCompact(marker)) = marker /\ ~IsHit(MarkerToCompact(marker))
<1>1. MergeBits(GetHigh(marker.srs_timestamp), GetLow(marker.srs_timestamp)) = marker.srs_timestamp
  BY MergeInverse DEF MarkerFits
<1>2. ArrayToMarker(MarkerToCompact(marker)) =
        [vmm_id |-> marker.vmm_id, srs_timestamp |-> marker.srs_timestamp]
  BY <1>1 DEF ArrayToMarker, MarkerToCompact
<1> QED
  BY <1>2 DEF Markers, IsHit, MarkerToCompact

\* A datagram has the hits of its frame and then its markers.
LEMMA Elements ==
  ASSUME NEW data \in Frames
  PROVE  LET h == Len(data.hit_data)
             m == Len(data.marker_data)
             elements == Serialize(data).elements
         IN /\ h \in Nat /\ m \in Nat /\ Len(elements) = h + m
            /\ \A i \in 1..h : elements[i] = HitToCompact(data.hit_data[i])
            /\ \A i \in 1..m : elements[h + i] = MarkerToCompact(data.marker_data[i])
<1> DEFINE h == Len(data.hit_data)
           m == Len(data.marker_data)
           H == MapSeq(HitToCompact, data.hit_data)
           M == MapSeq(MarkerToCompact, data.marker_data)
           S == {H[i] : i \in 1..h} \cup {M[i] : i \in 1..m}
<1>1. data.hit_data \in Seq(Hits) /\ data.marker_data \in Seq(Markers)
  BY DEF Frames
<1>2. h \in Nat /\ m \in Nat /\ DOMAIN data.hit_data = 1..h /\ DOMAIN data.marker_data = 1..m
  BY <1>1
<1>3. H = [i \in 1..h |-> HitToCompact(data.hit_data[i])]
  BY <1>2 DEF MapSeq
<1>4. M = [i \in 1..m |-> MarkerToCompact(data.marker_data[i])]
  BY <1>2 DEF MapSeq
<1>5. H \in [1..h -> S] /\ M \in [1..m -> S]
  BY <1>3, <1>4
<1>6. Serialize(data).elements = H \o M
  BY DEF Serialize
<1> HIDE DEF h, m, H, M, S
<1>7. H \in Seq(S) /\ M \in Seq(S) /\ Len(H) = h /\ Len(M) = m
  BY <1>2, <1>5
<1>8. /\ Len(H \o M) = h + m
      /\ \A i \in 1..h : (H \o M)[i] = H[i]
      /\ \A i \in 1..m : (H \o M)[h + i] = M[i]
  BY <1>2, <1>7
<1> QED
  BY <1>2, <1>3, <1>4, <1>6, <1>8 DEF h, m

LEMMA OneLonger ==
  ASSUME NEW S, NEW s \in Seq(S), NEW i \in 1..Len(s)
  PROVE  Append(SubSeq(s, 1, i - 1), s[i]) = SubSeq(s, 1, i)
<1>1. i \in Nat /\ i <= Len(s) /\ Len(s) \in Nat
  OBVIOUS
<1> DEFINE a == Append(SubSeq(s, 1, i - 1), s[i])
           b == SubSeq(s, 1, i)
<1>2. SubSeq(s, 1, i - 1) \in Seq(S) /\ Len(SubSeq(s, 1, i - 1)) = i - 1
      /\ \A j \in 1..(i - 1) : SubSeq(s, 1, i - 1)[j] = s[j]
  OBVIOUS
<1>3. b \in Seq(S) /\ Len(b) = i /\ \A j \in 1..i : b[j] = s[j]
  OBVIOUS
<1>4. s[i] \in S
  OBVIOUS
<1> HIDE DEF b
<1>5. a \in Seq(S) /\ Len(a) = i /\ \A j \in 1..i : a[j] = s[j]
  BY <1>1, <1>2, <1>4
<1> HIDE DEF a
<1>6. a = b
  BY <1>3, <1>5, SeqEqual
<1> QED
  BY <1>6 DEF a, b

\* One more hit or marker in a frame.
Frame(header, hits, markers) == [header |-> header, hit_data |-> hits, marker_data |-> markers]
WithHit(frame, hit) == [frame EXCEPT !.hit_data = Append(@, hit)]
WithMarker(frame, marker) == [frame EXCEPT !.marker_data = Append(@, marker)]

LEMMA FrameGrows ==
  ASSUME NEW header, NEW hits, NEW markers, NEW x
  PROVE  /\ WithHit(Frame(header, hits, markers), x) = Frame(header, Append(hits, x), markers)
         /\ WithMarker(Frame(header, hits, markers), x) = Frame(header, hits, Append(markers, x))
<1>1. PICK frame : frame = Frame(header, hits, markers)
  OBVIOUS
<1>2. frame = [header |-> header, hit_data |-> hits, marker_data |-> markers]
  BY <1>1 DEF Frame
<1>3. frame.hit_data = hits /\ frame.marker_data = markers
  BY <1>2
<1> DEFINE a == Append(hits, x)
           b == Append(markers, x)
<1>4. WithHit(frame, x) = [frame EXCEPT !.hit_data = a]
      /\ WithMarker(frame, x) = [frame EXCEPT !.marker_data = b]
  BY <1>3 DEF WithHit, WithMarker
<1> HIDE DEF a, b
<1>5. /\ [frame EXCEPT !.hit_data = a] = [header |-> header, hit_data |-> a, marker_data |-> markers]
      /\ [frame EXCEPT !.marker_data = b] = [header |-> header, hit_data |-> hits, marker_data |-> b]
  BY <1>2
<1>6. WithHit(frame, x) = Frame(header, a, markers) /\ WithMarker(frame, x) = Frame(header, hits, b)
  BY <1>4, <1>5 DEF Frame
<1> QED
  BY <1>1, <1>6 DEF a, b

\* Reading the elements one after the other gives the hits and then the markers.
LEMMA Translated ==
  ASSUME NEW data \in Frames, Serializable(data)
  PROVE  Translate(Serialize(data).elements, [EmptyStruct EXCEPT !.header = data.header]) = data
<1> DEFINE hits == data.hit_data
           markers == data.marker_data
           h == Len(hits)
           m == Len(markers)
           elements == Serialize(data).elements
           n == Len(elements)
           Prefix(i) == IF i <= h THEN Frame(data.header, SubSeq(hits, 1, i), <<>>)
                                  ELSE Frame(data.header, hits, SubSeq(markers, 1, i - h))
           start == [EmptyStruct EXCEPT !.header = data.header]
           More(frame, e) == IF IsHit(e) THEN WithHit(frame, ArrayToHit(e))
                                         ELSE WithMarker(frame, ArrayToMarker(e))
           Step(read, i) == IF i = 0 THEN start ELSE More(read[i - 1], elements[i])
           Is(read) == read = [i \in 0..n |-> Step(read, i)]
           f == [i \in 0..n |-> Prefix(i)]
           read == CHOOSE r : Is(r)
<1>1. hits \in Seq(Hits) /\ markers \in Seq(Markers)
  BY DEF Frames
<1>2. h \in Nat /\ m \in Nat /\ n = h + m
  BY Elements
<1>3. \A i \in 1..h : IsHit(elements[i]) /\ ArrayToHit(elements[i]) = hits[i]
  <2> TAKE i \in 1..h
  <2>1. hits[i] \in Hits /\ HitFits(hits[i])
    BY <1>1 DEF Serializable
  <2>2. elements[i] = HitToCompact(hits[i])
    BY Elements
  <2> QED
    BY <2>1, <2>2, HitInverse
<1>4. \A i \in 1..m : ~IsHit(elements[h + i]) /\ ArrayToMarker(elements[h + i]) = markers[i]
  <2> TAKE i \in 1..m
  <2>1. markers[i] \in Markers /\ MarkerFits(markers[i])
    BY <1>1 DEF Serializable
  <2>2. elements[h + i] = MarkerToCompact(markers[i])
    BY Elements
  <2> QED
    BY <2>1, <2>2, MarkerInverse
<1>5. Translate(elements, start) = read[n]
  BY Zenon DEF Translate, WithHit, WithMarker
<1>6. start = Frame(data.header, <<>>, <<>>)
  BY DEF EmptyStruct, Frame
<1>7. Prefix(0) = start
  BY <1>1, <1>2, <1>6 DEF Frame
<1>8. Prefix(n) = data
  <2>1. SubSeq(hits, 1, h) = hits /\ SubSeq(markers, 1, m) = markers
    BY <1>1
  <2>2. data = Frame(data.header, hits, markers)
    BY DEF Frames, Frame
  <2>3. m = 0 => markers = <<>>
    BY <1>1
  <2> QED
    BY <1>2, <2>1, <2>2, <2>3 DEF Frame
<1>9. \A i \in 1..n : Prefix(i) = More(Prefix(i - 1), elements[i])
  <2> TAKE i \in 1..n
  <2>1. CASE i <= h
    <3>1. /\ Prefix(i - 1) = Frame(data.header, SubSeq(hits, 1, i - 1), <<>>)
          /\ Prefix(i) = Frame(data.header, SubSeq(hits, 1, i), <<>>)
      BY <1>2, <2>1 DEF Frame
    <3>2. Append(SubSeq(hits, 1, i - 1), hits[i]) = SubSeq(hits, 1, i)
      BY <1>1, <2>1, OneLonger
    <3>3. IsHit(elements[i]) /\ ArrayToHit(elements[i]) = hits[i]
      BY <1>2, <1>3, <2>1
    <3>4. WithHit(Frame(data.header, SubSeq(hits, 1, i - 1), <<>>), hits[i])
            = Frame(data.header, Append(SubSeq(hits, 1, i - 1), hits[i]), <<>>)
      BY FrameGrows, SMT
    <3> HIDE DEF Prefix, hits, elements
    <3> QED
      BY <3>1, <3>2, <3>3, <3>4, Zenon
  <2>2. CASE ~(i <= h)
    <3> DEFINE j == i - h
    <3>1. j \in 1..m /\ h + j = i
      <4> HIDE DEF h, m, n
      <4> QED
        BY <1>2, <2>2
    <3>2. Prefix(i - 1) = Frame(data.header, hits, SubSeq(markers, 1, j - 1))
      <4>1. CASE j = 1
        <5>1. i - 1 = h /\ SubSeq(hits, 1, h) = hits /\ SubSeq(markers, 1, j - 1) = <<>>
          BY <1>1, <3>1, <4>1
        <5> QED
          BY <1>2, <5>1 DEF Frame
      <4>2. CASE j # 1
        <5>1. ~(i - 1 <= h) /\ (i - 1) - h = j - 1
          BY <1>2, <3>1, <4>2
        <5> QED
          BY <5>1
      <4> QED
        BY <4>1, <4>2
    <3>3. Prefix(i) = Frame(data.header, hits, SubSeq(markers, 1, j))
      BY <2>2
    <3>4. Append(SubSeq(markers, 1, j - 1), markers[j]) = SubSeq(markers, 1, j)
      BY <1>1, <3>1, OneLonger
    <3>5. ~IsHit(elements[i]) /\ ArrayToMarker(elements[i]) = markers[j]
      BY <1>4, <3>1
    <3>6. WithMarker(Frame(data.header, hits, SubSeq(markers, 1, j - 1)), markers[j])
            = Frame(data.header, hits, Append(SubSeq(markers, 1, j - 1), markers[j]))
      BY FrameGrows, SMT
    <3> HIDE DEF Prefix, hits, markers, elements, j
    <3> QED
      BY <3>2, <3>3, <3>4, <3>5, <3>6, Zenon
  <2> QED
    BY <2>1, <2>2
<1> HIDE DEF Prefix, start, More, elements, h, m, n
<1>10. Is(f)
  <2>1. ASSUME NEW i \in 0..n PROVE Prefix(i) = Step(f, i)
    <3>1. CASE i = 0
      BY <1>7, <3>1
    <3>2. CASE i # 0
      <4>1. i \in 1..n /\ i - 1 \in 0..n
        BY <1>2, <3>2
      <4>2. f[i - 1] = Prefix(i - 1)
        BY <4>1
      <4> HIDE DEF f
      <4> QED
        BY <1>9, <3>2, <4>1, <4>2, Zenon
    <3> QED
      BY <3>1, <3>2
  <2> QED
    BY <2>1, Zenon
<1>11. Is(read)
  <2> HIDE DEF Is, f
  <2> QED
    BY <1>10, Zenon
<1>12. \A i \in 0..n : read[i] = Step(read, i)
  <2> HIDE DEF read
  <2> QED
    BY <1>11, Zenon
<1> HIDE DEF read
<1> DEFINE T == {i \in 0..n : read[i] # Prefix(i)}
<1>13. SUFFICES T = {}
  BY <1>2, <1>5, <1>8, <1>13 DEF start, elements
<1>14. SUFFICES ASSUME T # {} PROVE FALSE
  OBVIOUS
<1>15. PICK i \in T : \A j \in T : i <= j
  <2>1. T \in SUBSET Nat
    BY <1>2
  <2> HIDE DEF T
  <2> QED
    BY <1>14, <2>1, LeastNatural
<1>16. i \in 0..n /\ i # 0
  BY <1>7, <1>12, <1>15
<1>17. i \in 1..n /\ i - 1 \in 0..n /\ ~(i <= i - 1)
  BY <1>2, <1>16
<1>18. read[i - 1] = Prefix(i - 1)
  BY <1>15, <1>17
<1>19. read[i] = Prefix(i)
  BY <1>9, <1>12, <1>16, <1>17, <1>18, Zenon
<1> QED
  BY <1>15, <1>19

(***************************************************************************)
(* A frame comes back from its datagram: what StructDeserializer reads of  *)
(* what StructSerializer wrote, hits, markers and their order, is the      *)
(* frame, whenever the datagram is one the deserializer accepts.           *)
(***************************************************************************)
THEOREM DatagramInverse ==
  ASSUME NEW data \in Frames, Serializable(data), Deserializable(Serialize(data))
  PROVE  Deserialize(Serialize(data), EmptyStruct) = data
BY Translated DEF Deserialize, Serialize

\* It comes back from its message, but for what AsRead says,
LEMMA MessageInverse ==
  ASSUME NEW data \in Frames
  PROVE  FromProto(ToProto(data)) = AsRead(data)
<1> DEFINE header == data.header
           counted == [EmptyHeader EXCEPT !.frame_counter = header.frame_counter]
<1>1. header \in [frame_counter : Nat, vmm_tag : Nat, fec_id : Nat]
  BY DEF Frames
<1> HIDE DEF header
<1>2. counted = [frame_counter |-> header.frame_counter, vmm_tag |-> 0, fec_id |-> 0]
  BY DEF EmptyHeader
<1> HIDE DEF counted
<1>3. [counted EXCEPT !.fec_id = header.fec_id]
        = [frame_counter |-> header.frame_counter, vmm_tag |-> 0, fec_id |-> header.fec_id]
  BY <1>2
<1>4. [header EXCEPT !.vmm_tag = 0]
        = [frame_counter |-> header.frame_counter, vmm_tag |-> 0, fec_id |-> header.fec_id]
  BY <1>1
<1>5. [counted EXCEPT !.fec_id = header.fec_id] = [header EXCEPT !.vmm_tag = 0]
  BY <1>3, <1>4
<1> DEFINE proto == ToProto(data)
<1>6. /\ proto.header.frame_counter = header.frame_counter /\ proto.header.fec_id = header.fec_id
      /\ proto.hit_data = data.hit_data /\ proto.marker_data = data.marker_data
  BY DEF ToProto, header
<1> HIDE DEF proto
<1>7. FromProto(proto) = AsRead(data)
  BY <1>5, <1>6, Zenon DEF FromProto, AsRead, MapSeq, counted, header
<1> QED
  BY <1>7 DEF proto

\* and its rows from their columns.
LEMMA RowsInverse ==
  ASSUME NEW fields, NEW R, NEW rows \in Seq(R), \A row \in R : row = [field \in fields |-> row[field]]
  PROVE  Rows(Len(rows), Columns(fields, rows)) = rows
<1> DEFINE columns == Columns(fields, rows)
<1>1. DOMAIN columns = fields /\ DOMAIN rows = 1..Len(rows)
  BY DEF Columns
<1>2. ASSUME NEW i \in 1..Len(rows)
      PROVE  [field \in fields |-> columns[field][i]] = rows[i]
  <2>1. \A field \in fields : columns[field][i] = rows[i][field]
    BY <1>1, <1>2 DEF Columns
  <2>2. rows[i] \in R
    OBVIOUS
  <2>3. rows[i] = [field \in fields |-> rows[i][field]]
    BY <2>2
  <2> HIDE DEF columns
  <2> QED
    BY <2>1, <2>3
<1>3. Rows(Len(rows), columns) = [i \in 1..Len(rows) |-> [field \in fields |-> columns[field][i]]]
  BY <1>1 DEF Rows
<1>4. rows = [i \in 1..Len(rows) |-> rows[i]]
  OBVIOUS
<1> HIDE DEF columns
<1>5. Rows(Len(rows), columns) = rows
  BY <1>2, <1>3, <1>4
<1> QED
  BY <1>5 DEF columns

LEMMA ExportInverse ==
  ASSUME NEW data \in Frames
  PROVE  LET export == Export(data)
         IN data = [header |-> export.header,
                    hit_data |-> Rows(export.hit_size, export.hit_data),
                    marker_data |-> Rows(export.marker_size, export.marker_data)]
<1>1. /\ data.hit_data \in Seq(Hits) /\ data.marker_data \in Seq(Markers)
      /\ data = [header |-> data.header, hit_data |-> data.hit_data,
                 marker_data |-> data.marker_data]
  BY DEF Frames
<1>2. \A row \in Hits : row = [field \in {"channel_num", "adc", "bc_id"} |-> row[field]]
  BY DEF Hits
<1>3. \A row \in Markers : row = [field \in {"vmm_id", "srs_timestamp"} |-> row[field]]
  BY DEF Markers
<1>4. Rows(Len(data.hit_data), Columns({"channel_num", "adc", "bc_id"}, data.hit_data)) = data.hit_data
  BY <1>1, <1>2, RowsInverse
<1>5. Rows(Len(data.marker_data), Columns({"vmm_id", "srs_timestamp"}, data.marker_data)) = data.marker_data
  BY <1>1, <1>3, RowsInverse
<1> QED
  BY <1>1, <1>4, <1>5 DEF Export

\* What is read back from a record.
LEMMA RecordReadBack ==
  ASSUME NEW s \in Files, Writer(s) # "no_output", NEW data \in Structs,
         NEW record, record = Expected(s, Serialize(data))
  PROVE  /\ record.token = "message" => FromProto(record.data) = AsRead(data)
         /\ record.token = "frame" => Deserialize(record.data, EmptyStruct) = data
         /\ record.token = "columns" =>
              LET export == record.data
              IN data = [header |-> export.header,
                         hit_data |-> Rows(export.hit_size, export.hit_data),
                         marker_data |-> Rows(export.marker_size, export.marker_data)]
<1>1. data \in Frames /\ Serializable(data) /\ Deserializable(Serialize(data))
  BY StructAssumption
<1>2. Deserialize(Serialize(data), EmptyStruct) = data
  BY <1>1, DatagramInverse
<1>3. \/ record.token \in {"datagram", "struct", "delimited"}
      \/ record.token = "frame" /\ record.data = Serialize(data)
      \/ record.token = "columns" /\ record.data = Export(data)
      \/ record.token = "message" /\ record.data = ToProto(data)
  BY <1>2, SinkKinds DEF Expected, Item
<1>4. CASE record.token = "message"
  BY <1>1, <1>3, <1>4, MessageInverse
<1>5. CASE record.token = "frame"
  BY <1>2, <1>3, <1>5
<1>6. CASE record.token = "columns"
  BY <1>1, <1>3, <1>6, ExportInverse
<1> QED
  BY <1>4, <1>5, <1>6

(***************************************************************************)
(* Each frame that FECs serialise, with fields and numbers of hits and     *)
(* markers of any size, is read back from the message that was sent for    *)
(* it, from its raw frame in a file and from its columns in a JSON list.   *)
(***************************************************************************)
THEOREM FramesReadBack == Spec => []ReadBack
<1>1. FedInv /\ RecordsFaithful => ReadBack
  <2> SUFFICES ASSUME FedInv, RecordsFaithful, NEW s \in Writers, NEW l \in Lines,
                      NEW data \in Structs, NEW i \in DOMAIN Records(s, l),
                      taken[l][i] = Serialize(data)
               PROVE  LET record == Records(s, l)[i]
                      IN /\ record.token = "message" => FromProto(record.data) = AsRead(data)
                         /\ record.token = "frame" => Deserialize(record.data, EmptyStruct) = data
                         /\ record.token = "columns" =>
                              LET export == record.data
                              IN data = [header |-> export.header,
                                         hit_data |-> Rows(export.hit_size, export.hit_data),
                                         marker_data |-> Rows(export.marker_size, export.marker_data)]
    BY Zenon DEF ReadBack
  <2>1. s \in Files /\ Writer(s) # "no_output"
    BY DEF FedInv, SinksOK, Writers
  <2>2. PICK record : record = Records(s, l)[i]
    OBVIOUS
  <2>3. record = Expected(s, Serialize(data)) \/ record = Mark("lost")
    BY <2>2, Zenon DEF RecordsFaithful
  <2>4. CASE record = Expected(s, Serialize(data))
    BY <2>1, <2>2, <2>4, RecordReadBack
  <2>5. CASE record = Mark("lost")
    <3>1. record.token = "lost"
      BY <2>5 DEF Mark, Item
    <3> QED
      BY <2>2, <3>1
  <2> QED
    BY <2>3, <2>4, <2>5
<1> QED
  BY <1>1, TypeInvariance, RecordsAreFaithful, PTL
===============================================================================
