----------------------------- MODULE LineTaskflow -----------------------------
(***************************************************************************)
(* What a pipeline line does with a frame: the sinks that the output names *)
(* of the command line make, the conversions they require, the taskflow of *)
(* each line, and a run of it for every frame the line dequeues.  How the  *)
(* frames come to the lines is in BufferQueue and Workflow, what the frame *)
(* counter checker does with a frame in FrameCountChecker.                 *)
(*                                                                         *)
(* Taskflow (external) runs the tasks of a line in any order that respects *)
(* its edges; the lines run at the same time, a line with itself never.    *)
(* Nothing but the tasks' vectors, indexed with the line, is shared.       *)
(***************************************************************************)
EXTENDS FrameCodec, FiniteSets

CONSTANTS
  Lines,
  Files,       \* output names the command line may have
  Extension,   \* Extension[f]: what tells the kind of output f
  HasRoot,     \* HAS_ROOT
  FrameCheck,  \* enable_frame_counter_check
  Structs,     \* frames the FECs measure, which they serialise
  Others,      \* other datagrams that come in
  MaxOutputs,  \* bound: output names on the command line
  MaxFrames    \* bound: frames a line dequeues

Converters == {"raw_frame", "structure", "structure_to_proto", "proto", "proto_frame"}
Checker == "FrameCountChecker"

ASSUME LineAssumption ==
  /\ HasRoot \in BOOLEAN /\ FrameCheck \in BOOLEAN
  /\ MaxOutputs \in Nat /\ MaxFrames \in Nat
  \* In the report an address does not stand for another task.
  /\ Files \cap (Converters \cup {Checker, "raw", "none", "RawDelimiter", "Struct deserializer",
        "ProtoSerializer", "ProtoSerializer(delim)", "BinaryWriter", "JSONWriter", "RootFile"}) = {}

\* What a FEC sends can be serialised, and holds a hit or a marker.
ASSUME StructAssumption ==
  \A data \in Structs :
    data \in Frames /\ Serializable(data) /\ Deserializable(Serialize(data))

VARIABLES
  phase,     \* "config", "construct", "run", "end"
  filenames, \* what set_output_filenames is given
  sinks,     \* Manager: its files, sockets and the checker
  tasks,     \* tasks[l]: the tasks in taskflow_lines_[l]
  taken,     \* history: taken[l], the datagrams line l has dequeued
  todo,      \* todo[l]: tasks that have yet to run on the last one
  output,    \* output[c][l]: output_data_ of converter c
  written,   \* written[s][l]: what sink s wrote for line l
  first,     \* first[s][l]: is_first_item_ of a JSON sink
  samples,   \* samples[t][l]: stats_ of task t
  report     \* report[name]: task_records_

frameVars == <<taken, todo, output, samples>>
sinkVars == <<written, first>>
vars == <<phase, filenames, sinks, tasks, frameVars, sinkVars, report>>

-----------------------------------------------------------------------------
(* Outputs and conversions *)

\* get_filetype_from_filename: the writer and the conversion it requires.  A name
\* with a ':' is an address, with a '?' too one that takes raw datagrams.
FileType(extension) ==
  CASE extension \in {".bin", ".lmd"} -> <<"bin", "raw_frame">>
    [] extension = ".binpb" -> <<"bin", "proto_frame">>
    [] extension = ".root" -> <<"root", "structure">>
    [] extension = ".json" -> <<"json", "structure">>
    [] extension = ":?" -> <<"udp", "raw">>
    [] extension = ":" -> <<"udp", "proto">>
    [] OTHER -> <<"no_output", "none">>

Writer(s) == IF s = Checker THEN "checker" ELSE FileType(Extension[s])[1]
Required(s) == IF s = Checker THEN "raw" ELSE FileType(Extension[s])[2]

\* CONVERT_OPTION_RELATIONS: <<dependee, depender>>.
RelationsNoProto ==
  {<<"raw", "raw_frame">>, <<"raw", "structure">>, <<"structure", "structure_to_proto">>,
   <<"structure_to_proto", "proto_frame">>}
Relations ==
  {<<"raw", "raw_frame">>, <<"raw", "structure">>, <<"structure", "structure_to_proto">>,
   <<"structure_to_proto", "proto">>, <<"structure_to_proto", "proto_frame">>}

\* convert_option_has_dependency: the relations lead from one to the other, in three
\* steps at most.
Dependers(options) == options \cup {r[2] : r \in {q \in Relations : q[1] \in options}}
HasDependency(dependee, depender) == depender \in Dependers(Dependers(Dependers({dependee})))

\* The converter a task reads from; "raw" is the task diagram itself.
Previous(task) ==
  CASE task \in {"raw_frame", "structure"} -> "raw"
    [] task = "structure_to_proto" -> "structure"
    [] task \in {"proto", "proto_frame"} -> "structure_to_proto"
    [] OTHER -> Required(task)

IsConvertRequired(c) == \E s \in sinks : HasDependency(c, Required(s))

\* construct_taskflow_line: first the converters that are required, each after the
\* one it reads from, then the sinks, if what they read from has a task.
LineTasks ==
  LET After(done) == {c \in Converters : Previous(c) \in done \cup {"raw"} /\ IsConvertRequired(c)}
      made == After(After(After({})))
  IN made \cup {s \in sinks : Previous(s) \in made \cup {"raw"}}

TaskName(t) ==
  CASE t = "raw_frame" -> "RawDelimiter"
    [] t \in {"structure", "structure_to_proto"} -> "Struct deserializer"
    [] t = "proto" -> "ProtoSerializer"
    [] t = "proto_frame" -> "ProtoSerializer(delim)"
    [] t = Checker -> Checker
    [] OTHER -> CASE Writer(t) = "bin" -> "BinaryWriter"
                  [] Writer(t) = "json" -> "JSONWriter"
                  [] Writer(t) = "root" -> "RootFile"
                  [] OTHER -> t

-----------------------------------------------------------------------------
(* Configuration *)

Item(token, data) == [token |-> token, data |-> data]
Mark(token) == Item(token, EmptyStruct)

Init ==
  /\ phase = "config"
  /\ filenames \in UNION {[1..n -> Files] : n \in 0..MaxOutputs}
  /\ sinks = {}
  /\ tasks = [l \in Lines |-> {}]
  /\ taken = [l \in Lines |-> <<>>]
  /\ todo = [l \in Lines |-> {}]
  /\ output = [c \in Converters |-> [l \in Lines |-> Item("none", EmptyStruct)]]
  /\ written = <<>>
  /\ first = <<>>
  /\ samples = <<>>
  /\ report = <<>>

\* convert_str_to_endpoint: the addresses that can be resolved.
Resolutions == SUBSET {f \in Files : Writer(f) = "udp"}

\* A file that cannot be opened throws.  A name that is there already is refused;
\* the second writer for it has opened and closed the file by then.
Accepted(resolved) ==
  {f \in {filenames[i] : i \in DOMAIN filenames} :
     CASE Writer(f) = "no_output" -> FALSE
       [] Writer(f) = "root" -> HasRoot
       [] Writer(f) = "udp" -> f \in resolved
       [] OTHER -> TRUE}

\* AnalysisHandle::AnalysisHandle
EnabledChecker == IF FrameCheck THEN {Checker} ELSE {}

\* What the constructor of a sink writes, for each line into a file of its own.
Opened(s) == IF Writer(s) = "json" THEN <<Mark("[")>> ELSE <<>>

\* The checker is enabled in the constructor; then set_output_filenames.
SetOutputFilenames ==
  /\ phase = "config"
  /\ phase' = "construct"
  /\ filenames' = <<>>
  /\ \E resolved \in Resolutions : sinks' = Accepted(resolved) \cup EnabledChecker
  /\ written' = [s \in sinks' |-> [l \in Lines |-> Opened(s)]]
  /\ first' = [s \in sinks' |-> [l \in Lines |-> TRUE]]
  /\ UNCHANGED <<tasks, frameVars, report>>

ConstructTaskflow ==
  /\ phase = "construct"
  /\ phase' = "run"
  /\ tasks' = [l \in Lines |-> LineTasks]
  /\ samples' = [t \in LineTasks |-> [l \in Lines |-> 0]]
  /\ UNCHANGED <<filenames, sinks, taken, todo, output, sinkVars, report>>

-----------------------------------------------------------------------------
(* A frame *)

Datagrams == {Serialize(data) : data \in Structs} \cup Others

\* The line runs its taskflow on the datagram it has dequeued.  The empty buffer that
\* stops it does not come so far, as Pipeflow::stop throws.
TakeFrame(l) ==
  /\ phase = "run"
  /\ todo[l] = {}
  /\ Len(taken[l]) < MaxFrames
  /\ \E d \in Datagrams : taken' = [taken EXCEPT ![l] = Append(@, d)]
  /\ todo' = [todo EXCEPT ![l] = tasks[l]]
  /\ UNCHANGED <<phase, filenames, sinks, tasks, output, samples, sinkVars, report>>

RawData(l) == taken[l][Len(taken[l])]

ResetNothing(data) == data

\* reset_struct_data
Reset(data) == EmptyStruct

\* The size of the datagram before its bytes; the bytes of a message as they are; and the
\* size of a message before its bytes, both compressed, which is another encoding.
Delimit(datagram) == Item("frame", datagram)
SerializeProto(proto) == Item("message", proto)
SerializeDelimited(proto) == Item("delimited", proto)

\* run of a converter; the result of run_once, an error or not, is dropped.
Convert(c, l) ==
  CASE c = "raw_frame" -> Delimit(RawData(l))
    [] c = "structure" -> Item("struct", Deserialize(RawData(l), Reset(output[c][l].data)))
    [] c = "structure_to_proto" -> Item("proto", ToProto(output["structure"][l].data))
    [] c = "proto" -> SerializeProto(output["structure_to_proto"][l].data)
    [] c = "proto_frame" -> SerializeDelimited(output["structure_to_proto"][l].data)

\* An edge of the taskflow.
Ready(t, l) == t \in todo[l] /\ Previous(t) \notin todo[l]

RunOnceIfRead(t, l) ==
  /\ Ready(t, l)
  /\ todo' = [todo EXCEPT ![l] = @ \ {t}]
  /\ samples' = IF t = "structure" /\ ~Deserializable(RawData(l)) THEN samples
                 ELSE [samples EXCEPT ![t][l] = @ + 1]
  /\ UNCHANGED <<phase, filenames, sinks, tasks, taken, report>>

\* A failed run counts like any other.
RunOnce(t, l) ==
  /\ Ready(t, l)
  /\ todo' = [todo EXCEPT ![l] = @ \ {t}]
  /\ samples' = [samples EXCEPT ![t][l] = @ + 1]
  /\ UNCHANGED <<phase, filenames, sinks, tasks, taken, report>>

RunConverter(c, l) ==
  /\ RunOnce(c, l)
  /\ output' = [output EXCEPT ![c][l] = Convert(c, l)]
  /\ UNCHANGED sinkVars

\* What the task diagram or the converter hands to the sink.
Input(s, l) == IF Previous(s) = "raw" THEN Item("datagram", RawData(l)) ELSE output[Previous(s)][l]

JsonItem(s, l) == Item("columns", Export(Input(s, l).data))

WriteComma(s, l) == <<Mark(","), JsonItem(s, l)>>

\* The comma comes before every item but the first one of the line.
WriteJson(s, l) == IF first[s][l] THEN <<JsonItem(s, l)>> ELSE <<Mark(","), JsonItem(s, l)>>

\* The other files take the bytes or the structure as they are.
Put(s, l) == IF Writer(s) = "json" THEN WriteJson(s, l) ELSE <<Input(s, l)>>

\* UDPWriterConnection::send_sync_message does not send an empty message, and an
\* error of send_to goes into err_, which nobody reads.
RunSink(s, l) ==
  /\ RunOnce(s, l)
  /\ \/ written' = [written EXCEPT ![s][l] = @ \o Put(s, l)] /\ Writer(s) # "checker"
     \/ written' = [written EXCEPT ![s][l] = Append(@, Mark("lost"))] /\ Writer(s) = "udp"
     \/ UNCHANGED written /\ Writer(s) = "checker"
  /\ first' = [first EXCEPT ![s][l] = FALSE]
  /\ UNCHANGED output

\* The destructor of a task registers its samples; a name that is registered is
\* not replaced.  The converters are destroyed before the sinks, the inverse order of
\* their declaration, so that structure_to_proto comes before structure.
Registered(name, binary) ==
  CASE name = "Struct deserializer" /\ "structure_to_proto" \in DOMAIN samples ->
         samples["structure_to_proto"]
    [] name = "BinaryWriter" -> samples[binary]
    [] OTHER -> samples[CHOOSE t \in DOMAIN samples : TaskName(t) = name]

\* Json::~Json
Bracket(s) == IF Writer(s) = "json" THEN <<Mark("]")>> ELSE <<>>

Destroy ==
  /\ phase = "run"
  /\ \A l \in Lines : todo[l] = {}
  /\ phase' = "end"
  /\ \E binary \in {t \in sinks : Writer(t) = "bin"} \cup {Checker} :
       /\ binary # Checker \/ \A t \in sinks : Writer(t) # "bin"
       /\ report' = [name \in {TaskName(t) : t \in DOMAIN samples} |-> Registered(name, binary)]
  /\ written' = [s \in sinks |-> [l \in Lines |-> written[s][l] \o Bracket(s)]]
  /\ UNCHANGED <<filenames, sinks, tasks, frameVars, first>>

Ended == phase = "end" /\ UNCHANGED vars

Next ==
  \/ SetOutputFilenames \/ ConstructTaskflow \/ Destroy \/ Ended
  \/ \E l \in Lines : \/ TakeFrame(l)
                      \/ \E c \in Converters : RunConverter(c, l)
                      \/ \E s \in sinks : RunSink(s, l)

Spec == Init /\ [][Next]_vars
-----------------------------------------------------------------------------
(* Properties *)

\* What is in output and written is left to RecordsFaithful and JsonWellFormed.
TypeOK ==
  /\ phase \in {"config", "construct", "run", "end"}
  /\ filenames \in Seq(Files)
  /\ sinks \in SUBSET (Files \cup {Checker})
  /\ tasks \in [Lines -> SUBSET (Converters \cup Files \cup {Checker})]
  /\ taken \in [Lines -> Seq(Datagrams)]
  /\ todo \in [Lines -> SUBSET (Converters \cup Files \cup {Checker})]
  /\ DOMAIN output = Converters /\ \A c \in Converters : DOMAIN output[c] = Lines
  /\ phase # "config" =>
       /\ DOMAIN written = sinks /\ \A s \in sinks : DOMAIN written[s] = Lines
       /\ first \in [sinks -> [Lines -> BOOLEAN]]
  /\ phase \in {"run", "end"} => samples \in [LineTasks -> [Lines -> Nat]]

\* What a sink has to write for a datagram, by the conversion it requires.
Expected(s, datagram) ==
  LET data == Deserialize(datagram, EmptyStruct)
  IN CASE Required(s) = "raw" -> Item("datagram", datagram)
       [] Required(s) = "raw_frame" -> Item("frame", datagram)
       [] Writer(s) = "json" -> Item("columns", Export(data))
       [] Writer(s) = "root" -> Item("struct", data)
       [] Required(s) = "proto_frame" -> Item("delimited", ToProto(data))
       [] OTHER -> Item("message", ToProto(data))

\* Every other item of a JSON file, up to the last bracket.
Records(s, l) ==
  LET items == written[s][l]
      closed == IF phase = "end" THEN 1 ELSE 0
  IN IF Writer(s) # "json" THEN items
     ELSE [i \in 1..((Len(items) - closed) \div 2) |-> items[2 * i]]

Writers == sinks \ {Checker}

\* is_convert_required asks the relations, construct_taskflow_line the tasks before:
\* every sink has a task on every line, after the one it reads from, and no
\* conversion is made that nobody reads.
EverySinkFed ==
  phase = "run" => \A l \in Lines :
    /\ sinks \subseteq tasks[l]
    /\ \A t \in tasks[l] : Previous(t) \in tasks[l] \cup {"raw"}
    /\ \A c \in tasks[l] \cap Converters : \E t \in tasks[l] : Previous(t) = c

\* The result of run_once is dropped and the tasks of a line reuse their output: what a
\* sink wrote for a line is, frame after frame, the conversion of what that line
\* dequeued; a datagram that cannot be read gives an empty frame, never an old one.
RecordsFaithful ==
  \A s \in Writers, l \in Lines :
    LET records == Records(s, l)
    IN /\ Len(records) = IF s \in todo[l] THEN Len(taken[l]) - 1 ELSE Len(taken[l])
       /\ \A i \in DOMAIN records :
            \/ records[i] = Expected(s, taken[l][i])
            \/ records[i] = Mark("lost") /\ Writer(s) = "udp"

\* A JSON file is a list whatever the number of frames: brackets around the
\* structures, a comma between two of them.
JsonWellFormed ==
  \A s \in Writers, l \in Lines :
    Writer(s) = "json" /\ phase = "end" =>
      LET tokens == [i \in DOMAIN written[s][l] |-> written[s][l][i].token]
          n == Len(tokens)
      IN /\ tokens[1] = "[" /\ tokens[n] = "]"
         /\ n = 2 \/ n % 2 = 1
         /\ \A i \in 2..(n - 1) : tokens[i] = IF i % 2 = 0 THEN "columns" ELSE ","

\* Tasks share names in the report and only the first one of a name is registered:
\* the report still has every name, and for each line as many samples as the line
\* has dequeued frames.
ReportComplete ==
  phase = "end" => \A l \in Lines : \A t \in tasks[l] :
    /\ TaskName(t) \in DOMAIN report
    /\ report[TaskName(t)][l] = Len(taken[l])

\* What a reader makes of a frame: vmm_tag is lost, adc is cut to CastLen bits.
AsRead(data) ==
  [header |-> [data.header EXCEPT !.vmm_tag = 0],
   hit_data |-> [i \in DOMAIN data.hit_data |->
                   [data.hit_data[i] EXCEPT !.adc = @ \cap 0..(CastLen - 1)]],
   marker_data |-> data.marker_data]

\* The rows of a JSON item, each with a value from every column.
Rows(size, columns) == [i \in 1..size |-> [field \in DOMAIN columns |-> columns[field][i]]]

\* From end to end: a frame a FEC has serialised is read back by ProtoMsgReader from
\* the message sent to a socket for it, but for vmm_tag and the high bits of adc, and
\* without loss from the delimited raw frame and from the columns of a JSON file.  The
\* delimited messages of a .binpb file are not for ProtoMsgReader: nothing here reads them.
ReadBack ==
  \A s \in Writers, l \in Lines, data \in Structs :
    LET records == Records(s, l)
    IN \A i \in DOMAIN records :
         taken[l][i] = Serialize(data) =>
           /\ records[i].token = "message" => FromProto(records[i].data) = AsRead(data)
           /\ records[i].token = "frame" => Deserialize(records[i].data, EmptyStruct) = data
           /\ records[i].token = "columns" =>
                LET export == records[i].data
                IN data = [header |-> export.header,
                           hit_data |-> Rows(export.hit_size, export.hit_data),
                           marker_data |-> Rows(export.marker_size, export.marker_data)]
===============================================================================
