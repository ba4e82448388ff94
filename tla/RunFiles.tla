------------------------------- MODULE RunFiles -------------------------------
(***************************************************************************)
(* The files of a run of srs_control and the programs that read them: the  *)
(* configuration it starts from, the log that srs-check judges the last    *)
(* run by, and the file of delimited raw frames that RawFrameReader reads. *)
(* A run may be killed at any time, which is what one does with a run that *)
(* is frozen: what its streams still hold is lost.                         *)
(*                                                                         *)
(* spdlog's rotating sink, the streams and glaze are external.  The names  *)
(* differ from those of AppLifecycle, so that a module can extend both.    *)
(***************************************************************************)
EXTENDS Integers, Sequences, FiniteSets

CONSTANTS
  Scopes,     \* functions and coroutines with an ExitLogger
  MaxRuns,    \* bound: runs
  MaxLines,   \* bound: lines the scopes of a run write
  MaxFrames,  \* bound: frames in the file
  MaxReads    \* bound: calls of read_one_frame

ASSUME FilesAssumption == {MaxRuns, MaxLines, MaxFrames, MaxReads} \subseteq Nat

VARIABLES
  config,    \* the file: "absent", "default", "edited", "broken" (no valid content)
  suffix,    \* resolve_filetype knows it
  run,       \* "none", "parse" (options), "create" or "dump" (the file), "start", "run", "over"
  runs,      \* runs so far
  values,    \* what the run is configured with
  asked,     \* history: the run was started with --config-file
  disk,      \* the lines of the current log file
  held,      \* lines the log's stream holds
  open,      \* history: open[s], calls of scope s that have begun and not ended
  lines,     \* history: lines of the scopes in this run
  lost,      \* history: lines of this run were lost
  rotated,   \* history: the log was rotated in this run
  verdict,   \* of srs-check, "none" if it was not asked since
  wrote,     \* frames written by this run
  onDisk,    \* complete ones in the file
  tail,      \* what follows them: "none" or what is cut, "size" or "body"
  reader     \* RawFrameReader: position, eof bit, buffer, and the results so far

configVars == <<config, suffix, values, asked>>
logVars == <<disk, held, open, lines, lost, rotated, verdict>>
rawVars == <<wrote, onDisk, tail, reader>>
filesVars == <<configVars, run, runs, logVars, rawVars>>

New == [kind |-> "new", scope |-> "none"]
Empty == 0
Torn == MaxFrames + 1
Closed == [at |-> 0, eof |-> FALSE, buffer |-> Empty, results |-> <<>>]

FilesInit ==
  /\ config \in {"absent", "edited", "broken"}
  /\ suffix \in BOOLEAN
  /\ values = "default"
  /\ asked = FALSE
  /\ run = "none"
  /\ runs = 0
  /\ disk = <<>>
  /\ held = <<>>
  /\ open = [s \in Scopes |-> 0]
  /\ lines = 0
  /\ lost = FALSE
  /\ rotated = FALSE
  /\ verdict = "none"
  /\ wrote = 0
  /\ onDisk = 0
  /\ tail = "none"
  /\ reader = Closed

-----------------------------------------------------------------------------
(* Configuration *)

Idle == run \in {"none", "over"}

\* The user writes a configuration, a good one or not, or removes it.
EditConfig ==
  /\ Idle
  /\ runs < MaxRuns
  /\ config' \in {"absent", "edited", "broken"} \ {config}
  /\ UNCHANGED <<suffix, values, asked, run, runs, logVars, rawVars>>

Launch ==
  /\ Idle
  /\ runs < MaxRuns
  /\ runs' = runs + 1
  /\ run' = "parse"
  /\ values' = "default"
  /\ asked' = FALSE
  /\ UNCHANGED <<config, suffix, logVars, rawVars>>

\* --dump-config: output_config_to_file, which refuses a file that exists.
DumpConfig ==
  /\ run = "parse"
  /\ IF config = "absent" /\ suffix THEN run' = "dump" /\ config' = "broken"
                                    ELSE run' = "over" /\ UNCHANGED config
  /\ UNCHANGED <<suffix, values, asked, runs, logVars, rawVars>>

ReadIgnored ==
  /\ run = "parse"
  /\ config # "absent"
  /\ run' = IF suffix /\ config # "broken" THEN "start" ELSE "over"
  /\ asked' = TRUE
  /\ UNCHANGED <<config, suffix, values, runs, logVars, rawVars>>

\* --config-file with a file that exists: a wrong suffix or content ends the program ...
ReadConfig ==
  /\ run = "parse"
  /\ config # "absent"
  /\ run' = IF suffix /\ config # "broken" THEN "start" ELSE "over"
  /\ values' = IF run' = "start" THEN config ELSE values
  /\ asked' = TRUE
  /\ UNCHANGED <<config, suffix, runs, logVars, rawVars>>

\* ... and with one that does not: it is created, and whether that works is not asked.
CreateConfig ==
  /\ run = "parse"
  /\ config = "absent"
  /\ \/ suffix /\ run' = "create" /\ config' = "broken"
     \/ run' = "start" /\ UNCHANGED config
  /\ asked' = TRUE
  /\ UNCHANGED <<suffix, values, runs, logVars, rawVars>>

\* The content comes after the file.
WriteConfig ==
  /\ run \in {"create", "dump"}
  /\ config' = "default"
  /\ run' = IF run = "create" THEN "start" ELSE "over"
  /\ UNCHANGED <<suffix, values, asked, runs, logVars, rawVars>>

\* Without --config-file nothing is read, not even in the default location.
UseDefaults ==
  /\ run = "parse"
  /\ run' = "start"
  /\ UNCHANGED <<configVars, runs, logVars, rawVars>>

-----------------------------------------------------------------------------
(* The run *)

\* init_spdlog appends to the log; the binary file is truncated.
Start ==
  /\ run = "start"
  /\ run' = "run"
  /\ held' = <<New>>
  /\ open' = [s \in Scopes |-> 0]
  /\ lines' = 0
  /\ lost' = FALSE
  /\ rotated' = FALSE
  /\ verdict' = "none"
  /\ wrote' = 0
  /\ onDisk' = 0
  /\ tail' = "none"
  /\ reader' = Closed
  /\ UNCHANGED <<configVars, runs, disk>>

Log(kind, s) ==
  /\ run = "run"
  /\ lines < MaxLines
  /\ lines' = lines + 1
  /\ held' = Append(held, [kind |-> kind, scope |-> s])
  /\ UNCHANGED <<configVars, run, runs, disk, lost, rotated, verdict, rawVars>>

\* The constructor and the destructor of ExitLogger.
BeginScope(s) == Log("begin", s) /\ open' = [open EXCEPT ![s] = @ + 1]
EndScope(s) == open[s] > 0 /\ Log("end", s) /\ open' = [open EXCEPT ![s] = @ - 1]

FlushLog ==
  /\ run = "run"
  /\ held # <<>>
  /\ disk' = disk \o held
  /\ held' = <<>>
  /\ UNCHANGED <<configVars, run, runs, open, lines, lost, rotated, verdict, rawVars>>

\* The file is too large for the next line: it is closed and a new one opened.
Rotate ==
  /\ run = "run"
  /\ disk # <<>>
  /\ disk' = <<>>
  /\ held' = <<>>
  /\ rotated' = TRUE
  /\ UNCHANGED <<configVars, run, runs, open, lines, lost, verdict, rawVars>>

\* BinaryFile::run
WriteFrame ==
  /\ run = "run"
  /\ wrote < MaxFrames
  /\ wrote' = wrote + 1
  /\ UNCHANGED <<configVars, run, runs, logVars, onDisk, tail, reader>>

FlushFrames ==
  /\ run = "run"
  /\ onDisk < wrote
  /\ onDisk' = wrote
  /\ UNCHANGED <<configVars, run, runs, logVars, wrote, tail, reader>>

\* The destructors of the sinks and of the logger close what they have open.
Finish ==
  /\ run = "run"
  /\ \A s \in Scopes : open[s] = 0
  /\ run' = "over"
  /\ disk' = disk \o held
  /\ held' = <<>>
  /\ onDisk' = wrote
  /\ UNCHANGED <<configVars, runs, open, lines, lost, rotated, verdict, wrote, tail, reader>>

\* The process is killed, or aborts.  A file may end within a frame.
Kill ==
  /\ run \in {"create", "dump", "run"}
  /\ run' = "over"
  /\ lost' = (IF run = "run" THEN held # <<>> ELSE lost)
  /\ held' = <<>>
  /\ IF run = "run"
     THEN /\ onDisk' \in onDisk..wrote
          /\ tail' \in IF onDisk' = wrote THEN {"none"} ELSE {"none", "size", "body"}
     ELSE UNCHANGED <<onDisk, tail>>
  /\ UNCHANGED <<configVars, runs, disk, open, lines, rotated, verdict, wrote, reader>>

-----------------------------------------------------------------------------
(* srs-check *)

ReadWhole(file) == file

\* LogFile::read keeps the lines after the last that starts an instance.
Read(file) ==
  LET starts == {i \in DOMAIN file : file[i] = New}
      start == IF starts = {} THEN 0 ELSE CHOOSE i \in starts : \A j \in starts : j <= i
  IN SubSeq(file, start + 1, Len(file))

\* LogFile::analysis
Balance(content, s) ==
  Cardinality({i \in DOMAIN content : content[i] = [kind |-> "begin", scope |-> s]})
    - Cardinality({i \in DOMAIN content : content[i] = [kind |-> "end", scope |-> s]})

\* LogFile::summarize; nothing recorded counts as success.
Summarize(content) ==
  CASE content = <<>> -> "nothing"
    [] content # <<>> /\ (\A s \in Scopes : Balance(content, s) = 0) -> "exited"
    [] OTHER -> "stuck"

Check ==
  /\ run = "over"
  /\ verdict = "none"
  /\ verdict' = Summarize(Read(disk))
  /\ UNCHANGED <<configVars, run, runs, disk, held, open, lines, lost, rotated, rawVars>>

-----------------------------------------------------------------------------
(* RawFrameReader *)

Result(r) == [r EXCEPT !.results = Append(@, r.buffer)]

\* read_one_frame.  At the end of the stream the buffer is returned as it is.  A
\* size that cannot be read is zero, one that is cut anything; a cut body leaves the
\* rest of the buffer as it was, all of it if no byte follows the size.
ReadOneFrame ==
  /\ run = "over"
  /\ Len(reader.results) < MaxReads
  /\ \E buffer \in CASE reader.eof -> {reader.buffer}
                     [] ~reader.eof /\ reader.at < onDisk -> {reader.at + 1}
                     [] ~reader.eof /\ reader.at >= onDisk /\ tail = "none" -> {Empty}
                     [] OTHER -> {Torn, reader.buffer} :
       reader' = Result([reader EXCEPT !.buffer = buffer,
                                       !.eof = @ \/ reader.at >= onDisk,
                                       !.at = IF @ < onDisk THEN @ + 1 ELSE @])
  /\ UNCHANGED <<configVars, run, runs, logVars, wrote, onDisk, tail>>

ResetNoClear ==
  /\ run = "over"
  /\ reader.results # <<>>
  /\ reader' = [reader EXCEPT !.at = IF reader.eof THEN @ ELSE 0, !.results = <<>>]
  /\ UNCHANGED <<configVars, run, runs, logVars, wrote, onDisk, tail>>

\* reset: the bits of the stream are cleared, then it is at the beginning.
ResetReader ==
  /\ run = "over"
  /\ reader.results # <<>>
  /\ reader' = [reader EXCEPT !.at = 0, !.eof = FALSE, !.results = <<>>]
  /\ UNCHANGED <<configVars, run, runs, logVars, wrote, onDisk, tail>>

FilesNext ==
  \/ EditConfig \/ Launch \/ DumpConfig \/ ReadConfig \/ CreateConfig \/ WriteConfig
  \/ UseDefaults \/ Start \/ FlushLog \/ Rotate \/ WriteFrame \/ FlushFrames
  \/ Finish \/ Kill \/ Check \/ ReadOneFrame \/ ResetReader
  \/ \E s \in Scopes : BeginScope(s) \/ EndScope(s)

FilesSpec == FilesInit /\ [][FilesNext]_filesVars

-----------------------------------------------------------------------------
(* Properties *)

\* What a user has written is never overwritten, neither by --dump-config nor by the
\* creation of a missing file, and a run that was given a file has the values that the
\* file has when it runs, one that was created as well.  (The program goes on with the
\* default values if the file could not be created.)
ConfigKept ==
  /\ [][config' # config /\ config # "absent" => EditConfig \/ WriteConfig]_filesVars
  /\ [](run \in {"start", "run"} /\ asked => config \in {values, "absent"})

\* srs-check tells whether the scopes of the last run exited, if the log is complete
\* and was not rotated in that run.  It is meant for a run that froze, which one
\* kills: without a flush the lines that show where it froze are not in the file.
VerdictRight ==
  verdict # "none" /\ ~lost /\ ~rotated =>
    (verdict = "stuck" <=> \E s \in Scopes : open[s] > 0)

\* The reader gives the complete frames one after the other, then empty ones if the file
\* is whole.  If it is cut, what follows is one and the same buffer, which may be the
\* last frame once more.
ReadsInOrder ==
  \A i \in DOMAIN reader.results :
    LET result == reader.results[i]
    IN CASE i <= onDisk -> result = i
         [] i > onDisk /\ tail = "none" -> result = Empty
         [] OTHER -> result = reader.results[onDisk + 1]
===============================================================================
