# Verification of srs-control

srs-control is the data acquisition program of the Scalable Readout System: it
switches front-end cards (FECs) on, receives their frames over UDP, analyses the
frames on several parallel lines and switches the FECs off when it is stopped.
This directory holds TLA+ models of the program, TLC configurations that check
them on small instances and TLAPS proofs of the theorems that hold for every
instance. Paths below are relative to `src/backend/srs/`.

Run a configuration with `tlc -config <cfg> <module>` and check the proofs of a
module with `tlapm <module>.tla`.

## 1. The system

### Threads

| thread | runs |
|---|---|
| main | `App::init`, then the action mode (`srs_control.cpp:171`): `start_workflow`, `read_data`, `switch_on`, `wait_for_workflow`, and the destructors |
| io context, 4 threads (`Application.hpp:229`) | the listen coroutines of all sockets, their cancel timers, the send actions, the monitors, and the signal or timer handler that calls `exit_and_switch_off` |
| workflow thread | `AnalysisHandle::start`, which blocks in the Taskflow run until the pipeline ends |
| Taskflow workers | the pipes of the pipeline and the converters and sinks of each line |

`exit_and_switch_off` blocks the io thread it runs on: it waits for the switch-on
future, sleeps, waits for each data socket and then for the workflow.

### Components

| component | state | operations | what makes it correct |
|---|---|---|---|
| Buffer queue (`data/BufferQueue.cpp`, `LargeBuffer.hpp`) | valid queue, trash queue, three failure counters | `enqueue`, `dequeue`, `enqueue_empty` | no frame is lost unreported, duplicated, overwritten or reordered; memory neither leaks nor has two owners |
| Analysis workflow (`workflow/AnalysisHandle.cpp`, `TaskDiagram.cpp`) | `is_stopped_`, `task_diagram_`, the flag of each line, the pipeline | `start`, `run_task`, `is_taskflow_abort_ready`, `stop_workflow`, `stop_monitor` | a stop ends the workflow, finishes the frames in analysis and strands no line |
| Frame counter checker (`sinks/FrameCountChecker.cpp`) | two atomics | `analyze_frame_counter` | the drop count is the number of missing frames |
| Frame miss monitor (`workflow/FrameMissMonitor.hpp`) | stop flag, samples | `launch`, `stop`, `main_loop` | it ends when told to |
| Data sockets (`connections/SpecialSocketBase.hpp`, `DataSocket.cpp`) | receive buffer, cancel timer, listen future | `create`, listen loop, `response_handler`, `cancel` | every datagram is enqueued or counted; a cancelled socket closes |
| FEC control (`connections/FecSwitchSocket.cpp`, `ConnectionBase.cpp`) | pending commands of each FEC, action queue | `switch_on`, `switch_off`, `response_handler`, `cancel_listen_after` | a FEC that counts as answered has the command; the socket closes; after the exit no FEC sends |
| Application life cycle (`Application.cpp`, `srs_control.cpp`) | futures, threads, signal set, timer | action modes, `exit_and_switch_off`, destructors | the program ends, in every mode, wherever the signal falls |
| FEC emulator (`emulators/`) | on/off flag, shared frame counter, timer of each FEC | listen and send coroutines | a FEC that is off stops sending, one that is on does not fall silent, no frame counter twice |
| Conversion graph (`sinks/Manager.cpp`, `workflow/TaskDiagram.cpp:134`) | enabled sinks, required converters | `enable_*`, `construct_taskflow_line` | a sink runs after the converter it reads, and every required converter is there |
| Converters, sinks, readers | per line buffers | `run_once`, `operator()` | decoding inverts encoding; a sink writes each frame once |
| Files and tools (`ConfigHandler.hpp`, `readers/`, `srs_check.cpp`) | configuration, log, raw data | read or create the configuration, judge the log, read frames | nothing a user wrote is lost; what a killed run left is read for what it is |
| Application report (`utils/AppReport.cpp`) | results of tasks and sockets | register, print | it has every result, written by one thread at a time |
| Data rate monitor (`workflow/DataMonitor.cpp`) | clock, cancel flag | `start`, `print_cycle`, `stop` | it ends when told to |

Interactions: a data socket calls `AnalysisHandle::read_data_once`, which enqueues
its buffer; a worker dequeues it in the second pipe of its line and runs the
line's taskflow with `corun`; the exit handler stops the monitors, switches the
FECs off, closes the sockets, waits until all lines are between two frames and
sends one empty buffer for each line. An empty buffer makes `run_task` return
false, and `Pipeflow::stop` ends the pipeline.

### What is hard about it

* `enqueue` and `dequeue` are two lock-free queue operations each, on storages
  that are moved in circles; the queues are first-in first-out for each producer
  only, and may refuse or miss a buffer under contention.
* `stop_workflow` reads the flags of the lines one by one while they change, and
  a line raises its flag only after it has taken the frame.
* The empty buffers overtake frames that are still queued.
* `start` and `stop_workflow` synchronise through a condition variable whose
  mutex the notifier does not take.
* `corun` executes unrelated tasks, blocking ones included.
* Registering a frame counter is a compare-exchange followed by an adjustment,
  with other lines in between.

PROJECT.json lists these and all other hazards, each at its line.

## 2. The modules

| module | models | proofs |
|---|---|---|
| `FrameChannel` | abstract: what the buffer queue promises | `FrameChannelProofs` |
| `BufferQueue`, `MCBufferQueue` | `data/BufferQueue.cpp` and its callers | `BufferQueueProofs`: it implements `FrameChannel` |
| `Workflow` | `AnalysisHandle`, `TaskDiagram`, the stop; uses the actions of `FrameChannel` | `WorkflowProofs` |
| `FrameCountChecker` | `sinks/FrameCountChecker.cpp` | `FrameCountCheckerProofs` |
| `CommandRounds` | abstract: what switching the FECs on or off promises | |
| `FecControl` | `switch_FECs`, `FecCommandSocket`, `SpecialSocket`, the network and the FECs | `FecControlProofs`: it implements `CommandRounds` |
| `AppLifecycle` | `srs_control.cpp`, `Application.cpp`, the data sockets, the monitors | `ProgramProofs` |
| `FecEmulator` | the emulated FECs that send data | `FecEmulatorProofs` |
| `FrameCodec` | the conversions of a frame, as functions | `LineTaskflowProofs`: reading undoes them |
| `LineTaskflow`, `MCLineTaskflow` | `sinks/Manager.cpp`, `construct_taskflow_line`, the converters and sinks on a line | `LineTaskflowProofs` |
| `RunFiles` | configuration, log and raw data files, `srs_check.cpp`, `RawFrameReader` | `ProgramProofs` |

`Workflow` takes the buffer queue to be the channel that `BufferQueue` is shown to
implement. `AppLifecycle` takes the workflow to return once the empty buffers are
sent, while the wait for the diagram and the scan before that may never end, and a
round of commands to have its future ready before its socket is closed, as `Workflow`
and `FecControl` show. `LineTaskflow` is one turn of a line in
`Workflow`, in the detail of its tasks; `FrameCodec` supplies its conversions.

### FrameChannel

The state is what a user of the queue can observe: the frame each socket is
about to enqueue (`hand`), the accepted frames of each socket (`chan`), the
frame each line analyses (`held`), the frames refused and finished, and the stop
markers. A stop marker is an empty buffer of `enqueue_empty`; it has a lane of
its own because it is enqueued with the queue's internal token.

### BufferQueue

| in the code | in the module |
|---|---|
| the vector of a `LargeBuffer` | a member of `Storage`, its bytes `mem[b]` |
| `read_msg_buffer_` of a socket, `raw_data_[l]` of a line | `sockBuf[s]`, `lineBuf[l]`, `Nothing` when moved from |
| `valid_buffer_queue_` | `valid[s]`, one sequence for each producer token, and `stops` |
| `trash_buffer_queue_` | the set `trash`: any buffer may come out |
| `enqueue` | `EnqueueValid` or `EnqueueRefused`, then `Refill` or `Allocate` |
| `dequeue` | `Recycle` or `RecycleRefused`, then `Dequeue` or `DequeueEmpty` |

moodycamel's queue is external. It is FIFO for each producer; `try_enqueue` may
refuse before the capacity is reached, because free blocks belong to producers
(`RefuseFrom`), and `try_dequeue` may miss a buffer added during its scan
(`MissesAllowed`). A line whose recycling was refused keeps its buffer, and the
next dequeue overwrites, and so frees, it.

The refinement mapping reads a frame out of the storage that carries it. That
`ImplementsChannel` holds says that whatever storage is reused when, each frame
reaches one line, unchanged and in order.

### Workflow

Three processes and the sockets share the state. `work` is the position of
`start`; `exit` that of `exit_and_switch_off` from `stop_monitor` on; `stage[l]`
that of line `l` in its turn of the pipeline. `head` and `tail` are the lines
whose turn it is in the first and the last SERIAL pipe. The test and the sleep of
`cv_.wait` are two steps; `Notify` wakes only a thread that sleeps. `scan` counts
the flags `is_taskflow_abort_ready` has seen set. The line's taskflow, which
`corun` executes, is one step.

Taskflow 3.10 is external, modelled as it is used. `Pipeflow::stop` in a pipe
that is not the first one throws; the run is cancelled, the rest of the pipe is
skipped, tasks that were scheduled already may be dropped, and `run().wait()`
returns when no worker is inside a task. A worker in `corun` executes any task
that is ready; `NestedCorun` says whether this may be the turn of another line,
and `nest[l]` is then that line.

### FrameCountChecker

One action for each atomic operation of `analyze_frame_counter`. The frames are
those of one FEC, each with its own counter, and reach the lines in any order,
or never.

### CommandRounds and FecControl

A round is one call of `switch_FECs`. `CommandRounds` has its status and who
received, answered and was reported; `FecControl` has, for each of the two
rounds:

| in the code | in the module |
|---|---|
| the position in `switch_FECs` | `call[r]` |
| `socket_` and its port | `socket[r]`; `PortInUse`, as both rounds bind `fec_control_local_port` |
| `async_listen_all_connections` | `listening[r]`, the datagram it handles `inbox[r]` |
| `cancel_timer_` and `cancel_coroutine` | `timer[r]` |
| the coroutine of `cancel_listen_after` | `waiter[r]`; `done` is the ready future |
| `all_connections_` | its keys `registered[r]`, those with a command left `pending[r]` |
| the send actions | `outbox[r]` |
| `exit_and_switch_off` up to `switch_off` | `exit` |
| `listen_coro`, `is_switched_off_` of a FEC | `handler[f]`, `fecOn[f]` |

The calling thread, the listen coroutine, the waiter and the exit handler
interleave freely: the last three run on four pool threads and no strand orders
them. The operator `||` cancels a receive that waits, and makes the next
`co_await` throw when the listen coroutine executes its handler; the socket then
closes with the last coroutine that owns it (`Destroy`). Responses carry neither
a number nor a round that the socket checks other than by their bytes, so a late
response to "on" does reach the socket that switches off, and is not recognised.

The FECs are those of the emulator in its endless mode. What the network and the
clock may do is chosen by constants: `PortTaken`, `Faulty`, `Duplicates`,
`Overtakes`; `LateArming` lets the waiter cancel the timer before it is awaited.
Timeouts expire at any time.

### AppLifecycle

| in the code | in the module |
|---|---|
| the call the main thread is in, from `init` to the join in `~App` | `main` |
| the workflow thread | `work` |
| a data socket's listen coroutine | `sock[p]`; `cancelled` once its timer was cancelled, `reported` once its result is in the report |
| `DataMonitor::print_cycle`, `is_cancelled_` | `monitor`, `isCancelled` |
| `FrameMissMonitor` | `misses` |
| `switch_on_future_`, `switch_off_future_` | `round` |
| the signal or timer handler | `exit`, and `closing`, the sockets its loop has not come to |

All five action modes are there, and a configuration that `init` refuses: the
exception leaves `main`, whatever the mode, and `~App` runs (`unwinding`). Members are
destroyed in the inverse order of their declaration, which is `DestroyHandler` before
the join. `stop_workflow` has the steps it has in `Workflow` as far as the program's
end depends on them: `TestDiagram`, `FallAsleep`, and `StopWorkflow` or `ScanHangs`. What goes wrong only because a step came too early or too late is
an element of `mishaps`, and a property names those that excuse it:

| mishap | what happened | excuses |
|---|---|---|
| `on` | the exit handler looked for the future of `switch_on` before there was one, or in vain as long as it waits | `FecsToldOff` |
| `monitor` | the frame monitor was launched after `stop_monitor` | `StopEnds` |
| `socket` | a data socket was created after the handler began to close them, or cancelled before it awaited its timer | `StopEnds`, `HandlerOutlivesUsers`, `StatisticsFinal`, `ReportNotShared` |
| `report` | a data socket was cancelled while it handled a frame | `StatisticsFinal` |
| `fault` | a receive failed | `ReportNotShared` |
| `timeout` | the wait for a data socket ran out | `HandlerOutlivesUsers`, `StatisticsFinal`, `ReportNotShared` |
| `lag` | a monitor outlived the handler's sleep or was launched after it | `HandlerOutlivesUsers` |
| `wakeup` | `start` notified between the handler's test of the diagram and its sleep (`workflow_wakeup`) | `StopEnds` |
| `nested` | the scan met a turn nested in a `corun` (`workflow_nested`) | `StopEnds` |

The table is what the module says of these races: each property holds up to them,
and to nothing else. Each mishap is one the program can have, and an excused one is
not caught: for these hazards PROJECT.json has a note instead of a property.

### FecEmulator

`listen[f]` is the listen coroutine of a FEC, `at[k]` the place of the `k`-th
`start_send_data` spawned, whatever its FEC. Each acq-on spawns one more and resets
the `frame_counter_` that all FECs share. The senders of one FEC share
`data_sending_control_`: `expires_after` (`ExpiresAfter`) cancels the waits under way,
which throw out of their coroutine (`ended`) or, as an operand of `||`, leave it
waiting for ever (`hung`). `async_wait` (`Await`) is a step of its own, so two senders
can call `expires_after` one after the other and then both wait on the timer: the FEC
then sends at twice its rate. No document promises a rate, and no property does.
The frame under construction is shared by the senders of a FEC,
`data_struct_`. `late` and `overlap` are histories of what a user of the emulator
can avoid: an acq-on after others have sent, and an acq-on for a FEC with a sender.
The branch of `start_send_data` for a frame that the serializer refuses is left out
(`FECEmulator.cpp:254-258`): `Randomizer` draws every value from the range that
`check_compact_max_size` tests.

### LineTaskflow and FrameCodec

| in the code | in the module |
|---|---|
| `Manager::set_output_filenames`, the constructors of the sinks | `SetOutputFilenames`, `FileType`, `Accepted`, `Opened` |
| `CONVERT_OPTION_RELATIONS`, `is_convert_required` | `Relations`, `HasDependency`, `IsConvertRequired` |
| `construct_taskflow_line` | `LineTasks`, `Previous` (an edge), `ConstructTaskflow` |
| `run_once` of a converter or a sink | `RunConverter`, `RunSink`: any task whose predecessor has run |
| `output_data_` of a converter | `output[c][l]` |
| a file or a destination, for each line | `written[s][l]`, items with a token and what they carry |
| `is_first_item_` of `JsonWriter` | `first[s][l]` |
| `stats_` and `task_records_` | `samples`, `report` |
| the destructors of the tasks and sinks | `Destroy`, `Registered`, `Bracket` |

A number whose bits the code moves is the set of the positions of its bits
(`FrameCodec`), so that shifts, masks, the Gray code and the two parts of a
timestamp are operations on sets; the lengths of the fields are constants, smaller
in the run than in the program. Fields that are only copied share one that stands
for them. A datagram is a header and a sequence of elements; `Deserializable` says
when zpp_bits reads it. `Translate` is the loop of `translate_raw_data`, one step for
each element. The two encodings of a message are two tokens: what
`protobuf_deserializer_converter` gives a UDP output is the message as it is, which
`ProtoMsgReader` reads (`SerializeProto`); what `protobuf_delim_deserializer_converter`
gives a `.binpb` file is delimited and compressed (`SerializeDelimited`), and no code
of the repository reads it.

### RunFiles

Three files and who uses them, over several runs, each of which may be killed at
any time (`Kill`), when what its streams hold is lost: the configuration
(`ReadConfig`, `CreateConfig`, `WriteConfig`, `DumpConfig`, `EditConfig` by the
user), the rotating log with the lines of the `ExitLogger`s (`BeginScope`,
`EndScope`, `FlushLog`, `Rotate`) and `srs-check`, which counts them (`Check`), the
file of delimited raw frames (`WriteFrame`, `FlushFrames`) and `RawFrameReader`,
which may read it while it is cut (`ReadOneFrame`, `ResetReader`).

## 3. What is checked

| run | module | properties | shows |
|---|---|---|---|
| `queue` | `MCBufferQueue` | `BuffersInPlace`, `SingleOwner`, `StorageAccounted`, `Conserved`, `FifoPerSocket`, `StopPerLine`, `ImplementsChannel` | with refusals, missed buffers and allocations, every participant has the buffer it needs, no storage has two owners, the failure counters account for all memory, and the channel is implemented: frames are conserved, in order, and stop markers suffice |
| `workflow` | `Workflow` | `CleanReturn`, `BusyLinesFinish`, `NeverStuck`, `OnlyNestingDelays`, `QueueServed` | a stop lets the lines finish, the pipeline never deadlocks, and a stop takes effect unless a turn is nested in another; queued frames are served |
| `workflow_wakeup` | `Workflow` | `StopAfterStart` | **violated**: the notification can be lost and the stop sleeps for ever |
| `workflow_nested` | `Workflow` | `StopTakesEffect` | **violated**: with nested turns a stop may never take effect |
| `counter` | `FrameCountChecker` | `DropCount`, `DropOwed`, `LastIsMax` | the drop count is exact up to what lines still owe |
| `fec` | `FecControl` | `OffMeansOff`, `ImplementsRounds`, `SocketCloses`, `SwitchedOff` | every round ends with each FEC answered or reported and its socket closed; a FEC that answered the switching off is off |
| `fec_port` | `FecControl` | `OffRequested` | **violated**: the first round's socket may still have the port |
| `app` | `AppLifecycle` | `CrashOnlyWithoutWorkflow`, `OffFutureSettled`, `FecsToldOff`, `HandlerOutlivesUsers`, `StatisticsFinal`, `ReportNotShared`, `StopEnds` | how the program ends in every mode, wherever the signal falls |
| `app_actions` | `AppLifecycle` | `ActionEnds` | **violated**: a mode that only switches the FECs crashes after it has done so |
| `emulator` | `FecEmulator` | `CountersDistinct`, `FrameIntact`, `OffStops`, `NeverSilent`, `NoCounterSkipped`, `SendersEnd` | what senders that disturb each other still guarantee |
| `line` | `MCLineTaskflow` | `EverySinkFed`, `RecordsFaithful`, `JsonWellFormed`, `ReportComplete`, `ReadBack` | for every choice of outputs each sink writes the conversion of each datagram, a reader gets it back, and the report is complete |
| `files` | `RunFiles` | `ConfigKept`, `VerdictRight`, `ReadsInOrder` | what killed runs leave is read for what it is, and a run has the values of the file it was given |

The four violated properties state what the repository's documentation or
comments say; PROJECT.json quotes them under `findings`.

* `workflow_wakeup`. `stop_workflow` tests `task_diagram_`, `start` sets it and
  notifies, `stop_workflow` sleeps. A signal right after the start suffices. The
  remedy is to take `cv_mutex_` around the assignment.
* `workflow_nested`. Line 0 is in `corun`; its worker picks up the turn of line 1,
  which blocks in `wait_dequeue` because the queue is empty. The flag of line 0
  stays false, `is_taskflow_abort_ready` stays false, and the empty buffer that
  would release line 1 is never sent. It needs the stop to fall into a time
  without frames. `OnlyNestingDelays` shows that nothing else in the pipeline keeps a
  stop from taking effect once it has found the diagram, when the frames come to an end
  (`MaxFrames` is finite). Under frames that never end a scan need not meet all lines
  idle at its reading of their flags.
* `fec_port`. The waiter of "on" cancels the timer and its future is ready. The
  exit handler, which waited for that future, calls `switch_off` before the
  listen coroutine has closed the socket; the bind fails, no command is sent and
  the FECs go on sending. The remedy is to wait for the listen future.
* `app_actions`. `srs_control -a acq-on` calls `switch_on` and returns; `~App` calls
  `print_statistics` in every mode, and `register_report` is called through
  `task_diagram_`, which only `AnalysisHandle::start` constructs. The remedy is to test
  the pointer.

What the passing runs say of the code's weak points, beside the mishaps above:

* `StorageAccounted` counts the allocations of `enqueue` on an empty trash queue.
  `src/doc/program_designs/workflow.rst:9` promises none; a burst longer than the reserve
  of `buffer_queue_capacity / 2` buffers brings one for each frame.
* `CrashOnlyWithoutWorkflow` says when `~App` dereferences a null `task_diagram_`: in
  the modes that start no workflow, and in any mode when `init` refuses the
  configuration, because the exception destroys `App` before `main` reports it.
* `VerdictRight` and `ReadsInOrder` hold for complete files and say how far one can
  trust a cut one: `srs-check` sees less than was logged, and the reader repeats
  one buffer, which may be the last frame again.
* `ReadBack` holds up to `AsRead`: `vmm_tag` is not in the message, and `adc`, which
  has ten bits, is cast to eight. It is about `ProtoMsgReader` and the messages of a
  socket, about delimited raw frames and about JSON; nothing reads a `.binpb` file.
  `src/doc/CLIs/srs-control.rst:116` calls the UDP output "Protobuf + gzip";
  `ProtoSerializer.cpp:33-40` sends it uncompressed, as its reader expects, and
  `PROTOBUF_ENABLE_GZIP` is about `.binpb` files only.
* `ConfigKept` is about the runs that are given `--config-file`.
  `src/doc/CLIs/srs-control.rst:142` says that without it the file in the default
  location is read, and created when it is not there. The code does neither: the
  callback of the option is not run for its default value (`srs_control.cpp:107-111`,
  unlike `--dump-config`, which asks for that), and the run has the built-in defaults
  (`UseDefaults`).

`LateArming` is FALSE in the runs of `FecControl`, because `SocketCloses` depends on
it. With `Fecs = {}`, when no FEC is configured or none could be resolved,
`is_finished` holds at once and the waiter cancels the timer, perhaps before the
listen operation, which another pool thread is starting, waits on it. The
cancellation is lost and the socket listens for ever. With a FEC the waiter has two
seconds, or a response the socket has received, between the two. The proofs do not
need it to be FALSE. `Overtakes` is FALSE because `OffMeansOff` is about a network
that keeps the order of the commands to one FEC, and its theorem says so.

### Bounds

`MaxFrames` bounds the datagrams of one socket, `Storage` the allocator,
`Capacity` and `Reserve` the two queues (`buffer_queue_capacity` and half of it, 2 and 1
here, so that a full and an empty queue are reached with few frames). Two sockets are enough
for two producers to compete for the trash queue, and two lines for two consumers
of one lane; both are symmetry sets, sound because no fairness is assumed and neither
the actions nor the properties name one of them. In `Workflow` three lines are the least that let a line overtake
another one while a third is nested; the number of frames equals that of lines so
that every line can be busy at the stop and come round. In `FrameCountChecker`
three lines and the counters 0 to 4 let two late frames fall between the
compare-exchange and the adjustment of a third. `FecControl` has one FEC, which may
answer, be silent or answer late in each of the two rounds, and no other bounds:
`net` is a set. FECs interact only in that a round waits for all of them, which
`fec_port` has with two and the theorems for any number.

`AppLifecycle` has two data sockets, so that the loop of the exit handler can be
between two of them; nothing else is bounded. `FecEmulator` has two FECs that share
the counter and two acq-on commands, so that one FEC can have two senders, or two FECs
one each, and a counter of four values: two senders draw several counters before it
wraps (`late` is set then), and it does wrap. The theorems have any number of senders
and any width. `LineTaskflow` has a line that lags and
one that leads, a name for each kind of output, any two of them on the command
line, every order of the tasks, and two datagrams per line, one of which may be
undecodable: three would not show anything the reuse of an output after one frame
does not. `RunFiles` has two runs, so that one finds what another left, two scopes
of which one may hang, and a file of two frames with a cut in each place.

### Deadlock

Only the `line` run checks for it: a line always can run some task, whatever its
outputs are. In the others the input is bounded or the program stops, and then no
step is left; that they do not stop earlier is what the liveness properties say.

### Fairness

In `Workflow` a thread or worker that can take a step takes one: `Start` and `Stop`
are single threads, `ParallelPipe(l)` is code a worker is executing,
`SerialPipe(l)` is scheduled by the pipeline unless the run was cancelled,
`Enqueue(s)` is a handler in progress and `MonitorEnds` a loop that tests its flag.
Nothing is assumed about the arrival of frames, the signal, the closing of sockets
(the wait for it has a timeout), spurious wakeups, or tasks of a cancelled run.

In `FecControl` each coroutine that is ready is resumed, because the pool has
four threads of which the exit handler blocks one; a call of `switch_FECs` runs
to its end; the FECs and the network deliver what `Lose` does not take. Nothing is
assumed of when `switch_on` is called, when the exit begins, or of receives that
fail.

In `AppLifecycle` main, the workflow thread and the exit handler run on unless they
wait, and the pool resumes every coroutine: of its four threads the exit handler
blocks one and the frame monitor another. Nothing happens after a crash. Nothing is
assumed of signals, datagrams and receives that fail.

In `FecEmulator` the pool resumes every coroutine that is not waiting for a command;
nothing is assumed of commands. `LineTaskflow` and `RunFiles` state no liveness and
no fairness: a line's progress is in `Workflow`, and a run may be killed.

## 4. What is proved

`FrameChannelProofs`, for all finite sets of sockets and lines and every number
of frames:

* `ChannelTyping`, `StopsSuffice`, `FramesConserved`, `FramesInOrder`, each from
  `ChannelAssumption` (finitely many sockets and lines), which the modules that
  instantiate the channel prove from their own assumptions.

`Conserved` and `FifoPerSocket` are not inductive alone. A queued frame may have
a twin only if the queue is out of order, and a taken frame may be newer than a
queued one only if it was in two places. `FrameInv` joins both with the typing
and with what a hand may hold: the latest frame of its socket. `StopPerLine`
needs only the typing and the finiteness of `Lines`.

`BufferQueueProofs`, for all finite sets of sockets, lines and storages, every
capacity, reserve and refusal threshold:

* `QueueTyping`, `StoragesOwnedOnce`, `BuffersAlwaysInPlace`, `MemoryAccounted`;
* `QueueImplementsChannel`: `Spec => Channel!Spec` under the refinement mapping, and
  `QueueKeepsPromises`: what is proved of the channel, `Conserved`, `FifoPerSocket` and
  `StopPerLine`, then holds of the queue.

The inductive invariant `QueueInv` joins the typing with `OwnersDiffer` (the
pairwise form of `SingleOwner`), `BuffersInPlace` and `Loaded`: a storage that is
queued, about to be enqueued or being processed holds a frame. None stands alone:
a received datagram leaves the queued frames alone only because its socket shares
its storage with nobody, and the abstract step exists only because the storage is
there and holds a frame. Each action of the code is then one step of the channel
(`Receive`, the enqueue, the dequeue, `Process`, `EnqueueEmpty`) or a stutter
(`Refill`, `Allocate`, `Recycle`). `StorageAccounted` is inductive relative to
`QueueInv`: each action adds to the storages alive what it adds to the counters.

`FrameCountCheckerProofs`, for every set of lines and all bounds:

* `CounterTyping`, `DropOwedAlways`, `DropCountCorrect`, `LastIsMaximal`.

`DropOwed` speaks of the sets of counters the lines still owe. It is a
consequence of `CounterInv`, which says what became of every counter: those
credited, still to be credited, registered on time and registered late. The gaps
of two lines are disjoint because each successful compare-exchange starts from
the last counter the one before it stored. With these, each action changes the
drop count and the cardinality of the missing frames by the same number.
`DropCount` is `DropOwed` when no line is at its adjustment.

`FecControlProofs`, for every finite set of FECs and all values of the constants
that describe the network:

* `ControlTyping`, `RoundsImplemented`: `Spec => AbstractRounds!Spec`;
* `NobodyForgotten`: when the waiter of a round is done each FEC has answered or is
  reported;
* `AnsweredOffIsOff`: `OffMeansOff`, and `OffOrReported`: after the switching off a FEC
  that was not reported is off for good once it has executed what it received; both
  for a network that keeps the order of the commands to one FEC.

The inductive invariant `RoundInv` joins the typing with `AnswersTrue` (a
response under way, or being handled, is one of a FEC that received the command),
`InOrder` (the caller, the listen coroutine and the waiter of a round are in
positions that fit) and `AnsweredOrPending`. The typing alone does not say that
the waiter finds all FECs registered when it looks for pending ones, nor that a
waiter that is done has seen or reported each. For `OffMeansOff` two more are
needed: the port is handed over only when the first socket is closed, so no "on"
command is sent after an "off" one, and the last command a FEC received wins.
An "on" command that overtakes the "off" command leaves the FEC on.

`WorkflowProofs`, for every number of lines, nested turns or not:

* `WorkflowUsesChannel`: every step of the workflow is one of `FrameChannel`, whose
  theorems therefore hold of it;
* `WorkflowTyping`, `ReturnsClean`, `BusyLinesHaveFinished`, `NoLineStranded`;
* `ReturnAccountsFrames`: when `start` returns each frame was analysed, was refused or
  still waits, and only one of these;
* `PipelineNeverStuck`: `NeverStuck`, the absence of deadlocks.

`PipeInv` ties the stages of the lines to what the channel says they hold and to
their flags; that a line in dequeue finds an empty buffer after the stop follows from
it and from `StopPerLine` of the channel.
`TurnInv` is what makes the pipeline live on: the lines that are in a turn are the `k`
lines from the tail on, the head is the one after them, and a turn runs nested in that
of a line before it only, because the head is the last to enter. So of the lines in
the middle of a turn the last one hosts no other and can go on, or waits in dequeue;
if there is none, the line at the tail can pass its gate or the one at the head can
enter. `CanMove` spells out the guards of the pipes, since `ENABLED` is out of the
prover's reach. A stop may be delayed for ever (`workflow_nested`), but not by a
deadlock.
`ScanInv` says what a scan of the flags means although they change meanwhile: a
line seen idle may take a frame afterwards, but the frames that were in analysis
when the scan began are finished or still keep their flags down.

`ProgramProofs`, on `AppLifecycle` and for every number of data sockets:

* `AppTyping`, `CrashesExplained`, `OffFutureOrdered`, `FecsAreToldOff`,
  `HandlerOutlivesItsUsers`, `StatisticsAreFinal`, `ReportIsNotShared`.

`WorkInv` orders main, the workflow thread and the exit handler: main passes the
wait for the workflow only if a stop has run, so the exit handler is past its last
access. `OffInv` follows the two rounds, `MonitorInv` the monitors. `SocketInv`
follows the loop of the exit handler: the sockets it has passed are closed and have
reported, those it has not come to are in `closing`, unless a mishap.

`FecEmulatorProofs`, for every set of FECs, number of commands and width:

* `EmulatorTyping`, `NeverSilentAlways`, `NoCounterSkippedAlways`, `FramesIntact`,
  `OffStopsAlways`, `CountersDistinctAlways`.

`SpawnedInv` says which senders exist. `TurnsInv` says that two live senders of a FEC,
or one that hangs, mean that the FEC was switched on while it had one. `NeverSilent` is
inductive, because a sender that disturbs others goes on itself, and `NoCounterSkipped`,
because a sender that holds a counter is past all waits
that could end it. `LastFrameInv` gives the one frame after the switching off to
the sender that was in its pause. `CounterInv` puts every counter on the wire below
the shared counter.

`ProgramProofs`, on `RunFiles` and for every number of runs, scopes, lines of the log
and frames:

* `FilesTyping`, `ConfigIsKept`, `FramesAreReadInOrder`, `VerdictIsRight`.

`ReaderInv` says where a reader is after `n` calls: `n` frames on, or at the end with
a buffer that stays what it was. `ReadsInOrder` alone does not say that the buffer of a
reader at the end is the one it returned last. `LogInv` says that what the file and the
stream hold tells how often each scope is open, wherever the stream was cut, as long as
nothing is lost; `ReadAppend` and `BalanceAppend` are what one more line does to the
lines since the last start and to the balance of a scope. `ConfigInv` says that while a
configuration is created the values are the defaults that will be its content. The verdict counts only what
is in the file, and is right because a run that is over has an empty stream.

`LineTaskflowProofs`, for all lines, output names, datagrams, field lengths and numbers
of frames:

* `LineTyping`, `EverySinkIsFed`, `ReportIsComplete`, `RecordsAreFaithful`,
  `JsonIsWellFormed`, `FramesReadBack`.

`Dependencies` works out the relation of the conversions, `TasksMade` that three
passes of `construct_taskflow_line` make all that are required, and `SinksHaveTasks`
that the table of relations and the wiring agree: no sink is left without its
converter. `FedInv` carries this through the run. `OutputInv` says that a converter
whose turn is over holds the conversion of the datagram its line is at; it is
inductive because an edge leads from each converter to what it reads, and because
`run` resets the structure. `WrittenInv` counts: after `n` runs a file of other
formats has `n` records and a JSON file has `2 * n` items, one for `n = 0`, with the
flag of the first item still up exactly then; the bracket of the destructor is the
only item more. `SamplesInv` gives every task as many samples as it has had
datagrams, `ReportInv` carries them to the report whichever of two tasks with a
name is registered.

`FramesReadBack` joins `RecordsAreFaithful` with the inverses of the conversions:
`GrayInverse`, `MergeInverse`, `HitInverse`, `MarkerInverse`, `DatagramInverse`,
`MessageInverse`, `ExportInverse`. Two of them are inductions, over the bits of a number
and over the elements of a datagram. The library's induction theorems cannot be
instantiated here, so an induction is the search for a least counterexample
(`LeastNatural`, from `WFMin`), and the function that a recursion defines exists because
one that satisfies it is named: for `GrayToBinary` the inverse of the Gray code, which
is one to one (`GrayInjective`) and onto (`GraySurjective`), for `Translate` the frame
with the first `i` elements.

Assumptions: `QueueAssumption`, `WorkflowAssumption`, `CounterAssumption`,
`FecAssumption`, `AppAssumption`, `EmulatorAssumption`, `CodecAssumption`,
`LineAssumption`, `StructAssumption` and `FilesAssumption`, which the runs evaluate.
`LineAssumption` keeps the names of outputs apart from the names of tasks.
`StructAssumption` says which frames FECs serialise: their values fit the fields, or
`StructSerializer` refuses them, and they hold a hit or a marker, or
`StructDeserializer` refuses the datagram; other datagrams are in `Others`.

The type invariants of the proved modules are theorems and are listed in no run.

Model-checked only: liveness, which is out of the prover's reach (`QueueServed`,
`OnlyNestingDelays`, `SocketCloses`, `SwitchedOff`, `StopEnds`, `SendersEnd`). Every
invariant, action property and refinement of the runs that hold is a theorem.

## 5. What is not modelled

* Timing: a timeout may fall at any time or never.
* A datagram of length zero. `is_empty` looks at the whole vector, so it is not
  taken for a stop marker, and it is a frame like any other.
* Lost datagrams before the socket; for `FrameCountChecker` they are frames that
  never reach a line. A frame counter that wraps or starts again in the checker.
* Library code: byte order and lengths in zpp_bits, Protobuf and its compression,
  the values in a JSON item, the ROOT file, spdlog, glaze and the parsing of options
  but for its outcome. The error code of a failed option parse is dropped by
  `srs_control.cpp`, and the run is then over.
* `StructSerializer` serialises `compact_data_buffer_` of all lines
  (`StructSerializer.cpp:136`); the programs use it with one line, and that is
  modelled.
* `time_point_` of `AnalysisHandle`, written by several sockets without order: it is
  printed and decides nothing. The rates `DataMonitor` and the monitors print.
* Of the control of the FECs: time stamps of the report, an endpoint configured
  twice, the emulator's mode that ends with the first "acq-off". `valid()` on an
  expected that holds an error, when the port could not be bound, is undefined and
  has no outcome a model could choose; `FecControl` goes on as with no future.
* Of the report (`utils/AppReport.cpp`) who registers what and when is modelled, not
  its tables.
* The device structures (`devices/`), which no program uses, and what the build
  leaves out: `CommandHandlers`, `sinks/DataWriter.cpp`.
* The web front end: another language, and no protocol with this program but files.

`readers/RawFrameReader.hpp:37` says that a file that is not open gives 0 bytes; the code
returns an error then (`RawFrameReader.cpp:34-37`). `ReadsInOrder` states what it returns
for a file that is open.

## 6. What could follow

* A composition of `Workflow` and `AppLifecycle` in one specification, instead of
  the abstract workflow the latter has; the state space is their product.
* A frame counter of finite width in `FrameCountChecker`, once the code says what a
  wrapped counter is to mean.
