----------------------------- MODULE BufferQueue -----------------------------
(***************************************************************************)
(* srs::BufferQueue together with the code that drives it: the data        *)
(* sockets (DataSocket::response_handler, AnalysisHandle::read_data_once)  *)
(* and the analysis lines (TaskDiagram::run_task).                         *)
(*                                                                         *)
(* Frames travel inside storages (the vector of a LargeBuffer) which are   *)
(* moved, never copied, between a socket, the valid queue, a line and the  *)
(* trash queue.  enqueue and dequeue are two queue operations each, and    *)
(* other threads run between them.  The module shows that this recycling   *)
(* implements FrameChannel: no frame is overwritten, duplicated or         *)
(* reordered by the reuse of its storage.                                  *)
(*                                                                         *)
(* The queues are moodycamel's (external).  They are FIFO for each         *)
(* producer token only; try_enqueue can refuse once RefuseFrom buffers are *)
(* queued (blocks are owned by producers, so refusals may come early) and  *)
(* always refuses at Capacity; try_dequeue may miss a buffer that another  *)
(* thread adds during its scan when MissesAllowed.                         *)
(***************************************************************************)
EXTENDS Integers, Sequences, FiniteSets

CONSTANTS
  Sockets, Lines, MaxFrames, Nothing,
  Storage,        \* bound: the memory blocks the allocator can hand out
  Capacity,       \* buffer_queue_capacity
  RefuseFrom,     \* size from which try_enqueue may refuse
  Reserve,        \* buffers preallocated in the trash queue
  MissesAllowed   \* try_dequeue may fail on a queue that is not empty

Frame == [socket : Sockets, n : 1..MaxFrames]

ASSUME QueueAssumption ==
  /\ IsFiniteSet(Sockets)
  /\ IsFiniteSet(Lines)
  /\ IsFiniteSet(Storage)
  /\ MaxFrames \in Nat
  /\ Capacity \in Nat
  /\ RefuseFrom \in Nat
  /\ Reserve \in Nat
  /\ MissesAllowed \in BOOLEAN
  /\ Nothing \notin Frame
  /\ Nothing \notin Storage

VARIABLES
  mem,          \* mem[b]: the frame whose bytes storage b holds
  sockPc,       \* where socket s is in response_handler
  sockBuf,      \* read_msg_buffer_ of socket s
  valid,        \* valid_buffer_queue_, the lane of each socket's token
  stops,        \* valid_buffer_queue_, the lane of the internal token
  stopping,     \* enqueue_empty has been called
  trash,        \* trash_buffer_queue_
  linePc,       \* where line l is in run_task
  lineBuf,      \* raw_data_[l]
  reserved,     \* buffers the constructor managed to preallocate
  nFullValid,   \* n_valid_buffer_full_failures_
  nEmptyTrash,  \* n_trash_recycle_empty_failures_
  nFullTrash,   \* n_trash_recycle_full_failures_
  arrived,      \* history: frames received by each socket
  lost,         \* history: frames enqueue refused
  done          \* history: frames analysed

counters == <<nFullValid, nEmptyTrash, nFullTrash>>
vars == <<mem, sockPc, sockBuf, valid, stops, stopping, trash, linePc, lineBuf,
          reserved, counters, arrived, lost, done>>

InValid == UNION {{valid[s][i] : i \in DOMAIN valid[s]} : s \in Sockets}
InSockets == {sockBuf[s] : s \in Sockets} \ {Nothing}
InLines == {lineBuf[l] : l \in Lines} \ {Nothing}
Live == InValid \cup InSockets \cup InLines \cup trash

(***************************************************************************)
(* The constructors: every socket and every line owns a buffer, and the    *)
(* trash queue gets Reserve more, or fewer if the queue refuses one.       *)
(***************************************************************************)
Init ==
  /\ mem = [b \in Storage |-> Nothing]
  /\ sockPc = [s \in Sockets |-> "receive"]
  /\ linePc = [l \in Lines |-> "ready"]
  /\ sockBuf \in [Sockets -> Storage]
  /\ lineBuf \in [Lines -> Storage]
  /\ trash \in SUBSET Storage
  /\ \A s, t \in Sockets : sockBuf[s] = sockBuf[t] => s = t
  /\ \A l, m \in Lines : lineBuf[l] = lineBuf[m] => l = m
  /\ InSockets \cap InLines = {}
  /\ trash \cap (InSockets \cup InLines) = {}
  /\ reserved = Cardinality(trash)
  /\ reserved = Reserve \/ reserved \in RefuseFrom..Reserve
  /\ valid = [s \in Sockets |-> <<>>]
  /\ stops = 0
  /\ stopping = FALSE
  /\ nFullValid = 0
  /\ nEmptyTrash = 0
  /\ nFullTrash = 0
  /\ arrived = [s \in Sockets |-> 0]
  /\ lost = {}
  /\ done = {}

-----------------------------------------------------------------------------
(* The sockets *)

\* The receive of the listen loop: a datagram overwrites the socket's buffer.
Receive(s) ==
  /\ sockPc[s] = "receive"
  /\ arrived[s] < MaxFrames
  /\ arrived' = [arrived EXCEPT ![s] = @ + 1]
  /\ mem' = [mem EXCEPT ![sockBuf[s]] = [socket |-> s, n |-> arrived[s] + 1]]
  /\ sockPc' = [sockPc EXCEPT ![s] = "enqueue"]
  /\ UNCHANGED <<sockBuf, valid, stops, stopping, trash, linePc, lineBuf, reserved,
                 counters, lost, done>>

EnqueueFront(s) ==
  /\ sockPc[s] = "enqueue"
  /\ Cardinality(InValid) < Capacity
  /\ valid' = [valid EXCEPT ![s] = <<sockBuf[s]>> \o @]
  /\ sockBuf' = [sockBuf EXCEPT ![s] = Nothing]
  /\ sockPc' = [sockPc EXCEPT ![s] = "refill"]
  /\ UNCHANGED <<mem, stops, stopping, trash, linePc, lineBuf, reserved, counters,
                 arrived, lost, done>>

\* enqueue, first half: try_enqueue moves the buffer into the valid queue.
EnqueueValid(s) ==
  /\ sockPc[s] = "enqueue"
  /\ Cardinality(InValid) < Capacity
  /\ valid' = [valid EXCEPT ![s] = Append(@, sockBuf[s])]
  /\ sockBuf' = [sockBuf EXCEPT ![s] = Nothing]
  /\ sockPc' = [sockPc EXCEPT ![s] = "refill"]
  /\ UNCHANGED <<mem, stops, stopping, trash, linePc, lineBuf, reserved, counters,
                 arrived, lost, done>>

MovedThoughRefused(s) ==
  /\ sockPc[s] = "enqueue"
  /\ Cardinality(InValid) >= RefuseFrom
  /\ nFullValid' = nFullValid + 1
  /\ lost' = lost \cup {mem[sockBuf[s]]}
  /\ sockBuf' = [sockBuf EXCEPT ![s] = Nothing]
  /\ sockPc' = [sockPc EXCEPT ![s] = "receive"]
  /\ UNCHANGED <<mem, valid, stops, stopping, trash, linePc, lineBuf, reserved,
                 nEmptyTrash, nFullTrash, arrived, done>>

RetriedThoughCounted(s) ==
  /\ sockPc[s] = "enqueue"
  /\ Cardinality(InValid) >= RefuseFrom
  /\ mem[sockBuf[s]] \notin lost
  /\ nFullValid' = nFullValid + 1
  /\ lost' = lost \cup {mem[sockBuf[s]]}
  /\ UNCHANGED <<mem, sockPc, sockBuf, valid, stops, stopping, trash, linePc, lineBuf,
                 reserved, nEmptyTrash, nFullTrash, arrived, done>>

\* enqueue returns false: the socket keeps its buffer and the frame is dropped.
EnqueueRefused(s) ==
  /\ sockPc[s] = "enqueue"
  /\ Cardinality(InValid) >= RefuseFrom
  /\ nFullValid' = nFullValid + 1
  /\ lost' = lost \cup {mem[sockBuf[s]]}
  /\ sockPc' = [sockPc EXCEPT ![s] = "receive"]
  /\ UNCHANGED <<mem, sockBuf, valid, stops, stopping, trash, linePc, lineBuf, reserved,
                 nEmptyTrash, nFullTrash, arrived, done>>

\* enqueue, second half: try_dequeue gives the socket a used buffer ...
Refill(s) ==
  /\ sockPc[s] = "refill"
  /\ \E b \in trash :
       /\ sockBuf' = [sockBuf EXCEPT ![s] = b]
       /\ trash' = trash \ {b}
  /\ sockPc' = [sockPc EXCEPT ![s] = "receive"]
  /\ UNCHANGED <<mem, valid, stops, stopping, linePc, lineBuf, reserved, counters,
                 arrived, lost, done>>

\* ... or there is none and element.resize allocates.
Allocate(s) ==
  /\ sockPc[s] = "refill"
  /\ trash = {} \/ MissesAllowed
  /\ Storage \ Live # {}
  /\ LET b == CHOOSE x \in Storage : x \notin Live
     IN  /\ sockBuf' = [sockBuf EXCEPT ![s] = b]
         /\ mem' = [mem EXCEPT ![b] = Nothing]
  /\ nEmptyTrash' = nEmptyTrash + 1
  /\ sockPc' = [sockPc EXCEPT ![s] = "receive"]
  /\ UNCHANGED <<valid, stops, stopping, trash, linePc, lineBuf, reserved, nFullValid,
                 nFullTrash, arrived, lost, done>>

-----------------------------------------------------------------------------
(* The lines *)

RecycleCopy(l) ==
  /\ linePc[l] = "ready"
  /\ Cardinality(trash) < Capacity
  /\ trash' = trash \cup {lineBuf[l]}
  /\ linePc' = [linePc EXCEPT ![l] = "wait"]
  /\ UNCHANGED <<mem, sockPc, sockBuf, valid, stops, stopping, lineBuf, reserved,
                 counters, arrived, lost, done>>

\* dequeue, first half: try_enqueue moves the used buffer into the trash queue.
Recycle(l) ==
  /\ linePc[l] = "ready"
  /\ Cardinality(trash) < Capacity
  /\ trash' = trash \cup {lineBuf[l]}
  /\ lineBuf' = [lineBuf EXCEPT ![l] = Nothing]
  /\ linePc' = [linePc EXCEPT ![l] = "wait"]
  /\ UNCHANGED <<mem, sockPc, sockBuf, valid, stops, stopping, reserved, counters,
                 arrived, lost, done>>

RefusedUncounted(l) ==
  /\ linePc[l] = "ready"
  /\ Cardinality(trash) >= RefuseFrom
  /\ linePc' = [linePc EXCEPT ![l] = "wait"]
  /\ UNCHANGED <<mem, sockPc, sockBuf, valid, stops, stopping, trash, lineBuf, reserved,
                 counters, arrived, lost, done>>

\* The trash queue refuses: the line keeps the buffer until it is overwritten.
RecycleRefused(l) ==
  /\ linePc[l] = "ready"
  /\ Cardinality(trash) >= RefuseFrom
  /\ nFullTrash' = nFullTrash + 1
  /\ linePc' = [linePc EXCEPT ![l] = "wait"]
  /\ UNCHANGED <<mem, sockPc, sockBuf, valid, stops, stopping, trash, lineBuf, reserved,
                 nFullValid, nEmptyTrash, arrived, lost, done>>

\* dequeue, second half: wait_dequeue move-assigns the oldest buffer of some
\* lane to raw_data_[l]; a buffer the line still had is deallocated.
Dequeue(l, s) ==
  /\ linePc[l] = "wait"
  /\ valid[s] # <<>>
  /\ lineBuf' = [lineBuf EXCEPT ![l] = Head(valid[s])]
  /\ valid' = [valid EXCEPT ![s] = Tail(@)]
  /\ linePc' = [linePc EXCEPT ![l] = "process"]
  /\ UNCHANGED <<mem, sockPc, sockBuf, stops, stopping, trash, reserved, counters,
                 arrived, lost, done>>

\* ... or an empty one: is_empty() ends the line.
DequeueEmpty(l) ==
  /\ linePc[l] = "wait"
  /\ stops > 0
  /\ stops' = stops - 1
  /\ lineBuf' = [lineBuf EXCEPT ![l] = Nothing]
  /\ linePc' = [linePc EXCEPT ![l] = "ended"]
  /\ UNCHANGED <<mem, sockPc, sockBuf, valid, stopping, trash, reserved, counters,
                 arrived, lost, done>>

\* The converters and sinks have read the line's buffer.
Process(l) ==
  /\ linePc[l] = "process"
  /\ done' = done \cup {mem[lineBuf[l]]}
  /\ linePc' = [linePc EXCEPT ![l] = "ready"]
  /\ UNCHANGED <<mem, sockPc, sockBuf, valid, stops, stopping, trash, lineBuf, reserved,
                 counters, arrived, lost>>

OneShort ==
  /\ ~stopping
  /\ stopping' = TRUE
  /\ stops' = stops + Cardinality(Lines) - 1
  /\ UNCHANGED <<mem, sockPc, sockBuf, valid, trash, linePc, lineBuf, reserved, counters,
                 arrived, lost, done>>

\* enqueue_empty(get_n_lines()), called once by stop_workflow.
EnqueueEmpty ==
  /\ ~stopping
  /\ stopping' = TRUE
  /\ stops' = stops + Cardinality(Lines)
  /\ UNCHANGED <<mem, sockPc, sockBuf, valid, trash, linePc, lineBuf, reserved, counters,
                 arrived, lost, done>>

Next ==
  \/ \E s \in Sockets :
       Receive(s) \/ EnqueueValid(s) \/ EnqueueRefused(s) \/ Refill(s) \/ Allocate(s)
  \/ \E l \in Lines : Recycle(l) \/ RecycleRefused(l) \/ DequeueEmpty(l) \/ Process(l)
  \/ \E l \in Lines, s \in Sockets : Dequeue(l, s)
  \/ EnqueueEmpty

Spec == Init /\ [][Next]_vars

-----------------------------------------------------------------------------

TypeOK ==
  /\ mem \in [Storage -> Frame \cup {Nothing}]
  /\ sockPc \in [Sockets -> {"receive", "enqueue", "refill"}]
  /\ sockBuf \in [Sockets -> Storage \cup {Nothing}]
  /\ valid \in [Sockets -> Seq(Storage)]
  /\ stops \in Nat
  /\ stopping \in BOOLEAN
  /\ trash \in SUBSET Storage
  /\ linePc \in [Lines -> {"ready", "wait", "process", "ended"}]
  /\ lineBuf \in [Lines -> Storage \cup {Nothing}]
  /\ reserved \in Nat
  /\ nFullValid \in Nat
  /\ nEmptyTrash \in Nat
  /\ nFullTrash \in Nat
  /\ arrived \in [Sockets -> 0..MaxFrames]
  /\ lost \in SUBSET Frame
  /\ done \in SUBSET Frame

(***************************************************************************)
(* No storage is in two places: two owners would write or read one frame   *)
(* through the other.  The moves of enqueue and dequeue must keep this     *)
(* through every interleaving, including a refused try_enqueue, which must *)
(* not move its argument.                                                  *)
(***************************************************************************)
SingleOwner ==
  /\ \A s, t \in Sockets : sockBuf[s] # Nothing /\ sockBuf[s] = sockBuf[t] => s = t
  /\ \A l, m \in Lines : lineBuf[l] # Nothing /\ lineBuf[l] = lineBuf[m] => l = m
  /\ \A s, t \in Sockets : \A i \in DOMAIN valid[s], j \in DOMAIN valid[t] :
       valid[s][i] = valid[t][j] => s = t /\ i = j
  /\ InSockets \cap InLines = {}
  /\ InSockets \cap InValid = {}
  /\ InLines \cap InValid = {}
  /\ trash \cap (InSockets \cup InLines \cup InValid) = {}

(***************************************************************************)
(* A socket that can receive, and a line that is to recycle or process,    *)
(* has a storage; a socket between the halves of enqueue has none.         *)
(***************************************************************************)
BuffersInPlace ==
  /\ \A s \in Sockets : sockBuf[s] = Nothing <=> sockPc[s] = "refill"
  /\ \A l \in Lines :
       /\ linePc[l] \in {"ready", "process"} => lineBuf[l] # Nothing
       /\ linePc[l] = "ended" => lineBuf[l] = Nothing

Kept == {l \in Lines : linePc[l] = "wait" /\ lineBuf[l] # Nothing}

(***************************************************************************)
(* The three failure counters of the final report account for all memory:  *)
(* what is alive is what was preallocated, plus one allocation for each    *)
(* empty-trash failure, minus one deallocation for each full-trash failure *)
(* (still pending while the line waits).  So no buffer leaks.              *)
(***************************************************************************)
StorageAccounted ==
  Cardinality(Live) =
    reserved + Cardinality(Sockets) + Cardinality(Lines) + nEmptyTrash
      - nFullTrash + Cardinality(Kept)

(***************************************************************************)
(* The refinement mapping: the frames a queue holds are the contents of    *)
(* its storages.                                                           *)
(***************************************************************************)
SocketFrame == [s \in Sockets |-> IF sockPc[s] = "enqueue" THEN mem[sockBuf[s]] ELSE Nothing]
QueueFrames == [s \in Sockets |-> [i \in DOMAIN valid[s] |-> mem[valid[s][i]]]]
LineFrame == [l \in Lines |-> IF linePc[l] = "process" THEN mem[lineBuf[l]] ELSE Nothing]
EndedLines == {l \in Lines : linePc[l] = "ended"}

Channel == INSTANCE FrameChannel WITH
  hand <- SocketFrame, chan <- QueueFrames, held <- LineFrame, ended <- EndedLines

(***************************************************************************)
(* Every frame that arrived is in one place, and only in one: a storage on *)
(* its way through the queue or a line, refused, or analysed.  The drop    *)
(* and read counters of AnalysisHandle are only meaningful if this holds.  *)
(***************************************************************************)
Conserved == Channel!Conserved

(***************************************************************************)
(* First-in first-out for each socket: the storages of a lane hold frames  *)
(* in order of arrival, all of which arrived after every frame of that     *)
(* socket that a line has taken.  FrameCountChecker relies on it: frames   *)
(* of one FEC reach the lines in the order of their counters.              *)
(***************************************************************************)
FifoPerSocket == Channel!FifoPerSocket

(***************************************************************************)
(* After enqueue_empty there is one empty buffer left for every line that  *)
(* has not ended, so no line blocks for ever in its last wait_dequeue.     *)
(***************************************************************************)
StopPerLine == Channel!StopPerLine

(***************************************************************************)
(* The buffer queue implements the channel: a frame reaches its line       *)
(* unchanged, once and in order, whatever storage carried it.              *)
(***************************************************************************)
ImplementsChannel == Channel!Spec
=============================================================================
