-------------------------- MODULE BufferQueueProofs --------------------------
(***************************************************************************)
(* Proofs about BufferQueue for all sets of sockets, lines and storages    *)
(* and all capacities: no storage has two owners, and the queue implements *)
(* FrameChannel.                                                           *)
(***************************************************************************)
EXTENDS BufferQueue, FiniteSetTheorems, TLAPS

(***************************************************************************)
(* SingleOwner, owner by owner.                                            *)
(***************************************************************************)
OwnersDiffer ==
  /\ \A s, t \in Sockets : sockBuf[s] # Nothing /\ sockBuf[s] = sockBuf[t] => s = t
  /\ \A l, m \in Lines : lineBuf[l] # Nothing /\ lineBuf[l] = lineBuf[m] => l = m
  /\ \A s, t \in Sockets : \A i \in DOMAIN valid[s], j \in DOMAIN valid[t] :
       valid[s][i] = valid[t][j] => s = t /\ i = j
  /\ \A s \in Sockets, l \in Lines : sockBuf[s] # Nothing => sockBuf[s] # lineBuf[l]
  /\ \A s, t \in Sockets : \A i \in DOMAIN valid[t] : sockBuf[s] # valid[t][i]
  /\ \A l \in Lines, t \in Sockets : \A i \in DOMAIN valid[t] : lineBuf[l] # valid[t][i]
  /\ \A s \in Sockets : sockBuf[s] \notin trash
  /\ \A l \in Lines : lineBuf[l] \notin trash
  /\ \A s \in Sockets : \A i \in DOMAIN valid[s] : valid[s][i] \notin trash

(***************************************************************************)
(* The strengthening: wherever a frame is expected there is one, and a     *)
(* socket is about to enqueue the frame it received last.                  *)
(***************************************************************************)
Loaded ==
  /\ \A s \in Sockets : sockPc[s] = "enqueue" =>
       mem[sockBuf[s]] = [socket |-> s, n |-> arrived[s]] /\ arrived[s] \in 1..MaxFrames
  /\ \A s \in Sockets : \A i \in DOMAIN valid[s] : mem[valid[s][i]] \in Frame
  /\ \A l \in Lines : linePc[l] = "process" => mem[lineBuf[l]] \in Frame

QueueInv == TypeOK /\ OwnersDiffer /\ BuffersInPlace /\ Loaded

LEMMA OwnersSingle ==
  ASSUME TypeOK
  PROVE  OwnersDiffer <=> SingleOwner
<1>1. \A s \in Sockets : \A i \in DOMAIN valid[s] : valid[s][i] \in Storage /\ valid[s][i] # Nothing
  BY QueueAssumption DEF TypeOK
<1>2. \A b \in trash : b # Nothing
  BY QueueAssumption DEF TypeOK
<1> QED
  BY SMTT(60), <1>1, <1>2 DEF OwnersDiffer, SingleOwner, InSockets, InLines, InValid

\* What Append and Tail do to the elements of a lane.
LEMMA AppendElements ==
  ASSUME NEW q \in Seq(Storage), NEW b \in Storage
  PROVE  /\ Append(q, b) \in Seq(Storage)
         /\ DOMAIN q = 1..Len(q) /\ Len(q) \in Nat
         /\ DOMAIN Append(q, b) = 1..(Len(q) + 1)
         /\ DOMAIN Append(q, b) = DOMAIN q \cup {Len(q) + 1}
         /\ \A i \in DOMAIN q : Append(q, b)[i] = q[i]
         /\ Append(q, b)[Len(q) + 1] = b
OBVIOUS

LEMMA TailElements ==
  ASSUME NEW q \in Seq(Storage), q # <<>>
  PROVE  /\ Tail(q) \in Seq(Storage)
         /\ 1 \in DOMAIN q /\ Head(q) = q[1] /\ Head(q) \in Storage
         /\ DOMAIN q = 1..Len(q) /\ Len(q) \in Nat
         /\ DOMAIN Tail(q) = 1..(Len(q) - 1)
         /\ \A i \in DOMAIN Tail(q) : i + 1 \in DOMAIN q /\ Tail(q)[i] = q[i + 1]
OBVIOUS

-----------------------------------------------------------------------------

LEMMA QueueInit == Init => QueueInv
<1> SUFFICES ASSUME Init PROVE QueueInv
  OBVIOUS
<1> USE QueueAssumption
<1>1. TypeOK
  <2>1. reserved \in Nat
    BY FS_Subset, FS_CardinalityType DEF Init
  <2>2. <<>> \in Seq(Storage)
    OBVIOUS
  <2>3. stopping \in BOOLEAN
    BY Zenon DEF Init
  <2> QED
    BY <2>1, <2>2, <2>3 DEF Init, TypeOK
<1>2. BuffersInPlace
  BY DEF Init, BuffersInPlace
<1>3. OwnersDiffer
  <2>1. /\ \A s \in Sockets : sockBuf[s] \in InSockets
        /\ \A l \in Lines : lineBuf[l] \in InLines
    BY DEF Init, InSockets, InLines
  <2>2. \A s \in Sockets, l \in Lines : sockBuf[s] # lineBuf[l]
    BY <2>1 DEF Init
  <2>3. /\ \A s \in Sockets : sockBuf[s] \notin trash
        /\ \A l \in Lines : lineBuf[l] \notin trash
    BY <2>1 DEF Init
  <2>4. \A s \in Sockets : valid[s] = <<>> /\ DOMAIN valid[s] = {}
    BY DEF Init
  <2> QED
    BY <2>2, <2>3, <2>4 DEF Init, OwnersDiffer
<1>4. Loaded
  BY DEF Init, Loaded
<1> QED
  BY <1>1, <1>2, <1>3, <1>4 DEF QueueInv

LEMMA ReceiveInv ==
  ASSUME QueueInv, NEW s \in Sockets, Receive(s)
  PROVE  QueueInv'
<1> USE DEF QueueInv
<1> DEFINE b == sockBuf[s]
           f == [socket |-> s, n |-> arrived[s] + 1]
<1>1. b \in Storage
  BY DEF TypeOK, BuffersInPlace, Receive
<1>2. arrived[s] + 1 \in 1..MaxFrames /\ f \in Frame
  BY QueueAssumption DEF TypeOK, Receive, Frame
<1>3. mem' \in [Storage -> Frame \cup {Nothing}] /\ mem'[b] = f
      /\ \A c \in Storage : c # b => mem'[c] = mem[c]
  BY <1>1, <1>2 DEF TypeOK, Receive
<1>4. TypeOK'
  BY <1>2, <1>3 DEF TypeOK, Receive, counters
<1>5. OwnersDiffer'
  BY DEF OwnersDiffer, Receive
<1>6. BuffersInPlace'
  BY DEF BuffersInPlace, Receive, TypeOK
<1>7. Loaded'
  <2>1. \A t \in Sockets : sockPc'[t] = "enqueue" =>
          mem'[sockBuf'[t]] = [socket |-> t, n |-> arrived'[t]] /\ arrived'[t] \in 1..MaxFrames
    BY <1>1, <1>2, <1>3 DEF Loaded, OwnersDiffer, BuffersInPlace, TypeOK, Receive
  <2>2. \A t \in Sockets : \A i \in DOMAIN valid[t] :
          valid[t][i] \in Storage /\ valid[t][i] # b
    BY DEF TypeOK, OwnersDiffer
  <2>3. \A l \in Lines : linePc[l] = "process" => lineBuf[l] \in Storage /\ lineBuf[l] # b
    BY <1>1, QueueAssumption DEF TypeOK, OwnersDiffer, BuffersInPlace
  <2> QED
    BY <1>3, <2>1, <2>2, <2>3 DEF Loaded, Receive
<1> QED
  BY <1>4, <1>5, <1>6, <1>7

LEMMA EnqueueValidInv ==
  ASSUME QueueInv, NEW s \in Sockets, EnqueueValid(s)
  PROVE  QueueInv'
<1> USE DEF QueueInv
<1> DEFINE b == sockBuf[s]
           k == Len(valid[s]) + 1
<1>1. b \in Storage /\ valid[s] \in Seq(Storage) /\ b # Nothing
  BY QueueAssumption DEF TypeOK, BuffersInPlace, EnqueueValid
<1>2. /\ valid'[s] = Append(valid[s], b)
      /\ \A t \in Sockets : t # s => valid'[t] = valid[t]
  BY DEF TypeOK, EnqueueValid
<1>3. /\ DOMAIN valid'[s] = DOMAIN valid[s] \cup {k}
      /\ \A i \in DOMAIN valid[s] : valid'[s][i] = valid[s][i]
      /\ valid'[s][k] = b
      /\ k \notin DOMAIN valid[s]
  BY <1>1, <1>2, AppendElements
<1>4. TypeOK'
  BY <1>1, AppendElements DEF TypeOK, EnqueueValid, counters
<1>5. /\ sockBuf'[s] = Nothing
      /\ \A t \in Sockets : t # s => sockBuf'[t] = sockBuf[t]
  BY DEF TypeOK, EnqueueValid
<1>6. OwnersDiffer'
  <2>1. \A t, u \in Sockets : \A i \in DOMAIN valid'[t], j \in DOMAIN valid'[u] :
          valid'[t][i] = valid'[u][j] => t = u /\ i = j
    <3>1. \A t \in Sockets : \A i \in DOMAIN valid[t] : valid[t][i] # b
      BY DEF OwnersDiffer
    <3>2. ASSUME NEW t \in Sockets, NEW i \in DOMAIN valid'[t]
          PROVE  \/ i \in DOMAIN valid[t] /\ valid'[t][i] = valid[t][i] /\ valid'[t][i] # b
                 \/ t = s /\ i = k /\ valid'[t][i] = b
      BY <1>2, <1>3, <3>1
    <3> HIDE DEF b, k
    <3> QED
      BY <3>2 DEF OwnersDiffer
  <2>2. \A t, u \in Sockets : \A i \in DOMAIN valid'[u] : sockBuf'[t] # valid'[u][i]
    <3>1. \A u \in Sockets : \A i \in DOMAIN valid'[u] : valid'[u][i] # Nothing
      BY <1>4, QueueAssumption DEF TypeOK
    <3> QED
      BY <1>1, <1>2, <1>3, <1>5, <3>1 DEF OwnersDiffer
  <2>3. /\ \A l \in Lines, t \in Sockets : \A i \in DOMAIN valid'[t] : lineBuf[l] # valid'[t][i]
        /\ \A t \in Sockets : \A i \in DOMAIN valid'[t] : valid'[t][i] \notin trash
    BY SMTT(60), <1>1, <1>2, <1>3 DEF OwnersDiffer
  <2>4. Nothing \notin trash
    BY QueueAssumption DEF TypeOK
  <2> QED
    BY <1>5, <2>1, <2>2, <2>3, <2>4 DEF OwnersDiffer, EnqueueValid
<1>7. BuffersInPlace'
  BY <1>5 DEF BuffersInPlace, EnqueueValid, TypeOK
<1>8. Loaded'
  <2>1. mem[b] \in Frame
    <3>1. mem[b] = [socket |-> s, n |-> arrived[s]] /\ arrived[s] \in 1..MaxFrames
      BY DEF Loaded, EnqueueValid
    <3> QED
      BY <3>1 DEF Frame
  <2>2. \A t \in Sockets : \A i \in DOMAIN valid'[t] : mem[valid'[t][i]] \in Frame
    BY <1>2, <1>3, <2>1 DEF Loaded
  <2> QED
    BY <1>5, <2>2 DEF Loaded, EnqueueValid, TypeOK
<1> QED
  BY <1>4, <1>6, <1>7, <1>8

LEMMA EnqueueRefusedInv ==
  ASSUME QueueInv, NEW s \in Sockets, EnqueueRefused(s)
  PROVE  QueueInv'
<1> USE DEF QueueInv
<1>1. mem[sockBuf[s]] \in Frame
  <2>1. mem[sockBuf[s]] = [socket |-> s, n |-> arrived[s]] /\ arrived[s] \in 1..MaxFrames
    BY DEF Loaded, EnqueueRefused
  <2> QED
    BY <2>1 DEF Frame
<1>2. TypeOK'
  BY <1>1 DEF TypeOK, EnqueueRefused
<1>3. OwnersDiffer'
  BY DEF OwnersDiffer, EnqueueRefused
<1>4. BuffersInPlace'
  BY DEF BuffersInPlace, EnqueueRefused, TypeOK
<1>5. Loaded'
  BY DEF Loaded, EnqueueRefused, TypeOK
<1> QED
  BY <1>2, <1>3, <1>4, <1>5

LEMMA RefillInv ==
  ASSUME QueueInv, NEW s \in Sockets, Refill(s)
  PROVE  QueueInv'
<1> USE DEF QueueInv
<1>1. PICK b \in trash : /\ sockBuf' = [sockBuf EXCEPT ![s] = b]
                         /\ trash' = trash \ {b}
  BY DEF Refill
<1>2. b \in Storage /\ b # Nothing
  BY QueueAssumption DEF TypeOK
<1>3. /\ sockBuf'[s] = b
      /\ \A t \in Sockets : t # s => sockBuf'[t] = sockBuf[t]
  BY <1>1 DEF TypeOK
<1>4. TypeOK'
  BY <1>1, <1>2 DEF TypeOK, Refill, counters
<1>5. OwnersDiffer'
  BY <1>1, <1>2, <1>3 DEF OwnersDiffer, Refill
<1>6. BuffersInPlace'
  BY <1>2, <1>3 DEF BuffersInPlace, Refill, TypeOK
<1>7. Loaded'
  BY <1>3 DEF Loaded, Refill, TypeOK
<1> QED
  BY <1>4, <1>5, <1>6, <1>7

\* A storage the allocator hands out belongs to nobody.
LEMMA AllocateFresh ==
  ASSUME QueueInv, NEW s \in Sockets, Allocate(s)
  PROVE  \E b \in Storage :
           /\ b \notin Live
           /\ sockBuf' = [sockBuf EXCEPT ![s] = b]
           /\ mem' = [mem EXCEPT ![b] = Nothing]
           /\ \A t \in Sockets : sockBuf[t] # b
           /\ \A l \in Lines : lineBuf[l] # b
           /\ \A t \in Sockets : \A i \in DOMAIN valid[t] : valid[t][i] # b
           /\ b \notin trash
<1> DEFINE b == CHOOSE x \in Storage : x \notin Live
<1>1. b \in Storage /\ b \notin Live
  BY DEF Allocate
<1>2. b # Nothing
  BY <1>1, QueueAssumption
<1>3. /\ sockBuf' = [sockBuf EXCEPT ![s] = b]
      /\ mem' = [mem EXCEPT ![b] = Nothing]
  BY DEF Allocate
<1> HIDE DEF b
<1>4. /\ \A t \in Sockets : sockBuf[t] # b
      /\ \A l \in Lines : lineBuf[l] # b
      /\ b \notin trash
  BY <1>1, <1>2 DEF Live, InSockets, InLines
<1>5. \A t \in Sockets : \A i \in DOMAIN valid[t] : valid[t][i] # b
  BY <1>1 DEF Live, InValid
<1> QED
  BY <1>1, <1>3, <1>4, <1>5

LEMMA AllocateInv ==
  ASSUME QueueInv, NEW s \in Sockets, Allocate(s)
  PROVE  QueueInv'
<1> USE DEF QueueInv
<1>1. PICK b \in Storage :
        /\ sockBuf' = [sockBuf EXCEPT ![s] = b]
        /\ mem' = [mem EXCEPT ![b] = Nothing]
        /\ \A t \in Sockets : sockBuf[t] # b
        /\ \A l \in Lines : lineBuf[l] # b
        /\ \A t \in Sockets : \A i \in DOMAIN valid[t] : valid[t][i] # b
        /\ b \notin trash
  BY AllocateFresh
<1>2. b # Nothing
  BY QueueAssumption
<1>3. /\ sockBuf'[s] = b
      /\ \A t \in Sockets : t # s => sockBuf'[t] = sockBuf[t]
  BY <1>1 DEF TypeOK
<1>4. \A c \in Storage : c # b => mem'[c] = mem[c]
  BY <1>1 DEF TypeOK
<1>5. TypeOK'
  BY <1>1 DEF TypeOK, Allocate
<1>6. OwnersDiffer'
  <2>1. valid' = valid /\ lineBuf' = lineBuf /\ trash' = trash
    BY DEF Allocate
  <2>2. \A t, u \in Sockets :
          sockBuf'[t] # Nothing /\ sockBuf'[t] = sockBuf'[u] => t = u
    BY <1>1, <1>3 DEF OwnersDiffer
  <2>3. \A t, u \in Sockets : \A i \in DOMAIN valid[u] : sockBuf'[t] # valid[u][i]
    BY <1>1, <1>3 DEF OwnersDiffer
  <2>4. /\ \A t \in Sockets : sockBuf'[t] \notin trash
        /\ \A t \in Sockets, l \in Lines : sockBuf'[t] # Nothing => sockBuf'[t] # lineBuf[l]
    BY <1>1, <1>3 DEF OwnersDiffer
  <2> QED
    BY <2>1, <2>2, <2>3, <2>4 DEF OwnersDiffer
<1>7. BuffersInPlace'
  BY <1>2, <1>3 DEF BuffersInPlace, Allocate, TypeOK
<1>8. Loaded'
  <2>1. \A t \in Sockets : \A i \in DOMAIN valid[t] : mem'[valid[t][i]] = mem[valid[t][i]]
    BY <1>1, <1>4 DEF TypeOK
  <2>2. \A l \in Lines : linePc[l] = "process" => mem'[lineBuf[l]] = mem[lineBuf[l]]
    BY <1>1, <1>4 DEF TypeOK, BuffersInPlace
  <2>3. \A t \in Sockets : sockPc[t] = "enqueue" => mem'[sockBuf[t]] = mem[sockBuf[t]]
    BY <1>1, <1>4 DEF TypeOK, BuffersInPlace
  <2> QED
    BY <1>3, <2>1, <2>2, <2>3 DEF Loaded, Allocate, TypeOK
<1> QED
  BY <1>5, <1>6, <1>7, <1>8

LEMMA RecycleInv ==
  ASSUME QueueInv, NEW l \in Lines, Recycle(l)
  PROVE  QueueInv'
<1> USE DEF QueueInv
<1> DEFINE b == lineBuf[l]
<1>1. b \in Storage /\ b # Nothing
  BY QueueAssumption DEF TypeOK, BuffersInPlace, Recycle
<1>2. /\ lineBuf'[l] = Nothing
      /\ \A m \in Lines : m # l => lineBuf'[m] = lineBuf[m]
      /\ trash' = trash \cup {b}
  BY DEF TypeOK, Recycle
<1>3. TypeOK'
  BY <1>1 DEF TypeOK, Recycle, counters
<1>4. \A t \in Sockets : \A i \in DOMAIN valid[t] : valid[t][i] # Nothing
  BY QueueAssumption DEF TypeOK
<1>5. Nothing \notin trash'
  BY <1>3, QueueAssumption DEF TypeOK
<1>6. OwnersDiffer'
  <2>1. \A t \in Sockets : sockBuf[t] \notin trash'
    BY <1>1, <1>2 DEF OwnersDiffer
  <2>2. \A t \in Sockets : \A i \in DOMAIN valid[t] : valid[t][i] \notin trash'
    BY <1>2 DEF OwnersDiffer
  <2>3. \A m \in Lines : lineBuf'[m] \notin trash'
    BY <1>1, <1>2, <1>5 DEF OwnersDiffer
  <2>4. /\ sockBuf' = sockBuf
        /\ valid' = valid
    BY DEF Recycle
  <2>5. /\ \A t, u \in Sockets : sockBuf[t] # Nothing /\ sockBuf[t] = sockBuf[u] => t = u
        /\ \A k, m \in Lines : lineBuf'[k] # Nothing /\ lineBuf'[k] = lineBuf'[m] => k = m
        /\ \A t \in Sockets, m \in Lines : sockBuf[t] # Nothing => sockBuf[t] # lineBuf'[m]
        /\ \A m \in Lines, t \in Sockets : \A i \in DOMAIN valid[t] : lineBuf'[m] # valid[t][i]
    BY <1>2, <1>4 DEF OwnersDiffer
  <2> QED
    BY <2>1, <2>2, <2>3, <2>4, <2>5 DEF OwnersDiffer
<1>7. BuffersInPlace'
  BY <1>2 DEF BuffersInPlace, Recycle, TypeOK
<1>8. Loaded'
  BY <1>2 DEF Loaded, Recycle, TypeOK
<1> QED
  BY <1>3, <1>6, <1>7, <1>8

LEMMA RecycleRefusedInv ==
  ASSUME QueueInv, NEW l \in Lines, RecycleRefused(l)
  PROVE  QueueInv'
<1> USE DEF QueueInv
<1>1. TypeOK'
  BY DEF TypeOK, RecycleRefused
<1>2. OwnersDiffer'
  BY DEF OwnersDiffer, RecycleRefused
<1>3. BuffersInPlace'
  BY DEF BuffersInPlace, RecycleRefused, TypeOK
<1>4. Loaded'
  BY DEF Loaded, RecycleRefused, TypeOK
<1> QED
  BY <1>1, <1>2, <1>3, <1>4

LEMMA DequeueInv ==
  ASSUME QueueInv, NEW l \in Lines, NEW s \in Sockets, Dequeue(l, s)
  PROVE  QueueInv'
<1> USE DEF QueueInv
<1> DEFINE b == Head(valid[s])
<1>1. valid[s] \in Seq(Storage) /\ valid[s] # <<>>
  BY DEF TypeOK, Dequeue
<1>2. /\ valid'[s] = Tail(valid[s])
      /\ \A t \in Sockets : t # s => valid'[t] = valid[t]
  BY DEF TypeOK, Dequeue
<1>3. /\ 1 \in DOMAIN valid[s] /\ b = valid[s][1] /\ b \in Storage
      /\ Len(valid[s]) \in Nat
      /\ DOMAIN valid'[s] = 1..(Len(valid[s]) - 1)
      /\ \A i \in DOMAIN valid'[s] : i + 1 \in DOMAIN valid[s] /\ valid'[s][i] = valid[s][i + 1]
  BY <1>1, <1>2, TailElements
<1>4. TypeOK'
  BY <1>1, <1>3, TailElements DEF TypeOK, Dequeue, counters
<1>5. /\ lineBuf'[l] = b
      /\ \A m \in Lines : m # l => lineBuf'[m] = lineBuf[m]
  BY DEF TypeOK, Dequeue
<1>6. \A t \in Sockets : \A i \in DOMAIN valid'[t] :
        \E j \in DOMAIN valid[t] :
          /\ valid'[t][i] = valid[t][j]
          /\ j = (IF t = s THEN i + 1 ELSE i)
  BY <1>2, <1>3
<1>7. \A t \in Sockets : \A i \in DOMAIN valid'[t] : i \in Nat \ {0}
  BY <1>4 DEF TypeOK
<1>8. b # Nothing
  BY <1>3, QueueAssumption
<1>9. OwnersDiffer'
  <2>1. \A t, u \in Sockets : \A i \in DOMAIN valid'[t], j \in DOMAIN valid'[u] :
          valid'[t][i] = valid'[u][j] => t = u /\ i = j
    BY <1>6, <1>7 DEF OwnersDiffer
  <2>2. \A t \in Sockets : \A i \in DOMAIN valid'[t] : valid'[t][i] # b
    BY <1>3, <1>6, <1>7 DEF OwnersDiffer
  <2>3. \A m \in Lines : lineBuf[m] # b
    BY <1>3 DEF OwnersDiffer
  <2>4. \A t \in Sockets : sockBuf[t] # b
    BY <1>3 DEF OwnersDiffer
  <2>5. b \notin trash
    BY <1>3 DEF OwnersDiffer
  <2>6. /\ \A t, u \in Sockets : \A i \in DOMAIN valid'[u] : sockBuf[t] # valid'[u][i]
        /\ \A m \in Lines, u \in Sockets : \A i \in DOMAIN valid'[u] : lineBuf[m] # valid'[u][i]
        /\ \A u \in Sockets : \A i \in DOMAIN valid'[u] : valid'[u][i] \notin trash
    BY <1>6 DEF OwnersDiffer
  <2> QED
    BY <1>5, <1>8, <2>1, <2>2, <2>3, <2>4, <2>5, <2>6 DEF OwnersDiffer, Dequeue
<1>10. BuffersInPlace'
  BY <1>5, <1>8 DEF BuffersInPlace, Dequeue, TypeOK
<1>11. Loaded'
  <2>1. mem[b] \in Frame
    BY <1>3 DEF Loaded
  <2>2. \A t \in Sockets : \A i \in DOMAIN valid'[t] : mem[valid'[t][i]] \in Frame
    BY <1>6 DEF Loaded
  <2> QED
    BY <1>5, <2>1, <2>2 DEF Loaded, Dequeue, TypeOK
<1> QED
  BY <1>4, <1>9, <1>10, <1>11

LEMMA DequeueEmptyInv ==
  ASSUME QueueInv, NEW l \in Lines, DequeueEmpty(l)
  PROVE  QueueInv'
<1> USE DEF QueueInv
<1>1. /\ lineBuf'[l] = Nothing
      /\ \A m \in Lines : m # l => lineBuf'[m] = lineBuf[m]
  BY DEF TypeOK, DequeueEmpty
<1>2. TypeOK'
  BY DEF TypeOK, DequeueEmpty, counters
<1>3. \A t \in Sockets : \A i \in DOMAIN valid[t] : valid[t][i] # Nothing
  BY QueueAssumption DEF TypeOK
<1>4. Nothing \notin trash
  BY QueueAssumption DEF TypeOK
<1>5. OwnersDiffer'
  BY <1>1, <1>3, <1>4 DEF OwnersDiffer, DequeueEmpty
<1>6. BuffersInPlace'
  BY <1>1 DEF BuffersInPlace, DequeueEmpty, TypeOK
<1>7. Loaded'
  BY <1>1 DEF Loaded, DequeueEmpty, TypeOK
<1> QED
  BY <1>2, <1>5, <1>6, <1>7

LEMMA ProcessInv ==
  ASSUME QueueInv, NEW l \in Lines, Process(l)
  PROVE  QueueInv'
<1> USE DEF QueueInv
<1>1. mem[lineBuf[l]] \in Frame
  BY DEF Loaded, Process
<1>2. TypeOK'
  BY <1>1 DEF TypeOK, Process, counters
<1>3. OwnersDiffer'
  BY DEF OwnersDiffer, Process
<1>4. BuffersInPlace'
  BY DEF BuffersInPlace, Process, TypeOK
<1>5. Loaded'
  BY DEF Loaded, Process, TypeOK
<1> QED
  BY <1>2, <1>3, <1>4, <1>5

LEMMA QueueInvStep == QueueInv /\ [Next]_vars => QueueInv'
<1> SUFFICES ASSUME QueueInv, [Next]_vars PROVE QueueInv'
  OBVIOUS
<1>1. CASE EnqueueEmpty
  <2>1. TypeOK'
    BY <1>1, QueueAssumption, FS_CardinalityType DEF QueueInv, TypeOK, EnqueueEmpty, counters
  <2>2. (OwnersDiffer /\ BuffersInPlace /\ Loaded)'
    BY <1>1 DEF QueueInv, OwnersDiffer, BuffersInPlace, Loaded, EnqueueEmpty
  <2> QED
    BY <2>1, <2>2 DEF QueueInv
<1>2. CASE UNCHANGED vars
  BY <1>2 DEF vars, counters, QueueInv, TypeOK, OwnersDiffer, BuffersInPlace, Loaded
<1> QED
  BY <1>1, <1>2, ReceiveInv, EnqueueValidInv, EnqueueRefusedInv, RefillInv, AllocateInv,
     RecycleInv, RecycleRefusedInv, DequeueInv, DequeueEmptyInv, ProcessInv DEF Next

THEOREM QueueInvariant == Spec => []QueueInv
BY QueueInit, QueueInvStep, PTL DEF Spec

(***************************************************************************)
(* The variables of the buffer queue always have their types; that a moved *)
(* buffer is a storage and a stored frame a frame needs the ownership.     *)
(***************************************************************************)
THEOREM QueueTyping == Spec => []TypeOK
<1>1. QueueInv => TypeOK
  BY DEF QueueInv
<1> QED
  BY <1>1, QueueInvariant, PTL

(***************************************************************************)
(* No storage is ever in two places, whatever the interleaving of the      *)
(* halves of enqueue and dequeue.                                          *)
(***************************************************************************)
THEOREM StoragesOwnedOnce == Spec => []SingleOwner
<1>1. QueueInv => SingleOwner
  BY OwnersSingle DEF QueueInv
<1> QED
  BY <1>1, QueueInvariant, PTL

(***************************************************************************)
(* A socket that receives and a line that recycles or processes have a     *)
(* storage.                                                                *)
(***************************************************************************)
THEOREM BuffersAlwaysInPlace == Spec => []BuffersInPlace
<1>1. QueueInv => BuffersInPlace
  BY DEF QueueInv
<1> QED
  BY <1>1, QueueInvariant, PTL

-----------------------------------------------------------------------------
(* The refinement *)

\* Reading the frames out of the storages of a lane.
LEMMA FramesAppend ==
  ASSUME NEW q \in Seq(Storage), NEW b \in Storage, NEW m \in [Storage -> Frame \cup {Nothing}]
  PROVE  [i \in DOMAIN Append(q, b) |-> m[Append(q, b)[i]]]
           = Append([i \in DOMAIN q |-> m[q[i]]], m[b])
<1> DEFINE v == [i \in DOMAIN q |-> m[q[i]]]
           w == [i \in DOMAIN Append(q, b) |-> m[Append(q, b)[i]]]
<1>1. DOMAIN q = 1..Len(q) /\ Len(q) \in Nat /\ \A i \in DOMAIN q : q[i] \in Storage
  OBVIOUS
<1>2. v \in Seq(Frame \cup {Nothing}) /\ Len(v) = Len(q)
  BY <1>1
<1>3. /\ DOMAIN w = 1..(Len(q) + 1)
      /\ \A i \in 1..Len(q) : w[i] = m[q[i]]
      /\ w[Len(q) + 1] = m[b]
  BY <1>1, AppendElements
<1>4. w \in Seq(Frame \cup {Nothing}) /\ Len(w) = Len(q) + 1
  <2>1. \A i \in 1..(Len(q) + 1) : w[i] \in Frame \cup {Nothing}
    BY <1>1, <1>3
  <2> QED
    BY <1>1, <1>3, <2>1
<1>5. m[b] \in Frame \cup {Nothing}
  OBVIOUS
<1>6. /\ Append(v, m[b]) \in Seq(Frame \cup {Nothing})
      /\ Len(Append(v, m[b])) = Len(q) + 1
      /\ \A i \in 1..Len(q) : Append(v, m[b])[i] = v[i]
      /\ Append(v, m[b])[Len(q) + 1] = m[b]
  BY <1>2, <1>5
<1>7. \A i \in 1..Len(q) : v[i] = m[q[i]]
  BY <1>1
<1> HIDE DEF v, w
<1>8. \A i \in 1..(Len(q) + 1) : w[i] = Append(v, m[b])[i]
  BY <1>1, <1>3, <1>6, <1>7
<1>9. w = Append(v, m[b])
  BY <1>4, <1>6, <1>8
<1> QED
  BY <1>9 DEF v, w

LEMMA FramesTail ==
  ASSUME NEW q \in Seq(Storage), q # <<>>, NEW m \in [Storage -> Frame \cup {Nothing}]
  PROVE  LET v == [i \in DOMAIN q |-> m[q[i]]]
         IN  /\ v # <<>>
             /\ Head(v) = m[Head(q)]
             /\ Tail(v) = [i \in DOMAIN Tail(q) |-> m[Tail(q)[i]]]
<1> DEFINE v == [i \in DOMAIN q |-> m[q[i]]]
           w == [i \in DOMAIN Tail(q) |-> m[Tail(q)[i]]]
<1>1. /\ DOMAIN q = 1..Len(q) /\ Len(q) \in Nat /\ Len(q) # 0
      /\ \A i \in DOMAIN q : q[i] \in Storage
  OBVIOUS
<1>2. v \in Seq(Frame \cup {Nothing}) /\ Len(v) = Len(q)
  BY <1>1
<1>3. v # <<>> /\ Head(v) = m[Head(q)]
  BY <1>1, <1>2
<1>4. /\ DOMAIN w = 1..(Len(q) - 1)
      /\ \A i \in 1..(Len(q) - 1) : w[i] = m[q[i + 1]]
  BY <1>1, TailElements
<1>5. w \in Seq(Frame \cup {Nothing}) /\ Len(w) = Len(q) - 1
  <2>1. \A i \in 1..(Len(q) - 1) : w[i] \in Frame \cup {Nothing}
    BY <1>1, <1>4
  <2> QED
    BY <1>1, <1>4, <2>1
<1>6. \A i \in 1..Len(q) : v[i] = m[q[i]]
  BY <1>1
<1> HIDE DEF v, w
<1>7. /\ Tail(v) \in Seq(Frame \cup {Nothing})
      /\ Len(Tail(v)) = Len(q) - 1
      /\ \A i \in 1..(Len(q) - 1) : Tail(v)[i] = v[i + 1]
  BY <1>1, <1>2, <1>3
<1>8. \A i \in 1..(Len(q) - 1) : Tail(v)[i] = w[i]
  BY <1>1, <1>4, <1>6, <1>7
<1>9. Tail(v) = w
  BY SMTT(60), <1>1, <1>5, <1>7, <1>8
<1> QED
  BY <1>3, <1>9 DEF v, w

\* What the mapping reads from the state, socket by socket and line by line.
LEMMA MappingTypes ==
  ASSUME QueueInv
  PROVE  /\ \A s \in Sockets : sockPc[s] = "enqueue" =>
              SocketFrame[s] = mem[sockBuf[s]] /\ SocketFrame[s] \in Frame /\ SocketFrame[s] # Nothing
         /\ \A s \in Sockets : sockPc[s] # "enqueue" => SocketFrame[s] = Nothing
         /\ \A l \in Lines : linePc[l] = "process" =>
              LineFrame[l] = mem[lineBuf[l]] /\ LineFrame[l] \in Frame /\ LineFrame[l] # Nothing
         /\ \A l \in Lines : linePc[l] # "process" => LineFrame[l] = Nothing
<1>1. \A s \in Sockets : sockPc[s] = "enqueue" => mem[sockBuf[s]] \in Frame
  <2> SUFFICES ASSUME NEW s \in Sockets, sockPc[s] = "enqueue" PROVE mem[sockBuf[s]] \in Frame
    OBVIOUS
  <2>1. mem[sockBuf[s]] = [socket |-> s, n |-> arrived[s]] /\ arrived[s] \in 1..MaxFrames
    BY DEF QueueInv, Loaded
  <2> QED
    BY <2>1 DEF Frame
<1>2. Nothing \notin Frame
  BY QueueAssumption
<1> QED
  BY <1>1, <1>2 DEF QueueInv, Loaded, SocketFrame, LineFrame

LEMMA ReceiveArrives ==
  ASSUME QueueInv, NEW s \in Sockets, Receive(s)
  PROVE  Channel!Arrive(s)
<1> DEFINE f == [socket |-> s, n |-> arrived[s] + 1]
<1>1. sockBuf[s] \in Storage /\ sockBuf[s] # Nothing
  BY QueueAssumption DEF QueueInv, TypeOK, BuffersInPlace, Receive
<1>2. /\ mem'[sockBuf[s]] = f
      /\ \A c \in Storage : c # sockBuf[s] => mem'[c] = mem[c]
  BY <1>1 DEF QueueInv, TypeOK, Receive
<1>3. SocketFrame[s] = Nothing
  BY DEF SocketFrame, Receive
<1>4. SocketFrame' = [SocketFrame EXCEPT ![s] = f]
  <2>1. \A t \in Sockets : t # s /\ sockPc[t] = "enqueue" => mem'[sockBuf[t]] = mem[sockBuf[t]]
    BY <1>1, <1>2 DEF QueueInv, TypeOK, BuffersInPlace, OwnersDiffer
  <2>2. \A t \in Sockets : t # s => SocketFrame'[t] = SocketFrame[t]
    BY <2>1 DEF SocketFrame, Receive, QueueInv, TypeOK
  <2>3. SocketFrame'[s] = f
    BY <1>2 DEF SocketFrame, Receive, QueueInv, TypeOK
  <2> QED
    BY <2>2, <2>3 DEF SocketFrame
<1>5. QueueFrames' = QueueFrames
  <2>1. \A t \in Sockets : \A i \in DOMAIN valid[t] : mem'[valid[t][i]] = mem[valid[t][i]]
    BY <1>2 DEF QueueInv, TypeOK, OwnersDiffer
  <2> QED
    BY <2>1 DEF QueueFrames, Receive
<1>6. LineFrame' = LineFrame
  <2>1. \A l \in Lines : linePc[l] = "process" => mem'[lineBuf[l]] = mem[lineBuf[l]]
    BY <1>1, <1>2 DEF QueueInv, TypeOK, BuffersInPlace, OwnersDiffer
  <2> QED
    BY <2>1 DEF LineFrame, Receive
<1>7. EndedLines' = EndedLines
  BY DEF EndedLines, Receive
<1> QED
  BY <1>3, <1>4, <1>5, <1>6, <1>7 DEF Channel!Arrive, Receive

LEMMA EnqueueAccepts ==
  ASSUME QueueInv, NEW s \in Sockets, EnqueueValid(s)
  PROVE  Channel!Accept(s)
<1>1. sockBuf[s] \in Storage /\ valid[s] \in Seq(Storage) /\ mem \in [Storage -> Frame \cup {Nothing}]
  BY DEF QueueInv, TypeOK, BuffersInPlace, EnqueueValid
<1>2. SocketFrame[s] = mem[sockBuf[s]] /\ SocketFrame[s] # Nothing
  BY MappingTypes DEF EnqueueValid
<1>3. SocketFrame' = [SocketFrame EXCEPT ![s] = Nothing]
  BY DEF SocketFrame, EnqueueValid, QueueInv, TypeOK
<1>4. QueueFrames' = [QueueFrames EXCEPT ![s] = Append(@, SocketFrame[s])]
  <2>1. \A t \in Sockets : t # s => QueueFrames'[t] = QueueFrames[t]
    BY DEF QueueFrames, EnqueueValid, QueueInv, TypeOK
  <2>2. valid'[s] = Append(valid[s], sockBuf[s]) /\ mem' = mem
    BY DEF EnqueueValid, QueueInv, TypeOK
  <2>3. QueueFrames'[s] = Append(QueueFrames[s], SocketFrame[s])
    BY <1>1, <1>2, <2>2, FramesAppend DEF QueueFrames
  <2> QED
    BY <2>1, <2>3 DEF QueueFrames
<1>5. LineFrame' = LineFrame /\ EndedLines' = EndedLines
  BY DEF LineFrame, EndedLines, EnqueueValid
<1> QED
  BY <1>2, <1>3, <1>4, <1>5 DEF Channel!Accept, EnqueueValid

LEMMA RefusedLoses ==
  ASSUME QueueInv, NEW s \in Sockets, EnqueueRefused(s)
  PROVE  Channel!Lose(s)
<1>1. SocketFrame[s] = mem[sockBuf[s]] /\ SocketFrame[s] # Nothing
  BY MappingTypes DEF EnqueueRefused
<1>2. SocketFrame' = [SocketFrame EXCEPT ![s] = Nothing]
  BY DEF SocketFrame, EnqueueRefused, QueueInv, TypeOK
<1>3. QueueFrames' = QueueFrames /\ LineFrame' = LineFrame /\ EndedLines' = EndedLines
  BY DEF QueueFrames, LineFrame, EndedLines, EnqueueRefused
<1> QED
  BY <1>1, <1>2, <1>3 DEF Channel!Lose, EnqueueRefused

LEMMA RefillStutters ==
  ASSUME QueueInv, NEW s \in Sockets, Refill(s)
  PROVE  UNCHANGED Channel!vars
<1>1. SocketFrame' = SocketFrame
  <2>1. \A t \in Sockets : t # s => sockBuf'[t] = sockBuf[t] /\ sockPc'[t] = sockPc[t]
    BY DEF Refill, QueueInv, TypeOK
  <2>2. sockPc[s] # "enqueue" /\ sockPc'[s] # "enqueue" /\ mem' = mem
    BY DEF Refill, QueueInv, TypeOK
  <2> QED
    BY <2>1, <2>2 DEF SocketFrame
<1>2. QueueFrames' = QueueFrames /\ LineFrame' = LineFrame /\ EndedLines' = EndedLines
  BY DEF QueueFrames, LineFrame, EndedLines, Refill
<1> QED
  BY <1>1, <1>2 DEF Channel!vars, Refill

LEMMA AllocateStutters ==
  ASSUME QueueInv, NEW s \in Sockets, Allocate(s)
  PROVE  UNCHANGED Channel!vars
<1>1. PICK b \in Storage :
        /\ sockBuf' = [sockBuf EXCEPT ![s] = b]
        /\ mem' = [mem EXCEPT ![b] = Nothing]
        /\ \A t \in Sockets : sockBuf[t] # b
        /\ \A l \in Lines : lineBuf[l] # b
        /\ \A t \in Sockets : \A i \in DOMAIN valid[t] : valid[t][i] # b
        /\ b \notin trash
  BY AllocateFresh
<1>2. \A c \in Storage : c # b => mem'[c] = mem[c]
  BY <1>1 DEF QueueInv, TypeOK
<1>3. SocketFrame' = SocketFrame
  <2>1. \A t \in Sockets : t # s => sockBuf'[t] = sockBuf[t] /\ sockPc'[t] = sockPc[t]
    BY <1>1 DEF Allocate, QueueInv, TypeOK
  <2>2. sockPc[s] # "enqueue" /\ sockPc'[s] # "enqueue"
    BY DEF Allocate, QueueInv, TypeOK
  <2>3. \A t \in Sockets : sockPc[t] = "enqueue" => mem'[sockBuf[t]] = mem[sockBuf[t]]
    BY <1>1, <1>2 DEF QueueInv, TypeOK, BuffersInPlace
  <2> QED
    BY <2>1, <2>2, <2>3 DEF SocketFrame
<1>4. QueueFrames' = QueueFrames
  <2>1. \A t \in Sockets : \A i \in DOMAIN valid[t] : mem'[valid[t][i]] = mem[valid[t][i]]
    BY <1>1, <1>2 DEF QueueInv, TypeOK
  <2> QED
    BY <2>1 DEF QueueFrames, Allocate
<1>5. LineFrame' = LineFrame /\ EndedLines' = EndedLines
  <2>1. \A l \in Lines : linePc[l] = "process" => mem'[lineBuf[l]] = mem[lineBuf[l]]
    BY <1>1, <1>2 DEF QueueInv, TypeOK, BuffersInPlace
  <2> QED
    BY <2>1 DEF LineFrame, EndedLines, Allocate
<1> QED
  BY <1>3, <1>4, <1>5 DEF Channel!vars, Allocate

LEMMA RecycleStutters ==
  ASSUME QueueInv, NEW l \in Lines, Recycle(l) \/ RecycleRefused(l)
  PROVE  UNCHANGED Channel!vars
<1>1. /\ linePc[l] = "ready" /\ linePc'[l] = "wait"
      /\ \A m \in Lines : m # l => linePc'[m] = linePc[m] /\ lineBuf'[m] = lineBuf[m]
  BY DEF Recycle, RecycleRefused, QueueInv, TypeOK
<1>2. mem' = mem
  BY DEF Recycle, RecycleRefused
<1>3. LineFrame' = LineFrame /\ EndedLines' = EndedLines
  BY <1>1, <1>2 DEF LineFrame, EndedLines
<1>4. SocketFrame' = SocketFrame /\ QueueFrames' = QueueFrames
  BY DEF SocketFrame, QueueFrames, Recycle, RecycleRefused
<1> QED
  BY <1>3, <1>4 DEF Channel!vars, Recycle, RecycleRefused

LEMMA DequeueTakes ==
  ASSUME QueueInv, NEW l \in Lines, NEW s \in Sockets, Dequeue(l, s)
  PROVE  Channel!Take(l, s)
<1>1. /\ valid[s] \in Seq(Storage) /\ valid[s] # <<>>
      /\ mem \in [Storage -> Frame \cup {Nothing}]
  BY DEF QueueInv, TypeOK, Dequeue
<1>2. /\ QueueFrames[s] # <<>>
      /\ Head(QueueFrames[s]) = mem[Head(valid[s])]
      /\ Tail(QueueFrames[s]) = [i \in DOMAIN Tail(valid[s]) |-> mem[Tail(valid[s])[i]]]
  BY <1>1, FramesTail DEF QueueFrames
<1>3. mem' = mem /\ valid'[s] = Tail(valid[s])
  BY DEF Dequeue, QueueInv, TypeOK
<1>4. l \notin EndedLines /\ LineFrame[l] = Nothing
  BY DEF EndedLines, LineFrame, Dequeue
<1>5. LineFrame' = [LineFrame EXCEPT ![l] = Head(QueueFrames[s])]
  <2>1. linePc'[l] = "process" /\ lineBuf'[l] = Head(valid[s])
    BY DEF Dequeue, QueueInv, TypeOK
  <2>2. \A m \in Lines : m # l => linePc'[m] = linePc[m] /\ lineBuf'[m] = lineBuf[m]
    BY DEF Dequeue, QueueInv, TypeOK
  <2> QED
    BY ZenonT(60), <1>2, <1>3, <2>1, <2>2 DEF LineFrame
<1>6. QueueFrames' = [QueueFrames EXCEPT ![s] = Tail(@)]
  <2>1. \A t \in Sockets : t # s => QueueFrames'[t] = QueueFrames[t]
    BY DEF QueueFrames, Dequeue, QueueInv, TypeOK
  <2>2. QueueFrames'[s] = Tail(QueueFrames[s])
    BY <1>2, <1>3 DEF QueueFrames
  <2> QED
    BY <2>1, <2>2 DEF QueueFrames
<1>7. SocketFrame' = SocketFrame
  BY DEF SocketFrame, Dequeue
<1>8. EndedLines' = EndedLines
  BY DEF EndedLines, Dequeue, QueueInv, TypeOK
<1> QED
  BY <1>2, <1>4, <1>5, <1>6, <1>7, <1>8 DEF Channel!Take, Dequeue

LEMMA EmptyTakesStop ==
  ASSUME QueueInv, NEW l \in Lines, DequeueEmpty(l)
  PROVE  Channel!TakeStop(l)
<1>1. l \notin EndedLines /\ LineFrame[l] = Nothing
  BY DEF EndedLines, LineFrame, DequeueEmpty
<1>2. /\ linePc[l] = "wait" /\ linePc'[l] = "ended"
      /\ \A m \in Lines : m # l => linePc'[m] = linePc[m] /\ lineBuf'[m] = lineBuf[m]
  BY DEF DequeueEmpty, QueueInv, TypeOK
<1>3. EndedLines' = EndedLines \cup {l}
  BY <1>2 DEF EndedLines
<1>4. LineFrame' = LineFrame
  BY <1>2 DEF LineFrame, DequeueEmpty
<1>5. SocketFrame' = SocketFrame /\ QueueFrames' = QueueFrames
  BY DEF SocketFrame, QueueFrames, DequeueEmpty
<1> QED
  BY <1>1, <1>3, <1>4, <1>5 DEF Channel!TakeStop, DequeueEmpty

LEMMA ProcessFinishes ==
  ASSUME QueueInv, NEW l \in Lines, Process(l)
  PROVE  Channel!Finish(l)
<1>1. LineFrame[l] = mem[lineBuf[l]] /\ LineFrame[l] # Nothing
  BY MappingTypes DEF Process
<1>2. /\ linePc[l] = "process" /\ linePc'[l] = "ready"
      /\ \A m \in Lines : m # l => linePc'[m] = linePc[m]
  BY DEF Process, QueueInv, TypeOK
<1>3. EndedLines' = EndedLines
  BY <1>2 DEF EndedLines
<1>4. LineFrame' = [LineFrame EXCEPT ![l] = Nothing]
  BY <1>2 DEF LineFrame, Process
<1>5. SocketFrame' = SocketFrame /\ QueueFrames' = QueueFrames
  BY DEF SocketFrame, QueueFrames, Process
<1> QED
  BY <1>1, <1>3, <1>4, <1>5 DEF Channel!Finish, Process

\* The instance has a copy of Cardinality.
LEMMA ChannelCardinality == Cardinality(Lines) = Channel!Cardinality(Lines)
BY DEF Cardinality, Channel!Cardinality

LEMMA EmptyBuffersStop ==
  ASSUME QueueInv, EnqueueEmpty
  PROVE  Channel!SendStops
<1>1. /\ SocketFrame' = SocketFrame /\ QueueFrames' = QueueFrames
      /\ LineFrame' = LineFrame /\ EndedLines' = EndedLines
  BY DEF SocketFrame, QueueFrames, LineFrame, EndedLines, EnqueueEmpty
<1>2. ~stopping /\ stopping' = TRUE
  BY Zenon DEF EnqueueEmpty
<1>3. stops' = stops + Channel!Cardinality(Lines)
  BY ChannelCardinality DEF EnqueueEmpty
<1>4. UNCHANGED <<arrived, SocketFrame, QueueFrames, LineFrame, lost, done, EndedLines>>
  BY <1>1 DEF EnqueueEmpty
<1> QED
  BY <1>2, <1>3, <1>4, Zenon DEF Channel!SendStops

LEMMA ChannelStep == QueueInv /\ [Next]_vars => [Channel!Next]_Channel!vars
<1> SUFFICES ASSUME QueueInv, [Next]_vars PROVE [Channel!Next]_Channel!vars
  OBVIOUS
<1>1. CASE UNCHANGED vars
  <2>1. /\ SocketFrame' = SocketFrame /\ QueueFrames' = QueueFrames
        /\ LineFrame' = LineFrame /\ EndedLines' = EndedLines
    BY <1>1 DEF SocketFrame, QueueFrames, LineFrame, EndedLines, vars
  <2> QED
    BY <1>1, <2>1 DEF Channel!vars, vars
<1>2. ASSUME NEW s \in Sockets,
             Receive(s) \/ EnqueueValid(s) \/ EnqueueRefused(s) \/ Refill(s) \/ Allocate(s)
      PROVE  [Channel!Next]_Channel!vars
  BY <1>2, ReceiveArrives, EnqueueAccepts, RefusedLoses, RefillStutters, AllocateStutters
     DEF Channel!Next
<1>3. ASSUME NEW l \in Lines, Recycle(l) \/ RecycleRefused(l) \/ DequeueEmpty(l) \/ Process(l)
      PROVE  [Channel!Next]_Channel!vars
  BY <1>3, RecycleStutters, EmptyTakesStop, ProcessFinishes DEF Channel!Next
<1>4. ASSUME NEW l \in Lines, NEW s \in Sockets, Dequeue(l, s)
      PROVE  [Channel!Next]_Channel!vars
  BY <1>4, DequeueTakes DEF Channel!Next
<1>5. CASE EnqueueEmpty
  BY <1>5, EmptyBuffersStop DEF Channel!Next
<1> QED
  BY <1>1, <1>2, <1>3, <1>4, <1>5 DEF Next

LEMMA ChannelInit == Init => Channel!Init
<1> SUFFICES ASSUME Init PROVE Channel!Init
  OBVIOUS
<1>1. SocketFrame = [s \in Sockets |-> Nothing]
  BY DEF Init, SocketFrame
<1>2. QueueFrames = [s \in Sockets |-> <<>>]
  <2>1. \A s \in Sockets : DOMAIN valid[s] = {}
    BY DEF Init
  <2>2. \A s \in Sockets : QueueFrames[s] = <<>>
    BY <2>1 DEF QueueFrames
  <2> QED
    BY <2>2 DEF QueueFrames
<1>3. LineFrame = [l \in Lines |-> Nothing]
  BY DEF Init, LineFrame
<1>4. EndedLines = {}
  BY DEF Init, EndedLines
<1>5. stopping = FALSE
  BY Zenon DEF Init
<1> QED
  BY <1>1, <1>2, <1>3, <1>4, <1>5 DEF Init, Channel!Init

(***************************************************************************)
(* The buffer queue implements the channel, for all sockets, lines,        *)
(* storages and capacities, with any refusals and missed buffers: a frame  *)
(* reaches one line, unchanged and in order, whatever storage carries it.  *)
(***************************************************************************)
THEOREM QueueImplementsChannel == Spec => ImplementsChannel
BY ChannelInit, ChannelStep, QueueInvariant, PTL DEF Spec, ImplementsChannel, Channel!Spec

ChannelP == INSTANCE FrameChannelProofs WITH
  hand <- SocketFrame, chan <- QueueFrames, held <- LineFrame, ended <- EndedLines

(***************************************************************************)
(* So the queue has what FrameChannelProofs shows of the channel: in every *)
(* state a frame that arrived is in one storage, refused or analysed, the  *)
(* storages of a lane hold the frames of its socket in order of arrival,   *)
(* after those the lines have taken, and after enqueue_empty one empty     *)
(* buffer is left for each line that runs.                                 *)
(***************************************************************************)
THEOREM QueueKeepsPromises ==
  Spec => [](Conserved /\ FifoPerSocket /\ StopPerLine)
<1>1. ChannelP!ChannelAssumption
  BY QueueAssumption
     DEF ChannelP!ChannelAssumption, ChannelP!Frame, Frame, ChannelP!IsFiniteSet, IsFiniteSet
<1>2. Channel!Init => ChannelP!Init
  BY DEF Channel!Init, ChannelP!Init
<1>3. [Channel!Next]_Channel!vars => [ChannelP!Next]_ChannelP!vars
  BY DEF Channel!Next, Channel!vars, Channel!Arrive, Channel!Accept, Channel!Lose, Channel!Take,
         Channel!Finish, Channel!TakeStop, Channel!SendStops, Channel!Cardinality,
         ChannelP!Next, ChannelP!vars, ChannelP!Arrive, ChannelP!Accept, ChannelP!Lose,
         ChannelP!Take, ChannelP!Finish, ChannelP!TakeStop, ChannelP!SendStops,
         ChannelP!Cardinality
<1>4. ChannelP!Conserved => Channel!Conserved
  BY DEF Channel!Conserved, ChannelP!Conserved, Channel!Frame, ChannelP!Frame, Channel!InHand,
         ChannelP!InHand, Channel!Queued, ChannelP!Queued, Channel!Held, ChannelP!Held
<1>5. ChannelP!FifoPerSocket => Channel!FifoPerSocket
  BY DEF Channel!FifoPerSocket, ChannelP!FifoPerSocket, Channel!Held, ChannelP!Held
<1>6. ChannelP!StopPerLine => Channel!StopPerLine
  BY DEF Channel!StopPerLine, ChannelP!StopPerLine, Channel!Cardinality, ChannelP!Cardinality
<1>7. ChannelP!Spec => [](ChannelP!Conserved /\ ChannelP!FifoPerSocket /\ ChannelP!StopPerLine)
  BY <1>1, ChannelP!FramesConserved, ChannelP!FramesInOrder, ChannelP!StopsSuffice, PTL
<1> QED
  BY <1>2, <1>3, <1>4, <1>5, <1>6, <1>7, QueueImplementsChannel, PTL
     DEF ImplementsChannel, Channel!Spec, ChannelP!Spec, Conserved, FifoPerSocket, StopPerLine

-----------------------------------------------------------------------------
(* The memory *)

\* A storage is alive when a socket, a line, a lane or the trash queue has it.
LiveIs ==
  /\ \A b \in Live : b \in Storage
  /\ \A b \in Storage :
       b \in Live <=> \/ \E s \in Sockets : sockBuf[s] = b
                      \/ \E l \in Lines : lineBuf[l] = b
                      \/ \E s \in Sockets : \E i \in DOMAIN valid[s] : valid[s][i] = b
                      \/ b \in trash

LEMMA LiveMembers == TypeOK => LiveIs
<1> SUFFICES ASSUME TypeOK PROVE LiveIs
  OBVIOUS
<1>1. Nothing \notin Storage
  BY QueueAssumption
<1>2. \A b \in InSockets \cup InLines : b \in Storage
  BY DEF TypeOK, InSockets, InLines
<1>3. \A b \in InValid : b \in Storage
  BY DEF TypeOK, InValid
<1>4. \A b \in Storage : b \in InSockets <=> \E s \in Sockets : sockBuf[s] = b
  BY <1>1 DEF InSockets
<1>5. \A b \in Storage : b \in InLines <=> \E l \in Lines : lineBuf[l] = b
  BY <1>1 DEF InLines
<1>6. \A b : b \in InValid <=> \E s \in Sockets : \E i \in DOMAIN valid[s] : valid[s][i] = b
  BY DEF InValid
<1> QED
  BY <1>2, <1>3, <1>4, <1>5, <1>6 DEF Live, TypeOK, LiveIs

\* The same before and after a step.
LEMMA LiveAround ==
  ASSUME TypeOK, TypeOK'
  PROVE  LiveIs /\ LiveIs'
BY LiveMembers, PTL

LEMMA LiveFinite ==
  ASSUME TypeOK
  PROVE  IsFiniteSet(Live) /\ IsFiniteSet(Kept)
<1>1. Live \in SUBSET Storage /\ IsFiniteSet(Storage)
  BY LiveMembers, QueueAssumption DEF LiveIs
<1>2. Kept \in SUBSET Lines /\ IsFiniteSet(Lines)
  BY QueueAssumption DEF Kept
<1>3. IsFiniteSet(Live)
  BY <1>1, FS_Subset
<1>4. IsFiniteSet(Kept)
  BY <1>2, FS_Subset
<1> QED
  BY <1>3, <1>4

LEMMA AccountInit == Init => StorageAccounted
<1> SUFFICES ASSUME Init PROVE StorageAccounted
  OBVIOUS
<1>1. Nothing \notin Storage
  BY QueueAssumption
<1>2. IsFiniteSet(InSockets) /\ Cardinality(InSockets) = Cardinality(Sockets)
  <2>1. sockBuf \in [Sockets -> InSockets]
    BY <1>1 DEF Init, InSockets
  <2>2. \A s, t \in Sockets : sockBuf[s] = sockBuf[t] => s = t
    BY DEF Init
  <2>3. \A b \in InSockets : \E s \in Sockets : sockBuf[s] = b
    BY DEF InSockets
  <2>4. sockBuf \in Bijection(Sockets, InSockets)
    BY <2>1, <2>2, <2>3 DEF Bijection, Injection, Surjection, IsInjective
  <2>5. ExistsBijection(Sockets, InSockets)
    BY <2>4 DEF ExistsBijection
  <2> QED
    BY <2>5, FS_Bijection, QueueAssumption
<1>3. IsFiniteSet(InLines) /\ Cardinality(InLines) = Cardinality(Lines)
  <2>1. lineBuf \in [Lines -> InLines]
    BY <1>1 DEF Init, InLines
  <2>2. \A l, m \in Lines : lineBuf[l] = lineBuf[m] => l = m
    BY DEF Init
  <2>3. \A b \in InLines : \E l \in Lines : lineBuf[l] = b
    BY DEF InLines
  <2>4. lineBuf \in Bijection(Lines, InLines)
    BY <2>1, <2>2, <2>3 DEF Bijection, Injection, Surjection, IsInjective
  <2>5. ExistsBijection(Lines, InLines)
    BY <2>4 DEF ExistsBijection
  <2> QED
    BY <2>5, FS_Bijection, QueueAssumption
<1>4. IsFiniteSet(trash)
  BY FS_Subset, QueueAssumption DEF Init
<1>5. InValid = {}
  <2>1. \A s \in Sockets : DOMAIN valid[s] = {}
    BY DEF Init
  <2> QED
    BY <2>1 DEF InValid
<1>6. Live = (InSockets \cup InLines) \cup trash
  BY <1>5 DEF Live
<1>7. InSockets \cap InLines = {} /\ (InSockets \cup InLines) \cap trash = {}
  BY DEF Init
<1>8. /\ IsFiniteSet(InSockets \cup InLines)
      /\ Cardinality(InSockets \cup InLines)
           = Cardinality(InSockets) + Cardinality(InLines) - Cardinality({})
  BY <1>2, <1>3, <1>7, FS_Union
<1>9. Cardinality(Live)
        = Cardinality(InSockets \cup InLines) + Cardinality(trash) - Cardinality({})
  BY <1>4, <1>6, <1>7, <1>8, FS_Union
<1>10. Kept = {}
  BY DEF Init, Kept
<1>11. Cardinality({}) = 0
  BY FS_EmptySet
<1>12. /\ Cardinality(Sockets) \in Nat
       /\ Cardinality(Lines) \in Nat
       /\ Cardinality(trash) \in Nat
  BY <1>4, QueueAssumption, FS_CardinalityType
<1>13. reserved = Cardinality(trash) /\ nEmptyTrash = 0 /\ nFullTrash = 0
  BY DEF Init
<1> QED
  BY <1>2, <1>3, <1>8, <1>9, <1>10, <1>11, <1>12, <1>13 DEF StorageAccounted

\* A move changes neither what is alive nor the counters.
LEMMA MoveAccounted ==
  ASSUME StorageAccounted, Live' = Live, Kept' = Kept,
         UNCHANGED <<reserved, nEmptyTrash, nFullTrash>>
  PROVE  StorageAccounted'
BY DEF StorageAccounted

\* The cardinalities and counters are numbers.
LEMMA AccountTypes ==
  ASSUME TypeOK
  PROVE  /\ Cardinality(Live) \in Nat /\ Cardinality(Kept) \in Nat
         /\ Cardinality(Sockets) \in Nat /\ Cardinality(Lines) \in Nat
         /\ reserved \in Nat /\ nEmptyTrash \in Nat /\ nFullTrash \in Nat
BY LiveFinite, FS_CardinalityType, QueueAssumption DEF TypeOK

LEMMA SocketAccounted ==
  ASSUME QueueInv, QueueInv', StorageAccounted, NEW s \in Sockets,
         Receive(s) \/ EnqueueValid(s) \/ EnqueueRefused(s) \/ Refill(s)
  PROVE  StorageAccounted'
<1>1. /\ UNCHANGED <<reserved, nEmptyTrash, nFullTrash>>
      /\ linePc' = linePc /\ lineBuf' = lineBuf
  BY DEF Receive, EnqueueValid, EnqueueRefused, Refill, counters
<1>2. Kept' = Kept
  BY <1>1 DEF Kept
<1>3. CASE Receive(s) \/ EnqueueRefused(s)
  <2>1. Live' = Live
    BY <1>3 DEF Live, InValid, InSockets, InLines, Receive, EnqueueRefused
  <2> QED
    BY <1>1, <1>2, <2>1, MoveAccounted
<1>4. CASE EnqueueValid(s)
  <2> DEFINE b == sockBuf[s]
             k == Len(valid[s]) + 1
  <2>1. b \in Storage /\ valid[s] \in Seq(Storage)
    BY <1>4 DEF QueueInv, TypeOK, BuffersInPlace, EnqueueValid
  <2>2. /\ sockBuf'[s] = Nothing /\ trash' = trash
        /\ \A t \in Sockets : t # s => sockBuf'[t] = sockBuf[t] /\ valid'[t] = valid[t]
        /\ valid'[s] = Append(valid[s], b)
    BY <1>4 DEF QueueInv, TypeOK, EnqueueValid
  <2>3. /\ DOMAIN valid'[s] = DOMAIN valid[s] \cup {k}
        /\ \A i \in DOMAIN valid[s] : valid'[s][i] = valid[s][i]
        /\ valid'[s][k] = b
    BY <2>1, <2>2, AppendElements
  <2>4. Nothing \notin Storage
    BY QueueAssumption
  <2>5. \A c \in Storage :
          (\E t \in Sockets : sockBuf[t] = c)
            <=> c = b \/ \E t \in Sockets : sockBuf'[t] = c
    BY <2>2, <2>4
  <2>6. \A c \in Storage :
          (\E t \in Sockets : \E i \in DOMAIN valid'[t] : valid'[t][i] = c)
            <=> c = b \/ \E t \in Sockets : \E i \in DOMAIN valid[t] : valid[t][i] = c
    BY <2>2, <2>3
  <2>7. TypeOK /\ TypeOK'
    BY DEF QueueInv
  <2>8. \A c \in Storage : c \in Live' <=> c \in Live
    BY <1>1, <2>2, <2>5, <2>6, <2>7, LiveAround DEF LiveIs
  <2>9. Live' = Live
    BY <2>7, <2>8, LiveAround DEF LiveIs
  <2> QED
    BY <1>1, <1>2, <2>9, MoveAccounted
<1>5. CASE Refill(s)
  <2>1. PICK b \in trash : /\ sockBuf' = [sockBuf EXCEPT ![s] = b]
                           /\ trash' = trash \ {b}
    BY <1>5 DEF Refill
  <2>2. /\ sockBuf[s] = Nothing /\ sockBuf'[s] = b /\ valid' = valid
        /\ \A t \in Sockets : t # s => sockBuf'[t] = sockBuf[t]
    BY <1>5, <2>1 DEF Refill, QueueInv, TypeOK, BuffersInPlace
  <2>3. Nothing \notin Storage
    BY QueueAssumption
  <2>4. \A c \in Storage :
          (\E t \in Sockets : sockBuf'[t] = c)
            <=> c = b \/ \E t \in Sockets : sockBuf[t] = c
    BY <2>2, <2>3
  <2>5. TypeOK /\ TypeOK'
    BY DEF QueueInv
  <2>6. \A c \in Storage : c \in Live' <=> c \in Live
    BY <1>1, <2>1, <2>2, <2>4, <2>5, LiveAround DEF LiveIs
  <2>7. Live' = Live
    BY <2>5, <2>6, LiveAround DEF LiveIs
  <2> QED
    BY <1>1, <1>2, <2>7, MoveAccounted
<1> QED
  BY <1>3, <1>4, <1>5

LEMMA AllocateAccounted ==
  ASSUME QueueInv, QueueInv', StorageAccounted, NEW s \in Sockets, Allocate(s)
  PROVE  StorageAccounted'
<1>1. PICK b \in Storage : b \notin Live /\ sockBuf' = [sockBuf EXCEPT ![s] = b]
  BY AllocateFresh
<1>2. /\ sockBuf[s] = Nothing /\ sockBuf'[s] = b
      /\ valid' = valid /\ lineBuf' = lineBuf /\ trash' = trash
      /\ \A t \in Sockets : t # s => sockBuf'[t] = sockBuf[t]
  BY <1>1 DEF Allocate, QueueInv, TypeOK, BuffersInPlace
<1>3. Nothing \notin Storage /\ TypeOK /\ TypeOK'
  BY QueueAssumption DEF QueueInv
<1>4. \A c \in Storage :
        (\E t \in Sockets : sockBuf'[t] = c)
          <=> c = b \/ \E t \in Sockets : sockBuf[t] = c
  BY <1>2, <1>3
<1>5. \A c \in Storage : c \in Live' <=> c = b \/ c \in Live
  BY <1>2, <1>3, <1>4, LiveAround DEF LiveIs
<1>6. Live' = Live \cup {b}
  BY <1>3, <1>5, LiveAround DEF LiveIs
<1>7. Cardinality(Live') = Cardinality(Live) + 1
  BY <1>1, <1>3, <1>6, LiveFinite, FS_AddElement
<1>8. Kept' = Kept /\ reserved' = reserved /\ nFullTrash' = nFullTrash
      /\ nEmptyTrash' = nEmptyTrash + 1
  BY DEF Kept, Allocate
<1> HIDE DEF Live, Kept
<1> QED
  BY <1>3, <1>7, <1>8, AccountTypes DEF StorageAccounted

LEMMA RecycleAccounted ==
  ASSUME QueueInv, QueueInv', StorageAccounted, NEW l \in Lines, Recycle(l) \/ RecycleRefused(l)
  PROVE  StorageAccounted'
<1>1. TypeOK /\ TypeOK'
  BY DEF QueueInv
<1>2. CASE Recycle(l)
  <2>1. /\ lineBuf[l] \in Storage /\ lineBuf'[l] = Nothing
        /\ trash' = trash \cup {lineBuf[l]}
        /\ linePc[l] = "ready" /\ linePc'[l] = "wait"
        /\ \A m \in Lines : m # l => lineBuf'[m] = lineBuf[m] /\ linePc'[m] = linePc[m]
        /\ sockBuf' = sockBuf /\ valid' = valid
        /\ UNCHANGED <<reserved, nEmptyTrash, nFullTrash>>
    BY <1>2 DEF Recycle, QueueInv, TypeOK, BuffersInPlace, counters
  <2>2. Nothing \notin Storage
    BY QueueAssumption
  <2>3. \A c \in Storage :
          (\E m \in Lines : lineBuf[m] = c)
            <=> c = lineBuf[l] \/ \E m \in Lines : lineBuf'[m] = c
    BY <2>1, <2>2
  <2>4. \A c \in Storage : c \in Live' <=> c \in Live
    BY <1>1, <2>1, <2>3, LiveAround DEF LiveIs
  <2>5. Live' = Live
    BY <1>1, <2>4, LiveAround DEF LiveIs
  <2>6. Kept' = Kept
    BY <2>1 DEF Kept
  <2> QED
    BY <2>1, <2>5, <2>6, MoveAccounted
<1>3. CASE RecycleRefused(l)
  <2>1. Live' = Live
    BY <1>3 DEF Live, InValid, InSockets, InLines, RecycleRefused
  <2>2. /\ linePc[l] = "ready" /\ linePc'[l] = "wait" /\ lineBuf[l] # Nothing
        /\ lineBuf' = lineBuf
        /\ \A m \in Lines : m # l => linePc'[m] = linePc[m]
    BY <1>3 DEF RecycleRefused, QueueInv, TypeOK, BuffersInPlace
  <2>3. Kept' = Kept \cup {l} /\ l \notin Kept
    BY <2>2 DEF Kept
  <2>4. Cardinality(Kept') = Cardinality(Kept) + 1
    BY <1>1, <2>3, LiveFinite, FS_AddElement
  <2>5. reserved' = reserved /\ nEmptyTrash' = nEmptyTrash /\ nFullTrash' = nFullTrash + 1
    BY <1>3 DEF RecycleRefused
  <2> QED
    BY <1>1, <2>1, <2>4, <2>5, AccountTypes DEF StorageAccounted
<1> QED
  BY <1>2, <1>3

\* What a line does to the memory when it takes something from the valid
\* queue: the buffer it kept, if any, is deallocated.
LEMMA KeptReleased ==
  ASSUME TypeOK, TypeOK', StorageAccounted, NEW l \in Lines,
         linePc[l] = "wait", linePc' = [linePc EXCEPT ![l] = linePc'[l]], linePc'[l] # "wait",
         \A m \in Lines : m # l => lineBuf'[m] = lineBuf[m],
         lineBuf[l] = Nothing => Live' = Live,
         lineBuf[l] # Nothing => lineBuf[l] \in Live /\ Live' = Live \ {lineBuf[l]},
         UNCHANGED <<reserved, nEmptyTrash, nFullTrash>>
  PROVE  StorageAccounted'
<1>1. \A m \in Lines : m # l => linePc'[m] = linePc[m]
  BY DEF TypeOK
<1>2. CASE lineBuf[l] = Nothing
  <2>1. Kept' = Kept
    BY <1>1, <1>2 DEF Kept
  <2> QED
    BY <1>2, <2>1, MoveAccounted
<1>3. CASE lineBuf[l] # Nothing
  <2>1. Kept' = Kept \ {l} /\ l \in Kept
    BY <1>1, <1>3 DEF Kept
  <2>2. Cardinality(Kept') = Cardinality(Kept) - 1
    BY <2>1, LiveFinite, FS_RemoveElement
  <2>3. Cardinality(Live') = Cardinality(Live) - 1
    BY <1>3, LiveFinite, FS_RemoveElement
  <2> QED
    BY <2>2, <2>3, AccountTypes DEF StorageAccounted
<1> QED
  BY <1>2, <1>3

LEMMA DequeueAccounted ==
  ASSUME QueueInv, QueueInv', StorageAccounted, NEW l \in Lines, NEW s \in Sockets, Dequeue(l, s)
  PROVE  StorageAccounted'
<1> DEFINE b == Head(valid[s])
           old == lineBuf[l]
<1>1. TypeOK /\ TypeOK' /\ OwnersDiffer
  BY DEF QueueInv
<1>2. valid[s] \in Seq(Storage) /\ valid[s] # <<>>
  BY <1>1 DEF TypeOK, Dequeue
<1>3. /\ valid'[s] = Tail(valid[s])
      /\ \A t \in Sockets : t # s => valid'[t] = valid[t]
      /\ lineBuf'[l] = b
      /\ \A m \in Lines : m # l => lineBuf'[m] = lineBuf[m]
      /\ sockBuf' = sockBuf /\ trash' = trash
      /\ linePc[l] = "wait" /\ linePc'[l] = "process"
      /\ linePc' = [linePc EXCEPT ![l] = linePc'[l]]
      /\ UNCHANGED <<reserved, nEmptyTrash, nFullTrash>>
  BY <1>1 DEF TypeOK, Dequeue, counters
<1>4. /\ 1 \in DOMAIN valid[s] /\ b = valid[s][1] /\ b \in Storage
      /\ \A i \in DOMAIN valid'[s] : i + 1 \in DOMAIN valid[s] /\ valid'[s][i] = valid[s][i + 1]
      /\ \A i \in DOMAIN valid[s] : i # 1 => i - 1 \in DOMAIN valid'[s] /\ valid'[s][i - 1] = valid[s][i]
  <2>1. DOMAIN valid[s] = 1..Len(valid[s]) /\ Len(valid[s]) \in Nat
        /\ DOMAIN valid'[s] = 1..(Len(valid[s]) - 1)
        /\ \A i \in DOMAIN valid'[s] : i + 1 \in DOMAIN valid[s] /\ valid'[s][i] = valid[s][i + 1]
    BY <1>2, <1>3, TailElements
  <2>2. \A i \in DOMAIN valid[s] :
          i # 1 => i - 1 \in DOMAIN valid'[s] /\ valid'[s][i - 1] = valid[s][i]
    <3>1. ASSUME NEW i \in DOMAIN valid[s], i # 1
          PROVE  i - 1 \in DOMAIN valid'[s] /\ (i - 1) + 1 = i
      BY <2>1, <3>1
    <3> QED
      BY <2>1, <3>1
  <2> QED
    BY <1>2, <2>1, <2>2, TailElements
<1>5. \A c \in Storage :
        (\E t \in Sockets : \E i \in DOMAIN valid[t] : valid[t][i] = c)
          <=> c = b \/ \E t \in Sockets : \E i \in DOMAIN valid'[t] : valid'[t][i] = c
  <2>1. \A i \in DOMAIN valid[s] :
          valid[s][i] = b \/ \E j \in DOMAIN valid'[s] : valid'[s][j] = valid[s][i]
    BY <1>4
  <2>2. \A i \in DOMAIN valid'[s] : \E j \in DOMAIN valid[s] : valid[s][j] = valid'[s][i]
    BY <1>4
  <2>3. \A c \in Storage :
          (\E i \in DOMAIN valid[s] : valid[s][i] = c)
            <=> c = b \/ \E i \in DOMAIN valid'[s] : valid'[s][i] = c
    <3> HIDE DEF b
    <3> QED
      BY <1>4, <2>1, <2>2
  <2>4. \A t \in Sockets : t # s => valid'[t] = valid[t]
    BY <1>3
  <2>5. s \in Sockets
    OBVIOUS
  <2> HIDE DEF b
  <2>6. ASSUME NEW c \in Storage, NEW t \in Sockets, NEW i \in DOMAIN valid[t], valid[t][i] = c
        PROVE  c = b \/ \E u \in Sockets : \E j \in DOMAIN valid'[u] : valid'[u][j] = c
    BY <2>3, <2>4, <2>6
  <2>7. ASSUME NEW c \in Storage, NEW t \in Sockets, NEW i \in DOMAIN valid'[t], valid'[t][i] = c
        PROVE  \E u \in Sockets : \E j \in DOMAIN valid[u] : valid[u][j] = c
    BY <2>3, <2>4, <2>7
  <2>8. \E u \in Sockets : \E j \in DOMAIN valid[u] : valid[u][j] = b
    <3>1. b \in Storage
      BY <1>4
    <3> QED
      BY <2>3, <3>1
  <2> QED
    BY <2>6, <2>7, <2>8
<1>6. \A c \in Storage :
        (\E m \in Lines : lineBuf'[m] = c)
          <=> c = b \/ \E m \in Lines : m # l /\ lineBuf[m] = c
  BY <1>3
<1>7. \A c \in Storage : c # old => (c \in Live' <=> c \in Live)
  BY <1>1, <1>3, <1>5, <1>6, LiveAround DEF LiveIs
<1>8. old # Nothing => old \in Storage /\ old \in Live /\ old \notin Live'
  <2> SUFFICES ASSUME old # Nothing PROVE old \in Storage /\ old \in Live /\ old \notin Live'
    OBVIOUS
  <2>1. old \in Storage /\ old # b
    BY <1>1, <1>4 DEF TypeOK, OwnersDiffer
  <2>2. old \in Live
    BY <1>1, <2>1, LiveAround DEF LiveIs
  <2>3. /\ ~ \E t \in Sockets : sockBuf'[t] = old
        /\ ~ \E m \in Lines : lineBuf'[m] = old
        /\ old \notin trash'
    BY <1>1, <1>3, <1>6, <2>1 DEF OwnersDiffer
  <2>4. ~ \E t \in Sockets : \E i \in DOMAIN valid'[t] : valid'[t][i] = old
    BY <1>1, <1>5, <2>1 DEF OwnersDiffer
  <2>5. old \notin Live'
    BY <1>1, <2>1, <2>3, <2>4, LiveAround DEF LiveIs
  <2> QED
    BY <2>1, <2>2, <2>5
<1>9. old = Nothing => Live' = Live
  <2>1. Nothing \notin Storage
    BY QueueAssumption
  <2> QED
    BY <1>1, <1>7, <2>1, LiveAround DEF LiveIs
<1>10. old # Nothing => Live' = Live \ {old}
  BY <1>1, <1>7, <1>8, LiveAround DEF LiveIs
<1> QED
  BY <1>1, <1>3, <1>8, <1>9, <1>10, KeptReleased

LEMMA EmptyAccounted ==
  ASSUME QueueInv, QueueInv', StorageAccounted, NEW l \in Lines, DequeueEmpty(l)
  PROVE  StorageAccounted'
<1> DEFINE old == lineBuf[l]
<1>1. TypeOK /\ TypeOK' /\ OwnersDiffer /\ Nothing \notin Storage
  BY QueueAssumption DEF QueueInv
<1>2. /\ valid' = valid /\ sockBuf' = sockBuf /\ trash' = trash
      /\ lineBuf'[l] = Nothing
      /\ \A m \in Lines : m # l => lineBuf'[m] = lineBuf[m]
      /\ linePc[l] = "wait" /\ linePc'[l] = "ended"
      /\ linePc' = [linePc EXCEPT ![l] = linePc'[l]]
      /\ UNCHANGED <<reserved, nEmptyTrash, nFullTrash>>
  BY <1>1 DEF TypeOK, DequeueEmpty, counters
<1>3. \A c \in Storage :
        (\E m \in Lines : lineBuf'[m] = c) <=> \E m \in Lines : m # l /\ lineBuf[m] = c
  BY <1>1, <1>2
<1>4. \A c \in Storage : c # old => (c \in Live' <=> c \in Live)
  BY <1>1, <1>2, <1>3, LiveAround DEF LiveIs
<1>5. old # Nothing => old \in Storage /\ old \in Live /\ old \notin Live'
  <2> SUFFICES ASSUME old # Nothing PROVE old \in Storage /\ old \in Live /\ old \notin Live'
    OBVIOUS
  <2>1. old \in Storage
    BY <1>1 DEF TypeOK
  <2>2. old \in Live
    BY <1>1, <2>1, LiveAround DEF LiveIs
  <2>3. /\ ~ \E t \in Sockets : sockBuf'[t] = old
        /\ ~ \E m \in Lines : lineBuf'[m] = old
        /\ ~ \E t \in Sockets : \E i \in DOMAIN valid'[t] : valid'[t][i] = old
        /\ old \notin trash'
    BY <1>1, <1>2, <1>3, <2>1 DEF OwnersDiffer
  <2> QED
    BY <1>1, <2>1, <2>2, <2>3, LiveAround DEF LiveIs
<1>6. old = Nothing => Live' = Live
  BY <1>1, <1>4, LiveAround DEF LiveIs
<1>7. old # Nothing => Live' = Live \ {old}
  BY <1>1, <1>4, <1>5, LiveAround DEF LiveIs
<1> QED
  BY <1>1, <1>2, <1>5, <1>6, <1>7, KeptReleased

LEMMA AccountStep == QueueInv /\ QueueInv' /\ StorageAccounted /\ [Next]_vars => StorageAccounted'
<1> SUFFICES ASSUME QueueInv, QueueInv', StorageAccounted, [Next]_vars
             PROVE  StorageAccounted'
  OBVIOUS
<1>1. ASSUME NEW l \in Lines, Process(l) PROVE StorageAccounted'
  <2>1. /\ linePc[l] = "process" /\ linePc'[l] = "ready" /\ lineBuf' = lineBuf
        /\ \A m \in Lines : m # l => linePc'[m] = linePc[m]
    BY <1>1 DEF Process, QueueInv, TypeOK
  <2>2. Kept' = Kept
    BY <2>1 DEF Kept
  <2>3. Live' = Live
    BY <1>1 DEF Live, InValid, InSockets, InLines, Process
  <2>4. UNCHANGED <<reserved, nEmptyTrash, nFullTrash>>
    BY <1>1 DEF Process, counters
  <2> QED
    BY <2>2, <2>3, <2>4, MoveAccounted
<1>2. CASE EnqueueEmpty \/ UNCHANGED vars
  <2>1. Kept' = Kept /\ Live' = Live
    BY <1>2 DEF Kept, Live, InValid, InSockets, InLines, EnqueueEmpty, vars
  <2>2. UNCHANGED <<reserved, nEmptyTrash, nFullTrash>>
    BY <1>2 DEF EnqueueEmpty, vars, counters
  <2> QED
    BY <2>1, <2>2, MoveAccounted
<1> QED
  BY <1>1, <1>2, SocketAccounted, AllocateAccounted, RecycleAccounted, DequeueAccounted,
     EmptyAccounted DEF Next

(***************************************************************************)
(* The failure counters of the final report account for all memory that is *)
(* alive: no buffer leaks.                                                 *)
(***************************************************************************)
THEOREM MemoryAccounted == Spec => []StorageAccounted
BY AccountInit, AccountStep, QueueInvariant, PTL DEF Spec
=============================================================================
