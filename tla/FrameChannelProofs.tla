------------------------- MODULE FrameChannelProofs -------------------------
(***************************************************************************)
(* Proofs about FrameChannel for all sets of sockets and lines.            *)
(***************************************************************************)
EXTENDS FrameChannel, FiniteSetTheorems, TLAPS

(***************************************************************************)
(* The variables of the channel always have their types.                   *)
(***************************************************************************)
THEOREM ChannelTyping == ASSUME ChannelAssumption PROVE Spec => []TypeOK
<1>1. Init => TypeOK
  <2>1. 0 \in 0..MaxFrames
    BY ChannelAssumption DEF ChannelAssumption
  <2>2. <<>> \in Seq(Frame)
    OBVIOUS
  <2>3. Init => stopping \in BOOLEAN
    BY Zenon DEF Init
  <2> QED
    BY <2>1, <2>2, <2>3 DEF Init, TypeOK
<1>2. TypeOK /\ [Next]_vars => TypeOK'
  <2> SUFFICES ASSUME TypeOK, [Next]_vars PROVE TypeOK'
    OBVIOUS
  <2> USE DEF TypeOK
  <2>1. ASSUME NEW s \in Sockets, Arrive(s) PROVE TypeOK'
    <3>1. arrived[s] + 1 \in 1..MaxFrames
      BY <2>1, ChannelAssumption DEF ChannelAssumption, Arrive
    <3>2. [socket |-> s, n |-> arrived[s] + 1] \in Frame
      BY <3>1 DEF Frame
    <3> QED
      BY <2>1, <3>1, <3>2 DEF Arrive
  <2>2. ASSUME NEW s \in Sockets, Accept(s) PROVE TypeOK'
    BY <2>2 DEF Accept
  <2>3. ASSUME NEW s \in Sockets, Lose(s) PROVE TypeOK'
    BY <2>3 DEF Lose
  <2>4. ASSUME NEW l \in Lines, NEW s \in Sockets, Take(l, s) PROVE TypeOK'
    <3>1. /\ Head(chan[s]) \in Frame
          /\ Tail(chan[s]) \in Seq(Frame)
      BY <2>4 DEF Take
    <3> QED
      BY <2>4, <3>1 DEF Take
  <2>5. ASSUME NEW l \in Lines, Finish(l) PROVE TypeOK'
    BY <2>5 DEF Finish
  <2>6. ASSUME NEW l \in Lines, TakeStop(l) PROVE TypeOK'
    BY <2>6 DEF TakeStop
  <2>7. CASE SendStops
    BY <2>7, ChannelAssumption, FS_CardinalityType DEF ChannelAssumption, SendStops
  <2>8. CASE UNCHANGED vars
    BY <2>8 DEF vars
  <2> QED
    BY <2>1, <2>2, <2>3, <2>4, <2>5, <2>6, <2>7, <2>8 DEF Next
<1> QED
  BY <1>1, <1>2, PTL DEF Spec

(***************************************************************************)
(* The stop markers left are exactly one for each line that has not ended: *)
(* enqueue_empty(n_lines) is enough, and never too much.                   *)
(***************************************************************************)
THEOREM StopsSuffice == ASSUME ChannelAssumption PROVE Spec => []StopPerLine
<1>1. Init => StopPerLine
  BY DEF Init, StopPerLine
<1>2. TypeOK /\ StopPerLine /\ [Next]_vars => StopPerLine'
  <2> SUFFICES ASSUME TypeOK, StopPerLine, [Next]_vars PROVE StopPerLine'
    OBVIOUS
  <2> USE DEF TypeOK, StopPerLine
  <2>1. ASSUME NEW l \in Lines, TakeStop(l) PROVE StopPerLine'
    <3>1. IsFiniteSet(Lines \ ended)
      BY ChannelAssumption, FS_Difference DEF ChannelAssumption
    <3>2. stopping
      BY <2>1 DEF TakeStop
    <3>3. Lines \ ended' = (Lines \ ended) \ {l}
      BY <2>1 DEF TakeStop
    <3>4. l \in Lines \ ended
      BY <2>1 DEF TakeStop
    <3>5. Cardinality((Lines \ ended) \ {l}) = Cardinality(Lines \ ended) - 1
      BY <3>1, <3>4, FS_RemoveElement, Zenon
    <3> QED
      BY <2>1, <3>2, <3>3, <3>5 DEF TakeStop
  <2>2. CASE SendStops
    <3>1. ended = {} /\ stops = 0
      BY <2>2 DEF SendStops
    <3>2. Lines \ ended' = Lines
      BY <2>2, <3>1 DEF SendStops
    <3>3. Cardinality(Lines) \in Nat
      BY ChannelAssumption, FS_CardinalityType DEF ChannelAssumption
    <3> QED
      BY <2>2, <3>1, <3>2, <3>3 DEF SendStops
  <2>3. CASE UNCHANGED <<stops, stopping, ended>>
    BY <2>3
  <2> QED
    BY <2>1, <2>2, <2>3 DEF Next, vars, Arrive, Accept, Lose, Take, Finish
<1> QED
  BY <1>1, <1>2, ChannelTyping, PTL DEF Spec

-----------------------------------------------------------------------------

(***************************************************************************)
(* The strengthening that makes the two frame invariants inductive: a      *)
(* frame about to be enqueued is the last one that arrived on its socket.  *)
(***************************************************************************)
HandIsLatest ==
  \A s \in Sockets :
    hand[s] # Nothing => hand[s].socket = s /\ hand[s].n = arrived[s]

FrameInv == TypeOK /\ Conserved /\ FifoPerSocket /\ HandIsLatest

LEMMA FrameFields ==
  ASSUME ChannelAssumption, NEW f \in Frame
  PROVE  /\ f.socket \in Sockets
         /\ f.n \in 1..MaxFrames
         /\ f # Nothing
         /\ f = [socket |-> f.socket, n |-> f.n]
BY ChannelAssumption DEF ChannelAssumption, Frame

\* What Append and Tail do to the elements of a queue.
LEMMA AppendElements ==
  ASSUME NEW q \in Seq(Frame), NEW e \in Frame
  PROVE  /\ DOMAIN Append(q, e) = DOMAIN q \cup {Len(q) + 1}
         /\ DOMAIN q = 1..Len(q)
         /\ \A i \in DOMAIN q : Append(q, e)[i] = q[i]
         /\ Append(q, e)[Len(q) + 1] = e
OBVIOUS

LEMMA TailElements ==
  ASSUME NEW q \in Seq(Frame), q # <<>>
  PROVE  /\ 1 \in DOMAIN q /\ Head(q) = q[1]
         /\ DOMAIN q = 1..Len(q)
         /\ DOMAIN Tail(q) = 1..(Len(q) - 1)
         /\ \A i \in DOMAIN Tail(q) : i + 1 \in DOMAIN q /\ Tail(q)[i] = q[i + 1]
         /\ \A i \in DOMAIN q : i # 1 => i - 1 \in DOMAIN Tail(q) /\ Tail(q)[i - 1] = q[i]
OBVIOUS

\* Letting go of the frame in hand removes it, and only it, from InHand.
LEMMA ReleaseHand ==
  ASSUME ChannelAssumption, FrameInv, NEW s \in Sockets, hand[s] # Nothing,
         hand' = [hand EXCEPT ![s] = Nothing]
  PROVE  /\ hand[s] \in InHand /\ hand[s] \in Frame
         /\ InHand' = InHand \ {hand[s]}
<1>1. \A t \in Sockets : hand[t] = hand[s] => t = s
  BY DEF FrameInv, HandIsLatest
<1>2. hand \in [Sockets -> Frame \cup {Nothing}]
  BY DEF FrameInv, TypeOK
<1> QED
  BY <1>1, <1>2 DEF InHand

LEMMA AcceptQueued ==
  ASSUME ChannelAssumption, FrameInv, NEW s \in Sockets, Accept(s)
  PROVE  Queued' = Queued \cup {hand[s]}
<1> DEFINE e == hand[s]
<1>1. chan[s] \in Seq(Frame) /\ e \in Frame
  BY DEF FrameInv, TypeOK, Accept
<1>2. /\ chan'[s] = Append(chan[s], e)
      /\ \A t \in Sockets : t # s => chan'[t] = chan[t]
  BY DEF FrameInv, TypeOK, Accept
<1>3. \A t \in Sockets : \A i \in DOMAIN chan'[t] :
        chan'[t][i] \in Queued \cup {e}
  BY <1>1, <1>2, AppendElements DEF Queued
<1>4. \A t \in Sockets : \A i \in DOMAIN chan[t] :
        i \in DOMAIN chan'[t] /\ chan'[t][i] = chan[t][i]
  BY <1>1, <1>2, AppendElements
<1>5. \E i \in DOMAIN chan'[s] : chan'[s][i] = e
  BY <1>1, <1>2, AppendElements
<1> QED
  BY <1>3, <1>4, <1>5 DEF Queued

LEMMA TakeQueued ==
  ASSUME ChannelAssumption, FrameInv, NEW l \in Lines, NEW s \in Sockets, Take(l, s)
  PROVE  /\ Head(chan[s]) \in Queued /\ Head(chan[s]) \in Frame
         /\ Queued' = Queued \ {Head(chan[s])}
<1> DEFINE e == Head(chan[s])
<1>1. chan[s] \in Seq(Frame) /\ chan[s] # <<>>
  BY DEF FrameInv, TypeOK, Take
<1>2. /\ chan'[s] = Tail(chan[s])
      /\ \A t \in Sockets : t # s => chan'[t] = chan[t]
  BY DEF FrameInv, TypeOK, Take
<1>3. /\ e = chan[s][1] /\ 1 \in DOMAIN chan[s]
      /\ DOMAIN chan[s] = 1..Len(chan[s])
      /\ DOMAIN chan'[s] = 1..(Len(chan[s]) - 1)
      /\ \A i \in DOMAIN chan'[s] :
           i + 1 \in DOMAIN chan[s] /\ chan'[s][i] = chan[s][i + 1]
      /\ \A i \in DOMAIN chan[s] :
           i # 1 => i - 1 \in DOMAIN chan'[s] /\ chan'[s][i - 1] = chan[s][i]
  BY <1>1, <1>2, TailElements
<1>4. \A t \in Sockets : \A i \in DOMAIN chan[t] :
        chan[t][i] = e => t = s /\ i = 1
  <2> SUFFICES ASSUME NEW t \in Sockets, NEW i \in DOMAIN chan[t], chan[t][i] = e
               PROVE  t = s /\ i = 1
    OBVIOUS
  <2>1. t = s
    BY <1>3 DEF FrameInv, FifoPerSocket
  <2>2. i \in 1..Len(chan[s])
    BY <1>3, <2>1
  <2>3. e.n \in Int
    BY <1>1, <1>3, FrameFields
  <2>4. ~(1 < i)
    BY <1>3, <2>1, <2>3 DEF FrameInv, FifoPerSocket
  <2> QED
    BY <2>1, <2>2, <2>4
<1>5. \A t \in Sockets : \A i \in DOMAIN chan'[t] : chan'[t][i] \in Queued \ {e}
  <2> SUFFICES ASSUME NEW t \in Sockets, NEW i \in DOMAIN chan'[t]
               PROVE  chan'[t][i] \in Queued \ {e}
    OBVIOUS
  <2>1. CASE t = s
    <3>1. i \in 1..(Len(chan[s]) - 1) /\ i + 1 \in DOMAIN chan[s] /\ chan'[t][i] = chan[s][i + 1]
      BY <1>3, <2>1
    <3>2. i + 1 # 1
      BY <3>1
    <3> QED
      BY <1>4, <3>1, <3>2 DEF Queued
  <2>2. CASE t # s
    BY <1>2, <1>4, <2>2 DEF Queued
  <2> QED
    BY <2>1, <2>2
<1>6. \A f \in Queued \ {e} : \E t \in Sockets : \E i \in DOMAIN chan'[t] : chan'[t][i] = f
  <2> SUFFICES ASSUME NEW t \in Sockets, NEW i \in DOMAIN chan[t], chan[t][i] # e
               PROVE  \E j \in DOMAIN chan'[t] : chan'[t][j] = chan[t][i]
    BY DEF Queued
  <2>1. CASE t = s
    BY <1>3, <2>1
  <2>2. CASE t # s
    BY <1>2, <2>2
  <2> QED
    BY <2>1, <2>2
<1>7. e \in Queued /\ e \in Frame
  BY <1>1, <1>3 DEF Queued
<1>8. Queued' \subseteq Queued \ {e}
  BY <1>5 DEF Queued
<1>9. Queued \ {e} \subseteq Queued'
  BY <1>6 DEF Queued
<1> QED
  BY <1>7, <1>8, <1>9

LEMMA TakeHeld ==
  ASSUME ChannelAssumption, FrameInv, NEW l \in Lines, NEW s \in Sockets, Take(l, s)
  PROVE  Held' = Held \cup {Head(chan[s])}
<1>1. Head(chan[s]) # Nothing
  BY TakeQueued, FrameFields
<1> QED
  BY <1>1 DEF FrameInv, TypeOK, Take, Held

LEMMA FinishHeld ==
  ASSUME ChannelAssumption, FrameInv, NEW l \in Lines, Finish(l)
  PROVE  /\ held[l] \in Held /\ held[l] \in Frame
         /\ Held' = Held \ {held[l]}
<1>1. \A m \in Lines : held[m] = held[l] => m = l
  BY DEF FrameInv, Conserved, Finish
<1> QED
  BY <1>1 DEF FrameInv, TypeOK, Finish, Held

LEMMA ArriveHand ==
  ASSUME ChannelAssumption, FrameInv, NEW s \in Sockets, Arrive(s)
  PROVE  /\ hand'[s] \in Frame
         /\ hand'[s].socket = s /\ hand'[s].n = arrived[s] + 1
         /\ InHand' = InHand \cup {hand'[s]}
<1>1. arrived[s] + 1 \in 1..MaxFrames
  BY ChannelAssumption DEF ChannelAssumption, FrameInv, TypeOK, Arrive
<1>2. hand'[s] = [socket |-> s, n |-> arrived[s] + 1]
  BY DEF FrameInv, TypeOK, Arrive
<1>3. hand'[s] \in Frame
  BY <1>1, <1>2 DEF Frame
<1>4. hand'[s] # Nothing
  BY <1>3, FrameFields
<1> QED
  BY <1>2, <1>3, <1>4 DEF FrameInv, TypeOK, Arrive, InHand

\* Frames are conserved by every step.
LEMMA ConservedStep ==
  ASSUME ChannelAssumption PROVE FrameInv /\ [Next]_vars => Conserved'
<1> SUFFICES ASSUME FrameInv, [Next]_vars PROVE Conserved'
  OBVIOUS
<1>1. ASSUME NEW s \in Sockets, Arrive(s) PROVE Conserved'
  <2> DEFINE e == hand'[s]
  <2>1. \A f \in Frame : f.n <= arrived'[f.socket] <=> f.n <= arrived[f.socket] \/ f = e
    <3> SUFFICES ASSUME NEW f \in Frame
                 PROVE  f.n <= arrived'[f.socket] <=> f.n <= arrived[f.socket] \/ f = e
      OBVIOUS
    <3>1. arrived[f.socket] \in Int /\ f.n \in Int /\ f.socket \in Sockets
      BY FrameFields DEF FrameInv, TypeOK
    <3>2. f = e <=> f.socket = s /\ f.n = arrived[s] + 1
      BY <1>1, ArriveHand, FrameFields
    <3> QED
      BY SMTT(60), <1>1, <3>1, <3>2 DEF Arrive, FrameInv, TypeOK
  <2>2. ~(e.n <= arrived[e.socket])
    BY <1>1, ArriveHand DEF FrameInv, TypeOK
  <2>3. e \in Frame /\ InHand' = InHand \cup {e}
    BY <1>1, ArriveHand
  <2>4. /\ Queued' = Queued /\ Held' = Held
        /\ UNCHANGED <<held, lost, done>>
    BY <1>1 DEF Arrive, Queued, Held
  <2>5. e \notin InHand \cup Queued \cup Held \cup lost \cup done
    BY <2>2, <2>3 DEF FrameInv, Conserved
  <2> HIDE DEF e
  <2> QED
    BY <2>1, <2>3, <2>4, <2>5 DEF FrameInv, Conserved
<1>2. ASSUME NEW s \in Sockets, Accept(s) PROVE Conserved'
  <2>1. /\ hand[s] \in InHand /\ InHand' = InHand \ {hand[s]}
    BY <1>2, ReleaseHand DEF Accept
  <2>2. Queued' = Queued \cup {hand[s]}
    BY <1>2, AcceptQueued
  <2>3. Held' = Held /\ UNCHANGED <<arrived, held, lost, done>>
    BY <1>2 DEF Accept, Held
  <2> QED
    BY <2>1, <2>2, <2>3 DEF FrameInv, Conserved
<1>3. ASSUME NEW s \in Sockets, Lose(s) PROVE Conserved'
  <2>1. /\ hand[s] \in InHand /\ InHand' = InHand \ {hand[s]}
    BY <1>3, ReleaseHand DEF Lose
  <2>2. /\ Queued' = Queued /\ Held' = Held /\ lost' = lost \cup {hand[s]}
        /\ UNCHANGED <<arrived, held, done>>
    BY <1>3 DEF Lose, Queued, Held
  <2> QED
    BY <2>1, <2>2 DEF FrameInv, Conserved
<1>4. ASSUME NEW l \in Lines, NEW s \in Sockets, Take(l, s) PROVE Conserved'
  <2> DEFINE e == Head(chan[s])
  <2>1. e \in Queued /\ e \in Frame /\ Queued' = Queued \ {e}
    BY <1>4, TakeQueued
  <2>2. Held' = Held \cup {e}
    BY <1>4, TakeHeld
  <2>3. InHand' = InHand /\ UNCHANGED <<arrived, lost, done>>
    BY <1>4 DEF Take, InHand
  <2>4. held' = [held EXCEPT ![l] = e] /\ held[l] = Nothing
    BY <1>4 DEF Take
  <2>5. e \notin Held
    BY <2>1 DEF FrameInv, Conserved
  <2> HIDE DEF e
  <2>6. \A m, k \in Lines : held'[m] # Nothing /\ held'[m] = held'[k] => m = k
    BY <2>4, <2>5 DEF FrameInv, Conserved, TypeOK, Held
  <2> QED
    BY <2>1, <2>2, <2>3, <2>6 DEF FrameInv, Conserved
<1>5. ASSUME NEW l \in Lines, Finish(l) PROVE Conserved'
  <2>1. held[l] \in Held /\ Held' = Held \ {held[l]}
    BY <1>5, FinishHeld
  <2>2. /\ Queued' = Queued /\ InHand' = InHand /\ done' = done \cup {held[l]}
        /\ UNCHANGED <<arrived, lost>>
    BY <1>5 DEF Finish, Queued, InHand
  <2>3. \A m, k \in Lines : held'[m] # Nothing /\ held'[m] = held'[k] => m = k
    BY <1>5 DEF FrameInv, Conserved, TypeOK, Finish
  <2> QED
    BY <2>1, <2>2, <2>3 DEF FrameInv, Conserved
<1>6. CASE UNCHANGED <<arrived, hand, chan, held, lost, done>>
  BY <1>6 DEF FrameInv, Conserved, InHand, Queued, Held
<1> QED
  BY <1>1, <1>2, <1>3, <1>4, <1>5, <1>6 DEF Next, vars, TakeStop, SendStops

\* Every step keeps the queues in order and behind them the frame in hand.
LEMMA OrderStep ==
  ASSUME ChannelAssumption PROVE FrameInv /\ [Next]_vars => FifoPerSocket' /\ HandIsLatest'
<1> SUFFICES ASSUME FrameInv, [Next]_vars PROVE FifoPerSocket' /\ HandIsLatest'
  OBVIOUS
<1> USE DEF FifoPerSocket
<1>1. ASSUME NEW s \in Sockets, Arrive(s) PROVE FifoPerSocket' /\ HandIsLatest'
  <2>1. FifoPerSocket'
    BY <1>1 DEF Arrive, Held, FrameInv
  <2>2. HandIsLatest'
    BY <1>1, ArriveHand DEF Arrive, FrameInv, HandIsLatest, TypeOK
  <2> QED
    BY <2>1, <2>2
<1>2. ASSUME NEW s \in Sockets, Accept(s) PROVE FifoPerSocket' /\ HandIsLatest'
  <2> DEFINE e == hand[s]
  <2>1. /\ e \in InHand /\ e \in Frame
        /\ e.socket = s /\ e.n = arrived[s]
    BY <1>2, ReleaseHand DEF Accept, FrameInv, HandIsLatest
  <2>2. \A f \in Queued \cup Held \cup done : f.socket = s => f.n < e.n
    <3> SUFFICES ASSUME NEW f \in Queued \cup Held \cup done, f.socket = s
                 PROVE  f.n < e.n
      OBVIOUS
    <3>1. f \in Frame
      BY DEF FrameInv, TypeOK, Queued, Held
    <3>2. f.n <= arrived[s] /\ f # e
      BY <2>1, <3>1 DEF FrameInv, Conserved
    <3>3. f.n # e.n
      BY <2>1, <3>1, <3>2, FrameFields
    <3>4. f.n \in Int /\ e.n \in Int
      BY <2>1, <3>1, FrameFields
    <3> QED
      BY <2>1, <3>2, <3>3, <3>4
  <2>3. /\ chan[s] \in Seq(Frame)
        /\ chan'[s] = Append(chan[s], e)
        /\ \A t \in Sockets : t # s => chan'[t] = chan[t]
    BY <1>2 DEF Accept, FrameInv, TypeOK
  <2>4. /\ DOMAIN chan'[s] = DOMAIN chan[s] \cup {Len(chan[s]) + 1}
        /\ DOMAIN chan[s] = 1..Len(chan[s]) /\ Len(chan[s]) \in Nat
        /\ \A i \in DOMAIN chan[s] : chan'[s][i] = chan[s][i]
        /\ chan'[s][Len(chan[s]) + 1] = e
    BY <2>1, <2>3, AppendElements
  <2>5. \A i \in DOMAIN chan[s] : chan[s][i] \in Queued
    BY DEF Queued
  <2>6. Held' = Held /\ done' = done
    BY <1>2 DEF Accept, Held
  <2> HIDE DEF e
  <2>7. ASSUME NEW t \in Sockets
        PROVE  /\ \A i \in DOMAIN chan'[t] : chan'[t][i].socket = t
               /\ \A i, j \in DOMAIN chan'[t] : i < j => chan'[t][i].n < chan'[t][j].n
               /\ \A i \in DOMAIN chan'[t], f \in Held' \cup done' :
                    f.socket = t => f.n < chan'[t][i].n
    <3>1. CASE t # s
      BY <2>3, <2>6, <3>1 DEF FrameInv
    <3>2. CASE t = s
      <4>1. \A i \in DOMAIN chan'[s] : chan'[s][i].socket = s
        BY <2>1, <2>4 DEF FrameInv
      <4>2. \A i, j \in DOMAIN chan'[s] : i < j => chan'[s][i].n < chan'[s][j].n
        <5> SUFFICES ASSUME NEW i \in DOMAIN chan'[s], NEW j \in DOMAIN chan'[s], i < j
                     PROVE  chan'[s][i].n < chan'[s][j].n
          OBVIOUS
        <5>1. i \in DOMAIN chan[s]
          BY <2>4
        <5>2. CASE j \in DOMAIN chan[s]
          BY <2>4, <5>1, <5>2 DEF FrameInv
        <5>3. CASE j = Len(chan[s]) + 1
          BY <2>2, <2>4, <2>5, <5>1, <5>3 DEF FrameInv
        <5> QED
          BY <2>4, <5>2, <5>3
      <4>3. \A i \in DOMAIN chan'[s], f \in Held \cup done :
              f.socket = s => f.n < chan'[s][i].n
        BY <2>2, <2>4 DEF FrameInv
      <4> QED
        BY <2>6, <3>2, <4>1, <4>2, <4>3
    <3> QED
      BY <3>1, <3>2
  <2>8. HandIsLatest'
    BY <1>2 DEF Accept, FrameInv, HandIsLatest, TypeOK
  <2> QED
    BY <2>7, <2>8
<1>3. ASSUME NEW s \in Sockets, Lose(s) PROVE FifoPerSocket' /\ HandIsLatest'
  BY <1>3 DEF Lose, Held, FrameInv, HandIsLatest, TypeOK
<1>4. ASSUME NEW l \in Lines, NEW s \in Sockets, Take(l, s)
      PROVE  FifoPerSocket' /\ HandIsLatest'
  <2> DEFINE e == Head(chan[s])
  <2>1. /\ chan[s] \in Seq(Frame) /\ chan[s] # <<>>
        /\ chan'[s] = Tail(chan[s])
        /\ \A t \in Sockets : t # s => chan'[t] = chan[t]
    BY <1>4 DEF Take, FrameInv, TypeOK
  <2>2. /\ e = chan[s][1] /\ 1 \in DOMAIN chan[s]
        /\ DOMAIN chan'[s] = 1..(Len(chan[s]) - 1)
        /\ \A i \in DOMAIN chan'[s] :
             i + 1 \in DOMAIN chan[s] /\ chan'[s][i] = chan[s][i + 1]
    BY <2>1, TailElements
  <2>3. Held' = Held \cup {e} /\ done' = done
    BY <1>4, TakeHeld DEF Take
  <2> HIDE DEF e
  <2>4. ASSUME NEW t \in Sockets
        PROVE  /\ \A i \in DOMAIN chan'[t] : chan'[t][i].socket = t
               /\ \A i, j \in DOMAIN chan'[t] : i < j => chan'[t][i].n < chan'[t][j].n
               /\ \A i \in DOMAIN chan'[t], f \in Held' \cup done' :
                    f.socket = t => f.n < chan'[t][i].n
    <3>1. CASE t # s
      <4>1. e.socket # t
        BY <2>2, <3>1 DEF FrameInv
      <4> QED
        BY <2>1, <2>3, <3>1, <4>1 DEF FrameInv
    <3>2. CASE t = s
      <4>1. \A i, j \in DOMAIN chan'[s] : i < j => i + 1 < j + 1
        BY <2>2
      <4>2. \A i \in DOMAIN chan'[s] : 1 < i + 1
        BY <2>2
      <4>3. /\ \A i \in DOMAIN chan'[s] : chan'[s][i].socket = s
            /\ \A i, j \in DOMAIN chan'[s] : i < j => chan'[s][i].n < chan'[s][j].n
        BY <2>2, <4>1 DEF FrameInv
      <4>4. \A i \in DOMAIN chan'[s] : e.n < chan'[s][i].n
        BY <2>2, <4>2 DEF FrameInv
      <4>5. \A i \in DOMAIN chan'[s], f \in Held \cup done :
              f.socket = s => f.n < chan'[s][i].n
        BY <2>2 DEF FrameInv
      <4> QED
        BY <2>3, <3>2, <4>3, <4>4, <4>5
    <3> QED
      BY <3>1, <3>2
  <2>5. HandIsLatest'
    BY <1>4 DEF Take, FrameInv, HandIsLatest
  <2> QED
    BY <2>4, <2>5
<1>5. ASSUME NEW l \in Lines, Finish(l) PROVE FifoPerSocket' /\ HandIsLatest'
  <2>1. Held' \cup done' = Held \cup done
    BY <1>5, FinishHeld DEF Finish
  <2> QED
    BY <1>5, <2>1 DEF Finish, FrameInv, HandIsLatest
<1>6. CASE UNCHANGED <<arrived, hand, chan, held, lost, done>>
  BY <1>6 DEF FrameInv, HandIsLatest, Held
<1> QED
  BY <1>1, <1>2, <1>3, <1>4, <1>5, <1>6 DEF Next, vars, TakeStop, SendStops

LEMMA FrameInvariance == ASSUME ChannelAssumption PROVE Spec => []FrameInv
<1>1. Init => FrameInv
  <2>1. Init => TypeOK
    <3>1. 0 \in 0..MaxFrames
      BY ChannelAssumption DEF ChannelAssumption
    <3>2. <<>> \in Seq(Frame)
      OBVIOUS
    <3>3. Init => stopping \in BOOLEAN
      BY Zenon DEF Init
    <3> QED
      BY <3>1, <3>2, <3>3 DEF Init, TypeOK
  <2>2. Init => FifoPerSocket /\ HandIsLatest
    BY DEF Init, FifoPerSocket, HandIsLatest
  <2>3. Init => Conserved
    <3> SUFFICES ASSUME Init PROVE Conserved
      OBVIOUS
    <3>1. InHand = {} /\ Queued = {} /\ Held = {} /\ lost = {} /\ done = {}
      BY DEF Init, InHand, Queued, Held
    <3>2. \A f \in Frame : ~(f.n <= arrived[f.socket])
      BY FrameFields DEF Init
    <3>3. \A l \in Lines : held[l] = Nothing
      BY DEF Init
    <3> QED
      BY <3>1, <3>2, <3>3 DEF Conserved
  <2> QED
    BY <2>1, <2>2, <2>3 DEF FrameInv
<1>2. FrameInv /\ TypeOK' /\ [Next]_vars => FrameInv'
  BY ConservedStep, OrderStep DEF FrameInv
<1> QED
  BY <1>1, <1>2, ChannelTyping, PTL DEF Spec

(***************************************************************************)
(* No frame is ever duplicated or lost without being counted as lost.      *)
(***************************************************************************)
THEOREM FramesConserved == ASSUME ChannelAssumption PROVE Spec => []Conserved
<1>1. FrameInv => Conserved
  BY DEF FrameInv
<1> QED
  BY <1>1, FrameInvariance, PTL

(***************************************************************************)
(* The frames of a socket reach the analysis lines in arrival order.       *)
(***************************************************************************)
THEOREM FramesInOrder == ASSUME ChannelAssumption PROVE Spec => []FifoPerSocket
<1>1. FrameInv => FifoPerSocket
  BY DEF FrameInv
<1> QED
  BY <1>1, FrameInvariance, PTL
=============================================================================
