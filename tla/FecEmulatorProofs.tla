-------------------------- MODULE FecEmulatorProofs --------------------------
(***************************************************************************)
(* Proofs about FecEmulator for all sets of FECs, any number of commands   *)
(* and any width of the frame counter.                                     *)
(***************************************************************************)
EXTENDS FecEmulator, Integers, TLAPS

Places == {"none", "spawned", "toStart", "starting", "looping", "toPause", "pausing",
           "constructed", "toRest", "resting", "ended", "hung"}

\* What expires_after on the timer of a FEC does: the sender goes on to its place, another
\* one that waits on the timer may be gone, the rest stays where it is.
LEMMA ExpiryEffect ==
  ASSUME TypeOK, NEW k \in Senders, NEW place \in Places, ExpiresAfter(k, place)
  PROVE  /\ at' \in [Senders -> Places]
         /\ at'[k] = place
         /\ \A j \in Senders \ {k} :
              \/ at'[j] = at[j]
              \/ /\ fecOf[j] = fecOf[k]
                 /\ at[j] \in {"starting", "pausing", "resting"}
                 /\ at'[j] = IF at[j] = "resting" THEN "hung" ELSE "ended"
<1>1. at \in [Senders -> Places]
  BY DEF TypeOK, Places
<1>2. PICK disturbed \in SUBSET Waiting(k) :
        at' = [j \in Senders |->
                 IF j \in disturbed THEN IF at[j] = "resting" THEN "hung" ELSE "ended"
                 ELSE IF j = k THEN place ELSE at[j]]
  BY DEF ExpiresAfter
<1>3. \A j \in disturbed :
        j # k /\ fecOf[j] = fecOf[k] /\ at[j] \in {"starting", "pausing", "resting"}
  BY DEF Waiting
<1> QED
  BY <1>1, <1>2, <1>3 DEF Places

\* async_wait moves its sender, from where it is about to wait to where it waits.
LEMMA AwaitEffect ==
  ASSUME NEW k \in Senders, Await(k)
  PROVE  /\ at[k] \in {"toStart", "toPause", "toRest"}
         /\ \E place \in {"starting", "pausing", "resting"} : at' = [at EXCEPT ![k] = place]
<1>1. DOMAIN Waited = {"toStart", "toPause", "toRest"}
  BY DEF Waited
<1>2. \A x \in DOMAIN Waited : Waited[x] \in {"starting", "pausing", "resting"}
  BY DEF Waited
<1> QED
  BY <1>1, <1>2 DEF Await

LEMMA NextCounter ==
  ASSUME NEW n \in Counter
  PROVE  /\ (n + 1) % Width \in Counter
         /\ (n + 1) % Width # 0 => (n + 1) % Width = n + 1
<1>1. n \in Nat /\ Width \in Nat /\ Width > 0 /\ n < Width
  BY EmulatorAssumption DEF Counter
<1>2. CASE n + 1 < Width
  BY <1>1, <1>2 DEF Counter
<1>3. CASE n + 1 = Width
  BY <1>1, <1>3 DEF Counter
<1> QED
  BY <1>1, <1>2, <1>3

LEMMA TypingStep == TypeOK /\ [Next]_vars => TypeOK'
<1> SUFFICES ASSUME TypeOK, [Next]_vars PROVE TypeOK'
  OBVIOUS
<1>1. ASSUME NEW f \in Fecs, ResetCounter(f) PROVE TypeOK'
  <2>1. 0 \in Counter
    BY EmulatorAssumption DEF Counter
  <2>2. late' \in BOOLEAN
    BY <1>1, Zenon DEF ResetCounter, TypeOK
  <2> QED
    BY <1>1, <2>1, <2>2 DEF ResetCounter, TypeOK, senderVars
<1>2. ASSUME NEW f \in Fecs, SwitchOn(f) PROVE TypeOK'
  <2>1. spawned + 1 \in Senders /\ spawned' \in 0..NSenders
    BY <1>2, EmulatorAssumption DEF SwitchOn, TypeOK, Senders
  <2> QED
    BY <1>2, <2>1 DEF SwitchOn, TypeOK
<1>3. ASSUME NEW f \in Fecs, SwitchOff(f) PROVE TypeOK'
  BY <1>3 DEF SwitchOff, TypeOK, senderVars, wire
<1>4. ASSUME NEW k \in Senders, Start(k) \/ Pause(k) PROVE TypeOK'
  <2>1. at' \in [Senders -> Places]
    BY <1>4, ExpiryEffect DEF Start, Pause, Places
  <2> QED
    BY <1>4, <2>1 DEF Start, Pause, TypeOK, Places, listenVars, wire
<1>5. ASSUME NEW k \in Senders, TestFlag(k) \/ Await(k) PROVE TypeOK'
  <2>1. at' \in [Senders -> Places]
    BY <1>5, AwaitEffect DEF TestFlag, TypeOK, Places
  <2> QED
    BY <1>5, <2>1 DEF TestFlag, Await, TypeOK, Places, listenVars, wire
<1>6. ASSUME NEW k \in Senders, Construct(k) PROVE TypeOK'
  <2>1. counter' \in Counter
    BY <1>6, NextCounter DEF Construct, RequestCounter, TypeOK
  <2>2. late' \in BOOLEAN /\ mixed' \in BOOLEAN
    BY <1>6, Zenon DEF Construct, RequestCounter, TypeOK
  <2>3. frame' \in [Senders -> Counter]
    BY <1>6 DEF Construct, TypeOK
  <2> QED
    BY <1>6, <2>1, <2>2, <2>3 DEF Construct, TypeOK, listenVars
<1>7. ASSUME NEW k \in Senders, Send(k) PROVE TypeOK'
  <2>1. at' \in [Senders -> Places]
    BY <1>7, ExpiryEffect DEF Send, Places
  <2>2. twice' \in BOOLEAN
    BY <1>7, Zenon DEF Send, TypeOK
  <2>3. 0 \in Counter
    BY EmulatorAssumption DEF Counter
  <2>4. extra' \in [Fecs -> 0..2] /\ sent' \in SUBSET Counter /\ frame' \in [Senders -> Counter]
    BY <1>7, <2>3 DEF Send, TypeOK
  <2> QED
    BY <1>7, <2>1, <2>2, <2>4 DEF Send, TypeOK, Places, listenVars
<1>8. CASE UNCHANGED vars
  BY <1>8 DEF vars, TypeOK, listenVars, senderVars, wire
<1> QED
  BY <1>1, <1>2, <1>3, <1>4, <1>5, <1>6, <1>7, <1>8 DEF Next, Sender

(***************************************************************************)
(* The variables of the emulator always have their types.                  *)
(***************************************************************************)
THEOREM EmulatorTyping == Spec => []TypeOK
<1>1. Init => TypeOK
  <2>1. 0 \in Counter /\ 0 \in 0..NSenders
    BY EmulatorAssumption DEF Counter
  <2>2. (CHOOSE f \in Fecs : TRUE) \in Fecs
    BY EmulatorAssumption
  <2>3. ASSUME Init
        PROVE  {nonStop, late, twice, mixed} \subseteq BOOLEAN
    BY <2>3, Zenon DEF Init
  <2>4. ASSUME Init PROVE fecOf \in [Senders -> Fecs]
    BY <2>2, <2>4, Zenon DEF Init
  <2>5. ASSUME Init PROVE listen \in [Fecs -> {"launch", "ready", "on", "returned"}]
    BY <2>5 DEF Init
  <2>6. ASSUME Init
        PROVE  /\ dataOnly \in SUBSET Fecs /\ off \in [Fecs -> BOOLEAN] /\ counter \in Counter
               /\ spawned \in 0..NSenders /\ frame \in [Senders -> Counter]
               /\ at \in [Senders -> {"none"}] /\ sent \in SUBSET Counter
               /\ extra \in [Fecs -> 0..2] /\ overlap \in SUBSET Fecs
    BY <2>1, <2>6 DEF Init
  <2> QED
    BY <2>3, <2>4, <2>5, <2>6 DEF TypeOK
<1> QED
  BY <1>1, TypingStep, PTL DEF Spec

-----------------------------------------------------------------------------

\* The senders that were spawned are those that are somewhere.
SpawnedInv == \A k \in Senders : at[k] = "none" <=> k > spawned

LEMMA SpawnedStep == SpawnedInv /\ TypeOK /\ [Next]_vars => SpawnedInv'
<1> SUFFICES ASSUME SpawnedInv, TypeOK, [Next]_vars PROVE SpawnedInv'
  OBVIOUS
<1> USE DEF SpawnedInv
<1>1. ASSUME NEW f \in Fecs, ResetCounter(f) \/ SwitchOff(f) PROVE SpawnedInv'
  BY <1>1 DEF ResetCounter, SwitchOff, senderVars
<1>2. ASSUME NEW f \in Fecs, SwitchOn(f) PROVE SpawnedInv'
  BY <1>2, EmulatorAssumption DEF SwitchOn, TypeOK, Senders
<1>3. ASSUME NEW k \in Senders, Start(k) \/ Pause(k) \/ Send(k) PROVE SpawnedInv'
  BY <1>3, ExpiryEffect DEF Start, Pause, Send, Places
<1>4. ASSUME NEW k \in Senders, TestFlag(k) \/ Construct(k) PROVE SpawnedInv'
  BY <1>4 DEF TestFlag, Construct, TypeOK
<1>6. ASSUME NEW k \in Senders, Await(k) PROVE SpawnedInv'
  BY <1>6, AwaitEffect DEF Await, TypeOK
<1>5. CASE UNCHANGED vars
  BY <1>5 DEF vars, senderVars
<1> QED
  BY <1>1, <1>2, <1>3, <1>4, <1>5, <1>6 DEF Next, Sender

LEMMA SpawnedInvariance == Spec => [](SpawnedInv /\ TypeOK)
<1>1. Init => SpawnedInv
  BY EmulatorAssumption DEF Init, SpawnedInv, Senders
<1> QED
  BY <1>1, SpawnedStep, EmulatorTyping, PTL DEF Spec

(***************************************************************************)
(* A FEC that is on has a sender that goes on: whoever ends or hangs       *)
(* another sender of its FEC is itself one that goes on.                   *)
(***************************************************************************)
THEOREM NeverSilentAlways == Spec => []NeverSilent
<1>1. Init => NeverSilent
  BY DEF Init, NeverSilent
<1>2. NeverSilent /\ SpawnedInv /\ TypeOK /\ [Next]_vars => NeverSilent'
  <2> SUFFICES ASSUME NeverSilent, SpawnedInv, TypeOK, [Next]_vars,
                      NEW f \in Fecs, ~off'[f]
               PROVE  \E k \in Senders : Of(k, f)' /\ ~Gone(k)'
    BY DEF NeverSilent
  <2> USE DEF Of, Gone
  <2>1. ASSUME NEW g \in Fecs, SwitchOn(g) PROVE \E k \in Senders : Of(k, f)' /\ ~Gone(k)'
    <3>1. spawned + 1 \in Senders /\ spawned \in Int
      BY <2>1, EmulatorAssumption DEF SwitchOn, TypeOK, Senders
    <3>2. CASE f = g
      <4>1. PICK k \in Senders : k = spawned + 1
        BY <3>1
      <4>2. Of(k, f)' /\ ~Gone(k)'
        BY <2>1, <3>1, <3>2, <4>1 DEF SwitchOn, TypeOK
      <4> QED
        BY <4>2
    <3>3. CASE f # g
      <4>1. ~off[f]
        BY <2>1, <3>3 DEF SwitchOn, TypeOK
      <4>2. PICK k \in Senders : Of(k, f) /\ ~Gone(k)
        BY <4>1 DEF NeverSilent
      <4>3. k # spawned + 1 /\ k \in Int
        BY <3>1, <4>2 DEF Senders
      <4> QED
        BY <2>1, <3>1, <4>2, <4>3 DEF SwitchOn, TypeOK
    <3> QED
      BY <3>2, <3>3
  <2>2. ASSUME ~off[f], NEW k \in Senders, Start(k) \/ Pause(k) \/ Send(k)
        PROVE  \E j \in Senders : Of(j, f)' /\ ~Gone(j)'
    <3>1. PICK j \in Senders : Of(j, f) /\ ~Gone(j)
      BY <2>2 DEF NeverSilent
    <3>2. fecOf' = fecOf /\ spawned' = spawned
      BY <2>2 DEF Start, Pause, Send
    <3>3. k <= spawned
      BY <2>2 DEF SpawnedInv, Start, Pause, Send, TypeOK, Senders
    <3>4. CASE fecOf[k] = f
      <4>1. ~Gone(k)'
        BY <2>2, ExpiryEffect DEF Start, Pause, Send, Places
      <4> QED
        BY <3>2, <3>3, <3>4, <4>1
    <3>5. CASE fecOf[k] # f
      <4>1. j # k /\ fecOf[j] # fecOf[k]
        BY <3>1, <3>5
      <4>2. at'[j] = at[j]
        BY <2>2, <4>1, ExpiryEffect DEF Start, Pause, Send, Places
      <4> QED
        BY <3>1, <3>2, <4>2
    <3> QED
      BY <3>4, <3>5
  <2>3. ASSUME ~off[f], NEW k \in Senders, TestFlag(k) \/ Construct(k) \/ Await(k)
        PROVE  \E j \in Senders : Of(j, f)' /\ ~Gone(j)'
    <3>1. PICK j \in Senders : Of(j, f) /\ ~Gone(j)
      BY <2>3 DEF NeverSilent
    <3>2. CASE Await(k)
      BY <3>1, <3>2, AwaitEffect DEF Await, TypeOK
    <3> QED
      BY <2>3, <3>1, <3>2 DEF TestFlag, Construct, TypeOK
  <2>4. ASSUME ~off[f], UNCHANGED senderVars PROVE \E j \in Senders : Of(j, f)' /\ ~Gone(j)'
    BY <2>4 DEF NeverSilent, senderVars
  <2>5. CASE \E k \in Senders : Sender(k)
    <3>1. ~off[f]
      BY <2>5 DEF Sender, Start, Await, TestFlag, Pause, Construct, Send, listenVars
    <3> QED
      BY <2>2, <2>3, <2>5, <3>1 DEF Sender
  <2>6. CASE (\E g \in Fecs : ResetCounter(g) \/ SwitchOff(g)) \/ UNCHANGED vars
    <3>1. ~off[f] /\ UNCHANGED senderVars
      BY <2>6 DEF ResetCounter, SwitchOff, vars, listenVars, TypeOK
    <3> QED
      BY <2>4, <3>1
  <2> QED
    BY <2>1, <2>5, <2>6 DEF Next
<1> QED
  BY <1>1, <1>2, SpawnedInvariance, PTL DEF Spec

-----------------------------------------------------------------------------

\* A FEC with two senders that go on, or with one that hangs, was switched on
\* while it had a sender.
TurnsInv ==
  /\ \A j, k \in Senders :
       j # k /\ ~Gone(j) /\ ~Gone(k) /\ fecOf[j] = fecOf[k] => fecOf[k] \in overlap
  /\ \A k \in Senders : at[k] = "hung" => fecOf[k] \in overlap

LEMMA TurnsStep == TurnsInv /\ SpawnedInv /\ TypeOK /\ [Next]_vars => TurnsInv'
<1> SUFFICES ASSUME TurnsInv, SpawnedInv, TypeOK, [Next]_vars PROVE TurnsInv'
  OBVIOUS
<1> USE DEF TurnsInv, Gone
<1>1. ASSUME NEW f \in Fecs, ResetCounter(f) \/ SwitchOff(f) PROVE TurnsInv'
  BY <1>1 DEF ResetCounter, SwitchOff, senderVars
<1>2. ASSUME NEW f \in Fecs, SwitchOn(f) PROVE TurnsInv'
  <2>1. PICK n \in Senders : n = spawned + 1
    BY <1>2, EmulatorAssumption DEF SwitchOn, TypeOK, Senders
  <2>2. /\ at' = [at EXCEPT ![n] = "spawned"] /\ fecOf' = [fecOf EXCEPT ![n] = f]
        /\ overlap \subseteq overlap'
    BY <1>2, <2>1 DEF SwitchOn
  <2>3. ASSUME NEW j \in Senders, j # n, ~Gone(j), fecOf[j] = f PROVE f \in overlap'
    <3>1. Of(j, f)
      BY <2>3 DEF SpawnedInv, Of, TypeOK, Senders
    <3>2. \E k \in Senders : Of(k, f) /\ ~Gone(k)
      BY <2>3, <3>1
    <3> QED
      BY <1>2, <3>2 DEF SwitchOn
  <2> QED
    BY <2>2, <2>3 DEF TypeOK
<1>3. ASSUME NEW k \in Senders, Start(k) \/ Pause(k) \/ Send(k) PROVE TurnsInv'
  <2>1. fecOf' = fecOf /\ overlap' = overlap /\ ~Gone(k)
    BY <1>3 DEF Start, Pause, Send
  <2>2. \A j \in Senders \ {k} :
          \/ at'[j] = at[j]
          \/ /\ fecOf[j] = fecOf[k] /\ at[j] \in {"starting", "pausing", "resting"}
             /\ at'[j] = IF at[j] = "resting" THEN "hung" ELSE "ended"
    BY <1>3, ExpiryEffect DEF Start, Pause, Send, Places
  <2>3. at'[k] # "hung"
    BY <1>3, ExpiryEffect DEF Start, Pause, Send, Places
  <2>4. \A j \in Senders : ~Gone(j)' => ~Gone(j)
    BY <2>1, <2>2
  <2>5. \A j \in Senders : at'[j] = "hung" => fecOf[j] \in overlap
    <3> SUFFICES ASSUME NEW j \in Senders, at'[j] = "hung", at[j] # "hung" PROVE fecOf[j] \in overlap
      OBVIOUS
    <3>1. j # k /\ fecOf[j] = fecOf[k] /\ ~Gone(j)
      BY <2>2, <2>3
    <3> QED
      BY <2>1, <3>1
  <2> QED
    BY <2>1, <2>4, <2>5
<1>4. ASSUME NEW k \in Senders, TestFlag(k) \/ Construct(k) PROVE TurnsInv'
  BY <1>4 DEF TestFlag, Construct, TypeOK
<1>6. ASSUME NEW k \in Senders, Await(k) PROVE TurnsInv'
  BY <1>6, AwaitEffect DEF Await, TypeOK
<1>5. CASE UNCHANGED vars
  BY <1>5 DEF vars, senderVars
<1> QED
  BY <1>1, <1>2, <1>3, <1>4, <1>5, <1>6 DEF Next, Sender

LEMMA TurnsInvariance == Spec => [](TurnsInv /\ SpawnedInv /\ TypeOK)
<1>1. Init => TurnsInv
  BY DEF Init, TurnsInv, Gone
<1> QED
  BY <1>1, TurnsStep, SpawnedInvariance, PTL DEF Spec

(***************************************************************************)
(* A sender sends the frame it has constructed, unless its FEC was         *)
(* switched on again before it had ended.                                  *)
(***************************************************************************)
THEOREM FramesIntact == Spec => []FrameIntact
<1>1. Init => FrameIntact
  BY DEF Init, FrameIntact
<1>2. FrameIntact /\ TurnsInv /\ [Next]_vars => FrameIntact'
  <2> SUFFICES ASSUME FrameIntact, TurnsInv, [Next]_vars PROVE FrameIntact'
    OBVIOUS
  <2>1. ASSUME NEW f \in Fecs, ResetCounter(f) \/ SwitchOn(f) \/ SwitchOff(f) PROVE FrameIntact'
    BY <2>1 DEF ResetCounter, SwitchOn, SwitchOff, FrameIntact, wire
  <2>2. ASSUME NEW k \in Senders, Construct(k) PROVE FrameIntact'
    <3>1. ShareStruct(k) # {} => overlap # {}
      BY <2>2 DEF Construct, ShareStruct, TurnsInv, Gone
    <3> QED
      BY <2>2, <3>1 DEF Construct, FrameIntact
  <2>3. ASSUME NEW k \in Senders, Start(k) \/ Await(k) \/ TestFlag(k) \/ Pause(k) \/ Send(k)
        PROVE  FrameIntact'
    BY <2>3 DEF Start, Await, TestFlag, Pause, Send, FrameIntact, wire
  <2>4. CASE UNCHANGED vars
    BY <2>4 DEF vars, wire, FrameIntact
  <2> QED
    BY <2>1, <2>2, <2>3, <2>4 DEF Next, Sender
<1> QED
  BY <1>1, <1>2, TurnsInvariance, PTL DEF Spec

-----------------------------------------------------------------------------

\* After the one frame a FEC that is off may still send, none of its senders is
\* past the test of the flag.
LastFrameInv ==
  /\ \A f \in Fecs : ~off[f] => extra[f] = 0
  /\ \A f \in Fecs : off[f] /\ f \notin overlap =>
       \/ extra[f] = 0
       \/ /\ extra[f] = 1
          /\ \A k \in Senders :
               fecOf[k] = f => at[k] \notin {"looping", "toPause", "pausing", "constructed"}

LEMMA LastFrameStep == LastFrameInv /\ TurnsInv /\ SpawnedInv /\ TypeOK /\ [Next]_vars => LastFrameInv'
<1> SUFFICES ASSUME LastFrameInv, TurnsInv, SpawnedInv, TypeOK, [Next]_vars PROVE LastFrameInv'
  OBVIOUS
<1> USE DEF LastFrameInv
<1>1. ASSUME NEW f \in Fecs, ResetCounter(f) \/ SwitchOff(f) PROVE LastFrameInv'
  BY <1>1 DEF ResetCounter, SwitchOff, senderVars, wire, TypeOK
<1>2. ASSUME NEW f \in Fecs, SwitchOn(f) PROVE LastFrameInv'
  <2>1. overlap \subseteq overlap'
    BY <1>2 DEF SwitchOn
  <2>2. PICK n \in Senders : n = spawned + 1
    BY <1>2, EmulatorAssumption DEF SwitchOn, TypeOK, Senders
  <2> QED
    BY <1>2, <2>1, <2>2 DEF SwitchOn, TypeOK
<1>3. ASSUME NEW k \in Senders, Start(k) PROVE LastFrameInv'
  BY <1>3, ExpiryEffect DEF Start, Places, listenVars, wire
<1>4. ASSUME NEW k \in Senders, Pause(k) PROVE LastFrameInv'
  BY <1>4, ExpiryEffect DEF Pause, Places, listenVars, wire
<1>5. ASSUME NEW k \in Senders, TestFlag(k) \/ Construct(k) PROVE LastFrameInv'
  BY <1>5 DEF TestFlag, Construct, TypeOK, listenVars, wire
<1>6. ASSUME NEW k \in Senders, Send(k) PROVE LastFrameInv'
  <2> DEFINE f == fecOf[k]
  <2>1. f \in Fecs /\ at[k] = "constructed" /\ off' = off /\ overlap' = overlap /\ fecOf' = fecOf
    BY <1>6 DEF Send, TypeOK, listenVars
  <2>2. extra' = [extra EXCEPT ![f] = IF off[f] /\ @ < 2 THEN @ + 1 ELSE @]
    BY <1>6 DEF Send
  <2>3. at'[k] = "toRest" /\ \A j \in Senders \ {k} : at'[j] = at[j] \/ at'[j] \in {"hung", "ended"}
    BY <1>6, ExpiryEffect DEF Send, Places
  <2>4. ASSUME off[f], f \notin overlap
        PROVE  /\ extra[f] = 0
               /\ \A j \in Senders :
                    fecOf[j] = f => at'[j] \notin {"looping", "toPause", "pausing", "constructed"}
    <3>1. extra[f] = 0
      BY <2>1, <2>4
    <3>2. ASSUME NEW j \in Senders \ {k}, fecOf[j] = f PROVE Gone(j)
      BY <2>1, <2>4, <3>2 DEF TurnsInv, Gone
    <3> QED
      BY <2>3, <3>1, <3>2 DEF Gone
  <2>5. extra'[f] = IF off[f] /\ extra[f] < 2 THEN extra[f] + 1 ELSE extra[f]
    BY <2>1, <2>2 DEF TypeOK
  <2>6. \A g \in Fecs \ {f} : extra'[g] = extra[g]
    BY <2>1, <2>2 DEF TypeOK
  <2>7. ASSUME NEW g \in Fecs \ {f}, NEW j \in Senders, fecOf[j] = g,
               at[j] \notin {"looping", "toPause", "pausing", "constructed"}
        PROVE  at'[j] \notin {"looping", "toPause", "pausing", "constructed"}
    BY <2>3, <2>7
  <2> HIDE DEF f
  <2> QED
    BY <2>1, <2>4, <2>5, <2>6, <2>7
<1>7. ASSUME NEW k \in Senders, Await(k) PROVE LastFrameInv'
  <2>1. \A j \in Senders :
          at'[j] \in {"looping", "toPause", "pausing", "constructed"} =>
            at[j] \in {"looping", "toPause", "pausing", "constructed"}
    <3>1. PICK place : at' = [at EXCEPT ![k] = place]
      BY <1>7, AwaitEffect
    <3> QED
      BY <1>7, <3>1 DEF Await, Waited, TypeOK
  <2> QED
    BY <1>7, <2>1 DEF Await, listenVars, wire
<1>8. CASE UNCHANGED vars
  BY <1>8 DEF vars, senderVars, listenVars, wire
<1> QED
  BY <1>1, <1>2, <1>3, <1>4, <1>5, <1>6, <1>7, <1>8 DEF Next, Sender

(***************************************************************************)
(* A FEC that is switched off sends one frame more at most, unless it was  *)
(* switched on while it had a sender.                                      *)
(***************************************************************************)
THEOREM OffStopsAlways == Spec => []OffStops
<1>1. Init => LastFrameInv
  BY DEF Init, LastFrameInv
<1>2. LastFrameInv => OffStops
  BY DEF LastFrameInv, OffStops
<1> QED
  BY <1>1, <1>2, LastFrameStep, TurnsInvariance, PTL DEF Spec

-----------------------------------------------------------------------------

\* The counters on the wire and in the frames about to be sent are different
\* and were given out since the frame counter last was 0.
CounterInv ==
  \/ late
  \/ overlap # {}
  \/ /\ ~twice
     /\ \A n \in sent : n < counter
     /\ \A k \in Senders :
          at[k] = "constructed" => frame[k] < counter /\ frame[k] \notin sent
     /\ \A j, k \in Senders :
          at[j] = "constructed" /\ at[k] = "constructed" /\ frame[j] = frame[k] => j = k

LEMMA CounterStep == CounterInv /\ TurnsInv /\ TypeOK /\ [Next]_vars => CounterInv'
<1> SUFFICES ASSUME CounterInv, TurnsInv, TypeOK, [Next]_vars, ~late', overlap' = {}
             PROVE  CounterInv'
  BY DEF CounterInv
<1>0. overlap = {} /\ ~late
  <2>1. overlap \subseteq overlap'
    BY DEF Next, Sender, ResetCounter, SwitchOn, SwitchOff, Start, Await, TestFlag, Pause, Construct,
           Send, vars
  <2>2. late => late'
    BY Zenon DEF Next, Sender, ResetCounter, SwitchOn, SwitchOff, Start, Await, TestFlag, Pause,
                 Construct, RequestCounter, Send, vars
  <2> QED
    BY <2>1, <2>2
<1> USE <1>0 DEF CounterInv
<1>1. ASSUME NEW f \in Fecs, ResetCounter(f) PROVE CounterInv'
  <2>1. \A k \in Senders : at[k] # "constructed"
    BY <1>1 DEF ResetCounter, Gone
  <2>2. sent' = {} /\ twice' = twice /\ at' = at
    BY <1>1 DEF ResetCounter, senderVars
  <2> QED
    BY <2>1, <2>2
<1>2. ASSUME NEW f \in Fecs, SwitchOn(f) PROVE CounterInv'
  BY <1>2 DEF SwitchOn, TypeOK
<1>3. ASSUME NEW f \in Fecs, SwitchOff(f) PROVE CounterInv'
  BY <1>3 DEF SwitchOff, senderVars, wire
<1>4. ASSUME NEW k \in Senders, Start(k) \/ Pause(k) PROVE CounterInv'
  <2>1. \A j \in Senders : at'[j] = "constructed" => at[j] = "constructed"
    BY <1>4, ExpiryEffect DEF Start, Pause, Places
  <2> QED
    BY <1>4, <2>1 DEF Start, Pause, wire
<1>5. ASSUME NEW k \in Senders, TestFlag(k) \/ Await(k) PROVE CounterInv'
  <2>1. \A j \in Senders : at'[j] = "constructed" => at[j] = "constructed"
    BY <1>5, AwaitEffect DEF TestFlag, TypeOK
  <2> QED
    BY <1>5, <2>1 DEF TestFlag, Await, wire
<1>6. ASSUME NEW k \in Senders, Construct(k) PROVE CounterInv'
  <2>1. ShareStruct(k) = {}
    BY <1>6 DEF Construct, ShareStruct, TurnsInv, Gone
  <2>2. frame' = [frame EXCEPT ![k] = counter]
    BY <1>6, <2>1 DEF Construct, TypeOK
  <2>3. counter' = counter + 1
    BY <1>6, NextCounter DEF Construct, RequestCounter, TypeOK
  <2>4. at' = [at EXCEPT ![k] = "constructed"] /\ sent' = sent /\ twice' = twice
    BY <1>6 DEF Construct
  <2>5. counter \in Nat /\ sent \subseteq Nat /\ frame \in [Senders -> Nat]
    BY DEF TypeOK, Counter
  <2> QED
    BY <2>2, <2>3, <2>4, <2>5 DEF TypeOK
<1>7. ASSUME NEW k \in Senders, Send(k) PROVE CounterInv'
  <2>1. \A j \in Senders : at'[j] = "constructed" => at[j] = "constructed" /\ j # k
    BY <1>7, ExpiryEffect DEF Send, Places
  <2>2. /\ at[k] = "constructed" /\ sent' = sent \cup {frame[k]} /\ counter' = counter
        /\ twice' = (twice \/ frame[k] \in sent)
        /\ frame' = [frame EXCEPT ![k] = 0]
    BY <1>7 DEF Send
  <2>3. \A j \in Senders \ {k} : frame'[j] = frame[j]
    BY <2>2 DEF TypeOK
  <2>4. ~twice'
    BY <2>2
  <2> QED
    BY <2>1, <2>2, <2>3, <2>4
<1>8. CASE UNCHANGED vars
  BY <1>8 DEF vars, senderVars, wire
<1> QED
  BY <1>1, <1>2, <1>3, <1>4, <1>5, <1>6, <1>7, <1>8 DEF Next, Sender

(***************************************************************************)
(* All FECs together send each frame counter at most once, unless it       *)
(* starts again within an acquisition.                                     *)
(***************************************************************************)
THEOREM CountersDistinctAlways == Spec => []CountersDistinct
<1>1. Init => CounterInv
  BY DEF Init, CounterInv
<1>2. CounterInv => CountersDistinct
  BY DEF CounterInv, CountersDistinct
<1> QED
  BY <1>1, <1>2, CounterStep, TurnsInvariance, PTL DEF Spec

(***************************************************************************)
(* No counter is skipped, however the senders end each other: a counter is *)
(* drawn after the pause, and whoever draws one sends it, unless another   *)
(* sender fills its structure before.                                      *)
(***************************************************************************)
THEOREM NoCounterSkippedAlways == Spec => []NoCounterSkipped
<1>1. Init => NoCounterSkipped
  BY DEF Init, NoCounterSkipped, Counter
<1>2. NoCounterSkipped /\ SpawnedInv /\ TypeOK /\ [Next]_vars => NoCounterSkipped'
  <2> SUFFICES ASSUME NoCounterSkipped, SpawnedInv, TypeOK, [Next]_vars, ~mixed',
                      NEW n \in Counter, n < counter'
               PROVE  n \in sent' \/ \E k \in Senders : at'[k] = "constructed" /\ frame'[k] = n
    BY DEF NoCounterSkipped
  <2>0. ~mixed
    BY Zenon DEF Next, Sender, ResetCounter, SwitchOn, SwitchOff, Start, Await, TestFlag, Pause,
                 Construct, Send, vars, wire
  <2> DEFINE Safe == n \in sent \/ \E k \in Senders : at[k] = "constructed" /\ frame[k] = n
  <2>1. n < counter => Safe
    BY <2>0 DEF NoCounterSkipped
  <2>2. ASSUME NEW f \in Fecs, ResetCounter(f) PROVE FALSE
    BY <2>2 DEF ResetCounter, Counter
  <2>3. ASSUME NEW f \in Fecs, SwitchOn(f) \/ SwitchOff(f) PROVE Safe'
    <3>1. counter' = counter /\ sent' = sent /\ frame' = frame
      BY <2>3 DEF SwitchOn, SwitchOff, senderVars, wire
    <3>2. \A k \in Senders : at[k] = "constructed" => k # spawned + 1
      BY DEF SpawnedInv, TypeOK, Senders
    <3>3. \A k \in Senders : at[k] = "constructed" => at'[k] = at[k]
      BY <2>3, <3>2 DEF SwitchOn, SwitchOff, senderVars, TypeOK
    <3> QED
      BY <2>1, <3>1, <3>3
  <2>4. ASSUME NEW k \in Senders, Start(k) \/ Await(k) \/ TestFlag(k) \/ Pause(k) PROVE Safe'
    <3>1. counter' = counter /\ sent' = sent /\ frame' = frame
      BY <2>4 DEF Start, Await, TestFlag, Pause, wire
    <3>2. \A j \in Senders : at[j] = "constructed" => at'[j] = at[j]
      <4>1. CASE Start(k) \/ Pause(k)
        BY <4>1, ExpiryEffect DEF Start, Pause, Places
      <4>2. CASE Await(k)
        BY <4>2, AwaitEffect DEF TypeOK
      <4>3. CASE TestFlag(k)
        BY <4>3 DEF TestFlag, TypeOK
      <4> QED
        BY <2>4, <4>1, <4>2, <4>3
    <3> QED
      BY <2>1, <3>1, <3>2
  <2>5. ASSUME NEW k \in Senders, Construct(k) PROVE Safe'
    <3>1. ShareStruct(k) = {}
      BY <2>5 DEF Construct
    <3>2. frame' = [frame EXCEPT ![k] = counter] /\ at' = [at EXCEPT ![k] = "constructed"]
      BY <2>5, <3>1 DEF Construct, TypeOK
    <3>3. n < counter \/ n = counter
      BY <2>5, NextCounter DEF Construct, RequestCounter, TypeOK, Counter
    <3>4. at[k] = "pausing" /\ sent' = sent
      BY <2>5 DEF Construct
    <3>5. CASE n = counter
      BY <3>2, <3>5 DEF TypeOK
    <3>6. CASE n < counter
      BY <2>1, <3>2, <3>4, <3>6 DEF TypeOK
    <3> QED
      BY <3>3, <3>5, <3>6
  <2>6. ASSUME NEW k \in Senders, Send(k) PROVE Safe'
    <3>1. counter' = counter /\ sent' = sent \cup {frame[k]}
      BY <2>6 DEF Send
    <3>2. \A j \in Senders \ {k} :
            at[j] = "constructed" => at'[j] = at[j] /\ frame'[j] = frame[j]
      BY <2>6, ExpiryEffect DEF Send, TypeOK, Places
    <3> QED
      BY <2>1, <3>1, <3>2
  <2>7. CASE UNCHANGED vars
    BY <2>1, <2>7 DEF vars, senderVars, wire
  <2> QED
    BY <2>2, <2>3, <2>4, <2>5, <2>6, <2>7 DEF Next, Sender
<1> QED
  BY <1>1, <1>2, SpawnedInvariance, PTL DEF Spec
=============================================================================
