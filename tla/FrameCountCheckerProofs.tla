----------------------- MODULE FrameCountCheckerProofs -----------------------
(***************************************************************************)
(* FrameCountChecker, for any number of lines and any counters.            *)
(*                                                                         *)
(* The drop count cannot be followed on its own: it is the difference of   *)
(* two sets, and a line in "adjust" owes one of them some elements.  The   *)
(* invariant says which: the credited counters and the gaps still owed     *)
(* split the counters that were jumped over, the debited ones and the late *)
(* ones still owed split those that came back.                             *)
(***************************************************************************)
EXTENDS FrameCountChecker, FiniteSetTheorems, TLAPS

InFlight ==
  /\ \A l \in Lines : pc[l] # "idle" => arg[l] \in taken
  /\ \A l \in Lines : pc[l] \in {"load", "cas"} => arg[l] \notin seen
  /\ \A l \in Lines : pc[l] = "adjust" => arg[l] \in seen
  /\ \A l, m \in Lines : pc[l] # "idle" /\ pc[m] # "idle" /\ arg[l] = arg[m] => l = m

UpToLast ==
  /\ \A c \in seen : c <= last
  /\ last \in onTime \cup {0}
  /\ \A l \in Lines : pc[l] = "adjust" => val[l] <= last

\* The counters jumped over: each is credited, or owed by one line.
GapsSplit ==
  /\ \A c \in Nat : (c \in credited \/ \E l \in Lines : c \in Pending(l))
                      <=> (c \in 1..last /\ c \notin onTime)
  /\ \A l \in Lines : credited \cap Pending(l) = {}
  /\ \A l, m \in Lines : l # m => Pending(l) \cap Pending(m) = {}

\* The late ones: each is debited, or owed by one line.
LateSplit ==
  /\ \A c \in seen : (c \in debited \/ \E l \in Lines : c \in PendingLate(l)) <=> c \notin onTime
  /\ \A l \in Lines : debited \cap PendingLate(l) = {}

Balance == drop = Cardinality(credited) - Cardinality(debited)

CounterInv == TypeOK /\ InFlight /\ UpToLast /\ GapsSplit /\ LateSplit /\ Balance

-----------------------------------------------------------------------------

(* The bookkeeping sets are bounded by the counters, so they are finite. *)
LEMMA Finite ==
  ASSUME TypeOK
  PROVE  /\ IsFiniteSet(credited)
         /\ IsFiniteSet(debited)
         /\ IsFiniteSet(seen)
         /\ IsFiniteSet(Counters)
<1>1. First \in Int /\ MaxCounter \in Int
  BY CounterAssumption
<1>2. IsFiniteSet(First..MaxCounter) /\ IsFiniteSet(1..MaxCounter)
  BY <1>1, FS_Interval
<1>3. seen \subseteq First..MaxCounter /\ debited \subseteq First..MaxCounter
  BY DEF TypeOK, Counters
<1> QED
  BY <1>2, <1>3, FS_Subset DEF TypeOK, Counters

(* A step of a line that is in "adjust" neither before nor after it leaves *)
(* what every line owes as it was.                                         *)
LEMMA OwedUnchanged ==
  ASSUME TypeOK, NEW l \in Lines, pc[l] # "adjust",
         NEW p, NEW a \in Int, NEW v \in Int, p # "adjust",
         pc' = [pc EXCEPT ![l] = p],
         arg' = [arg EXCEPT ![l] = a],
         val' = [val EXCEPT ![l] = v]
  PROVE  \A m \in Lines : Pending(m)' = Pending(m) /\ PendingLate(m)' = PendingLate(m)
BY DEF TypeOK, Pending, PendingLate

(* The bookkeeping is kept when no set and no debt changes. *)
LEMMA BooksUnchanged ==
  ASSUME CounterInv,
         \A m \in Lines : Pending(m)' = Pending(m) /\ PendingLate(m)' = PendingLate(m),
         UNCHANGED <<last, drop, seen, onTime, credited, debited>>
  PROVE  GapsSplit' /\ LateSplit' /\ Balance'
BY DEF CounterInv, GapsSplit, LateSplit, Balance

LEMMA ExtractStep ==
  ASSUME CounterInv, NEW l \in Lines, NEW c \in Counters, Extract(l, c)
  PROVE  CounterInv'
<1> USE DEF CounterInv
<1>1. c \in 0..MaxCounter
  BY CounterAssumption DEF Counters
<1>2. TypeOK'
  BY <1>1 DEF TypeOK, Extract
<1>3. \A m \in Lines : Pending(m)' = Pending(m) /\ PendingLate(m)' = PendingLate(m)
  <2>1. val' = [val EXCEPT ![l] = val[l]] /\ val[l] \in Int /\ c \in Int
    BY <1>1 DEF TypeOK, Extract
  <2> QED
    BY <2>1, OwedUnchanged DEF Extract
<1>4. InFlight'
  BY DEF TypeOK, InFlight, Extract
<1>5. UpToLast'
  BY DEF TypeOK, UpToLast, Extract
<1>6. GapsSplit' /\ LateSplit' /\ Balance'
  BY <1>3, BooksUnchanged DEF Extract
<1> QED
  BY <1>2, <1>4, <1>5, <1>6

LEMMA LoadStep ==
  ASSUME CounterInv, NEW l \in Lines, Load(l) \/ CasFails(l)
  PROVE  CounterInv'
<1> USE DEF CounterInv
<1>1. TypeOK'
  BY DEF TypeOK, Load, CasFails
<1>2. \A m \in Lines : Pending(m)' = Pending(m) /\ PendingLate(m)' = PendingLate(m)
  <2>1. /\ pc[l] # "adjust"
        /\ pc' = [pc EXCEPT ![l] = "cas"]
        /\ arg' = [arg EXCEPT ![l] = arg[l]] /\ arg[l] \in Int
        /\ val' = [val EXCEPT ![l] = last] /\ last \in Int
    BY DEF TypeOK, Load, CasFails
  <2> QED
    BY <2>1, OwedUnchanged
<1>3. InFlight'
  BY DEF TypeOK, InFlight, Load, CasFails
<1>4. UpToLast'
  BY DEF TypeOK, UpToLast, Load, CasFails
<1>5. GapsSplit' /\ LateSplit' /\ Balance'
  BY <1>2, BooksUnchanged DEF Load, CasFails
<1> QED
  BY <1>1, <1>3, <1>4, <1>5

(* A compare-exchange adds to the counters jumped over just the gap its    *)
(* line then owes, or to the late ones just the counter its line then owes.*)
LEMMA CasStep ==
  ASSUME CounterInv, NEW l \in Lines, CasSucceeds(l)
  PROVE  CounterInv'
<1> USE DEF CounterInv
<1>1. /\ arg[l] \in 0..MaxCounter /\ val[l] = last /\ last \in 0..MaxCounter
      /\ arg[l] \in taken /\ arg[l] \notin seen /\ pc[l] = "cas"
  BY DEF TypeOK, InFlight, CasSucceeds
<1>2. last' \in 0..MaxCounter /\ last <= last' /\ arg[l] <= last'
  BY <1>1 DEF CasSucceeds
<1>3. TypeOK'
  BY <1>1, <1>2 DEF TypeOK, CasSucceeds
<1>4. InFlight'
  BY <1>1 DEF TypeOK, InFlight, CasSucceeds
<1>5. UpToLast'
  <2>1. \A c \in seen' : c <= last'
    BY <1>1, <1>2, CounterAssumption DEF TypeOK, UpToLast, CasSucceeds, Counters
  <2>2. last' \in onTime' \cup {0}
    BY <1>1 DEF UpToLast, CasSucceeds
  <2>3. \A m \in Lines : pc'[m] = "adjust" => val'[m] <= last'
    BY <1>1, <1>2 DEF TypeOK, UpToLast, CasSucceeds
  <2> QED
    BY <2>1, <2>2, <2>3 DEF UpToLast
<1>6. \A m \in Lines \ {l} : Pending(m)' = Pending(m) /\ PendingLate(m)' = PendingLate(m)
  BY DEF TypeOK, Pending, PendingLate, CasSucceeds
<1>7. Pending(l) = {} /\ PendingLate(l) = {}
  BY <1>1 DEF Pending, PendingLate
<1>8. /\ Pending(l)' = IF arg[l] > last THEN (last + 1)..(arg[l] - 1) ELSE {}
      /\ PendingLate(l)' = IF arg[l] < last THEN {arg[l]} ELSE {}
  BY <1>1 DEF TypeOK, Pending, PendingLate, CasSucceeds
<1>9. \A c \in credited : c <= last /\ c \in Nat
  BY DEF TypeOK, GapsSplit
<1>10. \A m \in Lines : \A c \in Pending(m) : c <= last /\ c \in Nat
  <2> SUFFICES ASSUME NEW m \in Lines, NEW c \in Pending(m)
               PROVE  c <= last /\ c \in Nat
    OBVIOUS
  <2>1. c \in Nat
    BY DEF Pending, TypeOK
  <2> QED
    BY <2>1 DEF GapsSplit
<1>11. GapsSplit'
  <2>1. ASSUME NEW c \in Nat
        PROVE  (c \in credited' \/ \E m \in Lines : c \in Pending(m)')
                 <=> (c \in 1..last' /\ c \notin onTime')
    <3>1. (c \in credited' \/ \E m \in Lines : c \in Pending(m)')
            <=> ((c \in credited \/ \E m \in Lines : c \in Pending(m)) \/ c \in Pending(l)')
      BY <1>6, <1>7 DEF CasSucceeds
    <3>2. (c \in credited' \/ \E m \in Lines : c \in Pending(m)')
            <=> ((c \in 1..last /\ c \notin onTime) \/ c \in Pending(l)')
      BY <3>1 DEF GapsSplit
    <3>3. CASE arg[l] > last
      <4>1. last' = arg[l] /\ onTime' = onTime \cup {arg[l]}
        BY <1>1, <3>3 DEF CasSucceeds
      <4>2. \A d \in onTime : d <= last
        BY DEF TypeOK, UpToLast
      <4> QED
        BY <1>1, <1>8, <3>2, <3>3, <4>1, <4>2
    <3>4. CASE arg[l] = last
      <4>1. last' = last /\ onTime' = onTime \cup {last}
        BY <1>1, <3>4 DEF CasSucceeds
      <4>2. last = 0
        BY <1>1, <3>4 DEF TypeOK, UpToLast
      <4> QED
        BY <1>8, <3>2, <3>4, <4>1, <4>2
    <3>5. CASE arg[l] < last
      <4>1. last' = last /\ onTime' = onTime
        BY <1>1, <3>5 DEF CasSucceeds
      <4> QED
        BY <1>1, <1>8, <3>2, <3>5, <4>1
    <3> QED
      BY <1>1, <3>3, <3>4, <3>5
  <2>2. \A m \in Lines : credited' \cap Pending(m)' = {}
    BY <1>1, <1>6, <1>8, <1>9 DEF GapsSplit, CasSucceeds
  <2>3. \A m, n \in Lines : m # n => Pending(m)' \cap Pending(n)' = {}
    BY <1>1, <1>6, <1>8, <1>10 DEF GapsSplit
  <2> QED
    BY <2>1, <2>2, <2>3 DEF GapsSplit
<1>12. LateSplit'
  <2>1. ASSUME NEW c \in seen'
        PROVE  (c \in debited' \/ \E m \in Lines : c \in PendingLate(m)') <=> c \notin onTime'
    <3>1. (c \in debited' \/ \E m \in Lines : c \in PendingLate(m)')
            <=> ((c \in debited \/ \E m \in Lines : c \in PendingLate(m)) \/ c \in PendingLate(l)')
      BY <1>6, <1>7 DEF CasSucceeds
    <3>2. CASE c \in seen
      <4>1. c # arg[l]
        BY <1>1, <3>2
      <4>2. c \in onTime' <=> c \in onTime
        BY <4>1 DEF CasSucceeds
      <4>3. c \notin PendingLate(l)'
        BY <1>8, <4>1
      <4> QED
        BY <3>1, <3>2, <4>2, <4>3 DEF LateSplit
    <3>3. CASE c = arg[l]
      <4>1. c \notin debited /\ c \notin onTime
        BY <1>1, <3>3 DEF TypeOK
      <4>2. \A m \in Lines : c \notin PendingLate(m)
        BY <1>1, <3>3 DEF InFlight, PendingLate
      <4>3. c \in onTime' <=> ~(arg[l] < last)
        BY <1>1, <3>3, <4>1 DEF CasSucceeds
      <4> QED
        BY <1>8, <3>1, <3>3, <4>1, <4>2, <4>3
    <3> QED
      BY <3>2, <3>3 DEF CasSucceeds
  <2>2. \A m \in Lines : debited' \cap PendingLate(m)' = {}
    BY <1>1, <1>6, <1>8 DEF TypeOK, LateSplit, CasSucceeds
  <2> QED
    BY <2>1, <2>2 DEF LateSplit
<1>13. Balance'
  BY DEF Balance, CasSucceeds
<1> QED
  BY <1>3, <1>4, <1>5, <1>11, <1>12, <1>13

(* Returning to "idle" pays what the line owed and nothing else. *)
LEMMA OwedPaid ==
  ASSUME TypeOK, NEW l \in Lines, pc[l] = "adjust", UNCHANGED <<arg, val>>,
         pc' = [pc EXCEPT ![l] = "idle"]
  PROVE  /\ \A m \in Lines \ {l} : Pending(m)' = Pending(m) /\ PendingLate(m)' = PendingLate(m)
         /\ Pending(l)' = {} /\ PendingLate(l)' = {}
BY DEF TypeOK, Pending, PendingLate

LEMMA CreditStep ==
  ASSUME CounterInv, NEW l \in Lines, Credit(l)
  PROVE  CounterInv'
<1> USE DEF CounterInv
<1> DEFINE gap == (val[l] + 1)..(arg[l] - 1)
<1>1. arg[l] \in 0..MaxCounter /\ val[l] \in 0..MaxCounter /\ arg[l] > val[l] + 1
  BY DEF TypeOK, Credit
<1>2. Pending(l) = gap /\ PendingLate(l) = {}
  <2>1. pc[l] = "adjust" /\ arg[l] > val[l] /\ ~(arg[l] < val[l])
    BY <1>1 DEF Credit
  <2> HIDE DEF CounterInv
  <2> QED
    BY <2>1 DEF Pending, PendingLate
<1>3. /\ \A m \in Lines \ {l} : Pending(m)' = Pending(m) /\ PendingLate(m)' = PendingLate(m)
      /\ Pending(l)' = {} /\ PendingLate(l)' = {}
  BY OwedPaid DEF Credit
<1>4. credited' = credited \cup gap
  BY DEF Credit
<1>5. TypeOK'
  <2>1. gap \subseteq 1..MaxCounter
    BY <1>1, CounterAssumption
  <2>2. drop' \in Int
    BY <1>1, CounterAssumption DEF TypeOK, Credit
  <2> HIDE DEF gap
  <2>3. credited' \in SUBSET (1..MaxCounter)
    BY <1>4, <2>1 DEF TypeOK
  <2> QED
    BY <2>2, <2>3 DEF TypeOK, Credit
<1>6. InFlight' /\ UpToLast'
  BY DEF TypeOK, InFlight, UpToLast, Credit
<1>7. GapsSplit'
  <2> HIDE DEF gap
  <2>1. ASSUME NEW c \in Nat
        PROVE  (c \in credited' \/ \E m \in Lines : c \in Pending(m)')
                 <=> (c \in 1..last' /\ c \notin onTime')
    <3>1. (c \in credited' \/ \E m \in Lines : c \in Pending(m)')
            <=> (c \in credited \/ \E m \in Lines : c \in Pending(m))
      BY <1>2, <1>3, <1>4
    <3> QED
      BY <3>1 DEF GapsSplit, Credit
  <2>2. \A m \in Lines : credited' \cap Pending(m)' = {}
    BY <1>2, <1>3, <1>4 DEF GapsSplit
  <2>3. \A m, n \in Lines : m # n => Pending(m)' \cap Pending(n)' = {}
    BY <1>3 DEF GapsSplit
  <2> QED
    BY <2>1, <2>2, <2>3 DEF GapsSplit
<1>8. LateSplit'
  <2>1. \A m \in Lines : PendingLate(m)' = PendingLate(m)
    BY <1>2, <1>3
  <2> QED
    BY <2>1 DEF LateSplit, Credit
<1>9. Balance'
  <2>1. Cardinality(gap) = arg[l] - val[l] - 1 /\ IsFiniteSet(gap)
    <3>1. val[l] + 1 \in Int /\ arg[l] - 1 \in Int
      BY <1>1
    <3>2. /\ IsFiniteSet(gap)
          /\ Cardinality(gap) = IF val[l] + 1 > arg[l] - 1 THEN 0
                                ELSE (arg[l] - 1) - (val[l] + 1) + 1
      BY <3>1, FS_Interval
    <3> HIDE DEF gap
    <3> QED
      BY <1>1, <3>2
  <2>2. IsFiniteSet(credited) /\ IsFiniteSet(debited)
    BY Finite
  <2>3. credited \cap gap = {}
    BY <1>2 DEF GapsSplit
  <2> HIDE DEF gap
  <2>4. Cardinality(credited') = Cardinality(credited) + Cardinality(gap)
    <3>1. Cardinality(credited \cup gap)
            = Cardinality(credited) + Cardinality(gap) - Cardinality(credited \cap gap)
      BY <2>1, <2>2, FS_Union
    <3>2. Cardinality(credited \cap gap) = 0
      BY <2>3, FS_EmptySet
    <3>3. Cardinality(credited) \in Nat /\ Cardinality(gap) \in Nat
      BY <2>1, <2>2, FS_CardinalityType
    <3> QED
      BY <1>4, <3>1, <3>2, <3>3
  <2>5. Cardinality(credited) \in Nat /\ Cardinality(debited) \in Nat
    BY <2>2, FS_CardinalityType
  <2> QED
    BY <1>1, <2>1, <2>4, <2>5 DEF Balance, Credit
<1> QED
  BY <1>5, <1>6, <1>7, <1>8, <1>9

LEMMA DebitStep ==
  ASSUME CounterInv, NEW l \in Lines, Debit(l)
  PROVE  CounterInv'
<1> USE DEF CounterInv
<1>1. arg[l] \in seen /\ arg[l] < val[l] /\ arg[l] \in 0..MaxCounter /\ val[l] \in 0..MaxCounter
  BY DEF TypeOK, InFlight, Debit
<1>2. PendingLate(l) = {arg[l]} /\ Pending(l) = {}
  BY <1>1 DEF Pending, PendingLate, Debit
<1>3. /\ \A m \in Lines \ {l} : Pending(m)' = Pending(m) /\ PendingLate(m)' = PendingLate(m)
      /\ Pending(l)' = {} /\ PendingLate(l)' = {}
  BY OwedPaid DEF Debit
<1>4. debited' = debited \cup {arg[l]}
  BY DEF Debit
<1>5. TypeOK'
  BY <1>1 DEF TypeOK, Debit
<1>6. InFlight' /\ UpToLast'
  BY DEF TypeOK, InFlight, UpToLast, Debit
<1>7. GapsSplit'
  <2>1. \A m \in Lines : Pending(m)' = Pending(m)
    BY <1>2, <1>3
  <2> QED
    BY <2>1 DEF GapsSplit, Debit
<1>8. LateSplit'
  <2>1. ASSUME NEW c \in seen'
        PROVE  (c \in debited' \/ \E m \in Lines : c \in PendingLate(m)') <=> c \notin onTime'
    <3>1. (c \in debited' \/ \E m \in Lines : c \in PendingLate(m)')
            <=> (c \in debited \/ \E m \in Lines : c \in PendingLate(m))
      BY <1>2, <1>3, <1>4
    <3> QED
      BY <3>1 DEF LateSplit, Debit
  <2>2. \A m \in Lines \ {l} : arg[l] \notin PendingLate(m)
    BY DEF InFlight, PendingLate, Debit
  <2>3. \A m \in Lines : debited' \cap PendingLate(m)' = {}
    BY <1>3, <1>4, <2>2 DEF LateSplit
  <2> QED
    BY <2>1, <2>3 DEF LateSplit
<1>9. Balance'
  <2>1. IsFiniteSet(credited) /\ IsFiniteSet(debited)
    BY Finite
  <2>2. arg[l] \notin debited
    BY <1>2 DEF LateSplit
  <2>3. Cardinality(debited') = Cardinality(debited) + 1
    BY <1>4, <2>1, <2>2, FS_AddElement
  <2>4. Cardinality(credited) \in Nat /\ Cardinality(debited) \in Nat
    BY <2>1, FS_CardinalityType
  <2> QED
    BY <2>3, <2>4 DEF Balance, Debit
<1> QED
  BY <1>5, <1>6, <1>7, <1>8, <1>9

LEMMA KeepStep ==
  ASSUME CounterInv, NEW l \in Lines, Keep(l)
  PROVE  CounterInv'
<1> USE DEF CounterInv
<1>1. arg[l] \in Int /\ val[l] \in Int /\ arg[l] \in {val[l], val[l] + 1}
  BY DEF TypeOK, Keep
<1>2. Pending(l) = {} /\ PendingLate(l) = {}
  BY <1>1 DEF Pending, PendingLate
<1>3. \A m \in Lines : Pending(m)' = Pending(m) /\ PendingLate(m)' = PendingLate(m)
  BY <1>2, OwedPaid DEF Keep
<1>4. TypeOK' /\ InFlight' /\ UpToLast'
  BY DEF TypeOK, InFlight, UpToLast, Keep
<1>5. GapsSplit' /\ LateSplit' /\ Balance'
  BY <1>3, BooksUnchanged DEF Keep
<1> QED
  BY <1>4, <1>5

LEMMA CounterInvariance == Spec => []CounterInv
<1>1. Init => CounterInv
  <2> SUFFICES ASSUME Init PROVE CounterInv
    OBVIOUS
  <2>1. TypeOK /\ InFlight /\ UpToLast
    BY CounterAssumption DEF Init, TypeOK, InFlight, UpToLast
  <2>2. GapsSplit /\ LateSplit
    BY DEF Init, GapsSplit, LateSplit, Pending, PendingLate
  <2>3. Balance
    BY FS_EmptySet DEF Init, Balance
  <2> QED
    BY <2>1, <2>2, <2>3 DEF CounterInv
<1>2. CounterInv /\ [Next]_vars => CounterInv'
  <2> SUFFICES ASSUME CounterInv, [Next]_vars PROVE CounterInv'
    OBVIOUS
  <2>1. CASE Next
    BY <2>1, ExtractStep, LoadStep, CasStep, CreditStep, DebitStep, KeepStep DEF Next
  <2>2. CASE UNCHANGED vars
    <3>1. \A m \in Lines : Pending(m)' = Pending(m) /\ PendingLate(m)' = PendingLate(m)
      BY <2>2 DEF vars, Pending, PendingLate
    <3>2. GapsSplit' /\ LateSplit' /\ Balance'
      BY <2>2, <3>1, BooksUnchanged DEF vars
    <3> QED
      BY <2>2, <3>2 DEF vars, CounterInv, TypeOK, InFlight, UpToLast
  <2> QED
    BY <2>1, <2>2
<1> QED
  BY <1>1, <1>2, PTL DEF Spec

-----------------------------------------------------------------------------

(* The variables keep their types: no counter above the last one is ever   *)
(* stored and nothing is debited that was not seen.                        *)
THEOREM CounterTyping == Spec => []TypeOK
<1>1. CounterInv => TypeOK
  BY DEF CounterInv
<1> QED
  BY <1>1, CounterInvariance, PTL

LEMMA DisjointUnion ==
  ASSUME NEW S, NEW T, NEW U, IsFiniteSet(S), IsFiniteSet(T), S \cup T = U, S \cap T = {}
  PROVE  Cardinality(U) = Cardinality(S) + Cardinality(T)
<1>1. Cardinality(S \cup T) = Cardinality(S) + Cardinality(T) - Cardinality(S \cap T)
  BY FS_Union
<1>2. Cardinality(S \cap T) = 0
  BY FS_EmptySet
<1>3. Cardinality(S) \in Nat /\ Cardinality(T) \in Nat
  BY FS_CardinalityType
<1>4. Cardinality(S \cup T) = Cardinality(S) + Cardinality(T)
  BY <1>1, <1>2, <1>3
<1> QED
  BY <1>4

(* The balance of the sets is the one of the counters that are missing.    *)
LEMMA BalanceOfMissing ==
  ASSUME CounterInv
  PROVE  DropOwed
<1> USE DEF CounterInv
<1> DEFINE jumped == (1..last) \ onTime
           late == seen \ onTime
<1>1. credited \cup Gaps = jumped /\ credited \cap Gaps = {}
  <2>1. \A c \in Gaps : c \in Nat /\ \E l \in Lines : c \in Pending(l)
    BY DEF TypeOK, Gaps, Pending
  <2>2. \A c \in credited : c \in Nat
    BY DEF TypeOK
  <2>3. \A c \in jumped : c \in Nat
    BY DEF TypeOK
  <2>4. \A l \in Lines : Pending(l) \subseteq Gaps
    BY DEF Gaps
  <2>5. credited \cap Gaps = {}
    BY <2>1 DEF GapsSplit
  <2>6. \A c \in Nat : c \in credited \cup Gaps <=> c \in jumped
    BY <2>1, <2>4 DEF GapsSplit
  <2> HIDE DEF jumped
  <2> QED
    BY <2>1, <2>2, <2>3, <2>5, <2>6
<1>2. debited \cup Late = late /\ debited \cap Late = {}
  <2>1. \A c \in Late : \E l \in Lines : c \in PendingLate(l)
    BY DEF Late
  <2>2. \A l \in Lines : PendingLate(l) \subseteq Late
    BY DEF Late
  <2>3. Late \subseteq seen
    BY <2>1 DEF PendingLate, InFlight
  <2>4. debited \subseteq seen
    BY DEF TypeOK
  <2>5. debited \cap Late = {}
    BY <2>1 DEF LateSplit
  <2>6. \A c \in seen : c \in debited \cup Late <=> c \in late
    BY <2>1, <2>2 DEF LateSplit
  <2> QED
    BY <2>3, <2>4, <2>5, <2>6
<1>3. Missing = jumped \ late /\ jumped \cap late = late \ {0}
  <2>1. \A c \in late : c \in 0..last
    BY CounterAssumption DEF TypeOK, UpToLast, Counters
  <2>2. last \in Nat
    BY DEF TypeOK
  <2> QED
    BY <2>1, <2>2 DEF Missing, TypeOK
<1>4. IsFiniteSet(jumped) /\ IsFiniteSet(late)
  <2>1. IsFiniteSet(1..last)
    BY FS_Interval DEF TypeOK
  <2>2. IsFiniteSet(seen)
    BY Finite
  <2> QED
    BY <2>1, <2>2, FS_Difference
<1> HIDE DEF jumped, late
<1>5. Cardinality(jumped) = Cardinality(credited) + Cardinality(Gaps)
  <2>1. IsFiniteSet(credited) /\ IsFiniteSet(Gaps)
    BY <1>1, <1>4, FS_Subset
  <2> QED
    BY <1>1, <2>1, DisjointUnion
<1>6. Cardinality(late) = Cardinality(debited) + Cardinality(Late)
  <2>1. IsFiniteSet(debited) /\ IsFiniteSet(Late)
    BY <1>2, <1>4, FS_Subset
  <2> QED
    BY <1>2, <2>1, DisjointUnion
<1>7. Cardinality(Missing) = Cardinality(jumped) - Cardinality(late \ {0})
  BY <1>3, <1>4, FS_Difference
<1>8. Cardinality(late \ {0}) = Cardinality(late) - Cardinality(late \cap {0})
  BY <1>4, FS_Difference
<1>9. {0} \cap (debited \cup Late) = late \cap {0}
  BY <1>2
<1>10. /\ Cardinality(jumped) \in Nat /\ Cardinality(late) \in Nat
       /\ Cardinality(credited) \in Nat /\ Cardinality(debited) \in Nat
       /\ Cardinality(Gaps) \in Nat /\ Cardinality(Late) \in Nat
       /\ Cardinality(late \cap {0}) \in Nat /\ Cardinality(late \ {0}) \in Nat
       /\ Cardinality(Missing) \in Nat
  <2>1. /\ IsFiniteSet(credited) /\ IsFiniteSet(Gaps)
        /\ IsFiniteSet(debited) /\ IsFiniteSet(Late) /\ IsFiniteSet(late \cap {0})
        /\ IsFiniteSet(late \ {0}) /\ IsFiniteSet(Missing)
    BY <1>1, <1>2, <1>3, <1>4, FS_Subset
  <2> QED
    BY <1>4, <2>1, FS_CardinalityType
<1>11. drop = Cardinality(credited) - Cardinality(debited)
  BY DEF Balance
<1>12. Cardinality({0} \cap (debited \cup Late)) = Cardinality(late \cap {0})
  BY <1>9
<1> QED
  BY <1>5, <1>6, <1>7, <1>8, <1>10, <1>11, <1>12 DEF DropOwed

(* At every moment the drop count is the number of counters that never     *)
(* reached a line, corrected by what the lines in register_frame_counter   *)
(* still owe it.                                                           *)
THEOREM DropOwedAlways == Spec => []DropOwed
BY CounterInvariance, BalanceOfMissing, PTL

(* When no line owes anything, it is that number, less one if counter 0    *)
(* came late.                                                              *)
THEOREM DropCountCorrect == Spec => []DropCount
<1>1. CounterInv => DropCount
  <2> SUFFICES ASSUME CounterInv, \A l \in Lines : pc[l] # "adjust"
               PROVE  drop = Cardinality(Missing) - Cardinality({0} \cap debited)
    BY DEF DropCount
  <2>1. Gaps = {} /\ Late = {}
    BY DEF Gaps, Late, Pending, PendingLate
  <2>2. Cardinality(Gaps) = 0 /\ Cardinality(Late) = 0
    BY <2>1, FS_EmptySet
  <2>3. drop = Cardinality(Missing) - Cardinality({0} \cap (debited \cup Late))
                 - Cardinality(Gaps) + Cardinality(Late)
    BY BalanceOfMissing DEF DropOwed
  <2>6. Cardinality({0} \cap (debited \cup Late)) = Cardinality({0} \cap debited)
    <3>1. {0} \cap (debited \cup Late) = {0} \cap debited
      BY <2>1
    <3> QED
      BY <3>1
  <2>4. IsFiniteSet(Missing) /\ IsFiniteSet({0} \cap debited)
    <3>1. last \in Int
      BY DEF CounterInv, TypeOK
    <3>2. IsFiniteSet(1..last)
      BY <3>1, FS_Interval
    <3>3. IsFiniteSet(debited)
      BY Finite DEF CounterInv
    <3>4. IsFiniteSet(Missing)
      BY <3>2, FS_Difference DEF Missing
    <3>5. {0} \cap debited \in SUBSET debited
      OBVIOUS
    <3>6. IsFiniteSet({0} \cap debited)
      BY <3>3, <3>5, FS_Subset
    <3> QED
      BY <3>4, <3>6
  <2>5. Cardinality(Missing) \in Nat /\ Cardinality({0} \cap debited) \in Nat
    BY <2>4, FS_CardinalityType
  <2> QED
    BY <2>2, <2>3, <2>5, <2>6
<1> QED
  BY <1>1, CounterInvariance, PTL

(* The last counter never goes back behind a counter that was registered.  *)
THEOREM LastIsMaximal == Spec => []LastIsMax
<1>1. CounterInv => LastIsMax
  <2> SUFFICES ASSUME CounterInv PROVE LastIsMax
    OBVIOUS
  <2>1. last \in seen \cup {0} /\ \A c \in seen : c <= last
    BY DEF CounterInv, UpToLast, TypeOK
  <2>2. last \in 0..MaxCounter /\ \A c \in seen : c \in Nat
    BY CounterAssumption DEF CounterInv, TypeOK, Counters
  <2>3. ASSUME NEW m \in seen \cup {0}, \A c \in seen : c <= m
        PROVE  m = last
    <3>1. m \in 0..MaxCounter /\ m <= last
      BY <2>1, <2>2, CounterAssumption DEF CounterInv, TypeOK, Counters
    <3>2. CASE last \in seen
      BY <2>2, <2>3, <3>1, <3>2
    <3>3. CASE last = 0
      BY <2>2, <3>1, <3>3
    <3> QED
      BY <2>1, <3>2, <3>3
  <2>4. \E m \in seen \cup {0} : \A c \in seen : c <= m
    BY <2>1
  <2> DEFINE m0 == CHOOSE m \in seen \cup {0} : \A c \in seen : c <= m
  <2>5. m0 \in seen \cup {0} /\ \A c \in seen : c <= m0
    BY <2>4
  <2> HIDE DEF m0
  <2>6. m0 = last
    BY <2>3, <2>5
  <2> USE DEF m0
  <2> QED
    BY <2>6 DEF LastIsMax
<1> QED
  BY <1>1, CounterInvariance, PTL
=============================================================================
