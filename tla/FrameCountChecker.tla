-------------------------- MODULE FrameCountChecker --------------------------
(***************************************************************************)
(* srs::sink::FrameCountChecker: the lines of the pipeline register the    *)
(* frame counter of the frame each of them analyses, concurrently and in   *)
(* any order, in two atomics.  A counter that jumps ahead credits the drop *)
(* count with the gap, one that comes late takes one drop back.  The       *)
(* compare-exchange and the adjustment of the drop count are two steps, so *)
(* a late frame may be taken back before its gap was credited.             *)
(*                                                                         *)
(* The frames are those of one FEC whose counter neither wraps nor starts  *)
(* again, and the network does not repeat a datagram.                      *)
(***************************************************************************)
EXTENDS Integers, FiniteSets

CONSTANTS
  Lines,       \* the lines of the analysis pipeline
  First,       \* the first frame counter the FEC sends
  MaxCounter   \* bound: the last one

Counters == First..MaxCounter

ASSUME CounterAssumption == First \in Nat /\ MaxCounter \in Nat

VARIABLES
  pc,        \* where line l is in analyze_frame_counter
  arg,       \* arg[l]: frame_counter
  val,       \* val[l]: last_value
  last,      \* last_frame_counter_
  drop,      \* frame_drop_counter_
  taken,     \* history: counters of the frames that reached a line
  seen,      \* history: counters whose compare-exchange succeeded
  onTime,    \* history: those that were not below the last one
  credited,  \* history: counters drop was raised for
  debited    \* history: counters drop was lowered for

vars == <<pc, arg, val, last, drop, taken, seen, onTime, credited, debited>>

Init ==
  /\ pc = [l \in Lines |-> "idle"]
  /\ arg = [l \in Lines |-> 0]
  /\ val = [l \in Lines |-> 0]
  /\ last = 0
  /\ drop = 0
  /\ taken = {}
  /\ seen = {}
  /\ onTime = {}
  /\ credited = {}
  /\ debited = {}

\* extract_frame_counter, of any frame that was not lost on its way.
Extract(l, c) ==
  /\ pc[l] = "idle"
  /\ c \notin taken
  /\ taken' = taken \cup {c}
  /\ arg' = [arg EXCEPT ![l] = c]
  /\ pc' = [pc EXCEPT ![l] = "load"]
  /\ UNCHANGED <<val, last, drop, seen, onTime, credited, debited>>

Load(l) ==
  /\ pc[l] = "load"
  /\ val' = [val EXCEPT ![l] = last]
  /\ pc' = [pc EXCEPT ![l] = "cas"]
  /\ UNCHANGED <<arg, last, drop, taken, seen, onTime, credited, debited>>

\* compare_exchange_weak fails, perhaps spuriously, and reloads last_value.
CasFails(l) ==
  /\ pc[l] = "cas"
  /\ val' = [val EXCEPT ![l] = last]
  /\ UNCHANGED <<pc, arg, last, drop, taken, seen, onTime, credited, debited>>

StoreUnchecked(l) ==
  /\ pc[l] = "cas"
  /\ last' = IF arg[l] > val[l] THEN arg[l] ELSE val[l]
  /\ seen' = seen \cup {arg[l]}
  /\ onTime' = IF arg[l] < val[l] THEN onTime ELSE onTime \cup {arg[l]}
  /\ pc' = [pc EXCEPT ![l] = "adjust"]
  /\ UNCHANGED <<arg, val, drop, taken, credited, debited>>

CasSucceeds(l) ==
  /\ pc[l] = "cas"
  /\ last = val[l]
  /\ last' = IF arg[l] > val[l] THEN arg[l] ELSE val[l]
  /\ seen' = seen \cup {arg[l]}
  /\ onTime' = IF arg[l] < val[l] THEN onTime ELSE onTime \cup {arg[l]}
  /\ pc' = [pc EXCEPT ![l] = "adjust"]
  /\ UNCHANGED <<arg, val, drop, taken, credited, debited>>

CreditAll(l) ==
  /\ pc[l] = "adjust"
  /\ arg[l] > val[l] + 1
  /\ drop' = drop + (arg[l] - val[l])
  /\ credited' = credited \cup (val[l] + 1)..(arg[l] - 1)
  /\ pc' = [pc EXCEPT ![l] = "idle"]
  /\ UNCHANGED <<arg, val, last, taken, seen, onTime, debited>>

\* drop += diff - 1, for the counters that diff jumped over ...
Credit(l) ==
  /\ pc[l] = "adjust"
  /\ arg[l] > val[l] + 1
  /\ drop' = drop + (arg[l] - val[l] - 1)
  /\ credited' = credited \cup (val[l] + 1)..(arg[l] - 1)
  /\ pc' = [pc EXCEPT ![l] = "idle"]
  /\ UNCHANGED <<arg, val, last, taken, seen, onTime, debited>>

LateIgnored(l) ==
  /\ pc[l] = "adjust"
  /\ arg[l] < val[l]
  /\ debited' = debited \cup {arg[l]}
  /\ pc' = [pc EXCEPT ![l] = "idle"]
  /\ UNCHANGED <<arg, val, last, drop, taken, seen, onTime, credited>>

\* ... --drop, for a late one ...
Debit(l) ==
  /\ pc[l] = "adjust"
  /\ arg[l] < val[l]
  /\ drop' = drop - 1
  /\ debited' = debited \cup {arg[l]}
  /\ pc' = [pc EXCEPT ![l] = "idle"]
  /\ UNCHANGED <<arg, val, last, taken, seen, onTime, credited>>

\* ... and nothing for the one expected.
Keep(l) ==
  /\ pc[l] = "adjust"
  /\ arg[l] \in {val[l], val[l] + 1}
  /\ pc' = [pc EXCEPT ![l] = "idle"]
  /\ UNCHANGED <<arg, val, last, drop, taken, seen, onTime, credited, debited>>

Next ==
  \E l \in Lines :
    \/ \E c \in Counters : Extract(l, c)
    \/ Load(l) \/ CasFails(l) \/ CasSucceeds(l)
    \/ Credit(l) \/ Debit(l) \/ Keep(l)

Spec == Init /\ [][Next]_vars

-----------------------------------------------------------------------------

TypeOK ==
  /\ pc \in [Lines -> {"idle", "load", "cas", "adjust"}]
  /\ arg \in [Lines -> 0..MaxCounter]
  /\ val \in [Lines -> 0..MaxCounter]
  /\ last \in 0..MaxCounter
  /\ drop \in Int
  /\ taken \in SUBSET Counters
  /\ seen \in SUBSET taken
  /\ onTime \in SUBSET seen
  /\ credited \in SUBSET (1..MaxCounter)
  /\ debited \in SUBSET seen

(***************************************************************************)
(* When no line is between its compare-exchange and its adjustment, the    *)
(* drop count is the number of counters up to the last one that never      *)
(* reached a line, whatever the order in which the lines raced.  Counter 0 *)
(* is the exception: no gap below it is ever credited, so that it costs    *)
(* one drop when it comes late.                                            *)
(***************************************************************************)
Missing == (1..last) \ seen

DropCount ==
  (\A l \in Lines : pc[l] # "adjust") =>
    drop = Cardinality(Missing) - Cardinality({0} \cap debited)

(***************************************************************************)
(* In between, the count is wrong by no more than the adjustments the      *)
(* lines still owe: it exceeds the missing frames by one for each late     *)
(* frame of a line, and falls behind by the gaps the lines jumped over.    *)
(***************************************************************************)
Pending(l) ==
  IF pc[l] = "adjust" /\ arg[l] > val[l] THEN (val[l] + 1)..(arg[l] - 1) ELSE {}

PendingLate(l) == IF pc[l] = "adjust" /\ arg[l] < val[l] THEN {arg[l]} ELSE {}

Gaps == UNION {Pending(l) : l \in Lines}
Late == UNION {PendingLate(l) : l \in Lines}

DropOwed ==
  drop = Cardinality(Missing) - Cardinality({0} \cap (debited \cup Late))
           - Cardinality(Gaps) + Cardinality(Late)

(***************************************************************************)
(* The last counter never goes back: a line that lost the race with a      *)
(* higher counter must not put its stale maximum over it.                  *)
(***************************************************************************)
LastIsMax == last = (CHOOSE m \in seen \cup {0} : \A c \in seen : c <= m)
=============================================================================
