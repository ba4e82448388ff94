---------------------------- MODULE CommandRounds ----------------------------
(***************************************************************************)
(* What switching the FECs on or off promises, whatever the network does:  *)
(* a round either fails to start or ends, and when it has ended each FEC   *)
(* has answered or is reported.  An answer means that the FEC has the      *)
(* command.  FecControl implements this.                                   *)
(***************************************************************************)
EXTENDS FiniteSets

CONSTANTS Rounds, Fecs

VARIABLES
  status,     \* of each round: idle, failed, running, over
  received,   \* the FECs that have the command of a round
  answered,   \* the FECs whose answer was recognised
  reported    \* the FECs the timeout message names

roundVars == <<status, received, answered, reported>>

Init ==
  /\ status = [r \in Rounds |-> "idle"]
  /\ received = [r \in Rounds |-> {}]
  /\ answered = [r \in Rounds |-> {}]
  /\ reported = [r \in Rounds |-> {}]

\* The socket could not be bound.
Fail(r) ==
  /\ status[r] = "idle"
  /\ status' = [status EXCEPT ![r] = "failed"]
  /\ UNCHANGED <<received, answered, reported>>

Begin(r) ==
  /\ status[r] = "idle"
  /\ status' = [status EXCEPT ![r] = "running"]
  /\ UNCHANGED <<received, answered, reported>>

\* A command reaches its FEC, possibly after the round is over.
Obey(r, f) ==
  /\ status[r] \in {"running", "over"}
  /\ received' = [received EXCEPT ![r] = @ \cup {f}]
  /\ UNCHANGED <<status, answered, reported>>

\* An answer is recognised, possibly while or after the round is reported.
Answer(r, f) ==
  /\ status[r] \in {"running", "over"}
  /\ f \in received[r]
  /\ answered' = [answered EXCEPT ![r] = @ \cup {f}]
  /\ UNCHANGED <<status, received, reported>>

\* The round ends: whoever has not answered by now is reported.
End(r) ==
  /\ status[r] = "running"
  /\ \E silent \in SUBSET Fecs :
       /\ Fecs \ answered[r] \subseteq silent
       /\ reported' = [reported EXCEPT ![r] = silent]
  /\ status' = [status EXCEPT ![r] = "over"]
  /\ UNCHANGED <<received, answered>>

Next ==
  \E r \in Rounds :
    \/ Fail(r) \/ Begin(r) \/ End(r)
    \/ \E f \in Fecs : Obey(r, f) \/ Answer(r, f)

Spec == Init /\ [][Next]_roundVars
=============================================================================
