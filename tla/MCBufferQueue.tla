---------------------------- MODULE MCBufferQueue ----------------------------
(***************************************************************************)
(* BufferQueue for TLC.  Storages are interchangeable, so one assignment   *)
(* of storages to the initial owners stands for all of them.  Neither Next *)
(* nor a property names a socket or a line and there is no fairness, so    *)
(* the states that differ by a permutation of them are checked once.       *)
(***************************************************************************)
EXTENDS BufferQueue, TLC

Symmetry == Permutations(Sockets) \cup Permutations(Lines)

Owner0 == CHOOSE f \in [Sockets \cup Lines -> Storage] :
            \A x, y \in Sockets \cup Lines : f[x] = f[y] => x = y

Trash0 == {T \in SUBSET (Storage \ {Owner0[x] : x \in Sockets \cup Lines}) :
             \A b \in T, c \in Storage :
               c < b => c \in T \/ c \in {Owner0[x] : x \in Sockets \cup Lines}}

MCInit ==
  /\ sockBuf = [s \in Sockets |-> Owner0[s]]
  /\ lineBuf = [l \in Lines |-> Owner0[l]]
  /\ trash \in Trash0
  /\ Init

MCSpec == MCInit /\ [][Next]_vars
=============================================================================
