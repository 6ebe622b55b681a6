------------------------------- MODULE GCounter -------------------------------
(***************************************************************************)
(* The grow-only counter of 12 (lib.rs): a slot per replica, of which a    *)
(* replica only bumps its own; merging takes the larger of the two, slot   *)
(* by slot.                                                                *)
(***************************************************************************)
EXTENDS Naturals, FiniteSetsExt

CONSTANTS Replica

New == [r \in Replica |-> 0]

Increment(slots, r) == [slots EXCEPT ![r] = @ + 1]

Value(slots) == MapThenSumSet(LAMBDA r : slots[r], Replica)

(* Mutant: merge_add() of naive_counter.rs. *)
MergeAdd(mine, theirs) == [r \in Replica |-> mine[r] + theirs[r]]

Merge(mine, theirs) == [r \in Replica |-> Max({mine[r], theirs[r]})]

=============================================================================
