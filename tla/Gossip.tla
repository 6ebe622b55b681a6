--------------------------------- MODULE Gossip ---------------------------------
(***************************************************************************)
(* The epidemic of 12 (gossip.rs): N replicas of a grow-only counter, each *)
(* of which pulls in round k from the k-th replica after it, one replica   *)
(* after the other; three rounds under a partition, then as many as it     *)
(* takes until all are equal.                                              *)
(***************************************************************************)
EXTENDS GCounter, FiniteSets

CONSTANTS Island,  \* the replicas on one side of the partition
          MaxOwn   \* events a replica has counted before the gossip

VARIABLES slots,   \* slots[i]: the counter at replica i
          round,   \* the number of the round
          next,    \* the replica that pulls next in this round
          own      \* own[i]: what i counted (rigid)

vars == <<slots, round, next, own>>

-----------------------------------------------------------------------------

(* The replicas are 0 .. N - 1. *)
N == Cardinality(Replica)

Partitioned == round <= 3

AllEqual == \A i, j \in Replica : slots[i] = slots[j]

(* After the local counting. *)
Init ==
    /\ own \in [Replica -> 0 .. MaxOwn]
    /\ slots = [i \in Replica |-> [New EXCEPT ![i] = own[i]]]
    /\ round = 1
    /\ next = 0

Neighbour(i) == (i + round) % N

(* The partition drops the exchanges between its sides. *)
Talks(i, j) == i # j /\ (Partitioned => (i \in Island <=> j \in Island))

(* The clone is merged in place: who pulls later in the round pulls more. *)
Pull ==
    /\ next < N
    /\ slots' = IF Talks(next, Neighbour(next))
                THEN [slots EXCEPT ![next] = Merge(@, slots[Neighbour(next)])]
                ELSE slots
    /\ next' = next + 1
    /\ UNCHANGED <<round, own>>

NextRound ==
    /\ next = N
    /\ Partitioned \/ ~ AllEqual
    /\ round' = round + 1
    /\ next' = 0
    /\ UNCHANGED <<slots, own>>

Next == Pull \/ NextRound

Spec == Init /\ [][Next]_vars

FairSpec == Spec /\ WF_vars(Next)

-----------------------------------------------------------------------------
(* The rounds come to an end, with the true total at every replica.         *)
TotalEverywhere == ~ Partitioned /\ next = N /\ \A i \in Replica : slots[i] = own

Converges == <>TotalEverywhere

=============================================================================
