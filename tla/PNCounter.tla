------------------------------- MODULE PNCounter -------------------------------
(***************************************************************************)
(* The counter of 12 that goes up and down (pn_counter.rs), two grow-only  *)
(* counters, one of them subtracted; with replicas that gossip by sending  *)
(* a clone of their state, which arrives late, more than once, or never.   *)
(***************************************************************************)
EXTENDS GCounter, Integers

CONSTANTS MaxCounts,   \* increments and decrements of a replica
          MaxClones    \* clones sent

VARIABLES pos, neg,    \* the two piles of every replica
          clones,      \* the states that were sent
          heard        \* heard[r]: the counts that r's state stands for (history)

vars == <<pos, neg, clones, heard>>

-----------------------------------------------------------------------------

Init ==
    /\ pos = [r \in Replica |-> New]
    /\ neg = [r \in Replica |-> New]
    /\ clones = {}
    /\ heard = [r \in Replica |-> {}]

Own(r) == {c \in heard[r] : c.at = r}

Counts(r, by) ==
    /\ Cardinality(Own(r)) < MaxCounts
    /\ heard' = [heard EXCEPT ![r] = @ \union {[at |-> r, seq |-> Cardinality(Own(r)), by |-> by]}]
    /\ UNCHANGED clones

CountUp(r) ==
    /\ Counts(r, 1)
    /\ pos' = [pos EXCEPT ![r] = Increment(@, r)]
    /\ UNCHANGED neg

CountDown(r) ==
    /\ Counts(r, -1)
    /\ neg' = [neg EXCEPT ![r] = Increment(@, r)]
    /\ UNCHANGED pos

Send(r) ==
    /\ Cardinality(clones) < MaxClones
    /\ clones' = clones \union {[pos |-> pos[r], neg |-> neg[r], heard |-> heard[r]]}
    /\ UNCHANGED <<pos, neg, heard>>

MergeClone(r, c) ==
    /\ pos' = [pos EXCEPT ![r] = Merge(@, c.pos)]
    /\ neg' = [neg EXCEPT ![r] = Merge(@, c.neg)]
    /\ heard' = [heard EXCEPT ![r] = @ \union c.heard]
    /\ UNCHANGED clones

Next ==
    \/ \E r \in Replica : CountUp(r) \/ CountDown(r) \/ Send(r)
    \/ \E r \in Replica, c \in clones : MergeClone(r, c)

Spec == Init /\ [][Next]_vars

-----------------------------------------------------------------------------
(* A replica's value is the sum of the counts it has heard of, each once,   *)
(* and replicas that heard of the same counts have the same state, however  *)
(* often and in whatever order the clones that told them arrived.           *)
CountedOnce ==
    \A r \in Replica :
        /\ Value(pos[r]) - Value(neg[r]) = MapThenSumSet(LAMBDA c : c.by, heard[r])
        /\ \A q \in Replica :
             heard[r] = heard[q] => pos[r] = pos[q] /\ neg[r] = neg[q]

=============================================================================
