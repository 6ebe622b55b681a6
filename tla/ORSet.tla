--------------------------------- MODULE ORSet ---------------------------------
(***************************************************************************)
(* The observed-remove set of 12 (or_set.rs): every addition is a tag of   *)
(* its own, and a removal buries the tags it can see.  Replicas gossip     *)
(* clones of their state, which arrive late, more than once, or never.     *)
(***************************************************************************)
EXTENDS Naturals, FiniteSets

CONSTANTS Replica, Element,
          MaxCalls,    \* add and remove at a replica
          MaxClones    \* clones sent

VARIABLES seq,     \* seq[r]: the next number for a tag of r
          adds,    \* adds[r]: <<element, tag>> that r knows of
          tombs,   \* tombs[r]: the tags that r knows were removed
          clones,  \* the states that were sent
          calls,   \* calls[r]: how many calls r has served
          heard    \* heard[r]: the calls that r's state stands for (history)

vars == <<seq, adds, tombs, clones, calls, heard>>

-----------------------------------------------------------------------------

Init ==
    /\ seq = [r \in Replica |-> 0]
    /\ adds = [r \in Replica |-> {}]
    /\ tombs = [r \in Replica |-> {}]
    /\ clones = {}
    /\ calls = [r \in Replica |-> 0]
    /\ heard = [r \in Replica |-> {}]

(* A call, and the calls its replica had heard of before. *)
Called(r, op, e) ==
    /\ calls[r] < MaxCalls
    /\ calls' = [calls EXCEPT ![r] = @ + 1]
    /\ heard' = [heard EXCEPT ![r] =
                   @ \union {[op |-> op, element |-> e, id |-> <<r, calls[r]>>,
                              after |-> {c.id : c \in heard[r]}]}]
    /\ UNCHANGED clones

(* Mutant: the number of the tags is not counted on. *)
MintSame(r) == <<r, 0>>

(* A tag no replica has ever used. *)
Mint(r) == <<r, seq[r]>>

Add(r, e) ==
    /\ Called(r, "add", e)
    /\ adds' = [adds EXCEPT ![r] = @ \union {<<e, Mint(r)>>}]
    /\ seq' = [seq EXCEPT ![r] = @ + 1]
    /\ UNCHANGED tombs

(* The tags of e that r knows of, dead or alive. *)
Tags(r, e) == {a[2] : a \in {x \in adds[r] : x[1] = e}}

Remove(r, e) ==
    /\ Called(r, "remove", e)
    /\ tombs' = [tombs EXCEPT ![r] = @ \union Tags(r, e)]
    /\ UNCHANGED <<seq, adds>>

Contains(r, e) == Tags(r, e) \ tombs[r] # {}

Send(r) ==
    /\ Cardinality(clones) < MaxClones
    /\ clones' = clones \union {[adds |-> adds[r], tombs |-> tombs[r], heard |-> heard[r]]}
    /\ UNCHANGED <<seq, adds, tombs, calls, heard>>

Merge(r, c) ==
    /\ adds' = [adds EXCEPT ![r] = @ \union c.adds]
    /\ tombs' = [tombs EXCEPT ![r] = @ \union c.tombs]
    /\ heard' = [heard EXCEPT ![r] = @ \union c.heard]
    /\ UNCHANGED <<seq, clones, calls>>

Next ==
    \/ \E r \in Replica, e \in Element : Add(r, e) \/ Remove(r, e)
    \/ \E r \in Replica : Send(r) \/ \E c \in clones : Merge(r, c)

Spec == Init /\ [][Next]_vars

-----------------------------------------------------------------------------
(* An element is in the set of a replica exactly if the replica has heard   *)
(* of an addition of it that no removal it has heard of came after: old     *)
(* gossip resurrects nothing, an addition concurrent to a removal wins, and *)
(* replicas that heard of the same calls hold the same set.                 *)
AddWins ==
    \A r \in Replica, e \in Element :
        Contains(r, e) <=>
            \E a \in heard[r] :
                /\ a.op = "add" /\ a.element = e
                /\ \A d \in heard[r] :
                     d.op = "remove" /\ d.element = e => a.id \notin d.after

=============================================================================
