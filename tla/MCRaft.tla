------------------------------- MODULE MCRaft -------------------------------
\* Instances of Raft for TLC.
EXTENDS Raft, TLC

CONSTANTS n1, n2, n3, x, v1, v2

Nodes == {n1, n2, n3}
Keys  == {x}
Vals  == {v1, v2}
SetA  == [op |-> "set", key |-> x, val |-> v1]
SetB  == [op |-> "set", key |-> x, val |-> v2]
DelX  == [op |-> "remove", key |-> x, val |-> v1]
Noop  == [op |-> "noop", key |-> x, val |-> v1]
OneCmd  == {SetA}
TwoCmds == {SetA, DelX}
ThreeCmds == {SetA, SetB, DelX}
DelOnly == {DelX}
SetBOnly == {SetB}
NoCmds  == {}
Two     == {n1, n2}
SymmetryOfTwo == Permutations(Two)

\* Timeouts that expire: with 0, 1 or 2 faults, and without any.
FourToOne == 0 :> 4 @@ 1 :> 2 @@ 2 :> 1
TwoTimeouts == 0 :> 2
TwoToOne == 0 :> 2 @@ 1 :> 1
=============================================================================
