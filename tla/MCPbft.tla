------------------------------- MODULE MCPbft -------------------------------
\* Values of the constants of Pbft for TLC.
EXTENDS Pbft, TLC

CONSTANTS n1, n2, n3, n4, a, b

Four == <<n1, n2, n3, n4>>
AandB == {a, b}

\* The leader of the second view.
SecondIsByzantine == {n2}

\* What is typed at the leader of each view: anything; or anything but in the
\* first view, where it is a.
Anything == [v \in View |-> Value]
OneFirst == [v \in View |-> IF v = 0 THEN {a} ELSE Value]

\* The nodes that lead neither of the first two views; and the contents, where
\* all are typed.
Later    == Permutations({n3, n4})
Symmetry == Permutations(AandB) \cup Later
=============================================================================
