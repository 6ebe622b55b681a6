---------------------------- MODULE AtomicCommit ----------------------------
(***************************************************************************)
(* What module 08 promises: atomic commitment of several transactions.     *)
(* (08 README 1.3: NBAC3, NBAC4 and NBAC5; termination is not promised.)   *)
(***************************************************************************)
EXTENDS Naturals

CONSTANTS Node,  \* the participants
          Tx     \* the transactions

VARIABLE fate    \* fate[g][p]: what p has done about g

Fates == {"none", "YES", "NO", "COMMIT", "ABORT"}

Start == fate = [g \in Tx |-> [p \in Node |-> "none"]]

Becomes(g, p, f) == fate' = [fate EXCEPT ![g][p] = f]

\* A vote is cast once.
Vote(g, p) ==
    /\ fate[g][p] = "none"
    /\ \E v \in {"YES", "NO"} : Becomes(g, p, v)

\* A promise is kept only if everybody has given it, and nobody has left it.
Keep(g, p) ==
    /\ fate[g][p] = "YES"
    /\ \A q \in Node : fate[g][q] \in {"YES", "COMMIT"}
    /\ Becomes(g, p, "COMMIT")

\* A promise is released only while nobody has kept it.
Release(g, p) ==
    /\ fate[g][p] = "YES"
    /\ \A q \in Node : fate[g][q] # "COMMIT"
    /\ Becomes(g, p, "ABORT")

Step == \E g \in Tx, p \in Node : Vote(g, p) \/ Keep(g, p) \/ Release(g, p)

Spec == Start /\ [][Step]_fate
=============================================================================
