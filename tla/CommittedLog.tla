---------------------------- MODULE CommittedLog ----------------------------
(***************************************************************************)
(* What a replicated log promises its clients: ONE sequence of commands is *)
(* chosen, it only grows at its end, and every node learns longer and      *)
(* longer prefixes of it.  Nothing is forgotten, by a crash or otherwise.  *)
(***************************************************************************)
EXTENDS Naturals, Sequences, SequencesExt

CONSTANTS Node, Entries

VARIABLES chosen, learned

Init ==
    /\ chosen = <<>>
    /\ learned = [n \in Node |-> 0]

\* n decides what comes next, and is the first to know.
Choose(n) ==
    /\ IsStrictPrefix(chosen, chosen') /\ chosen' \in Seq(Entries)
    /\ learned' = [learned EXCEPT ![n] = Len(chosen')]

\* n catches up with a part of what has been chosen.
Learn(n) ==
    /\ \E k \in learned[n] + 1 .. Len(chosen) : learned' = [learned EXCEPT ![n] = k]
    /\ UNCHANGED chosen

Next == \E n \in Node : learned'[n] > learned[n] /\ (Choose(n) \/ Learn(n))

Spec == Init /\ [][Next]_<<chosen, learned>>
=============================================================================
