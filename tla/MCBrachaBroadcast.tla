------------------------- MODULE MCBrachaBroadcast -------------------------
\* Values of the constants of BrachaBroadcast for TLC.
EXTENDS BrachaBroadcast, TLC

CONSTANTS n1, n2, n3, n4, a, b

Four == {n1, n2, n3, n4}
AandB == {a, b}
LastIsByzantine == {n4}

\* What the Byzantine node n4 signs: everything for everybody; READY of content
\* b, whatever the sender broadcasts; or, of content a, as much as makes n1
\* deliver and leaves n3 to amplification.
Everything   == [p \in Four \ {n4} |-> [kind : {"SEND", "ECHO", "READY"}, from : {n4}, m : AandB]]
OtherContent == [p \in Four \ {n4} |->
                    [kind : IF p = n1 THEN {} ELSE {"READY"}, from : {n4}, m : {b}]]
Partial      == [p \in Four \ {n4} |->
                    [kind : (CASE p = n1 -> {"SEND", "ECHO", "READY"}
                               [] p = n2 -> {"SEND", "ECHO"}
                               [] p = n3 -> {"READY"}), from : {n4}, m : {a}]]

\* The correct nodes other than the sender, and the contents.
Symmetry == Permutations(Four \ (LastIsByzantine \cup {Sender})) \cup Permutations(AandB)

\* echos is read only until READY is sent, readys only until delivery.
Read ==
    <<net, sentecho, sentready, delivered,
      [p \in Correct |-> IF sentready[p] THEN <<>> ELSE echos[p]],
      [p \in Correct |-> IF delivered[p] # <<>> THEN <<>> ELSE readys[p]]>>

\* Spec for a Byzantine sender: nothing is typed at the terminal of a correct one.
LiarNext == \E p \in Correct, msg \in Signed : Receive(p, msg)
LiarSpec == Init /\ [][LiarNext]_vars
=============================================================================
