-------------------------- MODULE MCReplicatedStore --------------------------
EXTENDS ReplicatedStore, TLC

CONSTANTS n1, n2, n3

Three == {n1, n2, n3}
Symmetry == Permutations(Three \ {Primary})

\* Who was asked, and who answered, is read until a write or get is over.
Read ==
    <<store, up, catching, late, acknowledged, crashes, dying,
      [w \in Write |-> IF write[w].state = "over" THEN write[w].line ELSE write[w]],
      CASE get.state = "reading"  -> get
        [] get.state = "answered" -> <<get.best.value, get.floor>>
        [] OTHER                  -> <<>> >>

=============================================================================
