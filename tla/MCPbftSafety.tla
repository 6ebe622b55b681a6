---------------------------- MODULE MCPbftSafety ----------------------------
(***************************************************************************)
(* Two systems for TLC, side by side, of which second, the leader of the   *)
(* second view, tells the one that runs: the Byzantine node (the instance  *)
(* that is extended), or a correct one (Led).                              *)
(***************************************************************************)
EXTENDS MCPbft

VARIABLE second

\* Nobody crashes where a correct node leads.
Led(p) == INSTANCE Pbft
            WITH nodes <- IF p = n3 THEN <<n1, n3, n2, n4>> ELSE <<n1, n4, n2, n3>>,
                 MaxCrashes <- 0, MaxHalfEntries <- 0

EitherInit == Init /\ second \in {n2, n3, n4}

EitherNext ==
    /\ UNCHANGED second
    /\ \/ second = n2 /\ Next
       \/ \E p \in {n3, n4} : second = p /\ Led(p)!Next

EitherSpec == EitherInit /\ [][EitherNext]_<<vars, second>>
=============================================================================
