-------------------------- MODULE MCBrachaLiveness --------------------------
(***************************************************************************)
(* Two systems for TLC, side by side, of which part tells the one that     *)
(* runs: one with a correct sender (the instance that is extended) and one *)
(* with a Byzantine sender (Lying).                                        *)
(***************************************************************************)
EXTENDS MCBrachaBroadcast

VARIABLES part, net2, sentecho2, sentready2, delivered2, echos2, readys2

Lying == INSTANCE BrachaBroadcast
             WITH Sender <- n4, Forged <- Partial, MaxBcasts <- 0,
                  net <- net2, sentecho <- sentecho2, sentready <- sentready2,
                  delivered <- delivered2, echos <- echos2, readys <- readys2

lyingVars == <<net2, sentecho2, sentready2, delivered2, echos2, readys2>>

EitherInit == part \in {"honest", "lying"} /\ Init /\ Lying!Init

EitherNext ==
    \/ part = "honest" /\ Next       /\ UNCHANGED <<part, lyingVars>>
    \/ part = "lying"  /\ Lying!Next /\ UNCHANGED <<part, vars>>

EitherSpec ==
    EitherInit /\ [][EitherNext]_<<part, vars, lyingVars>> /\ Fairness /\ Lying!Fairness

\* BRB5 where it is hardest: a sender that makes one correct node deliver, helps
\* another half way and leaves the third to amplification.
TotalityOfALie == Lying!Totality
=============================================================================
