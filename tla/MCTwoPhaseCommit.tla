-------------------------- MODULE MCTwoPhaseCommit --------------------------
(***************************************************************************)
(* Two systems for TLC, side by side, of which part tells the one that     *)
(* runs: three participants that may die under a coordinator that does not *)
(* (the instance that is extended), and two participants whose coordinator *)
(* may be restarted (Pair), where agreement is not promised.               *)
(***************************************************************************)
EXTENDS TwoPhaseCommit

VARIABLES part, account2, disk2, up2, queue2, coord2, submitted2, deaths2,
          coordinators2, fate2

\* Three accounts of 100, and transfers that one of them can afford once.
PayAmongThree == {<<-60, 40, 20>>, <<50, -80, 30>>}
OnePayOfThree == {<<-60, 40, 20>>}

\* Two accounts: a transfer as above, and one that moves something back.
PayBetweenTwo == {<<-60, 60>>, <<30, -30>>}

Pair == INSTANCE TwoPhaseCommit
            WITH N <- 2, Transfers <- PayBetweenTwo, CrashTransfers <- {},
                 MaxTransfers <- 3, MaxDeaths <- 1, MaxCoordinators <- 2,
                 account <- account2, disk <- disk2, up <- up2, queue <- queue2,
                 coord <- coord2, submitted <- submitted2, deaths <- deaths2,
                 coordinators <- coordinators2, fate <- fate2

pairVars == <<account2, disk2, up2, queue2, coord2, submitted2, deaths2,
              coordinators2, fate2>>

EitherInit == part \in {"deaths", "restarts"} /\ Init /\ Pair!Init

EitherNext ==
    \/ part = "deaths"   /\ Next      /\ UNCHANGED <<part, pairVars>>
    \/ part = "restarts" /\ Pair!Next /\ UNCHANGED <<part, vars>>

EitherSpec == EitherInit /\ [][EitherNext]_<<part, vars, pairVars>> /\ Pair!Fairness

\* Promises stay binding and backed by money, and COMMIT is sent only on
\* promises that are on disk, when coordinators come and go too, each counting
\* its transactions from one again.
SafeAcrossRestarts == Pair!Solvent /\ Pair!CommitIsSafe

\* The coordinator comes back for the next command whoever dies or restarts.
EveryTransferEnds == Pair!TransferEnds

\* While every process lives, whoever is in doubt gets the verdict.
EveryDoubtEnds == Pair!DoubtEnds
=============================================================================
