--------------------------- MODULE TwoPhaseCommit ---------------------------
(***************************************************************************)
(* Module 08, src/08-two-phase-commit/src/main.rs: one coordinator that    *)
(* reads transfers from its terminal, N participants that each hold an     *)
(* account behind a sequential accept loop.                                *)
(*                                                                         *)
(* Everything is synchronous: the coordinator opens a connection, writes   *)
(* one request and blocks for the reply, without a timeout.  A request     *)
(* waits in the participant's accept queue until the loop comes to it; it  *)
(* outlives a coordinator that dies waiting.  The reply touches only the   *)
(* coordinator's locals, so serving and reading the reply is one step,     *)
(* unless the participant dies between persist() and the reply.            *)
(*                                                                         *)
(* The code knows a transaction by the coordinator's counter.  The model   *)
(* also numbers the transfers of a whole behaviour, in the field g of a    *)
(* request and of a promise, which no step looks at except to record what  *)
(* became of the transfer in the history variable fate.                    *)
(***************************************************************************)
EXTENDS Integers, Sequences, FiniteSets, Functions

CONSTANTS
    N,                \* participants, in the order of the command line
    Transfers,        \* the deltas of a "transfer" and
    CrashTransfers,   \*   of a "transfer-crash" command
    MaxTransfers,     \* bounds, not in the code: commands in a behaviour,
    MaxDeaths,        \*   deaths of participants,
    MaxCoordinators   \*   restarts of the coordinator

Participant == 1 .. N
Tx          == 1 .. MaxTransfers
Delta       == [Participant -> Int]
Nobody      == [tx |-> 0, delta |-> 0, g |-> 0]   \* prepared = None

Promise == [tx : Nat, delta : Int, g : Nat]
Account == [balance : Int, prepared : Promise]
Call    == [kind : {"PREPARE", "COMMIT", "ABORT"}, tx : Nat, delta : Int, g : Tx]
Coordinator == [pc : {"idle", "PREPARE", "COMMIT", "ABORT"}, tx : Nat, g : Nat,
                deltas : Delta, at : Participant, waiting : BOOLEAN,
                all_yes : BOOLEAN, hook : BOOLEAN]

ASSUME ParticipantAssumption == N \in Nat \ {0}
ASSUME TransferAssumption    == Transfers \subseteq Delta /\ CrashTransfers \subseteq Delta
ASSUME BoundAssumption       == {MaxTransfers, MaxDeaths, MaxCoordinators} \subseteq Nat

VARIABLES
    account,      \* account[p]: balance and prepared in p's memory
    disk,         \* disk[p]: its state file
    up,           \* up[p]: is p running
    queue,        \* queue[p]: requests in p's accept queue
    coord,        \* the coordinator
    submitted,    \* number of commands, of
    deaths,       \*   deaths of participants and of
    coordinators, \*   restarts of the coordinator so far
    fate          \* history: fate[g][p], what p has done about transfer g

vars == <<account, disk, up, queue, coord, submitted, deaths, coordinators, fate>>

(******************************* participant *******************************)

\* load() of a node that has never persisted: (100, None).
Fresh == [balance |-> 100, prepared |-> Nobody]

\* Mutants: the lock is not looked at, the balance is not looked at.
PromiseTwice(a, m) == a.balance + m.delta >= 0
PromiseUnfunded(a, m) == a.prepared = Nobody

CanPromise(a, m) == a.balance + m.delta >= 0 /\ a.prepared = Nobody

\* Mutant: whatever is prepared is meant.
HoldsAny(a, m) == a.prepared # Nobody

Holds(a, m) == a.prepared # Nobody /\ a.prepared.tx = m.tx

\* The account after a PREPARE, and after a verdict.
OnPrepare(a, m) ==
    IF CanPromise(a, m)
    THEN [a EXCEPT !.prepared = [tx |-> m.tx, delta |-> m.delta, g |-> m.g]]
    ELSE a

\* Mutant: the lock outlives the verdict to commit.
OnVerdictKeep(a, m) ==
    IF ~Holds(a, m) THEN a
    ELSE IF m.kind = "COMMIT" THEN [a EXCEPT !.balance = @ + a.prepared.delta]
    ELSE [a EXCEPT !.prepared = Nobody]

OnVerdict(a, m) ==
    IF ~Holds(a, m) THEN a
    ELSE [balance  |-> a.balance + (IF m.kind = "COMMIT" THEN a.prepared.delta ELSE 0),
          prepared |-> Nobody]

OnCall(a, m) == IF m.kind = "PREPARE" THEN OnPrepare(a, m) ELSE OnVerdict(a, m)

\* What becomes of the transfers at p when it serves m.
FateAfter(p, a, m) ==
    IF m.kind = "PREPARE"
    THEN [fate EXCEPT ![m.g][p] = IF CanPromise(a, m) THEN "YES" ELSE "NO"]
    ELSE [g \in Tx |-> IF Holds(a, m) /\ a.prepared.g = g
                       THEN [fate[g] EXCEPT ![p] = m.kind] ELSE fate[g]]

\* Mutant: the promise does not reach the disk.
PersistNoPromise(p, a) == disk' = [disk EXCEPT ![p] = [a EXCEPT !.prepared = Nobody]]

\* persist(): a temporary file renamed over the old one, before any reply.
Persist(p, a) == disk' = [disk EXCEPT ![p] = a]

(******************************* coordinator *******************************)

\* Between two commands; tx is all that is left of the last one.
Idle(tx) == [pc |-> "idle", tx |-> tx, g |-> 0, deltas |-> [p \in Participant |-> 0],
             at |-> 1, waiting |-> FALSE, all_yes |-> TRUE, hook |-> FALSE]

Init ==
    /\ account = [p \in Participant |-> Fresh]
    /\ disk = [p \in Participant |-> Fresh]
    /\ up = [p \in Participant |-> TRUE]
    /\ queue = [p \in Participant |-> <<>>]
    /\ coord = Idle(0)
    /\ submitted = 0 /\ deaths = 0 /\ coordinators = 0
    /\ fate = [g \in Tx |-> [p \in Participant |-> "none"]]

\* A command is read; hook says that it is transfer-crash.
Submit(deltas, hook) ==
    /\ coord.pc = "idle" /\ submitted < MaxTransfers
    /\ submitted' = submitted + 1
    /\ coord' = [coord EXCEPT !.pc = "PREPARE", !.tx = @ + 1, !.g = submitted + 1,
                              !.deltas = deltas, !.hook = hook]
    /\ UNCHANGED <<account, disk, up, queue, deaths, coordinators, fate>>

\* The coordinator after a call is over.  After the last participant, phase one
\* turns into the verdict, or into nothing if the command was transfer-crash.
After(c) ==
    CASE c.at < N ->
            [c EXCEPT !.waiting = FALSE, !.at = @ + 1]
      [] c.at = N /\ c.pc = "PREPARE" /\ ~c.hook ->
            [c EXCEPT !.waiting = FALSE, !.at = 1,
                      !.pc = IF c.all_yes THEN "COMMIT" ELSE "ABORT"]
      [] c.at = N /\ (c.pc # "PREPARE" \/ c.hook) -> Idle(c.tx)

\* Mutants: only the last vote counts; a participant that does not say yes is
\* asked again.
LastWord(c, yes) == After([c EXCEPT !.all_yes = yes])
AskAgain(c, yes) == IF c.pc = "PREPARE" /\ ~yes THEN [c EXCEPT !.waiting = FALSE]
                    ELSE After(c)

\* The call is over; yes says that the reply was VOTE tx YES.
Answered(c, yes) ==
    After([c EXCEPT !.all_yes = IF c.pc = "PREPARE" THEN @ /\ yes ELSE @])

\* connect() and the request written.
Send ==
    /\ coord.pc # "idle" /\ ~coord.waiting /\ up[coord.at]
    /\ coord' = [coord EXCEPT !.waiting = TRUE]
    /\ queue' = [queue EXCEPT ![coord.at] =
                   Append(@, [kind |-> coord.pc, tx |-> coord.tx, g |-> coord.g,
                              delta |-> coord.deltas[coord.at]])]
    /\ UNCHANGED <<account, disk, up, submitted, deaths, coordinators, fate>>

\* connect() refused: send() returns None.
Refused ==
    /\ coord.pc # "idle" /\ ~coord.waiting /\ ~up[coord.at]
    /\ coord' = Answered(coord, FALSE)
    /\ UNCHANGED <<account, disk, up, queue, submitted, deaths, coordinators, fate>>

\* Is the request that p serves next the one the coordinator waits for?  (It
\* is behind those of coordinators that died.)
Live(p) == coord.waiting /\ coord.at = p /\ Len(queue[p]) = 1

Handled(p) ==
    LET m == Head(queue[p])
        a == OnCall(account[p], m)
    IN  /\ account' = [account EXCEPT ![p] = a]
        /\ Persist(p, a)
        /\ fate' = FateAfter(p, account[p], m)

\* One turn of the accept loop.
Serve(p) ==
    /\ up[p] /\ queue[p] # <<>>
    /\ Handled(p)
    /\ queue' = [queue EXCEPT ![p] = Tail(@)]
    /\ coord' = IF Live(p)
                THEN Answered(coord, CanPromise(account[p], Head(queue[p])))
                ELSE coord
    /\ UNCHANGED <<up, submitted, deaths, coordinators>>

(********************************* crashes *********************************)

\* p is gone, and its accept queue with it: a coordinator that waits for it
\* reads an empty reply.
Gone(p) ==
    /\ up[p] /\ deaths < MaxDeaths /\ deaths' = deaths + 1
    /\ up' = [up EXCEPT ![p] = FALSE]
    /\ queue' = [queue EXCEPT ![p] = <<>>]
    /\ coord' = IF coord.waiting /\ coord.at = p THEN Answered(coord, FALSE) ELSE coord

Die(p) ==
    /\ Gone(p)
    /\ UNCHANGED <<account, disk, submitted, coordinators, fate>>

\* The effect of the request was persisted, the reply never written.
DieBeforeReply(p) ==
    /\ queue[p] # <<>> /\ Handled(p)
    /\ Gone(p)
    /\ UNCHANGED <<submitted, coordinators>>

\* Mutant: the node comes up as a fresh one.
StartFresh(p) ==
    /\ ~up[p]
    /\ up' = [up EXCEPT ![p] = TRUE]
    /\ account' = [account EXCEPT ![p] = Fresh]
    /\ UNCHANGED <<disk, queue, coord, submitted, deaths, coordinators, fate>>

\* Mutant: the "-" that stands for no promise is read as one.
StartDash(p) ==
    /\ ~up[p]
    /\ up' = [up EXCEPT ![p] = TRUE]
    /\ account' = [account EXCEPT ![p] =
          IF disk[p].prepared = Nobody THEN [disk[p] EXCEPT !.prepared.tx = -1] ELSE disk[p]]
    /\ UNCHANGED <<disk, queue, coord, submitted, deaths, coordinators, fate>>

\* load(): the balance and the promise, if any, come back.
Start(p) ==
    /\ ~up[p]
    /\ up' = [up EXCEPT ![p] = TRUE]
    /\ account' = [account EXCEPT ![p] = disk[p]]
    /\ UNCHANGED <<disk, queue, coord, submitted, deaths, coordinators, fate>>

\* The coordinator persists nothing: the next one counts from zero again.
CoordinatorRestarts ==
    /\ coordinators < MaxCoordinators /\ coordinators' = coordinators + 1
    /\ coord' = Idle(0)
    /\ UNCHANGED <<account, disk, up, queue, submitted, deaths, fate>>

Next ==
    \/ \E d \in Transfers : Submit(d, FALSE)
    \/ \E d \in CrashTransfers : Submit(d, TRUE)
    \/ Send \/ Refused
    \/ \E p \in Participant : Serve(p) \/ Die(p) \/ DieBeforeReply(p) \/ Start(p)
    \/ CoordinatorRestarts

Spec == Init /\ [][Next]_vars

(******************************** properties *******************************)

TypeOK ==
    /\ account \in [Participant -> Account] /\ disk \in [Participant -> Account]
    /\ up \in [Participant -> BOOLEAN]
    /\ queue \in [Participant -> Seq(Call)]
    /\ coord \in Coordinator
    /\ submitted \in 0 .. MaxTransfers /\ deaths \in Nat /\ coordinators \in Nat
    /\ fate \in [Tx -> [Participant -> {"none", "YES", "NO", "COMMIT", "ABORT"}]]

\* No account is ever overdrawn, and every promise can be kept, in memory and
\* on what a death leaves on disk (08 README 3.1: a YES is binding).
Solvent ==
    \A p \in Participant : \A a \in {account[p], disk[p]} :
        a.balance >= 0 /\ a.balance + a.prepared.delta >= 0

\* Once the coordinator sends COMMIT every participant has the promise on its
\* disk or has already kept it: nobody's death can lose the transfer.
CommitIsSafe ==
    coord.pc = "COMMIT" =>
        \A p \in Participant :
            disk[p].prepared.g = coord.g \/ fate[coord.g][p] = "COMMIT"

\* NBAC5, uniform agreement (08 README 1.3): of one transfer, no participant
\* aborts its part when another has committed its own.
Agreement ==
    \A g \in Tx, p, q \in Participant :
        ~(fate[g][p] = "COMMIT" /\ fate[g][q] = "ABORT")

\* Money is conserved by transfers that conserve it: when nobody is in doubt
\* there is as much as in the beginning (08 README 1.2).
Conserved ==
    (\A p \in Participant : disk[p].prepared = Nobody)
        => FoldFunction(LAMBDA a, sum : a.balance + sum, 0, disk) = 100 * N

\* The participants, as the outside sees them, do atomic commitment.
Abstract == INSTANCE AtomicCommit WITH Node <- Participant
ImplementsAtomicCommit == Abstract!Spec

\* Nothing but the commands, the deaths and the coordinator's restart is up to
\* the environment: the processes that run take their steps, and a participant
\* that died is started again.
Fairness ==
    /\ WF_vars(Send \/ Refused)
    /\ \A p \in Participant : WF_vars(Serve(p)) /\ WF_vars(Start(p))

FairSpec == Spec /\ Fairness

\* The coordinator never waits for good, though no call has a timeout: it comes
\* back for the next command whatever participants die at it.
TransferEnds == coord.pc # "idle" ~> coord.pc = "idle"

\* NBAC1 as far as it goes: with no transfer-crash among the commands,
\* whoever is in doubt gets the verdict or some process has died.
DoubtEnds ==
    \A p \in Participant :
        account[p].prepared # Nobody
            ~> account[p].prepared = Nobody \/ deaths + coordinators > 0
=============================================================================
