----------------------------- MODULE Transactions -----------------------------
(***************************************************************************)
(* The jobs the clients of 09 run against the accounts "x" (1) and "y" (2):*)
(* what each one reads, in which order, when it gives up, and what it      *)
(* writes; and what it means that some of them ran one after the other.    *)
(* The three engines that run the jobs extend this module.                 *)
(***************************************************************************)
EXTENDS Integers, Sequences, Functions, FiniteSetsExt, SequencesExt

CONSTANTS Opening,  \* the balances the accounts are opened with
          Jobs      \* the jobs, each with a thread of its own

Key == DOMAIN Opening
Job == DOMAIN Jobs

(* covers and need: the job returns without a write when the accounts of    *)
(* covers hold less than need altogether.                                  *)
Work(kind, reads, adds) ==
    [kind |-> kind, reads |-> reads, adds |-> adds, covers |-> {}, need |-> 0]

Nothing == [k \in {} |-> 0]

Deposit(key, amount) == Work("deposit", <<key>>, [k \in {key} |-> amount])

Transfer(from, to, amount) ==
    Work("transfer", <<from, to>>, [k \in {from, to} |-> IF k = from THEN -amount ELSE amount])

(* The transfer of mvcc.rs looks at the funds first. *)
FundedTransfer(from, to, amount) ==
    [Transfer(from, to, amount) EXCEPT !.covers = {from}, !.need = amount]

Audit == Work("audit", <<1, 2>>, Nothing)

(* Only its own account is written, but both have to cover it. *)
WithdrawCovered(key, amount) ==
    [Work("withdraw", <<1, 2>>, [k \in {key} |-> -amount])
        EXCEPT !.covers = {1, 2}, !.need = amount]

-----------------------------------------------------------------------------

(* seen maps the keys a job has read to what it read there. *)
Refused(job, seen) ==
    /\ job.covers \subseteq DOMAIN seen
    /\ MapThenSumSet(LAMBDA k : seen[k], job.covers) < job.need

(* The places in a job's reads that it has not come to yet. *)
StillToRead(job, seen) == {i \in DOMAIN job.reads : job.reads[i] \notin DOMAIN seen}

NextRead(job, seen) == job.reads[Min(StillToRead(job, seen))]

With(seen, key, value) == [k \in DOMAIN seen \union {key} |-> IF k = key THEN value ELSE seen[k]]

Written(job, seen) == [k \in DOMAIN job.adds |-> seen[k] + job.adds[k]]

(* What is true of all the jobs of 09: they write, and need funds of, none  *)
(* but the accounts they read, and of these they read first what they have *)
(* to look at before they give up.                                         *)
Fits(job) ==
    /\ job.reads \in Seq(Key) \ {<<>>}
    /\ job.adds \in [DOMAIN job.adds -> Int]
    /\ DOMAIN job.adds \union job.covers \subseteq Range(job.reads)
    /\ \A i, k \in DOMAIN job.reads :
         i < k /\ job.reads[k] \in job.covers => job.reads[i] \in job.covers
    /\ job.need \in Int
    /\ job.covers = {} => job.need <= 0

JobsFit == Opening \in Seq(Int) /\ Jobs \in Seq(Range(Jobs)) /\ \A j \in Job : Fits(Jobs[j])

NeverRefuse == \A j \in Job : Jobs[j].covers = {}

WriteAllOrNothing == \A j \in Job : DOMAIN Jobs[j].adds \in {{}, Range(Jobs[j].reads)}

(* Alone on the accounts, a job sees this ... *)
SeenAlone(job, balance) ==
    LET read == IF Refused(job, balance) THEN job.covers ELSE Range(job.reads)
    IN  Restrict(balance, read)

(* ... and leaves this behind. *)
LeftAlone(job, balance) ==
    IF Refused(job, balance) THEN balance
    ELSE [k \in Key |-> IF k \in DOMAIN job.adds THEN balance[k] + job.adds[k] ELSE balance[k]]

(* The balances after each of the jobs of order, one after the other. *)
OneByOne(order) ==
    LET after[i \in 0 .. Len(order)] ==
            IF i = 0 THEN Opening ELSE LeftAlone(Jobs[order[i]], after[i - 1])
    IN  after

(* Some order of the finished jobs explains all they saw; when nothing is   *)
(* half written it leaves the balances that are there.                      *)
Serial(finished, seen, whole, balance) ==
    \E order \in SetToSeqs(finished) :
        LET after == OneByOne(order)
        IN  /\ \A i \in DOMAIN order :
                 seen[order[i]] = SeenAlone(Jobs[order[i]], after[i - 1])
            /\ whole => after[Len(order)] = balance

=============================================================================
