--------------------------- MODULE OptimisticStore ---------------------------
(***************************************************************************)
(* Optimistic concurrency control (09, occ.rs and read_skew_occ.rs): a job *)
(* notes the version of every key it reads, drafts its writes, and commits *)
(* under one lock if none of those versions has changed.  Otherwise it     *)
(* starts over.                                                            *)
(***************************************************************************)
EXTENDS Transactions

VARIABLES store,  \* store[k]: version and value
          tx      \* tx[j]: the versions j has read, what it saw, and if it is done

vars == <<store, tx>>

-----------------------------------------------------------------------------

NewTx == [reads |-> Nothing, seen |-> Nothing, done |-> FALSE]

Init ==
    /\ store = [k \in Key |-> [version |-> 0, value |-> Opening[k]]]
    /\ tx = [j \in Job |-> NewTx]

(* read(): version and value are copied under the lock. *)
Read(j) ==
    LET k == NextRead(Jobs[j], tx[j].seen)
    IN  /\ ~ tx[j].done
        /\ StillToRead(Jobs[j], tx[j].seen) # {}
        /\ tx' = [tx EXCEPT ![j].reads = With(@, k, store[k].version),
                            ![j].seen  = With(@, k, store[k].value)]
        /\ UNCHANGED store

ReadyToCommit(j) == ~ tx[j].done /\ StillToRead(Jobs[j], tx[j].seen) = {}

(* Mutant: only what is overwritten is validated. *)
ValidWrites(j) ==
    \A k \in DOMAIN Jobs[j].adds : store[k].version = tx[j].reads[k]

(* A job that only reads is validated like any other. *)
Valid(j) == \A k \in DOMAIN tx[j].reads : store[k].version = tx[j].reads[k]

Commit(j) ==
    /\ ReadyToCommit(j)
    /\ Valid(j)
    /\ LET written == Written(Jobs[j], tx[j].seen)
       IN  store' = [k \in Key |->
                       IF k \in DOMAIN written
                       THEN [version |-> store[k].version + 1, value |-> written[k]]
                       ELSE store[k]]
    /\ tx' = [tx EXCEPT ![j].done = TRUE]

(* The loop goes round with a new Tx. *)
Conflict(j) ==
    /\ ReadyToCommit(j)
    /\ ~ Valid(j)
    /\ tx' = [tx EXCEPT ![j] = NewTx]
    /\ UNCHANGED store

Step(j) == Read(j) \/ Commit(j) \/ Conflict(j)

Next == \E j \in Job : Step(j)

Spec == Init /\ [][Next]_vars

(* Every thread gets to run. *)
FairSpec == Spec /\ \A j \in Job : WF_vars(Step(j))

-----------------------------------------------------------------------------
(* The finished jobs, audits included, ran as if one after the other.       *)
Serializable ==
    LET finished == {j \in Job : tx[j].done}
    IN  Serial(finished, [j \in Job |-> tx[j].seen], TRUE, [k \in Key |-> store[k].value])

(* No job is turned back for ever: who makes it fail has finished himself.  *)
EveryJobFinishes == <>(\A j \in Job : tx[j].done)

=============================================================================
