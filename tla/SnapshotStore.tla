---------------------------- MODULE SnapshotStore ----------------------------
(***************************************************************************)
(* Multi-version concurrency control with snapshot isolation (09, mvcc.rs  *)
(* and write_skew.rs): a job reads the versions of the moment it began; it *)
(* commits if nobody has since committed to a key it writes.  Otherwise it *)
(* starts over.  A job that writes nothing does not commit at all.         *)
(***************************************************************************)
EXTENDS Transactions

VARIABLES clock,  \* ticks once per commit
          data,   \* data[k]: the versions of k, newest last
          tx      \* tx[j]: its state, its snapshot and what it saw

vars == <<clock, data, tx>>

-----------------------------------------------------------------------------

NotBegun == [state |-> "idle", snapshot |-> 0, seen |-> Nothing]

Init ==
    /\ clock = 0
    /\ data = [k \in Key |-> <<[ts |-> 0, value |-> Opening[k]]>>]
    /\ tx = [j \in Job |-> NotBegun]

Begin(j) ==
    /\ tx[j].state = "idle"
    /\ tx' = [tx EXCEPT ![j].state = "running", ![j].snapshot = clock]
    /\ UNCHANGED <<clock, data>>

(* read_at(): the newest version that is not newer than the snapshot. *)
ReadAt(k, snapshot) == data[k][Max({i \in DOMAIN data[k] : data[k][i].ts <= snapshot})].value

(* The last read of an audit, or the one that shows the funds do not        *)
(* suffice, is the end of the job.                                         *)
Read(j) ==
    LET job  == Jobs[j]
        next == NextRead(job, tx[j].seen)
        seen == With(tx[j].seen, next, ReadAt(next, tx[j].snapshot))
        over == \/ Refused(job, seen)
                \/ job.adds = Nothing /\ StillToRead(job, seen) = {}
    IN  /\ tx[j].state = "running"
        /\ StillToRead(job, tx[j].seen) # {}
        /\ tx' = [tx EXCEPT ![j].seen = seen,
                            ![j].state = IF over THEN "done" ELSE "running"]
        /\ UNCHANGED <<clock, data>>

ReadyToCommit(j) == tx[j].state = "running" /\ StillToRead(Jobs[j], tx[j].seen) = {}

(* Mutant: the versions are compared to the clock instead of the snapshot. *)
FirstNow(j) ==
    \A k \in DOMAIN Jobs[j].adds : \A i \in DOMAIN data[k] : data[k][i].ts <= clock

(* The first committer wins. *)
First(j) ==
    \A k \in DOMAIN Jobs[j].adds : \A i \in DOMAIN data[k] : data[k][i].ts <= tx[j].snapshot

Commit(j) ==
    /\ ReadyToCommit(j)
    /\ First(j)
    /\ clock' = clock + 1
    /\ LET written == Written(Jobs[j], tx[j].seen)
       IN  data' = [k \in Key |->
                      IF k \in DOMAIN written
                      THEN Append(data[k], [ts |-> clock + 1, value |-> written[k]])
                      ELSE data[k]]
    /\ tx' = [tx EXCEPT ![j].state = "done"]

Conflict(j) ==
    /\ ReadyToCommit(j)
    /\ ~ First(j)
    /\ tx' = [tx EXCEPT ![j] = NotBegun]
    /\ UNCHANGED <<clock, data>>

Step(j) == Begin(j) \/ Read(j) \/ Commit(j) \/ Conflict(j)

Next == \E j \in Job : Step(j)

Spec == Init /\ [][Next]_vars

FairSpec == Spec /\ \A j \in Job : WF_vars(Step(j))

-----------------------------------------------------------------------------

Balance == [k \in Key |-> Last(data[k]).value]
Finished == {j \in Job : tx[j].state = "done"}

(* Where every job writes all that it reads, or nothing, the finished jobs  *)
(* ran as if one after the other; write_skew.rs shows that other jobs need  *)
(* not.                                                                    *)
Serializable == Serial(Finished, [j \in Job |-> tx[j].seen], TRUE, Balance)

(* Whatever the jobs, no write of a finished one is lost to another's.      *)
NoLostUpdate ==
    LET wrote == {j \in Finished : ~ Refused(Jobs[j], tx[j].seen)}
    IN  \A k \in Key :
            Balance[k] = Opening[k]
                + MapThenSumSet(LAMBDA j : IF k \in DOMAIN Jobs[j].adds THEN Jobs[j].adds[k] ELSE 0,
                                wrote)

EveryJobFinishes == <>(Finished = Job)

=============================================================================
