----------------------------- MODULE LockingStore -----------------------------
(***************************************************************************)
(* Two-phase locking (09, lost_update_2pl.rs, read_skew_2pl.rs and         *)
(* deadlock_2pl_fixed.rs): a job takes the locks of all the keys it will   *)
(* touch in the order of the keys, exclusive ones if it writes, then       *)
(* touches the accounts one after the other, and gives the locks back at   *)
(* its end, the last one first.                                            *)
(***************************************************************************)
EXTENDS Transactions

VARIABLES balance,
          readers, writers,  \* the jobs that hold the lock of a key, shared or exclusive
          held,              \* held[j]: the keys of which j has the lock
          seen,              \* seen[j]: what j has read
          wrote              \* wrote[j]: the keys j has written

vars == <<balance, readers, writers, held, seen, wrote>>

-----------------------------------------------------------------------------

Init ==
    /\ balance = Opening
    /\ readers = [k \in Key |-> {}]
    /\ writers = [k \in Key |-> {}]
    /\ held = [j \in Job |-> {}]
    /\ seen = [j \in Job |-> Nothing]
    /\ wrote = [j \in Job |-> {}]

(* A job locks every key that it touches, *)
Touched(j) == Range(Jobs[j].reads)

(* Mutant: the locks are taken as deadlock_2pl.rs takes them. *)
FromThenTo(j) == Jobs[j].reads[Cardinality(held[j]) + 1]

(* the smallest one first. *)
NextLock(j) == Min(Touched(j) \ held[j])

(* A transfer and a deposit write all that they read, an audit nothing. *)
KindsFit ==
    \A j \in Job :
        \/ Jobs[j].kind \in {"transfer", "deposit"} /\ DOMAIN Jobs[j].adds = Touched(j)
        \/ Jobs[j].kind = "audit" /\ DOMAIN Jobs[j].adds = {}

Writes(j) == DOMAIN Jobs[j].adds # {}

Accessed(j) ==
    /\ StillToRead(Jobs[j], seen[j]) = {}
    /\ DOMAIN Jobs[j].adds = wrote[j]

Lock(j) ==
    LET k == NextLock(j)
    IN  /\ ~ Accessed(j)
        /\ held[j] # Touched(j)
        /\ writers[k] = {}
        /\ IF Writes(j)
           THEN /\ readers[k] = {}
                /\ writers' = [writers EXCEPT ![k] = {j}]
                /\ UNCHANGED readers
           ELSE /\ readers' = [readers EXCEPT ![k] = @ \union {j}]
                /\ UNCHANGED writers
        /\ held' = [held EXCEPT ![j] = @ \union {k}]
        /\ UNCHANGED <<balance, seen, wrote>>

AllLocked(j) == held[j] = Touched(j)

(* An audit, and a deposit before it writes, copy a balance. *)
Look(j) ==
    LET k == NextRead(Jobs[j], seen[j])
    IN  /\ Jobs[j].kind \in {"audit", "deposit"}
        /\ AllLocked(j)
        /\ StillToRead(Jobs[j], seen[j]) # {}
        /\ seen' = [seen EXCEPT ![j] = With(@, k, balance[k])]
        /\ UNCHANGED <<balance, readers, writers, held, wrote>>

(* The deposit's write is blind: what it read, and the amount. *)
Overwrite(j) ==
    /\ Jobs[j].kind = "deposit"
    /\ \E k \in DOMAIN seen[j] \ wrote[j] :
         /\ balance' = [balance EXCEPT ![k] = seen[j][k] + Jobs[j].adds[k]]
         /\ wrote' = [wrote EXCEPT ![j] = @ \union {k}]
    /\ UNCHANGED <<readers, writers, held, seen>>

(* A transfer debits one account in place, later credits the other. *)
Adjust(j) ==
    LET k == NextRead(Jobs[j], seen[j])
    IN  /\ Jobs[j].kind = "transfer"
        /\ AllLocked(j)
        /\ StillToRead(Jobs[j], seen[j]) # {}
        /\ seen' = [seen EXCEPT ![j] = With(@, k, balance[k])]
        /\ balance' = [balance EXCEPT ![k] = @ + Jobs[j].adds[k]]
        /\ wrote' = [wrote EXCEPT ![j] = @ \union {k}]
        /\ UNCHANGED <<readers, writers, held>>

(* A guard goes out of scope. *)
Unlock(j) ==
    /\ Accessed(j)
    /\ held[j] # {}
    /\ LET k == Max(held[j])
       IN  /\ readers' = [readers EXCEPT ![k] = @ \ {j}]
           /\ writers' = [writers EXCEPT ![k] = @ \ {j}]
           /\ held' = [held EXCEPT ![j] = @ \ {k}]
    /\ UNCHANGED <<balance, seen, wrote>>

Step(j) == Lock(j) \/ Look(j) \/ Overwrite(j) \/ Adjust(j) \/ Unlock(j)

Next == \E j \in Job : Step(j)

Spec == Init /\ [][Next]_vars

FairSpec == Spec /\ \A j \in Job : WF_vars(Step(j))

-----------------------------------------------------------------------------
(* The jobs that have touched all their accounts ran as if one after the    *)
(* other, although other jobs see the locks of a job one by one.            *)
Serializable ==
    LET finished == {j \in Job : Accessed(j)}
        whole    == \A j \in Job \ finished : wrote[j] = {}
    IN  Serial(finished, seen, whole, balance)

(* No job waits for ever for a lock (deadlock_2pl.rs does). *)
EveryJobFinishes == <>(\A j \in Job : Accessed(j) /\ held[j] = {})

=============================================================================
