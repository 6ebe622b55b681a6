----------------------------- MODULE Philosophers -----------------------------
(***************************************************************************)
(* The threads of 03 that share a semaphore, mutexes, or both: every       *)
(* thread acquires a permit, locks its mutexes one after the other,        *)
(* unlocks them and releases the permit.                                   *)
(*   philosophers_waiter.rs   Permits = 4, left fork, then right fork      *)
(*   philosophers_ordered.rs  no semaphore (a permit for everybody), the   *)
(*                            fork with the smaller number first           *)
(*   semaphore.rs             workers: Permits = 3, no forks               *)
(***************************************************************************)
EXTENDS Semaphore, Sequences, FiniteSets

CONSTANTS Thread,
          Forks      \* Forks[t]: the forks t locks, in that order

VARIABLES place,  \* place[t]: "outside", "inside", "leaving" or "done"
          held    \* held[t]: how many of its forks t has

vars == <<permits, asleep, place, held>>

-----------------------------------------------------------------------------

Init ==
    /\ SemaphoreInit
    /\ place = [t \in Thread |-> "outside"]
    /\ held = [t \in Thread |-> 0]

Has(t, f) == \E i \in 1 .. held[t] : Forks[t][i] = f

Enter(t) ==
    /\ place[t] = "outside"
    /\ Acquire(t)
    /\ place' = [place EXCEPT ![t] = "inside"]
    /\ UNCHANGED held

Wait(t) ==
    /\ place[t] = "outside"
    /\ Sleep(t)
    /\ UNCHANGED <<place, held>>

TakeFork(t) ==
    /\ place[t] = "inside"
    /\ held[t] < Len(Forks[t])
    /\ \A q \in Thread : ~ Has(q, Forks[t][held[t] + 1])
    /\ held' = [held EXCEPT ![t] = @ + 1]
    /\ UNCHANGED <<permits, asleep, place>>

(* Eating, or working, is over. *)
Finish(t) ==
    /\ place[t] = "inside"
    /\ held[t] = Len(Forks[t])
    /\ place' = [place EXCEPT ![t] = "leaving"]
    /\ UNCHANGED <<permits, asleep, held>>

(* The guards are dropped, the last one first. *)
PutFork(t) ==
    /\ place[t] = "leaving"
    /\ held[t] > 0
    /\ held' = [held EXCEPT ![t] = @ - 1]
    /\ UNCHANGED <<permits, asleep, place>>

Leave(t) ==
    /\ place[t] = "leaving"
    /\ held[t] = 0
    /\ Release
    /\ place' = [place EXCEPT ![t] = "done"]
    /\ UNCHANGED held

Wake(t) == SpuriousWake(t) /\ UNCHANGED <<place, held>>

Step(t) == Enter(t) \/ Wait(t) \/ TakeFork(t) \/ Finish(t) \/ PutFork(t) \/ Leave(t)

Next == \E t \in Thread : Step(t) \/ Wake(t)

Spec == Init /\ [][Next]_vars

(* Every thread that can run does. *)
FairSpec == Spec /\ \A t \in Thread : WF_vars(Step(t))

-----------------------------------------------------------------------------
(* Nobody waits for ever, for a permit or for a fork: no circle of forks,   *)
(* and no wake-up lost on a thread that could not use it.                   *)
EverybodyFinishes == <>(\A t \in Thread : place[t] = "done")

=============================================================================
