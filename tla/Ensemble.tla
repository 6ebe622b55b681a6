------------------------------- MODULE Ensemble -------------------------------
(***************************************************************************)
(* The smaller programs of the repository, each with variables of its own, *)
(* side by side: a behaviour is one of one program, which part tells.  The *)
(* constants are named for the program; election, tables, buffer and       *)
(* gossip, whose properties are only model-checked, have theirs here.      *)
(***************************************************************************)
EXTENDS CausalBroadcast, Integers

CONSTANTS Actor,                            \* the nodes, jobs and threads of every program
          Funds, OptimisticJobs,            \* 09: occ.rs, read_skew_occ.rs,
          SnapshotJobs, SkewJobs,           \* mvcc.rs, write_skew.rs,
          LockedFunds, LockingJobs,         \* and the programs with locks
          Popper, Script, Null, None,        \* 03: treiber.rs
          Counting, MaxCounts, MaxCounters, \* 12: pn_counter.rs
          Shelf, Fruit, MaxCalls, MaxSets   \* 12: or_set.rs

VARIABLES part,
          fresh, voters, choice, leads, alive, calm, crashes, restarts,
          store, drafts,
          clock, data, tx,
          balance, readers, writers, locked, seen, wrote,
          permits, asleep, place, held,
          queue, not_full, not_empty, turns,
          top, cell, boxed, at, returned,
          pos, neg, counters, counted,
          seq, adds, tombs, sets, calls, heard,
          slots, round, next, own

(* The variables of each program. *)
electionVars   == <<fresh, voters, choice, leads, alive, calm, crashes, restarts>>
optimisticVars == <<store, drafts>>
snapshotVars   == <<clock, data, tx>>
lockingVars    == <<balance, readers, writers, locked, seen, wrote>>
tableVars      == <<permits, asleep, place, held>>
bufferVars     == <<queue, not_full, not_empty, turns>>
treiberVars    == <<top, cell, boxed, at, returned>>
counterVars    == <<pos, neg, counters, counted>>
setVars        == <<seq, adds, tombs, sets, calls, heard>>
gossipVars     == <<slots, round, next, own>>

Election == INSTANCE LeaderElection WITH MaxCrashes <- 2, MaxRestarts <- 1, up <- alive

Optimistic == INSTANCE OptimisticStore
                  WITH Opening <- Funds, Jobs <- OptimisticJobs, tx <- drafts

Snapshot == INSTANCE SnapshotStore WITH Opening <- Funds, Jobs <- SnapshotJobs

Skew == INSTANCE SnapshotStore WITH Opening <- Funds, Jobs <- SkewJobs

Locking == INSTANCE LockingStore
               WITH Opening <- LockedFunds, Jobs <- LockingJobs, held <- locked

Seat == 1 .. 4
LeftRight == [i \in Seat |-> <<i, (i % 4) + 1>>]
SmallerFirst == [i \in Seat |-> IF i = 4 THEN <<1, 4>> ELSE <<i, i + 1>>]

Waiter  == INSTANCE Philosophers WITH Thread <- Seat, Permits <- 3, Forks <- LeftRight
Ordered == INSTANCE Philosophers WITH Thread <- Seat, Permits <- 4, Forks <- SmallerFirst
Workers == INSTANCE Philosophers WITH Thread <- Seat, Permits <- 2, Forks <- [i \in Seat |-> <<>>]

Buffer == INSTANCE BoundedBuffer
              WITH Producer <- {1, 2}, Consumer <- {3, 4}, Capacity <- 2,
                   Turns <- <<3, 3, 4, 2>>

Treiber == INSTANCE TreiberStack WITH Thread <- Popper, Program <- Script

Counter == INSTANCE PNCounter
               WITH Replica <- Counting, MaxClones <- MaxCounters,
                    clones <- counters, heard <- counted

OR == INSTANCE ORSet
          WITH Replica <- Shelf, Element <- Fruit, MaxClones <- MaxSets, clones <- sets

Epidemic == INSTANCE Gossip WITH Replica <- 0 .. 4, Island <- {0, 1}, MaxOwn <- 1

(* The jobs are those their programs run: those of the optimistic and the   *)
(* locking engine always write, those of mvcc.rs write all that they read   *)
(* or nothing, those of write_skew.rs need not.                             *)
ASSUME JobsAssumption ==
    /\ Optimistic!JobsFit /\ Optimistic!NeverRefuse
    /\ Snapshot!JobsFit /\ Snapshot!WriteAllOrNothing
    /\ Skew!JobsFit
    /\ Locking!JobsFit /\ Locking!NeverRefuse /\ Locking!KindsFit

ASSUME ReplicasAssumption ==
    /\ IsFiniteSet(Counting) /\ MaxCounts \in Nat
    /\ IsFiniteSet(Shelf) /\ MaxCalls \in Nat

(* There are finitely many pushes, and no node is at the null pointer. *)
ASSUME StackAssumption == Treiber!ProgramsFit

ASSUME ActorAssumption ==
    Node \union DOMAIN OptimisticJobs \union DOMAIN SnapshotJobs \union DOMAIN SkewJobs
        \union DOMAIN LockingJobs \subseteq Actor

-----------------------------------------------------------------------------

(* At rest, the variables of the programs that do not run. *)
EnsembleInit ==
    /\ part \in {"causal", "election", "optimistic", "snapshot", "skew", "locking",
                 "waiter", "ordered", "workers", "buffer", "treiber", "counter", "set",
                 "gossip"}
    /\ Init
    /\ Election!Init
    /\ Optimistic!Init
    /\ IF part = "skew" THEN Skew!Init ELSE Snapshot!Init
    /\ Locking!Init
    /\ CASE part = "waiter"  -> Waiter!Init
         [] part = "workers" -> Workers!Init
         [] OTHER            -> Ordered!Init
    /\ Buffer!Init
    /\ Treiber!Init
    /\ Counter!Init
    /\ OR!Init
    /\ IF part = "gossip" THEN Epidemic!Init
       ELSE /\ own = [i \in 0 .. 4 |-> 0]
            /\ Epidemic!Init

(* The variables of the programs that do not run; those of program p are left out. *)
AtRest(p) ==
    /\ IF p = "causal"     THEN TRUE ELSE UNCHANGED vars
    /\ IF p = "election"   THEN TRUE ELSE UNCHANGED electionVars
    /\ IF p = "optimistic" THEN TRUE ELSE UNCHANGED optimisticVars
    /\ IF p = "snapshot"   THEN TRUE ELSE UNCHANGED snapshotVars
    /\ IF p = "locking"    THEN TRUE ELSE UNCHANGED lockingVars
    /\ IF p = "table"      THEN TRUE ELSE UNCHANGED tableVars
    /\ IF p = "buffer"     THEN TRUE ELSE UNCHANGED bufferVars
    /\ IF p = "treiber"    THEN TRUE ELSE UNCHANGED treiberVars
    /\ IF p = "counter"    THEN TRUE ELSE UNCHANGED counterVars
    /\ IF p = "set"        THEN TRUE ELSE UNCHANGED setVars
    /\ IF p = "gossip"     THEN TRUE ELSE UNCHANGED gossipVars
    /\ UNCHANGED part

EnsembleNext ==
    \/ part = "causal"     /\ Next            /\ AtRest("causal")
    \/ part = "election"   /\ Election!Next   /\ AtRest("election")
    \/ part = "optimistic" /\ Optimistic!Next /\ AtRest("optimistic")
    \/ part = "snapshot"   /\ Snapshot!Next   /\ AtRest("snapshot")
    \/ part = "skew"       /\ Skew!Next       /\ AtRest("snapshot")
    \/ part = "locking"    /\ Locking!Next    /\ AtRest("locking")
    \/ part = "waiter"     /\ Waiter!Next     /\ AtRest("table")
    \/ part = "ordered"    /\ Ordered!Next    /\ AtRest("table")
    \/ part = "workers"    /\ Workers!Next    /\ AtRest("table")
    \/ part = "buffer"     /\ Buffer!Next     /\ AtRest("buffer")
    \/ part = "treiber"    /\ Treiber!Next    /\ AtRest("treiber")
    \/ part = "counter"    /\ Counter!Next    /\ AtRest("counter")
    \/ part = "set"        /\ OR!Next         /\ AtRest("set")
    \/ part = "gossip"     /\ Epidemic!Next   /\ AtRest("gossip")

allVars ==
    <<part, vars, electionVars, optimisticVars, snapshotVars, lockingVars, tableVars,
      bufferVars, treiberVars, counterVars, setVars, gossipVars>>

(* The variables, and a step of the i-th node, job or thread, of the program that runs. *)
active ==
    CASE part = "causal"     -> vars
      [] part = "election"   -> electionVars
      [] part = "optimistic" -> optimisticVars
      [] part = "locking"    -> lockingVars
      [] part = "buffer"     -> bufferVars
      [] part = "gossip"     -> gossipVars
      [] part \in {"snapshot", "skew"}             -> snapshotVars
      [] part \in {"waiter", "ordered", "workers"} -> tableVars
      [] OTHER                                     -> <<treiberVars, counterVars, setVars>>

Acts(i) ==
    /\ UNCHANGED part
    /\ \/ part = "causal"     /\ i \in Node /\ Handle(i)
       \/ part = "election"   /\ i \in Node /\ Election!Round(i)
       \/ part = "optimistic" /\ i \in DOMAIN OptimisticJobs /\ Optimistic!Step(i)
       \/ part = "snapshot"   /\ i \in DOMAIN SnapshotJobs /\ Snapshot!Step(i)
       \/ part = "skew"       /\ i \in DOMAIN SkewJobs /\ Skew!Step(i)
       \/ part = "locking"    /\ i \in DOMAIN LockingJobs /\ Locking!Step(i)
       \/ part = "waiter"     /\ i \in Seat /\ Waiter!Step(i)
       \/ part = "ordered"    /\ i \in Seat /\ Ordered!Step(i)
       \/ part = "workers"    /\ i \in Seat /\ Workers!Step(i)
       \/ part = "buffer"     /\ i \in 1 .. 4 /\ Buffer!Step(i)
       \/ part = "gossip"     /\ i = 1 /\ Epidemic!Next

(* The fairness each program states for itself. *)
Fairness ==
    /\ \A i \in Actor : WF_active(Acts(i))
    /\ \A n \in Node :
         WF_electionVars(part = "election" /\ \E p \in Node \ alive : Election!TimeOut(n, p))

EnsembleSpec == EnsembleInit /\ [][EnsembleNext]_allVars /\ Fairness

-----------------------------------------------------------------------------
(* The properties of the programs, each where it runs. *)

(* 05: in the end the lowest running node, and nobody else, leads. *)
LeaderEmerges == Election!LeaderEmerges

(* 09: the finished jobs ran as if one after the other, *)
Isolated ==
    /\ part = "optimistic" => Optimistic!Serializable
    /\ part = "snapshot"   => Snapshot!Serializable
    /\ part = "locking"    => Locking!Serializable

(* 09: and where the engine does not promise that, none has lost a write to *)
(* another.                                                                 *)
NothingLost ==
    /\ part = "snapshot" => Snapshot!NoLostUpdate
    /\ part = "skew"     => Skew!NoLostUpdate

(* 03, 09 and 12: no job, thread or replica is held up for ever. *)
Finished ==
    CASE part = "optimistic" -> \A j \in DOMAIN OptimisticJobs : drafts[j].done
      [] part = "snapshot"   -> Snapshot!Finished = DOMAIN SnapshotJobs
      [] part = "skew"       -> Skew!Finished = DOMAIN SkewJobs
      [] part = "locking"    -> \A j \in DOMAIN LockingJobs : Locking!Accessed(j) /\ locked[j] = {}
      [] part \in {"waiter", "ordered", "workers"} -> \A i \in Seat : place[i] = "done"
      [] part = "buffer"     -> Buffer!AllReturned
      [] part = "gossip"     -> Epidemic!TotalEverywhere
      [] OTHER               -> TRUE
EveryoneFinishes == []<>Finished

(* 03: the lock-free stack is a stack. *)
ImplementsStack ==
    /\ Treiber!Abstract!Init
    /\ [][part = "treiber" => Treiber!AbstractStep]_treiberVars

(* 12: a counter shows what it has heard, each count once, *)
ShowsWhatItHeard == Counter!CountedOnce

(* 12: and a set what was added and, as far as it has heard, not removed since. *)
HoldsWhatIsLeft == OR!AddWins

=============================================================================
