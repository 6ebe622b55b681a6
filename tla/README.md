# Verification of the distributed-systems modules

TLA+ models of the programs in this repository, model-checked with TLC, and
theorems about them checked by TLAPS. Every definition is translated from the
Rust source; the module READMEs and demos are read as statements about the
source, and three runs refute such a statement.

The repository is a course: twelve directories, each a small program of its own
that shares nothing with the others at run time. "System" below means one of
them, and the models do not compose across directories; inside one they compose
the processes, threads, disks and links that the program runs on. (Where one run
checks several systems, they are *side by side*: a variable `part`, chosen
initially, says which of them runs, and the variables of the others rest.)

## 1. Inventory

| # | directory | state | operations | what is hard | what makes it correct |
|---|-----------|-------|------------|--------------|-----------------------|
| 01 | `01-kv-store` | a map; a file | set, get, remove, save on orderly exit, load | a crash before the exit | the file is always one complete earlier store |
| 02 | `02-networked-kv-store` | a map behind one mutex | the same, one thread per client | clients interleave | every operation is one lock section, so the store is a linearizable register per key |
| 03 | `03-shared-memory-concurrency` | counters, semaphore, bounded buffer, philosophers, Treiber stack | each program's threads | lost updates, lost wake-ups, deadlock, a pointer that changed back | nothing lost or duplicated, no waiter forgotten, no circular wait |
| 04 | `04-replicated-kv-store` | map of (timestamp, value) at a primary and its backups | set and remove forwarded to all, get from all, `repl`, `replrm`, `readts`, `dump`, catch-up | forwarding outside the lock, timeouts, partial writes, removal without a version | what a majority acknowledged is what a majority read returns |
| 05 | `05-leader-election` | last heartbeat and vote per peer; suspicions | heartbeat round, count votes, receive ping | stale votes, nodes that come and go | in the end the lowest live node and nobody else leads with a majority |
| 06 | `06-logical-time-broadcast` | delivered vector, own counter, pending list, identifiers seen | bcast, receive (dedup, relay, deliver what is ready) | any arrival order, every relay comes back | causal order, each message once, own messages too |
| 07 | `07-raft` | term, role, vote, log, commit index, kv, state file; locals of the election thread | election thread (heartbeat round, election), `requestvote`, `append`, set/remove/get, crash and recovery | two threads over one mutex, locals that outlive a lock section, late requests, crashes | one leader per term, committed entries agree and stay, kv is the replay of the log |
| 08 | `08-two-phase-commit` | balance and promise per participant, state file; the coordinator's locals | PREPARE, COMMIT, ABORT, transfer, transfer-crash, recovery in doubt | deaths between persist and reply, queued requests of a dead coordinator, volatile numbers | no split verdict, no promise broken, money conserved |
| 09 | `09-concurrency-control` | stores with versions or locks, transactions' read and write sets | begin, read, write, commit, retry; two-phase locking | reads before a commit that changes them, lock order | what each scheme promises (and the skew that snapshots allow) |
| 10 | `10-byzantine-broadcast` | three flags, first ECHO and READY per node | bcast, SEND, ECHO, READY | equivocation, forged and repeated messages, any order | BRB1 to BRB5 |
| 11 | `11-byzantine-consensus` | view, lock and certificate, decision, tallies, complaints; state file | propose, PREPREPARE, PREPARE, COMMIT, timer, VIEWCHANGE, NEWVIEW, recovery | all of the above, with view changes and crashes | no two correct nodes decide differently |
| 12 | `12-crdts-eventual-consistency` | counters, tagged sets | increment, add, remove, merge, gossip rounds | partial, repeated and reordered merges | replicas that have heard the same are the same |

Inside a directory, processes interact over one-line TCP connections (no
connection is kept; a call is connect, write, read a line), threads over one
`Mutex`, and a process with its own past over its state file.

`PROJECT.json` lists the same parts with their status, and under "hazards" the
lines where each of them can go wrong in a way that a test would hardly reach.

## 2. Modules

| module | stands for |
|--------|-----------|
| `Raft` | `07-raft/src/main.rs` |
| `CommittedLog` | what 07 promises: one log that only grows, learned prefix by prefix |
| `MCRaft`, `MCRaftStale` | instances of `Raft` |
| `RaftProofs` | theorems about it: types, votes and elections; logs, commitment, the map |
| `TwoPhaseCommit` | `08-two-phase-commit/src/main.rs` |
| `AtomicCommit` | what 08 promises: atomic commitment |
| `MCTwoPhaseCommit`, `TwoPhaseProofs` | two instances side by side, theorems |
| `BrachaBroadcast` | `10-byzantine-broadcast/src/main.rs` |
| `MCBrachaBroadcast`, `MCBrachaLiveness`, `BrachaProofs` | instances, two of them side by side for liveness, theorems |
| `Pbft` | `11-byzantine-consensus/src/main.rs` |
| `MCPbft`, `MCPbftSafety`, `PbftProofs` | instances, two of them side by side, theorems |
| `ReplicatedStore` | `04-replicated-kv-store/src/main.rs` |
| `MCReplicatedStore`, `StoreProofs` | instances, theorems |
| `CausalBroadcast` | `06-logical-time-broadcast/src/main.rs` |
| `LeaderElection` | `05-leader-election/src/main.rs` |
| `Transactions` | the jobs that the programs of 09 run, and what serial execution is |
| `OptimisticStore` | 09: `occ.rs`, `read_skew_occ.rs` |
| `SnapshotStore` | 09: `mvcc.rs`, `write_skew.rs` |
| `LockingStore` | 09: `lost_update_2pl.rs`, `read_skew_2pl.rs`, `deadlock_2pl_fixed.rs` |
| `Semaphore` | 03: `lib.rs` |
| `Philosophers` | 03: `philosophers_waiter.rs`, `philosophers_ordered.rs`, `semaphore.rs` |
| `BoundedBuffer` | 03: `bounded_buffer.rs` |
| `TreiberStack` | 03: `treiber.rs` |
| `AtomicStack` | what 03 promises of it: a stack whose operations happen at once |
| `GCounter`, `PNCounter`, `ORSet`, `Gossip` | 12: `lib.rs`, `pn_counter.rs`, `or_set.rs`, `gossip.rs` |
| `TransactionProofs` | theorems about the three engines of 09, for any accounts and jobs |
| `Ensemble` | the modules of 03, 05, 06, 09 and 12 side by side, each with variables of its own |
| `MCEnsemble`, `EnsembleProofs` | an instance of it; theorems about what it runs: 03's stack, 06, 09, 12 |
| `Sums` | lemmas only: sums over finite sets, induction on a finite set |

Definitions marked "Mutant" in a module are the definition below them with a
plausible mistake. No specification uses them; substituted for that definition
they violate a property, which shows that the property watches it. Some of them
are in the repository: `naive_counter.rs` (`MergeAdd`) and `deadlock_2pl.rs`
(`FromThenTo`).

### 2.1 Raft

A step is one critical section of the node's mutex. `state[n]` is the struct
behind it and `disk[n]` the state file. `persist()` writes a temporary file,
syncs and renames it before the lock is released, hence state and file change in
one step and a crash sees the file before or after, never a part.

The election thread keeps role, term, log, replies and votes in locals while it
does not hold the lock. These are `rnd[n]`, and `pc[n]` is the section it comes
to next:

    sleep --LeaderWake--> snapshot --LeaderSnapshot--> append --+
      |                                                         +--> RoundDeposed,
      +------ElectionTimeout--------------------------> vote ---+    RoundCommit, RoundStale,
                                                                     ElectionWon, ElectionLost --> sleep

`LeaderWake` and `LeaderSnapshot` are two sections because the code takes the
lock twice (main.rs:210-219). `ElectionTimeout` merges the sections at 272
and 283: between them the accept loop may run, but nothing of what the first
reads is used in the second.

An RPC is one connection. `AppendAnswered` and `VoteAnswered` do the receiver's
section and the reply in one step: the reply reaches only the caller's locals,
which no one else reads. A caller that gives up (`CallAbandoned`, the one-second
read timeout) leaves the request in the receiver's accept queue `inbox`, served
in order by `HandleLate`; a request that is answered may only be one that finds
the queue empty. A crash or an abandoned call is a *fault*; MaxFaults bounds them, and
MaxElections says how many timeouts may expire in a behaviour with so many faults. `CallRefused` is everything that ends a call without an effect.
The order of the calls in a round is free in the model and fixed in the code:
the model has more behaviours.

`apply()` is a closed formula, `Apply`: the last of the new entries that touches a
key decides. `KvIsReplay` compares it with the replay entry by entry.
`Wire` is what serializing and parsing do to a log: nothing, but for the
delimiters (`Reserved`), which the client arm rejects; a command with white space
other than a blank (`Split`) makes an append that no receiver understands.
`last_heard` and the timeouts are not in the model: a timeout may expire whenever
the code could let it.

### 2.2 Two-phase commit

`coord` holds the locals of the coordinator's loop: the phase, the participant
it is at, whether it waits for a reply. A request lies in `queue[p]` until the
participant's loop serves it. `Serve` is a turn of the loop with the reply, which
only touches the coordinator's locals; `DieBeforeReply` is the death between
`persist()` and the reply, `Die` any other. With a participant its accept queue
is gone, and a coordinator that waits for it reads an empty line, which is not
`VOTE tx YES`. `CoordinatorRestarts` leaves the requests of the dead coordinator
in the queues and starts the numbers again. `transfer-crash` stops after phase
one, as in the code.

The program knows a transaction by the coordinator's counter. The model adds to
it a number `g` of its own, unique in a behaviour, so that a property can say
"of one transfer" when the program's numbers repeat; no guard reads it. `fate`
records what each participant did about each transfer.

### 2.3 Byzantine broadcast

One action per kind of message (`OnSend`, `OnEcho`, `OnReady`) and one for the
sender's terminal (`Bcast`, both commands). `net` is the set of everything that
correct nodes ever signed and `Forged[p]` what the Byzantine nodes sign for `p`:
since messages stay in the sets, they may come late, twice, in any order, to
whoever they were not meant for, or never. Signatures are perfect: what has a correct
node's name is in `net`. The `f` of the code is computed, not chosen, and the
assumption is that at most so many nodes are Byzantine.

### 2.4 Byzantine consensus

`state[p]` is the struct behind the node's mutex without the tallies, which are
*lazy*: the three maps of votes and complaints hold one entry per sender and are
only compared with a threshold, by the handler that has just added to them. A
message that leaves the count below the threshold changes nothing that anybody
can see, so a step of `OnPrepare`, `OnCommit`, `OnViewChange` or `LeadNewView`
is the one that reaches it, with any tally that what was signed allows. The
guards each entry had to pass (`Participates`, the view) are monotone within a
view and hold for all entries if they hold for the last.

`votes`, `complaints` and `newviews` are everything that correct nodes signed;
Byzantine nodes sign anything (`Said`, `Records`). A certificate is its view and
value, and `verify_cert` says that a quorum has signed PREPAREs for them. The
complaints inside a NEWVIEW are existential (`Forced`): the receiver checks all
of them again, so the message is as good as the best set its sender could pack.

The disk is the durable part of `state[p]`: every assignment to it is followed
by `persist()` in the same critical section and before anything is sent. The
exception is the NEWVIEW arm, which persists twice; `HalfEntry` is the crash in
between. `Recover` is what the start of `main` makes of the file. A complaint
can be made by any node at any time (`Timeout`): a timer that expired.

### 2.5 Replicated store

Keys do not interact, so there is one. A write is a record of its own,
`write[w]`: the thread of its client at the primary, which has stamped and stored
the value in one lock section and now calls one backup after the other. Writes
overlap. A call is confirmed (the backup's section and its answer), refused, or
given up after a second, in which case the line stays with the backup in `late`.
`get` is one get at any node, whose calls are answered (`ReadFrom`) or not
(`ReadFailed`); many may follow each other, each overlapping any number of
writes. The order of the calls is free in the model and fixed in the code. The
value of a set is its number in the order in which the primary applied them, so that "older"
makes sense; no guard reads it.

A copy also has a `text`, of which the model keeps whether it is empty, a part of the value or
all of it. `Wire` is what `read_from` makes of a copy: `set k` stores the empty value, and
`readts` answers with a timestamp and a blank, but behind `trim()` that is a timestamp alone and
counts as "no entry" (main.rs:75-83). `set`, `repl` and a whole dump keep the text as it is.

A crash takes memory and unserved requests. `DiesConfirming` and `DiesReading` are the
death after the line was read and before the answer: the caller reads the end of
the stream, which `read_line` returns as an empty line and no error, and both
`forward` and `read_from` take it for an answer.

A restart with `--catch-up` takes several steps. From `Restart` on the node is `catching`: bound to
its port (main.rs:237), so that what is sent to it waits there and is not refused. `CaughtUp` ends
that with the dump, which the primary writes under one lock; what was forwarded before
or meanwhile is served afterwards. (The module's README says that such a
write can be missed. The code is better than that.) `GivesUp` is a primary that is gone, or whose
connection is reset: the process ends. `DiesDumping` is its death in the middle of the dump: the loop
at 246-264 ends with the stream as it does with `END`, and the node serves what it has got; `Torn` is
what that can be for a key, its line missing, whole, or cut within the value. A restart without
`--catch-up`, and a restart of the primary, lose what only memory held; the README of 04 excludes
them and so does the model.

### 2.6 Causal broadcast

A message is `<<origin, number>>`, the pair by which the code deduplicates. Each
receiving thread takes the lock once for deduplication, relay and the loop that
drains the waiting room: a turn of the loop is a step (`Deliver`), and
`Unlocked` keeps every other handler of the node away until the loop has
ended. `wire` is what was sent: a copy stays, since any relay sends another. A
crash in the middle of the sends loses some of the copies that no other running node
has sent too. `done` and `past` are history, for the properties only.

### 2.7 Leader election

`fresh[n]` are the peers heard within the timeout, `voters[n]` those whose last ping
named `n`. Clocks are not modelled: any timer may run out and any ping be lost until
`CalmDown`; from then on only the timers of silent peers run out, which is what
timely links mean. One turn of the loop is one step, although the code takes the lock
twice in it. A ping that arrives between the two sections
counts as having arrived before the round or, when its sender was suspected in
it, after: only votes of peers not suspected *in this round* are counted, and such a
peer was fresh already. Left out are two rounds that overlap such that each node
counts the vote the other casts in its own. Since such rounds only make a status differ for
one period and the property is about what stays, this loses nothing that it could show.

### 2.8 Concurrency control

`Transactions` describes a job by what it reads and in which order, when it gives
up and what it adds. Each engine is a module that extends it: an action per call
(`Read`, `Commit`, ...), hence per lock section, and a job that fails starts over as the loops of the
programs do. In `LockingStore` every lock of a key, every access and every unlock is a step.
`Serial` is the reference: some order of the finished jobs explains all that
they have read, and the balances.

### 2.9 Threads and shared memory

`Semaphore` holds the lock sections of `acquire` and `release`; `notify_one` wakes
anyone, who competes with everybody else for the mutex, and a condition variable
may wake a thread for no reason. `Philosophers` are the threads on top of it. In `TreiberStack` every access to
shared memory is a step: load, link, exchange, and the read of the next pointer
of a node that a rival may be popping. The operations of `AtomicStack` are one
step each, in the order of the thread's program; the refinement puts a push and a successful
pop at the exchange they win, a pop of nothing at its load.

### 2.10 Replicated data types

A clone of a replica's state is a message: `clones` keeps what was sent, and any
replica merges any of them at any time, again and again or never. `heard[r]` is
history: the calls that the state of `r` stands for. `Gossip` is the
program with its fixed rotation and its partition, merges in place one after the
other.

## 3. What is checked

Bounds are CONSTANTS that no line of the code stands for. Those in use were
chosen so that the property can fail: each property is violated, under the same
bounds, when the definition named in `PROJECT.json` is replaced by its mutant.

### 3.1 Raft (three nodes)

* `raft_safety`: four timeouts at two of the nodes when nothing else goes wrong, two with one fault,
  one with two; a fault is a crash at any point or a request served after its caller
  gave up. Two commands, one of which no append carries (a tab). `TypeOK`,
  `ElectionSafety`, `CommittedAgree`, `LeaderCompleteness`, `CommitWithinLog`,
  `VoteIsKept`. Four elections are what Figure 8 of the Raft paper needs; without
  the commit-term rule the run finds it.
* `raft_log`: three commands on one key, one of them reserved, logs of length
  two, two leaders, or one leader and a fault. `KvIsReplay` and
  `ImplementsCommittedLog`: the commit indices and what is below them implement
  `CommittedLog`.
* `raft_live`: `OwnTermCommits` under `FairSpec`, any node may stand. Both threads
  of each node keep running (weak fairness of the thread's next section, of the
  accept loop), and a node that is called again and again answers some of the
  calls (strong fairness over `Called`): links are fair, nobody is down for good.
  Timeouts are bounded by MaxElections, which stands for "after stabilization":
  from then on heartbeats keep the others quiet. An entry of an earlier term may
  wait for a command of the new leader (README of 07, 3.3), so the property is
  about logs that end in the leader's term.

* `raft_stale` (violation): `CommittedAgree` with five nodes and the two locks of the
  heartbeat (main.rs:210-219). The leader of term 1 is held up between them while two
  more are elected; then it reads the log and the commit index of term 3, which
  have reached it meanwhile, and sends them under term 1 to a node that knows of
  neither election and commits. The leader of term 2, deposed but not aware of it,
  overwrites the log of that node, whose commit index now covers an entry that
  nobody has committed. Nothing crashes and no request is lost. The README of 07
  says that safety never depends on timing (74) and that what is committed is never
  contradicted (59-60); the check at 247-250 protects what a leader commits, not
  what it sends. `NextStale` only cuts the schedule down to who stands when
  and who can be reached, so that TLC gets to a behaviour of 45 states; each of its steps is
  one of `Next`. `raft_safety` has the two locks as well, and its three nodes no such
  behaviour within its bounds.

One thing these runs do not promise, because the code does not: a command with
a tab passes the check for delimiters (main.rs:410), is acknowledged, and no
append that carries it has an answer. `raft_live` has no such command.

### 3.2 Two-phase commit

`two_phase_commit` checks two systems side by side.

* Three accounts, three transfers that an account may refuse, with
  `transfer-crash`, two deaths of participants. `TypeOK`, `Solvent`,
  `CommitIsSafe`, `Agreement`, `Conserved`, `ImplementsAtomicCommit`. With three
  transfers a promise of the first can still be open at the third.
* Two accounts, a coordinator that restarts and one death, with `Fairness`:
  processes that run take their steps and a participant that died is started again
  (nobody in the code starts it; the README of 08, 4, assumes so).
  `SafeAcrossRestarts` (`Solvent` and `CommitIsSafe`), `EveryTransferEnds`;
  `EveryDoubtEnds` says that promises are settled as long as nobody died or
  restarted, for the blocking of 2PC is real.

`Agreement`, `Conserved` and the refinement are not promised once the coordinator
restarts: its numbers begin again, and a verdict on a new transfer can settle the
promise for an old one (README of 08, 301-304, names it).

### 3.3 Byzantine broadcast (four nodes, one of them Byzantine)

* `brb_liar`: the sender is Byzantine and signs everything of two contents for
  everybody: `Consistency`, and in `TypeOK` that nobody delivers twice. `LiarSpec` is
  `Spec` without `Bcast`, which a Byzantine sender does not run; `brb_liveness` runs it.
* `brb_liveness`, two systems side by side, each with its fairness. In one the
  Byzantine node is not the sender and signs READY of another content for two
  nodes: `Integrity` and `Validity`. In the other the sender helps one node to a
  delivery and leaves another without SEND and ECHO, so that amplification must
  carry: `TotalityOfALie`.

The safety run uses symmetry of the correct nodes and of the contents, and a VIEW
that forgets `echos[p]` once READY is sent and `readys[p]` once delivered: the
code still records them, but reads them only to decide what it no longer does,
and the properties do not mention them (the type of the maps is a theorem). The
liveness run uses neither. Fairness is weak, of "some message of a correct node that a
correct node could receive is received": a correct node learns something from
finitely many messages only, so this gives eventual delivery of each that matters.

### 3.4 Byzantine consensus (four nodes, one of them Byzantine)

* `pbft_safety`, two systems of two views side by side. In one the Byzantine node leads the
  second view, and there are two crashes, at most one of them between the two persists
  of a NEWVIEW; in the other a correct node leads it, and nobody crashes. Any timer may expire
  at any time, and f+1 complaints make a node join, decided or not. In the second view
  anything may be proposed, once or again; in the first, which a correct node leads, one
  of the two contents. (A second one there would only take votes away from the first: at most one of
  them can be certified, and by symmetry that is the one proposed.)
  `TypeOK` (with `FlagsAgree`, how flags that a crash forgets belong to what it
  keeps), `Agreement`, `OneCertificate`, `LockIn`, `NothingTurnsBack`. `Led` changes
  the order of `nodes` and the bound on crashes only, so that the properties of the instance
  that is extended are those of both; symmetry permutes the two leaders together with the
  nodes. Certificates of two earlier views that compete for a later one take three views,
  more than TLC gets through together with crashes; `LockIn` and `Agreement` are theorems
  for any number of views and any proposals (4).
* `pbft_half` (violation): `Agreement` with two crashes between the two persists
  of a NEWVIEW. Both nodes have entered the view, whose evidence forces one
  value, and recover without the vote and without `expected`; the Byzantine leader
  gets them to vote for its own value. One such crash is survived
  (`pbft_safety`, and in general f of them, see 4): a quorum of three holds at most one Byzantine node and one that
  forgot. Restarts of all nodes are in the scope of the README
  (`demos/crash_recovery.py` restarts the whole cluster).

### 3.5 Replicated store (three nodes)

* `store`: two writes, one of which may be a removal and one of the empty value, two forwards that
  are given up and served late, a crash, a death in the middle of a request (a forward, a `readts` or
  a dump), restarts; symmetry of the backups, and the VIEW `Read`, which forgets of a write and of a
  get that are over who was asked and who answered: nothing reads it any more.
  `RegularRead`: a completed get returns nothing older than the last set
  acknowledged before it began, unless the key was removed, a node died in the
  middle of a request, or that set or one begun after it has the empty value. `NeverRegress`: a
  running node's copy never goes back.
  Two writes are what reordering needs, and three nodes make majorities that
  differ. The exceptions of `RegularRead` are where it does not hold. Removal: the README of 04 (8)
  names removal without a tombstone as a limitation. A death in the middle of a request: see
  `store_dying`. The empty value: three nodes hold `old`, `set k` is acknowledged by two of them, and
  a get at the third, which is behind, counts their answers and returns `old`, although nobody has
  died and nothing was removed. With `MaxEmpty` 1 and `MaxDying` 0 `RegularRegister` fails
  in nine states (the key is new there, and the get finds none). An empty value that was set *before* does no harm, which is part of what the run checks.
* `store_dying` (violation): `RegularRegister` is `RegularRead` as the README
  states it (3, RR2). A set is acknowledged by two nodes; one of them dies while it
  serves a get of the third, whose request to the other timed out. The end
  of the stream counts as the second response, and the get answers what the third node
  had before. The minority that may crash is one node here. A dump cut off (`DiesDumping`) breaks
  `RegularRegister` as well, with one crash before it. Of five nodes these two are a minority: the
  primary and two backups acknowledge a set, one of these crashes and comes back with a dump that the
  primary dies in, and with the two that never heard of the set it is a majority for a get.

### 3.6 The ensemble

`ensemble` checks the smaller programs, each in an instance of its own with the
fairness the code gives it: every thread that can run does (weak fairness of a
thread's next step; mutexes hand themselves on), the loop of a running node goes round, time passes.

* 06, three nodes, three messages of two origins, one crash: `CausalOrder`,
  `DeliveredPrefix`, and `ReachesEverybody` (what is handed over, or sent by a node
  that does not crash, is handed over by every running node). Three nodes
  and a reply to a message seen are what a causal triangle needs.
* 05, three nodes, two crashes and a restart before the calm: `LeaderEmerges`. In
  the end every running node votes for the lowest one, which alone leads if a
  majority runs; otherwise nobody leads. Two leaders at a time *before* are possible,
  and nothing in the code excludes them.
* 09: `Isolated`. Deposits, a transfer and an audit under each engine: what the
  finished jobs have seen and left is what some serial order would. The two
  withdrawals of `write_skew.rs` are not serializable under snapshots, as that program
  shows; `NothingLost` says what holds of them too, and of `mvcc.rs`: no write was lost to
  another. `EveryoneFinishes`: every
  job gets through (optimistic and multi-version jobs fail only because another
  has succeeded; locks are taken in one order).
* 03: `EveryoneFinishes` for four philosophers with a waiter and with ordered forks,
  four workers and two permits, two producers and two consumers on a buffer of two.
  `ImplementsStack`: three threads, with pushes and pops such that a top can be popped and
  another pushed between a pop's reads and its exchange; with addresses that are
  used again (the mutant) the run finds the ABA error.
* 12, two replicas. `ShowsWhatItHeard`: the counter shows each count it has heard of
  once. `HoldsWhatIsLeft`: an element is in the set exactly if some addition was not seen by any
  removal heard of. `EveryoneFinishes`: the gossip of five replicas ends with the
  total everywhere.

The numbers of the programs are larger in places (five philosophers, four permits of the
waiter, three of the workers, a buffer of ten, 50 items); the instances
keep what matters, one permit fewer than philosophers, fewer permits than
workers, more items than the buffer holds. The buffer's program has one thread of
each kind; two of each are what `put` and `get` are written for.

## 4. What is proved

For every value of the constants: any number of nodes, commands, crashes.

**Raft.** `TypeCorrect` (`TypeOK`), `VotesKept` (`VoteIsKept`), `ElectionIsSafe`
(`ElectionSafety`). "One vote per term" is not inductive alone, since votes are counted
from locals when the voter may have moved on. The invariant `ElectionInv` says
that a node that counts `q` in `rnd[n].votes` for term `t` is bound: `q` has
voted for `n` in `t`, in memory and on disk, or is past `t` (`Ballots`); and
that each elected node had such a majority (`Electorate`). Two majorities meet
in a node that is bound twice. The lemma on majorities counts with the cardinalities of
`FiniteSetTheorems`.

About the logs: `CommitStaysWithinLog` (`CommitWithinLog`), `CommittedNeverDiffers`
(`CommittedAgree`), `LeadersAreComplete` (`LeaderCompleteness`), `CommittedLogImplemented`
(the refinement of `CommittedLog`) and `MapIsReplay` (`KvIsReplay`). They are all of the form
`Spec /\ [][SnapshotInTerm]_vars => ...`, where `SnapshotInTerm` says that a leader which
takes its snapshot (main.rs:216-219) still leads in the term it read at 210-213. Without
it they cannot be proved, because they are false: `raft_stale` is the counterexample that the
attempt to prove them led to. Nothing else is assumed, neither of crashes nor of late
requests nor of the order of calls.

Here a node replaces its whole log by the leader's, so log matching is not about
pairs of entries. The invariant `RaftInv` speaks of three histories that no
variable holds and that exist in each reachable state: `H[t]`, the log of the leader of term `t`,
`I[t]`, the log it was elected with, and `K[q][t]`, how much of `H[t]` node `q` has taken
at most. Each step of a proof says how they grow (`Change`). The parts: a log
is, up to an entry of term `t`, the log `H[t]` (`Matched`); a length is `Choosable` in `t` if a
majority has taken it *or is not past `t` and may do so*, and the log with which a later leader was
elected has whatever was `Choosable` in an earlier term (`Cover`), since the log that a node keeps
when it changes term has it (`Keep`); a commit index covers what a majority has taken
of an entry of its leader's own term (`Backed`). The rest says how the rounds under way and
the queues of late requests relate to these: what was asked earlier is not longer (`RoundOrder`, `Queue`), so that a
late append of a term never takes back what a later one of that term has brought.

Two committed prefixes are one prefix of the other (`KeptTogether`), which gives the
refinement; and the map: `KvInv` has it equal a closed form of the replay (`KvOf`: the last entry
that touches a key decides), which `Apply` preserves although the log under it is
replaced, and `FoldIsKv` shows that the fold in `KvIsReplay` is that closed form.

**Two-phase commit.** `TypeCorrect` (`TypeOK`), `SolventAlways` (`Solvent`),
`AgreementAlways` (`Agreement`, as long as the coordinator does not restart:
with restarts it is false). `SolventInv` adds that memory and disk agree between
two turns of the loop, and that each account covers its promise. `AgreeInv`
says that the only request under way is the one the coordinator waits for
(`Queued`), that a promise carries the number of its own transfer and is open
(`Promised`), that nothing has happened to transfers to come (`Untouched`), and
what the coordinator's position says about the current one (`Progress`): while
it collects votes those asked have said YES if `all_yes`, once it commits all
have, once it aborts none has committed.

`AtomicCommitment`: each step is one of `AtomicCommit` or a stutter, from the same
invariant and under the same condition. `CommitSafe` (`CommitIsSafe`) holds with
restarts as well: requests of dead coordinators with the same numbers may lie in any
queue, but the one that is waited for is the last in its queue (`Awaited`), so a
participant whose YES has arrived has nothing before it that could take the promise
away (`Backed`). `MoneyConserved` (`Conserved`), for transfers whose amounts sum to zero
(`Conserving`; the program itself lets anybody type any amounts) and no restart: between the first
COMMIT and the last money is neither here nor there, and what is constant is the sum of
the balances and of what is still promised of transfers that all have promised and
none has left (`Worth`).

**Byzantine broadcast.** `TypeCorrect` (`TypeOK`), `ConsistencyHolds`
(`Consistency`), `IntegrityHolds` (`Integrity`). `BackedInv` ties what a node
counts to what was signed: READY of a correct node is backed by an echo quorum,
directly or through the first correct node that sent it; two echo quorums of
more than (n+f)/2 share a correct node, which echoes once.

**Byzantine consensus.** `TypeCorrect` (`TypeOK`, with how a node's flags agree with
what it has persisted) and `NothingReturns` (`NothingTurnsBack`): no step and no
crash, in the middle of a NEWVIEW included, turns back a view, moves a lock to an older certificate or changes a
decision. `OneCertificatePerView` (`OneCertificate`), whatever crashes: a node's vote in a view
is the one it has written down (`Once`), and two quorums share a correct node.

`LockedInWhileFewForget` (`LockIn`) and `AgreementWhileFewForget` (`Agreement`) hold
as long as `half_entries <= f`, in views without bound. `f + 1` such crashes break them
(`pbft_half`), so the bound is exact. A value is `Choosable` in a view if a
quorum has sent COMMIT for it or may still do so: a node may, as long as it has not
complained past the view. `SafeAt(w, m)` says that nothing but `m` is choosable before `w`. Who votes for
`m` in `w` has made sure of `SafeAt(w, m)` from the complaints of a quorum, each of which
shows a lock as old as what its sender had committed to (`Complained`): the newest
certificate among them wins in `select_value`, and an induction over the views carries the
claim from there. The exception are the nodes that have forgotten `expected` in a crash between the two
persists of `w`: `Loose(w)` collects those that have voted unsafely or may do so. Each such
crash adds at most one node (`FewLoose`), and a certificate takes more than 2f signatures,
at least one of them of a correct node that is not loose, if at most f are.
`LockInAndAgreement` is the corollary for MaxHalfEntries <= f.

**Replicated store.** `StoreTypes` (`TypeOK`), `ReadsAreRegular`
(`RegularRead`), `CopiesNeverRegress` (`NeverRegress`). That quorums meet is not
enough, since a set's acknowledgements and a get's responses are collected over
a time in which nodes crash and come back. `ReadInv` says, as long as nothing is
removed and nobody dies in the middle of a request, that timestamps count the
writes (`Numbered`), that a node which acknowledged a set holds it or a newer one
whenever it runs (`AckInv`), and that a get which has not yet seen what it must
still has a majority that holds it and of which it has asked nobody (`GetInv`). A node
that comes back has the primary's copy, which is the newest. A copy is empty only if it is that of an
empty set (`Genuine`); so a copy at least as new as a set that is not empty, and has no empty one behind
it, shows on the wire (`Shown`). The exceptions are those of `RegularRead`, and the code needs each of them (3.5).

**Causal broadcast.** `CausalOrderHolds` (`CausalOrder`), `PrefixHolds`
(`DeliveredPrefix`). The code compares two vectors of counts and never stores
what precedes what. `CausalInv` says that both count prefixes: a stamp those of its
message's past (`Stamped`), a node's vector what it has handed over (`Counted`),
and that a message is on its way, held back or handed over (`Handled`). A message that is
ready has exactly the next number of its origin, because those before it were handed over and
are not held back any more.

The vectors are `EnsembleProofs`' first part; the rest of that module is what follows.

**Replicated data types.** `CountedOnceHolds` (`ShowsWhatItHeard`), `AddWinsHolds`
(`HoldsWhatIsLeft`), for any replicas and elements and for gossip that is late, partial,
repeated or out of order. The states know slots and tags, the properties speak of calls; both proofs are about
what connects them, in every state that a replica has or has sent. A counter's slot counts what
was heard of one replica (`Exact`), and of each replica a state has heard the *first* counts, none left out:
that is why the larger of two slots is the slot of both together, and it is what a merge that adds
(`naive_counter.rs`) lacks. For the set, `Told` says that there is a tag for each addition, of its own, such that the
tags a state holds are those of the additions it has heard of, its tombs those of the additions that a removal it has
heard of had seen; and that whoever has heard of a removal has heard of all that it had seen.

**The lock-free stack.** `StackImplemented` (`ImplementsStack`): `TreiberStack` implements
`AtomicStack`, for any threads and any finite programs of pushes and pops. `StackInv` says that the stack is a
`Chained` sequence of different nodes, and that a node is either shared or in the hands of the one
thread that is pushing it (`Shared`, `Pushing`). Shared nodes are never written and never come back to their
thread, so what a pop has read of the node it saw on top is true for good (`Popping`): its exchange, if
it finds that node on top, takes off what is the first of the chain *now*. That is the argument by which the
code needs no counter against ABA, and `Freed`, which uses addresses again, breaks it in the second conjunct
of `Popping`. `CalledInv` says that a thread is in the middle of what its program calls next, so that a push that was lost
could not pass for a pop of nothing. `FreshNode` shows that the bound on addresses in the model takes nothing away: whoever calls push finds
an unused one.

**Transactions.** `TransactionProofs` proves for each engine of 09 that its finished jobs ran as if one after the
other: `OptimisticSerializable`, `LockingSerializable`, `SnapshotSerializable`, for any accounts and any number of
jobs of the shape `Fits`. The order is not in any variable. The invariants say that one exists which
explains what the finished jobs saw (`Explained`), and each commit extends it. Under the
optimistic engine the job that commits goes to the end, because what it has read is
what is stored (its versions have not moved). With locks it goes to the end when it has touched its last account, while
others are in the middle and the balances half written: the order explains the balances *without* what
the unfinished jobs have written (`Founded`), and no two jobs of which one writes hold
the lock of the same key (`LocksAgree`). Locks are given back one by one, which `Serializable` does not notice, since a
job that has begun to touch accounts had all its locks (`Locked`). With snapshots a job
that writes goes to the end, and one that only reads to the moment of its snapshot: every moment is one that the order
passes (`Timely`). This needs that jobs write all they read, or nothing (`WriteAllOrNothing`), which those of `mvcc.rs` do and
those of `write_skew.rs` do not. What holds of both is `SnapshotKeepsAll`: the balances are the opening ones and the sum of
what every finished job that has not given up has added.

`IsolatedHolds` (`Isolated`) and `NothingLostHolds` (`NothingLost`) are these theorems for the engines of
`Ensemble`. The conditions on the jobs are `JobsAssumption` there; TLC evaluates it for the jobs of the programs.

`Sums` has lemmas only. The library's induction rules take an operator as
argument, which the provers cannot instantiate; its lemmas get by with an induction on finite sets
by a smallest counterexample, from the theorem that strict inclusion is well-founded
on the subsets of a finite set. With it the folds of the community modules over a finite
set of participants (`Conserved`) or of places of a log (`KvIsReplay`) are proved about.

Assumptions: those declared as ASSUME in the modules (types of the constants;
for the broadcast, that at most `f` nodes are Byzantine; for the consensus, that n = 3f+1; for the engines,
what all the jobs of 09's programs have in common; for the stack, that its programs consist of pushes and pops,
finitely many of them pushes), and the
conditions named above, which the statements of the theorems show:
`SnapshotInTerm` for the logs of Raft, no coordinator restart for `Agreement`,
`Conserved` and the refinement of 08, `half_entries <= f` for `LockIn` and `Agreement` of 11.

Model-checked only: the liveness properties (fairness and ENABLED are out of the
prover's reach: `OwnTermCommits`, `EveryTransferEnds`, `EveryDoubtEnds`, `Validity`, `TotalityOfALie`,
`ReachesEverybody`, `LeaderEmerges`, `EveryoneFinishes`), and `SafeAcrossRestarts` as such, which is
`Solvent` and `CommitIsSafe` of the second instance of `MCTwoPhaseCommit`: `SolventAlways` and `CommitSafe`
are proved of `TwoPhaseCommit` for every value of its constants, the second instance's among them. Every other property of a
passing run is a theorem.

## 5. What is not modelled

Of every program: sockets as such, parsing of malformed lines, printing, the
wording of replies. Then:

* 01, 02: sequential, or one lock section per operation with nothing kept
  between two of them; the file of 01 is written on an orderly exit only, which
  the program states as its limit. A model would say nothing that its tests do not.
* 03: `counters.rs`, `bounded_buffer_polling.rs`, `readers_writers.rs` and
  `readers_writers_mutex.rs` (one atomic or one lock section per operation),
  `philosophers.rs` (it deadlocks on purpose).
* 04: a restart without `--catch-up`, nodes with different peer lists (both
  excluded by its README), overflow of the timestamp. A request or answer of one line arrives
  whole or not at all, and a death cuts off one of the calls that the node is serving:
  the others count as timed out.
* 05: the length of timeouts and periods; see 2.7 for what one step per round
  leaves out.
* 06: the delay that `--slow-from` adds, malformed stamps.
* 07: `last_heard`, the length of timeouts, the reply to a client.
* 08: overflow of the balance: `balance + delta` is unchecked i64 arithmetic
  (main.rs:87), which the unbounded integers of the model do not show.
* 09: `lost_update.rs` and `read_skew.rs`, which have no engine.
* 10: key generation and the cryptography, the restart of a node (it persists
  nothing).
* 11: key generation, a state file torn by a crash inside `persist()` (limitation 4
  of its README), the switches that make a node Byzantine, and termination: the
  timeout of four seconds never grows, so that no fairness of the code gives it.
* The Python demos, which start the programs and print what they do.

## 6. Plan

The programs are modelled as far as sections 2 and 5 say, and their safety properties are
proved as far as section 4 says. What could be added, in the order of what it would show:

1. Overflow of the balances of 08, with integers of a width.
2. Termination of 11 under a timeout that grows, if the code is given one.
3. A model of the state file of 11 that a crash can tear, once `persist()` is meant to survive that.
