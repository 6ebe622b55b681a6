-------------------------------- MODULE Raft --------------------------------
(***************************************************************************)
(* Module 07, src/07-raft/src/main.rs: the crash-recovery Raft node.       *)
(*                                                                         *)
(* A node runs two threads over one Mutex<State>: the election thread      *)
(* (timeouts, elections, heartbeat rounds) and the accept loop, which      *)
(* serves one request at a time.  A step of this module is one critical    *)
(* section of the mutex.  What the election thread keeps in local          *)
(* variables BETWEEN two critical sections is rnd[n], and pc[n] says which *)
(* section comes next, so everything the code does with a role, a term or  *)
(* a log read before the lock was released is in the model.                *)
(*                                                                         *)
(* An RPC is one TCP connection.  Either it is answered (the handler's     *)
(* section, then the reply, which touches only the caller's locals: one    *)
(* step), or it is refused, or its caller gives up after the read timeout  *)
(* and the request stays in the receiver's accept queue, inbox[p], to be   *)
(* served later, in order.                                                 *)
(***************************************************************************)
EXTENDS Naturals, Sequences, FiniteSets, FiniteSetsExt, SequencesExt

CONSTANTS
    Server,       \* the nodes, by address
    None,         \* voted_for = None
    Key, Val,     \* keys and values of the state machine
    Nil,          \* "(nil)": the key is absent
    Cmd,          \* the commands clients send
    Reserved,     \* those containing '|', '~' or U+001F
    Split,        \* those containing another white space than a blank
    Garbled,      \* what a reserved command would be parsed as
    Standing,     \* bounds, not in the code: nodes whose timeouts may expire,
    MaxLog,       \*   longest log a client may produce,
    MaxFaults,    \*   crashes and abandoned calls in a behaviour, and
    MaxElections  \*   timeouts that expire in one with so many of them

Command == [op : {"set", "remove", "noop"}, key : Key, val : Val]
Entry   == [term : Nat, cmd : Command]

NodeState == [term : Nat, role : {"Follower", "Candidate", "Leader"},
              voted_for : Server \cup {None}, log : Seq(Entry),
              commit_index : Nat, applied : Nat, kv : [Key -> Val \cup {Nil}]]
Durable   == [term : Nat, voted_for : Server \cup {None}, commit_index : Nat,
              log : Seq(Entry)]
Round     == [term : Nat, log : Seq(Entry), commit : Nat, todo : SUBSET Server,
              votes : SUBSET Server, lens : [Server -> Nat], seen : Nat]
VoteRequest   == [kind : {"requestvote"}, term : Nat, from : Server,
                  last_index : Nat, last_term : Nat]
AppendRequest == [kind : {"append"}, term : Nat, commit : Nat, entries : Seq(Entry)]

ASSUME ServerAssumption  == IsFiniteSet(Server) /\ Server # {} /\ None \notin Server
ASSUME CommandAssumption == /\ Cmd \subseteq Command /\ Garbled \in Command
                            /\ Reserved \subseteq Cmd /\ Split \subseteq Cmd
ASSUME NilAssumption     == Nil \notin Val
ASSUME BoundAssumption   == /\ {MaxLog, MaxFaults} \subseteq Nat
                            /\ MaxElections \in [0 .. MaxFaults -> Nat]
                            /\ Standing \subseteq Server

VARIABLES
    state,     \* state[n]: the struct State behind the mutex
    disk,      \* disk[n]: the state file
    pc,        \* pc[n]: the next critical section of the election thread
    rnd,       \* rnd[n]: the locals of the election thread's current round
    inbox,     \* inbox[n]: accept queue of requests whose caller gave up
    elections, \* number of expired timeouts and
    faults,    \* of crashes and abandoned calls so far
    elected    \* history: every <<term, node>> that won an election

vars == <<state, disk, pc, rnd, inbox, elections, faults, elected>>

(***************************** pure functions ******************************)

Majority == Cardinality(Server) \div 2 + 1

LastTerm(log) == IF log = <<>> THEN 0 ELSE Last(log).term

\* serialize_log followed by parse_entries: the identity, except on the
\* delimiters of the format.
Wire(log) ==
    [i \in DOMAIN log |->
        [log[i] EXCEPT !.cmd = IF @ \in Reserved THEN Garbled ELSE @]]

\* An append request is split at white space and must have five words.
Sendable(log) == \A i \in DOMAIN log : log[i].cmd \notin Split

\* Mutant: the oldest command on a key wins.
ApplyOldest(s) ==
    LET new        == s.applied + 1 .. Min({s.commit_index, Len(s.log)})
        touches(k) == {i \in new : s.log[i].cmd.op # "noop" /\ s.log[i].cmd.key = k}
        effect(c)  == IF c.op = "set" THEN c.val ELSE Nil
    IN  [s EXCEPT
          !.kv = [k \in Key |-> IF touches(k) = {} THEN @[k]
                                ELSE effect(s.log[Min(touches(k))].cmd)],
          !.applied = Max({@, s.commit_index})]

\* apply(): executes entries applied+1 .. commit_index on kv, in order.  The
\* last command that touches a key decides its value.  (An index past the log
\* would be a panic: CommitWithinLog.)
Apply(s) ==
    LET new        == s.applied + 1 .. Min({s.commit_index, Len(s.log)})
        touches(k) == {i \in new : s.log[i].cmd.op # "noop" /\ s.log[i].cmd.key = k}
        effect(c)  == IF c.op = "set" THEN c.val ELSE Nil
    IN  [s EXCEPT
          !.kv = [k \in Key |-> IF touches(k) = {} THEN @[k]
                                ELSE effect(s.log[Max(touches(k))].cmd)],
          !.applied = Max({@, s.commit_index})]

\* Mutant: the vote is not written.
PersistNoVote(s) == [term |-> s.term, voted_for |-> None,
                     commit_index |-> s.commit_index, log |-> s.log]

\* What persist() writes: term, vote, commit index and log.
Persist(s) == [term |-> s.term, voted_for |-> s.voted_for,
               commit_index |-> s.commit_index, log |-> s.log]

\* Mutant: the "-" that stands for no vote is read back as a name.
RecoverDash(d) ==
    Apply([term |-> d.term, role |-> "Follower",
           voted_for |-> IF d.voted_for = None THEN "-" ELSE d.voted_for,
           log |-> Wire(d.log), commit_index |-> d.commit_index,
           applied |-> 0, kv |-> [k \in Key |-> Nil]])

\* A node that comes up: load(), then apply() on the committed prefix.
Recover(d) ==
    Apply([term |-> d.term, role |-> "Follower", voted_for |-> d.voted_for,
           log |-> Wire(d.log), commit_index |-> d.commit_index,
           applied |-> 0, kv |-> [k \in Key |-> Nil]])

\* What load() returns where there is no file.
NoFile == [term |-> 0, voted_for |-> None, commit_index |-> 0, log |-> <<>>]

\* A higher term was seen: adopt it, step down, forget the vote.
StepDown(s, t) == [s EXCEPT !.term = t, !.role = "Follower", !.voted_for = None]

\* Mutants: only the lengths of the logs are compared, or nothing is.
NoShorter(s, m) == m.last_index >= Len(s.log)
AnyLog(s, m) == TRUE

UpToDate(s, m) ==
    \/ m.last_term > LastTerm(s.log)
    \/ m.last_term = LastTerm(s.log) /\ m.last_index >= Len(s.log)

\* Mutant: an earlier vote in the term is ignored.
GrantAgain(s, m) == m.term = s.term /\ UpToDate(s, m)

MayGrant(s, m) ==
    /\ m.term = s.term
    /\ s.voted_for \in {None, m.from}
    /\ UpToDate(s, m)

\* Mutant: a request of the own term counts as a newer one.
OnAnyRequestVote(s, m) ==
    LET a == IF m.term >= s.term THEN StepDown(s, m.term) ELSE s
    IN  IF MayGrant(a, m) THEN [a EXCEPT !.voted_for = m.from] ELSE a

\* The requestvote handler; the reply says yes iff the vote is now m.from's.
OnRequestVote(s, m) ==
    LET a == IF m.term > s.term THEN StepDown(s, m.term) ELSE s
    IN  IF MayGrant(a, m) THEN [a EXCEPT !.voted_for = m.from] ELSE a

Granted(s, m) == MayGrant(IF m.term > s.term THEN StepDown(s, m.term) ELSE s, m)

\* The append handler: a current or newer leader's log replaces the own one.
OnAppend(s, m) ==
    IF m.term < s.term THEN s
    ELSE LET log == Wire(m.entries)
         IN  Apply([s EXCEPT
               !.voted_for = IF m.term > s.term THEN None ELSE @,
               !.term = m.term,
               !.role = "Follower",
               !.log = log,
               !.commit_index = Max({@, Min({m.commit, Len(log)})})])

Handle(s, m) ==
    IF m.kind = "requestvote" THEN OnRequestVote(s, m) ELSE OnAppend(s, m)

\* Mutant: all acknowledgements are needed.
AgreedByAll(lens, a) ==
    /\ \A q \in Server : lens[q] >= a
    /\ \E q \in Server : lens[q] = a

\* a is the majority-th longest log acknowledged in the round (a node that did
\* not acknowledge has length 0).
Agreed(lens, a) ==
    /\ Cardinality({q \in Server : lens[q] >= a}) >= Majority
    /\ Cardinality({q \in Server : lens[q] > a}) < Majority

\* Mutant: an entry of any term is counted (Figure 8 of the Raft paper).
AdvanceAnyTerm(s, r) ==
    LET new == {a \in s.commit_index + 1 .. Len(s.log) : Agreed(r.lens, a)}
    IN  IF new = {} THEN s ELSE [s EXCEPT !.commit_index = Max(new)]

\* The commit-term rule: only an entry of the round's own term is counted.
Advance(s, r) ==
    LET new == {a \in s.commit_index + 1 .. Len(s.log) :
                   Agreed(r.lens, a) /\ s.log[a].term = r.term}
    IN  IF new = {} THEN s ELSE [s EXCEPT !.commit_index = Max(new)]

(**************************** the election thread **************************)

Idle == [term |-> 0, log |-> <<>>, commit |-> 0, todo |-> {}, votes |-> {},
         lens |-> [q \in Server |-> 0], seen |-> 0]

Init ==
    /\ disk = [n \in Server |-> NoFile]
    /\ state = [n \in Server |-> Recover(NoFile)]
    /\ pc = [n \in Server |-> "sleep"]
    /\ rnd = [n \in Server |-> Idle]
    /\ inbox = [n \in Server |-> <<>>]
    /\ elections = 0 /\ faults = 0
    /\ elected = {}

\* n leaves a critical section with its state s: what persist() wrote is s's.
Commit(n, s) ==
    /\ state' = [state EXCEPT ![n] = s]
    /\ disk' = [disk EXCEPT ![n] = Persist(s)]

EndRound(n) ==
    /\ pc' = [pc EXCEPT ![n] = "sleep"]
    /\ rnd' = [rnd EXCEPT ![n] = Idle]

\* The 200 ms tick finds the node a leader: role and term are read ...
LeaderWake(n) ==
    /\ pc[n] = "sleep" /\ state[n].role = "Leader"
    /\ pc' = [pc EXCEPT ![n] = "snapshot"]
    /\ rnd' = [rnd EXCEPT ![n].term = state[n].term]
    /\ UNCHANGED <<state, disk, inbox, elections, faults, elected>>

\* ... and the log under a second lock, when the node may have been deposed.
LeaderSnapshot(n) ==
    /\ pc[n] = "snapshot"
    /\ pc' = [pc EXCEPT ![n] = "append"]
    /\ rnd' = [rnd EXCEPT ![n] =
                [rnd[n] EXCEPT
                    !.log = state[n].log, !.commit = state[n].commit_index,
                    !.todo = Server \ {n}, !.seen = rnd[n].term,
                    !.lens = [Idle.lens EXCEPT ![n] = Len(state[n].log)]]]
    /\ UNCHANGED <<state, disk, inbox, elections, faults, elected>>

\* Silence past the randomized timeout: a candidate for a new term.
ElectionTimeout(n) ==
    /\ pc[n] = "sleep" /\ state[n].role # "Leader" /\ n \in Standing
    /\ elections < MaxElections[faults] /\ elections' = elections + 1
    /\ LET s == [state[n] EXCEPT !.term = @ + 1, !.role = "Candidate", !.voted_for = n]
       IN  /\ Commit(n, s)
           /\ rnd' = [rnd EXCEPT ![n] =
                        [Idle EXCEPT !.term = s.term, !.log = s.log, !.seen = s.term,
                                     !.todo = Server \ {n}, !.votes = {n}]]
    /\ pc' = [pc EXCEPT ![n] = "vote"]
    /\ UNCHANGED <<inbox, faults, elected>>

Request(n) ==
    IF pc[n] = "vote"
    THEN [kind |-> "requestvote", term |-> rnd[n].term, from |-> n,
          last_index |-> Len(rnd[n].log), last_term |-> LastTerm(rnd[n].log)]
    ELSE [kind |-> "append", term |-> rnd[n].term, commit |-> rnd[n].commit,
          entries |-> rnd[n].log]

\* An append whose log holds a split command is no append to its receiver.
Understood(n) == pc[n] = "vote" \/ Sendable(rnd[n].log)

\* p serves the request of n at once and n reads the reply.
AppendAnswered(n, p) ==
    /\ pc[n] = "append" /\ p \in rnd[n].todo /\ inbox[p] = <<>> /\ Understood(n)
    /\ LET r == rnd[n]
           s == OnAppend(state[p], Request(n))
       IN  /\ Commit(p, s)
           /\ rnd' = [rnd EXCEPT ![n] =
                [r EXCEPT !.todo = r.todo \ {p}, !.seen = Max({r.seen, s.term}),
                          !.lens[p] = IF s.term = r.term THEN Len(s.log) ELSE 0]]
    /\ UNCHANGED <<pc, inbox, elections, faults, elected>>

VoteAnswered(n, p) ==
    /\ pc[n] = "vote" /\ p \in rnd[n].todo /\ inbox[p] = <<>>
    /\ LET r   == rnd[n]
           s   == OnRequestVote(state[p], Request(n))
           yes == Granted(state[p], Request(n)) /\ s.term = r.term
       IN  /\ Commit(p, s)
           /\ rnd' = [rnd EXCEPT ![n] =
                [r EXCEPT !.todo = r.todo \ {p}, !.seen = Max({r.seen, s.term}),
                          !.votes = IF yes THEN r.votes \cup {p} ELSE r.votes]]
    /\ UNCHANGED <<pc, inbox, elections, faults, elected>>

\* No connection, or no answer to what p could not parse.
CallRefused(n, p) ==
    /\ pc[n] \in {"append", "vote"} /\ p \in rnd[n].todo
    /\ rnd' = [rnd EXCEPT ![n].todo = @ \ {p}]
    /\ UNCHANGED <<state, disk, pc, inbox, elections, faults, elected>>

\* One more call is abandoned, or one more node dies.
Fault ==
    /\ faults < MaxFaults /\ faults' = faults + 1
    /\ elections <= MaxElections[faults']

\* The read timeout: n moves on, the request stays in p's accept queue.
CallAbandoned(n, p) ==
    /\ pc[n] \in {"append", "vote"} /\ p \in rnd[n].todo /\ Understood(n)
    /\ Fault
    /\ rnd' = [rnd EXCEPT ![n].todo = @ \ {p}]
    /\ inbox' = [inbox EXCEPT ![p] = Append(@, Request(n))]
    /\ UNCHANGED <<state, disk, pc, elections, elected>>

\* Both kinds of round end at a third lock.  A higher term in a reply deposes.
RoundDeposed(n) ==
    /\ pc[n] \in {"append", "vote"} /\ rnd[n].todo = {}
    /\ rnd[n].seen > state[n].term
    /\ Commit(n, StepDown(state[n], rnd[n].seen))
    /\ EndRound(n)
    /\ UNCHANGED <<inbox, elections, faults, elected>>

\* Still the leader of the round's term: commit what a majority holds.
RoundCommit(n) ==
    /\ pc[n] = "append" /\ rnd[n].todo = {}
    /\ rnd[n].seen <= state[n].term
    /\ state[n].role = "Leader" /\ state[n].term = rnd[n].term
    /\ Commit(n, Apply(Advance(state[n], rnd[n])))
    /\ EndRound(n)
    /\ UNCHANGED <<inbox, elections, faults, elected>>

\* Deposed by a request in the middle of the round: its acks are void.
RoundStale(n) ==
    /\ pc[n] = "append" /\ rnd[n].todo = {}
    /\ rnd[n].seen <= state[n].term
    /\ ~(state[n].role = "Leader" /\ state[n].term = rnd[n].term)
    /\ EndRound(n)
    /\ UNCHANGED <<state, disk, inbox, elections, faults, elected>>

MayWin(n) ==
    /\ state[n].role = "Candidate" /\ state[n].term = rnd[n].term
    /\ Cardinality(rnd[n].votes) >= Majority

\* The role is volatile: winning persists nothing.
ElectionWon(n) ==
    /\ pc[n] = "vote" /\ rnd[n].todo = {}
    /\ rnd[n].seen <= state[n].term
    /\ MayWin(n)
    /\ state' = [state EXCEPT ![n].role = "Leader"]
    /\ elected' = elected \cup {<<state[n].term, n>>}
    /\ EndRound(n)
    /\ UNCHANGED <<disk, inbox, elections, faults>>

ElectionLost(n) ==
    /\ pc[n] = "vote" /\ rnd[n].todo = {}
    /\ rnd[n].seen <= state[n].term
    /\ ~MayWin(n)
    /\ EndRound(n)
    /\ UNCHANGED <<state, disk, inbox, elections, faults, elected>>

(***************************** the accept loop *****************************)

\* The oldest abandoned request is served; nobody reads the reply.
HandleLate(n) ==
    /\ inbox[n] # <<>>
    /\ Commit(n, Handle(state[n], Head(inbox[n])))
    /\ inbox' = [inbox EXCEPT ![n] = Tail(@)]
    /\ UNCHANGED <<pc, rnd, elections, faults, elected>>

\* set and remove: OK means appended and persisted here, not committed.
ClientCommand(n, c) ==
    /\ c \notin Reserved
    /\ state[n].role = "Leader" /\ Len(state[n].log) < MaxLog
    /\ Commit(n, [state[n] EXCEPT !.log = Append(@, [term |-> state[n].term, cmd |-> c])])
    /\ UNCHANGED <<pc, rnd, inbox, elections, faults, elected>>

\* get: a leader applies what is committed, then reads kv; another node
\* answers NOT LEADER.
ClientGet(n) ==
    /\ state' = [state EXCEPT ![n] = IF @.role = "Leader" THEN Apply(@) ELSE @]
    /\ UNCHANGED <<disk, pc, rnd, inbox, elections, faults, elected>>

\* The process dies at any point and comes up from its state file.  Requests
\* pending at it die with its connections; those it has sent do not.
Restart(n) ==
    /\ Fault
    /\ state' = [state EXCEPT ![n] = Recover(disk[n])]
    /\ inbox' = [inbox EXCEPT ![n] = <<>>]
    /\ EndRound(n)
    /\ UNCHANGED <<disk, elections, elected>>

Next ==
    \E n \in Server :
        \/ LeaderWake(n)
        \/ LeaderSnapshot(n)
        \/ ElectionTimeout(n)
        \/ \E p \in Server :
              \/ AppendAnswered(n, p)
              \/ VoteAnswered(n, p)
              \/ CallRefused(n, p)
              \/ CallAbandoned(n, p)
        \/ RoundDeposed(n)
        \/ RoundCommit(n)
        \/ RoundStale(n)
        \/ ElectionWon(n)
        \/ ElectionLost(n)
        \/ HandleLate(n)
        \/ \E c \in Cmd : ClientCommand(n, c)
        \/ ClientGet(n)
        \/ Restart(n)

Spec == Init /\ [][Next]_vars

(******************************** properties *******************************)

\* The type of every variable.
TypeOK ==
    /\ state \in [Server -> NodeState]
    /\ disk \in [Server -> Durable]
    /\ pc \in [Server -> {"sleep", "snapshot", "append", "vote"}]
    /\ rnd \in [Server -> Round]
    /\ inbox \in [Server -> Seq(VoteRequest \cup AppendRequest)]
    /\ elections \in Nat /\ faults \in Nat
    /\ elected \subseteq Nat \X Server

\* Between two critical sections everything committed is applied, and it is in
\* the log, so that apply() never indexes past the log although an append may
\* replace the log by any other, and although it runs on what a crash left.
CommitWithinLog ==
    \A n \in Server : /\ state[n].applied = state[n].commit_index
                      /\ state[n].commit_index <= Len(state[n].log)

\* Over the whole history, crashes included, one node at most ever wins the
\* election of a term (07 README 3.1).
ElectionSafety ==
    \A e, f \in elected : e[1] = f[1] => e[2] = f[2]

Committed(n) == SubSeq(state[n].log, 1, Min({state[n].commit_index, Len(state[n].log)}))

\* No two nodes ever disagree on a committed entry, though every append
\* replaces the receiver's whole log.
CommittedAgree ==
    \A n, p \in Server :
        IsPrefix(Committed(n), Committed(p)) \/ IsPrefix(Committed(p), Committed(n))

\* The leader of the highest term there is holds every entry any node has
\* committed (the election restriction, 07 README 3.3).
LeaderCompleteness ==
    \A n, p \in Server :
        (state[n].role = "Leader" /\ \A q \in Server : state[q].term <= state[n].term)
            => IsPrefix(Committed(p), state[n].log)

\* kv is the replay of the applied prefix of the log the node holds NOW,
\* though kv is built incrementally and the log replaced under it.
KvIsReplay ==
    \A n \in Server :
        state[n].kv =
            FoldLeft(LAMBDA kv, e : CASE e.cmd.op = "set"    -> [kv EXCEPT ![e.cmd.key] = e.cmd.val]
                                      [] e.cmd.op = "remove" -> [kv EXCEPT ![e.cmd.key] = Nil]
                                      [] OTHER               -> kv,
                     [k \in Key |-> Nil], SubSeq(state[n].log, 1, state[n].applied))

\* One vote per term, for good: neither a step of the protocol nor a restart
\* turns back a node's term or moves a vote it has cast in it (07 README 4).
VoteIsKept ==
    [][\A n \in Server :
         /\ state[n].term <= state'[n].term
         /\ state[n].term = state'[n].term /\ state[n].voted_for # None
               => state'[n].voted_for = state[n].voted_for]_vars

\* The commit indices and the prefixes below them implement one growing log
\* that every node learns and none forgets (07 README 1, uniform agreement).
longest == CHOOSE n \in Server :
               \A p \in Server : state[p].commit_index <= state[n].commit_index
Abstract == INSTANCE CommittedLog WITH
                Node <- Server, Entries <- Entry, chosen <- Committed(longest),
                learned <- [n \in Server |-> state[n].commit_index]
ImplementsCommittedLog == Abstract!Spec

(******************************** fairness *********************************)

\* A step of n's election thread other than the expiry of a timeout.
ThreadStep(n) ==
    \/ LeaderWake(n) \/ LeaderSnapshot(n)
    \/ \E p \in Server : \/ CallRefused(n, p) \/ CallAbandoned(n, p)
                        \/ AppendAnswered(n, p) \/ VoteAnswered(n, p)
    \/ RoundDeposed(n) \/ RoundCommit(n) \/ RoundStale(n)
    \/ ElectionWon(n) \/ ElectionLost(n)

\* n can answer an append.
Called(n) ==
    /\ inbox[n] = <<>>
    /\ \E l \in Server : pc[l] = "append" /\ n \in rnd[l].todo /\ Understood(l)

\* Both threads of every node keep running, and a node that is called again and
\* again answers some of the calls (the links are fair, no node is down for good):
\* strong fairness, with what enables an answer written out.
Fairness ==
    \A n \in Server :
        /\ WF_<<pc, rnd>>(ThreadStep(n))
        /\ WF_inbox(HandleLate(n))
        /\ []<>Called(n) => []<><<\E l \in Server : AppendAnswered(l, n)>>_rnd

FairSpec == Spec /\ Fairness
\* No timeout is left to expire and n leads the highest term: n's heartbeats
\* keep the others quiet from here on.
Stable(n) ==
    /\ elections = MaxElections[faults] /\ state[n].role = "Leader"
    /\ \A p \in Server : state[p].term <= state[n].term

\* Under a stable leader, an entry of the leader's own term is committed at
\* every node, whatever the nodes' logs held before (07 README 3.4).
OwnTermCommits ==
    \A i \in 1 .. MaxLog :
        (\E n \in Server : /\ Stable(n) /\ i <= Len(state[n].log)
                          /\ LastTerm(state[n].log) = state[n].term)
            ~> (\A n \in Server : state[n].commit_index >= i)
=============================================================================
