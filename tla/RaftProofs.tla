----------------------------- MODULE RaftProofs -----------------------------
(***************************************************************************)
(* Proofs about Raft, for any set of servers and any bounds.               *)
(*                                                                         *)
(* First what needs no more than the code: type correctness, votes kept    *)
(* across steps and restarts, and election safety.  Then the logs: what is *)
(* committed stays committed, with any crashes and late requests, where a  *)
(* leader's tick reads its term and its log in one leadership              *)
(* (SnapshotInTerm).  The code reads them under two locks; without that    *)
(* condition the theorems are false (MCRaftStale).                         *)
(***************************************************************************)
EXTENDS Raft, Sums, FiniteSetTheorems, WellFoundedInduction, SequenceTheorems

(******************************* arithmetic ********************************)

\* A non-empty finite set of naturals has a greatest member, Max: among the
\* sets of members above a member, one is minimal, and it is empty.
LEMMA MaxOfFinite ==
    ASSUME NEW S \in SUBSET Nat, IsFiniteSet(S), S # {}
    PROVE  Max(S) \in S /\ \A y \in S : y <= Max(S)
<1> DEFINE Above(x) == {y \in S : y > x}
           T == {Above(x) : x \in S}
<1>1. T \subseteq FiniteSubsetsOf(S)
  BY FS_FiniteSubsetsOfFinite
<1>2. T # {}
  OBVIOUS
<1>3. PICK A \in T : \A B \in T : ~ (<<B, A>> \in StrictSubsetOrdering(S))
  BY <1>1, <1>2, FS_StrictSubsetOrderingWellFounded, WFMin
<1>4. PICK m \in S : A = Above(m)
  OBVIOUS
<1>5. ASSUME NEW y \in S, y > m PROVE FALSE
  <2>1. Above(y) \subseteq Above(m)
    <3> SUFFICES ASSUME NEW z \in S, z > y PROVE z > m
      OBVIOUS
    <3>1. z \in Nat /\ y \in Nat /\ m \in Nat
      OBVIOUS
    <3> QED
      BY <1>5, <3>1
  <2>2. y \in Above(m) /\ y \notin Above(y)
    BY <1>5
  <2>3. <<Above(y), Above(m)>> \in StrictSubsetOrdering(S)
    BY <2>1, <2>2 DEF StrictSubsetOrdering
  <2> QED
    BY <1>3, <1>4, <2>3
<1>6. \A y \in S : m >= y
  BY <1>5
<1> QED
  BY <1>6 DEF Max

\* So has one bounded by b.
LEMMA MaxOfBounded ==
    ASSUME NEW b \in Nat, NEW S \in SUBSET (0 .. b), S # {}
    PROVE  Max(S) \in S /\ \A y \in S : y <= Max(S)
<1>1. S \in SUBSET Nat
  OBVIOUS
<1>2. IsFiniteSet(0 .. b)
  BY 0 \in Int, b \in Int, FS_Interval
<1>3. IsFiniteSet(S)
  BY <1>2, FS_Subset
<1> QED
  BY <1>1, <1>3, MaxOfFinite

LEMMA MaxOfTwo ==
    ASSUME NEW i \in Nat, NEW j \in Nat
    PROVE  /\ Max({i, j}) \in Nat
           /\ Max({i, j}) \in {i, j}
           /\ Max({i, j}) >= i /\ Max({i, j}) >= j
<1>1. \E x \in {i, j} : \A y \in {i, j} : x >= y
  OBVIOUS
<1> QED
  BY <1>1 DEF Max

LEMMA MinOfTwo ==
    ASSUME NEW i \in Nat, NEW j \in Nat
    PROVE  /\ Min({i, j}) \in Nat
           /\ Min({i, j}) <= i /\ Min({i, j}) <= j
<1>1. \E x \in {i, j} : \A y \in {i, j} : x =< y
  OBVIOUS
<1> QED
  BY <1>1 DEF Min

(****************************** the handlers *******************************)

\* From s to t a term does not fall, and within a term a vote does not move.
Keeps(s, t) ==
    s.term <= t.term /\ (s.term = t.term /\ s.voted_for # None => t.voted_for = s.voted_for)

LEMMA KeepsTransitive ==
    ASSUME NEW s \in NodeState, NEW t \in NodeState, NEW u \in NodeState,
           Keeps(s, t), Keeps(t, u)
    PROVE  Keeps(s, u)
  BY DEF Keeps, NodeState

\* The wire format keeps the number of entries.
LEMMA WireType ==
    ASSUME NEW log \in Seq(Entry)
    PROVE  Wire(log) \in Seq(Entry) /\ Len(Wire(log)) = Len(log)
<1>1. DOMAIN log = 1 .. Len(log) /\ Len(log) \in Nat
  OBVIOUS
<1>2. \A i \in 1 .. Len(log) :
         [log[i] EXCEPT !.cmd = IF @ \in Reserved THEN Garbled ELSE @] \in Entry
  <2> TAKE i \in 1 .. Len(log)
  <2>1. log[i] \in Entry
    BY <1>1
  <2> QED
    BY <2>1, CommandAssumption DEF Entry
<1> QED
  BY <1>1, <1>2 DEF Wire

\* apply() changes nothing but kv and applied.
LEMMA ApplyType ==
    ASSUME NEW s \in NodeState
    PROVE  /\ Apply(s) \in NodeState
           /\ Apply(s).term = s.term /\ Apply(s).voted_for = s.voted_for
           /\ Apply(s).role = s.role /\ Apply(s).log = s.log
<1> DEFINE new        == s.applied + 1 .. Min({s.commit_index, Len(s.log)})
           touches(k) == {i \in new : s.log[i].cmd.op # "noop" /\ s.log[i].cmd.key = k}
           effect(c)  == IF c.op = "set" THEN c.val ELSE Nil
           kv == [k \in Key |-> IF touches(k) = {} THEN s.kv[k]
                                ELSE effect(s.log[Max(touches(k))].cmd)]
           done == Max({s.applied, s.commit_index})
<1>1. /\ s.applied \in Nat /\ s.commit_index \in Nat /\ s.log \in Seq(Entry)
      /\ s.kv \in [Key -> Val \cup {Nil}]
  BY DEF NodeState
<1>2. new \subseteq 1 .. Len(s.log) /\ new \subseteq 0 .. Len(s.log)
  <2> DEFINE m == Min({s.commit_index, Len(s.log)})
  <2>1. m \in Nat /\ m <= Len(s.log) /\ Len(s.log) \in Nat
    BY <1>1, MinOfTwo
  <2> HIDE DEF m
  <2>2. /\ s.applied + 1 .. m \subseteq 1 .. Len(s.log)
        /\ s.applied + 1 .. m \subseteq 0 .. Len(s.log)
    BY <1>1, <2>1
  <2> QED
    BY <2>2 DEF m
<1>3. kv \in [Key -> Val \cup {Nil}]
  <2> SUFFICES ASSUME NEW k \in Key, touches(k) # {}
               PROVE  effect(s.log[Max(touches(k))].cmd) \in Val \cup {Nil}
    BY <1>1
  <2>1. Len(s.log) \in Nat
    BY <1>1
  <2>2. touches(k) \in SUBSET (0 .. Len(s.log))
    <3>1. touches(k) \subseteq new
      OBVIOUS
    <3> HIDE DEF touches, new
    <3> QED
      BY <1>2, <3>1
  <2>3. Max(touches(k)) \in touches(k)
    <3> HIDE DEF touches
    <3> QED
      BY <2>1, <2>2, MaxOfBounded
  <2>4. Max(touches(k)) \in 1 .. Len(s.log)
    BY <1>2, <2>3
  <2>5. s.log[Max(touches(k))] \in Entry
    <3> HIDE DEF touches
    <3> QED
      BY <1>1, <2>4
  <2> QED
    BY <2>5 DEF Entry, Command
<1>4. done \in Nat
  BY <1>1, MaxOfTwo
<1>5. Apply(s) = [s EXCEPT !.kv = kv, !.applied = done]
  BY DEF Apply, NodeState
<1> HIDE DEF kv, done
<1>6. /\ Apply(s).term = s.term /\ Apply(s).voted_for = s.voted_for
      /\ Apply(s).role = s.role /\ Apply(s).log = s.log
  BY <1>5 DEF NodeState
<1>7. Apply(s) \in NodeState
  BY <1>3, <1>4, <1>5 DEF NodeState
<1> QED
  BY <1>6, <1>7

LEMMA StepDownType ==
    ASSUME NEW s \in NodeState, NEW t \in Nat, t > s.term
    PROVE  StepDown(s, t) \in NodeState /\ StepDown(s, t).term = t /\ Keeps(s, StepDown(s, t))
<1>1. s.term \in Nat
  BY DEF NodeState
<1>2. StepDown(s, t) \in NodeState /\ StepDown(s, t).term = t
  BY DEF NodeState, StepDown
<1> QED
  BY <1>1, <1>2 DEF Keeps

\* A vote request never takes back a vote; a vote is granted to the caller, in
\* the term of the request, and only if no other node has it.
LEMMA RequestVoteType ==
    ASSUME NEW s \in NodeState, NEW m \in VoteRequest
    PROVE  /\ OnRequestVote(s, m) \in NodeState /\ Keeps(s, OnRequestVote(s, m))
           /\ Granted(s, m) =>
                /\ OnRequestVote(s, m).term = m.term
                /\ OnRequestVote(s, m).voted_for = m.from
                /\ s.term < m.term \/ (s.term = m.term /\ s.voted_for \in {None, m.from})
<1> DEFINE a == IF m.term > s.term THEN StepDown(s, m.term) ELSE s
           b == [a EXCEPT !.voted_for = m.from]
<1>1. m.term \in Nat /\ m.from \in Server
  BY DEF VoteRequest
<1>2. s.term \in Nat
  BY DEF NodeState
<1>3. /\ a \in NodeState /\ Keeps(s, a)
      /\ m.term > s.term => a.term = m.term
      /\ ~(m.term > s.term) => a = s
  BY <1>1, <1>2, StepDownType DEF Keeps
<1>4. OnRequestVote(s, m) = IF MayGrant(a, m) THEN b ELSE a
  BY DEF OnRequestVote
<1>5. Granted(s, m) <=> MayGrant(a, m)
  BY DEF Granted
<1> HIDE DEF a
<1>6. CASE ~ MayGrant(a, m)
  BY <1>3, <1>4, <1>5, <1>6
<1>7. CASE MayGrant(a, m)
  <2>1. a.term = m.term /\ a.voted_for \in {None, m.from}
    BY <1>7 DEF MayGrant
  <2>2. b \in NodeState /\ b.term = a.term /\ b.voted_for = m.from
    BY <1>1, <1>3 DEF NodeState
  <2> HIDE DEF b
  <2>3. Keeps(a, b)
    BY <1>2, <1>3, <2>1, <2>2 DEF Keeps, NodeState
  <2>4. Keeps(s, b)
    BY <1>2, <1>3, <2>2, <2>3, KeepsTransitive
  <2>5. s.term < m.term \/ (s.term = m.term /\ s.voted_for \in {None, m.from})
    BY <1>1, <1>2, <1>3, <2>1
  <2> QED
    BY <1>4, <1>7, <2>1, <2>2, <2>4, <2>5
<1> QED
  BY <1>6, <1>7

\* An append of an older term changes nothing; another one makes the node a
\* follower of that term.
LEMMA AppendType ==
    ASSUME NEW s \in NodeState, NEW m \in AppendRequest
    PROVE  OnAppend(s, m) \in NodeState /\ Keeps(s, OnAppend(s, m))
<1>1. /\ m.term \in Nat /\ m.commit \in Nat /\ m.entries \in Seq(Entry)
      /\ s.term \in Nat /\ s.commit_index \in Nat
      /\ s.voted_for \in Server \cup {None}
  BY DEF AppendRequest, NodeState
<1>2. CASE m.term < s.term
  BY <1>1, <1>2 DEF OnAppend, Keeps
<1>3. CASE ~(m.term < s.term)
  <2> DEFINE log   == Wire(m.entries)
             voted == IF m.term > s.term THEN None ELSE s.voted_for
             ci    == Max({s.commit_index, Min({m.commit, Len(log)})})
             a     == [s EXCEPT !.voted_for = voted, !.term = m.term,
                                !.role = "Follower", !.log = log, !.commit_index = ci]
  <2>1. OnAppend(s, m) = Apply(a)
    BY <1>3 DEF OnAppend, NodeState
  <2>2. log \in Seq(Entry) /\ Len(log) \in Nat
    BY <1>1, WireType
  <2>3. ci \in Nat
    BY <1>1, <2>2, MinOfTwo, MaxOfTwo
  <2>4. voted \in Server \cup {None}
    BY <1>1
  <2> HIDE DEF log, ci, voted
  <2>5. a \in NodeState /\ a.term = m.term /\ a.voted_for = voted
    BY <1>1, <2>2, <2>3, <2>4 DEF NodeState
  <2> HIDE DEF a
  <2>6. /\ OnAppend(s, m) \in NodeState
        /\ OnAppend(s, m).term = m.term /\ OnAppend(s, m).voted_for = voted
    BY <2>1, <2>5, ApplyType
  <2> QED
    BY <1>1, <1>3, <2>6 DEF Keeps, voted
<1> QED
  BY <1>2, <1>3

LEMMA HandleType ==
    ASSUME NEW s \in NodeState, NEW m \in VoteRequest \cup AppendRequest
    PROVE  Handle(s, m) \in NodeState /\ Keeps(s, Handle(s, m))
<1>1. CASE m \in VoteRequest
  BY <1>1, RequestVoteType DEF Handle, VoteRequest
<1>2. CASE m \in AppendRequest
  BY <1>2, AppendType DEF Handle, AppendRequest
<1> QED
  BY <1>1, <1>2

\* What a leader commits is an index into its log.
LEMMA AdvanceType ==
    ASSUME NEW s \in NodeState, NEW r \in Round
    PROVE  /\ Advance(s, r) \in NodeState
           /\ Advance(s, r).term = s.term /\ Advance(s, r).voted_for = s.voted_for
<1> DEFINE new == {a \in s.commit_index + 1 .. Len(s.log) :
                      Agreed(r.lens, a) /\ s.log[a].term = r.term}
<1>1. s.commit_index \in Nat /\ Len(s.log) \in Nat
  BY DEF NodeState
<1>2. CASE new = {}
  BY <1>2 DEF Advance
<1>3. CASE new # {}
  <2>1. new \in SUBSET (0 .. Len(s.log)) /\ new \subseteq Nat
    BY <1>1
  <2>2. Advance(s, r) = [s EXCEPT !.commit_index = Max(new)]
    BY <1>3 DEF Advance
  <2> HIDE DEF new
  <2>3. Max(new) \in new
    BY <1>1, <1>3, <2>1, MaxOfBounded
  <2>4. Max(new) \in Nat
    BY <2>1, <2>3
  <2> QED
    BY <2>2, <2>4 DEF NodeState
<1> QED
  BY <1>2, <1>3

LEMMA PersistType ==
    ASSUME NEW s \in NodeState
    PROVE  Persist(s) \in Durable
  BY DEF Persist, NodeState, Durable

\* A restarted node has the term and the vote of its state file.
LEMMA RecoverType ==
    ASSUME NEW d \in Durable
    PROVE  /\ Recover(d) \in NodeState
           /\ Recover(d).term = d.term /\ Recover(d).voted_for = d.voted_for
<1> DEFINE a == [term |-> d.term, role |-> "Follower", voted_for |-> d.voted_for,
                 log |-> Wire(d.log), commit_index |-> d.commit_index,
                 applied |-> 0, kv |-> [k \in Key |-> Nil]]
<1>1. Wire(d.log) \in Seq(Entry)
  BY WireType DEF Durable
<1>2. a \in NodeState /\ a.term = d.term /\ a.voted_for = d.voted_for
  BY <1>1 DEF NodeState, Durable
<1>3. Recover(d) = Apply(a)
  BY DEF Recover
<1> HIDE DEF a
<1> QED
  BY <1>2, <1>3, ApplyType
(***************************** type correctness ****************************)

\* The term and the vote a node acts on are in its state file.
Persisted ==
    \A n \in Server : /\ disk[n].term = state[n].term
                      /\ disk[n].voted_for = state[n].voted_for

KeepsAll == \A n \in Server : Keeps(state[n], state'[n])

\* What a critical section that ends in persist() preserves.
LEMMA CommitStep ==
    ASSUME TypeOK, Persisted, NEW n \in Server, NEW s \in NodeState,
           Keeps(state[n], s), Commit(n, s)
    PROVE  /\ state' \in [Server -> NodeState] /\ disk' \in [Server -> Durable]
           /\ Persisted' /\ KeepsAll
<1>1. state' \in [Server -> NodeState] /\ disk' \in [Server -> Durable]
  BY PersistType DEF Commit, TypeOK
<1>2. \A p \in Server \ {n} : state'[p] = state[p] /\ disk'[p] = disk[p]
  BY DEF Commit, TypeOK
<1>3. state'[n] = s /\ disk'[n] = Persist(s)
  BY DEF Commit, TypeOK
<1>4. Persisted'
  BY <1>2, <1>3 DEF Persisted, Persist
<1>5. KeepsAll
  <2> SUFFICES ASSUME NEW p \in Server PROVE Keeps(state[p], state'[p])
    BY DEF KeepsAll
  <2>1. CASE p = n
    BY <1>3, <2>1
  <2>2. CASE p # n
    <3>1. state[p].term \in Nat
      BY DEF TypeOK, NodeState
    <3> QED
      BY <1>2, <2>2, <3>1 DEF Keeps
  <2> QED
    BY <2>1, <2>2
<1> QED
  BY <1>1, <1>4, <1>5

\* A step that leaves the mutex's state alone.
LEMMA QuietStep ==
    ASSUME TypeOK, Persisted, UNCHANGED <<state, disk>>
    PROVE  /\ state' \in [Server -> NodeState] /\ disk' \in [Server -> Durable]
           /\ Persisted' /\ KeepsAll
  BY DEF TypeOK, Persisted, KeepsAll, Keeps, NodeState

LEMMA CandidateType ==
    ASSUME NEW s \in NodeState, NEW n \in Server
    PROVE  LET c == [s EXCEPT !.term = @ + 1, !.role = "Candidate", !.voted_for = n]
           IN  c \in NodeState /\ c.term = s.term + 1 /\ c.voted_for = n /\ Keeps(s, c)
<1> DEFINE t == s.term + 1
           c == [s EXCEPT !.term = t, !.role = "Candidate", !.voted_for = n]
<1>1. s.term \in Nat /\ t \in Nat /\ s.term < t
  BY DEF NodeState
<1> HIDE DEF t
<1>2. c \in NodeState /\ c.term = t /\ c.voted_for = n
  BY <1>1 DEF NodeState
<1> HIDE DEF c
<1>3. Keeps(s, c)
  BY <1>1, <1>2 DEF Keeps
<1> QED
  BY <1>2, <1>3 DEF c, t

\* What the reply to an append, or to a vote request, does to the caller's locals.
LEMMA AckType ==
    ASSUME NEW r \in Round, NEW p \in Server, NEW t \in Nat, NEW l \in Nat
    PROVE  [r EXCEPT !.todo = r.todo \ {p}, !.seen = Max({r.seen, t}), !.lens[p] = l]
              \in Round
<1>1. Max({r.seen, t}) \in Nat
  BY MaxOfTwo DEF Round
<1>2. [r.lens EXCEPT ![p] = l] \in [Server -> Nat]
  BY DEF Round
<1> QED
  BY <1>1, <1>2 DEF Round

LEMMA VoteType ==
    ASSUME NEW r \in Round, NEW p \in Server, NEW t \in Nat, NEW votes \in SUBSET Server
    PROVE  [r EXCEPT !.todo = r.todo \ {p}, !.seen = Max({r.seen, t}), !.votes = votes]
              \in Round
<1>1. Max({r.seen, t}) \in Nat
  BY MaxOfTwo DEF Round
<1> QED
  BY <1>1 DEF Round

LEMMA TodoType ==
    ASSUME NEW r \in Round, NEW p
    PROVE  [r EXCEPT !.todo = @ \ {p}] \in Round
  BY DEF Round

LEMMA IdleType == Idle \in Round
  BY DEF Idle, Round

LEMMA EndRoundType ==
    ASSUME TypeOK, NEW n \in Server, EndRound(n)
    PROVE  /\ pc' \in [Server -> {"sleep", "snapshot", "append", "vote"}]
           /\ rnd' \in [Server -> Round]
  BY IdleType DEF EndRound, TypeOK

LEMMA LastTermType ==
    ASSUME NEW log \in Seq(Entry)
    PROVE  LastTerm(log) \in Nat
<1>1. CASE log = <<>>
  BY <1>1 DEF LastTerm
<1>2. CASE log # <<>>
  <2>1. Len(log) \in 1 .. Len(log)
    BY <1>2
  <2>2. log[Len(log)] \in Entry
    BY <2>1
  <2> QED
    BY <1>2, <2>2 DEF LastTerm, Last, Entry
<1> QED
  BY <1>1, <1>2

LEMMA RequestType ==
    ASSUME TypeOK, NEW n \in Server
    PROVE  /\ pc[n] = "vote" => Request(n) \in VoteRequest
           /\ pc[n] = "append" => Request(n) \in AppendRequest
           /\ Request(n).term = rnd[n].term
           /\ pc[n] = "vote" => Request(n).from = n
<1>1. /\ rnd[n].term \in Nat /\ rnd[n].log \in Seq(Entry) /\ rnd[n].commit \in Nat
      /\ Len(rnd[n].log) \in Nat
  BY DEF TypeOK, Round
<1>2. LastTerm(rnd[n].log) \in Nat
  BY <1>1, LastTermType
<1> QED
  BY <1>1, <1>2 DEF Request, VoteRequest, AppendRequest

TypeInv == TypeOK /\ Persisted

LEMMA InitType == Init => TypeInv
<1> SUFFICES ASSUME Init PROVE TypeInv
  OBVIOUS
<1>1. NoFile \in Durable
  BY DEF NoFile, Durable
<1>2. Recover(NoFile) \in NodeState
  BY <1>1, RecoverType
<1>3. TypeOK
  BY <1>1, <1>2, IdleType DEF Init, TypeOK
<1>4. Persisted
  BY <1>1, RecoverType DEF Init, Persisted
<1> QED
  BY <1>3, <1>4 DEF TypeInv
\* Every step preserves the types, what is persisted, and every vote.
LEMMA NextType ==
    ASSUME TypeInv, [Next]_vars
    PROVE  TypeInv' /\ KeepsAll
<1> USE DEF TypeInv
<1>1. ASSUME NEW n \in Server, LeaderWake(n)
      PROVE  TypeInv' /\ KeepsAll
  <2> DEFINE r == [rnd[n] EXCEPT !.term = state[n].term]
  <2>1. rnd[n] \in Round /\ state[n].term \in Nat
    BY DEF TypeOK, NodeState
  <2>2. r \in Round
    BY <2>1 DEF Round
  <2>3. rnd' = [rnd EXCEPT ![n] = r]
    BY <1>1 DEF LeaderWake, TypeOK
  <2> HIDE DEF r
  <2>4. rnd' \in [Server -> Round]
    BY <2>2, <2>3 DEF TypeOK
  <2> QED
    BY <1>1, <2>4, QuietStep DEF LeaderWake, TypeOK
<1>2. ASSUME NEW n \in Server, LeaderSnapshot(n)
      PROVE  TypeInv' /\ KeepsAll
  <2>1. [Idle.lens EXCEPT ![n] = Len(state[n].log)] \in [Server -> Nat]
    BY DEF Idle, TypeOK, NodeState
  <2>2. /\ state[n].log \in Seq(Entry) /\ state[n].commit_index \in Nat
        /\ rnd[n] \in Round /\ rnd[n].term \in Nat
    BY DEF TypeOK, NodeState, Round
  <2> DEFINE r == [rnd[n] EXCEPT
                    !.log = state[n].log, !.commit = state[n].commit_index,
                    !.todo = Server \ {n}, !.seen = rnd[n].term,
                    !.lens = [Idle.lens EXCEPT ![n] = Len(state[n].log)]]
  <2>3. r \in Round
    BY <2>1, <2>2 DEF Round
  <2>4. rnd' = [rnd EXCEPT ![n] = r]
    BY <1>2 DEF LeaderSnapshot
  <2> HIDE DEF r
  <2>5. rnd' \in [Server -> Round]
    BY <2>3, <2>4 DEF TypeOK
  <2> QED
    BY <1>2, <2>5, QuietStep DEF LeaderSnapshot, TypeOK
<1>3. ASSUME NEW n \in Server, ElectionTimeout(n)
      PROVE  TypeInv' /\ KeepsAll
  <2> DEFINE s == [state[n] EXCEPT !.term = @ + 1, !.role = "Candidate", !.voted_for = n]
  <2>1. state[n] \in NodeState
    BY DEF TypeOK
  <2>2. s \in NodeState /\ Keeps(state[n], s)
    BY <2>1, CandidateType
  <2>3. s.term \in Nat /\ s.log \in Seq(Entry)
    BY <2>2 DEF NodeState
  <2>4. Commit(n, s)
    BY <1>3 DEF ElectionTimeout
  <2> HIDE DEF s
  <2>5. [Idle EXCEPT !.term = s.term, !.log = s.log, !.seen = s.term,
                     !.todo = Server \ {n}, !.votes = {n}] \in Round
    BY <2>3, IdleType DEF Round
  <2>6. rnd' \in [Server -> Round]
    BY <1>3, <2>5 DEF ElectionTimeout, TypeOK, s
  <2> QED
    BY <1>3, <2>2, <2>4, <2>6, CommitStep DEF ElectionTimeout, TypeOK
<1>4. ASSUME NEW n \in Server, NEW p \in Server, AppendAnswered(n, p)
      PROVE  TypeInv' /\ KeepsAll
  <2> DEFINE s == OnAppend(state[p], Request(n))
  <2>1. s \in NodeState /\ Keeps(state[p], s)
    BY <1>4, RequestType, AppendType DEF AppendAnswered, TypeOK
  <2>2. s.term \in Nat /\ Len(s.log) \in Nat
    BY <2>1 DEF NodeState
  <2>3. Commit(p, s)
    BY <1>4 DEF AppendAnswered
  <2> DEFINE l == IF s.term = rnd[n].term THEN Len(s.log) ELSE 0
             r == [rnd[n] EXCEPT !.todo = rnd[n].todo \ {p},
                                 !.seen = Max({rnd[n].seen, s.term}), !.lens[p] = l]
  <2>4. rnd[n] \in Round /\ l \in Nat
    BY <2>2 DEF TypeOK
  <2>5. rnd' = [rnd EXCEPT ![n] = r]
    BY <1>4 DEF AppendAnswered
  <2> HIDE DEF s, l
  <2>6. r \in Round
    BY <2>2, <2>4, AckType
  <2> HIDE DEF r
  <2>7. rnd' \in [Server -> Round]
    BY <2>5, <2>6 DEF TypeOK
  <2> QED
    BY <1>4, <2>1, <2>3, <2>7, CommitStep DEF AppendAnswered, TypeOK
<1>5. ASSUME NEW n \in Server, NEW p \in Server, VoteAnswered(n, p)
      PROVE  TypeInv' /\ KeepsAll
  <2> DEFINE s == OnRequestVote(state[p], Request(n))
  <2>1. s \in NodeState /\ Keeps(state[p], s)
    BY <1>5, RequestType, RequestVoteType DEF VoteAnswered, TypeOK
  <2>2. s.term \in Nat
    BY <2>1 DEF NodeState
  <2>3. Commit(p, s)
    BY <1>5 DEF VoteAnswered
  <2> DEFINE yes   == Granted(state[p], Request(n)) /\ s.term = rnd[n].term
             votes == IF yes THEN rnd[n].votes \cup {p} ELSE rnd[n].votes
             r == [rnd[n] EXCEPT !.todo = rnd[n].todo \ {p},
                                 !.seen = Max({rnd[n].seen, s.term}), !.votes = votes]
  <2>4. rnd[n] \in Round /\ votes \in SUBSET Server
    BY DEF TypeOK, Round
  <2>5. rnd' = [rnd EXCEPT ![n] = r]
    BY <1>5 DEF VoteAnswered
  <2> HIDE DEF s, votes
  <2>6. r \in Round
    BY <2>2, <2>4, VoteType
  <2> HIDE DEF r
  <2>7. rnd' \in [Server -> Round]
    BY <2>5, <2>6 DEF TypeOK
  <2> QED
    BY <1>5, <2>1, <2>3, <2>7, CommitStep DEF VoteAnswered, TypeOK
<1>6. ASSUME NEW n \in Server, NEW p \in Server, CallRefused(n, p)
      PROVE  TypeInv' /\ KeepsAll
  <2>1. rnd' \in [Server -> Round]
    BY <1>6, TodoType DEF CallRefused, TypeOK
  <2> QED
    BY <1>6, <2>1, QuietStep DEF CallRefused, TypeOK
<1>7. ASSUME NEW n \in Server, NEW p \in Server, CallAbandoned(n, p)
      PROVE  TypeInv' /\ KeepsAll
  <2>1. rnd' \in [Server -> Round]
    BY <1>7, TodoType DEF CallAbandoned, TypeOK
  <2>2. Request(n) \in VoteRequest \cup AppendRequest
    BY <1>7, RequestType DEF CallAbandoned
  <2>3. inbox' = [inbox EXCEPT ![p] = Append(@, Request(n))]
    BY <1>7 DEF CallAbandoned
  <2>4. inbox' \in [Server -> Seq(VoteRequest \cup AppendRequest)]
    BY <2>2, <2>3 DEF TypeOK
  <2> QED
    BY <1>7, <2>1, <2>4, QuietStep DEF CallAbandoned, Fault, TypeOK
<1>8. ASSUME NEW n \in Server, RoundDeposed(n)
      PROVE  TypeInv' /\ KeepsAll
  <2>1. state[n] \in NodeState /\ rnd[n].seen \in Nat
    BY DEF TypeOK, Round
  <2>2. /\ StepDown(state[n], rnd[n].seen) \in NodeState
        /\ Keeps(state[n], StepDown(state[n], rnd[n].seen))
    BY <1>8, <2>1, StepDownType DEF RoundDeposed
  <2> QED
    BY <1>8, <2>2, CommitStep, EndRoundType DEF RoundDeposed, TypeOK
<1>9. ASSUME NEW n \in Server, RoundCommit(n)
      PROVE  TypeInv' /\ KeepsAll
  <2> DEFINE s == Apply(Advance(state[n], rnd[n]))
  <2>1. state[n] \in NodeState /\ rnd[n] \in Round /\ state[n].term \in Nat
    BY DEF TypeOK, NodeState
  <2>2. s \in NodeState /\ s.term = state[n].term /\ s.voted_for = state[n].voted_for
    BY <2>1, AdvanceType, ApplyType
  <2>3. Commit(n, s)
    BY <1>9 DEF RoundCommit
  <2> HIDE DEF s
  <2>4. Keeps(state[n], s)
    BY <2>1, <2>2 DEF Keeps
  <2> QED
    BY <1>9, <2>2, <2>3, <2>4, CommitStep, EndRoundType DEF RoundCommit, TypeOK
<1>10. ASSUME NEW n \in Server, RoundStale(n)
       PROVE  TypeInv' /\ KeepsAll
  BY <1>10, QuietStep, EndRoundType DEF RoundStale, TypeOK
<1>11. ASSUME NEW n \in Server, ElectionWon(n)
       PROVE  TypeInv' /\ KeepsAll
  <2> DEFINE s == [state[n] EXCEPT !.role = "Leader"]
  <2>5. s \in NodeState
    BY DEF TypeOK, NodeState
  <2>6. state' = [state EXCEPT ![n] = s]
    BY <1>11 DEF ElectionWon
  <2> HIDE DEF s
  <2>1. state' \in [Server -> NodeState]
    BY <2>5, <2>6 DEF TypeOK
  <2>2. \A p \in Server : /\ state'[p].term = state[p].term /\ state[p].term \in Nat
                          /\ state'[p].voted_for = state[p].voted_for
    BY <1>11 DEF ElectionWon, TypeOK, NodeState
  <2>3. Persisted' /\ KeepsAll
    BY <1>11, <2>2 DEF ElectionWon, Persisted, KeepsAll, Keeps
  <2>4. elected' \subseteq Nat \X Server
    BY <1>11, <2>2 DEF ElectionWon, TypeOK
  <2> QED
    BY <1>11, <2>1, <2>3, <2>4, EndRoundType DEF ElectionWon, TypeOK
<1>12. ASSUME NEW n \in Server, ElectionLost(n)
       PROVE  TypeInv' /\ KeepsAll
  BY <1>12, QuietStep, EndRoundType DEF ElectionLost, TypeOK
<1>13. ASSUME NEW n \in Server, HandleLate(n)
       PROVE  TypeInv' /\ KeepsAll
  <2> DEFINE s == Handle(state[n], Head(inbox[n]))
  <2>1. /\ Head(inbox[n]) \in VoteRequest \cup AppendRequest
        /\ Tail(inbox[n]) \in Seq(VoteRequest \cup AppendRequest)
    BY <1>13 DEF HandleLate, TypeOK
  <2>2. s \in NodeState /\ Keeps(state[n], s)
    BY <2>1, HandleType DEF TypeOK
  <2>3. Commit(n, s)
    BY <1>13 DEF HandleLate
  <2> HIDE DEF s
  <2>4. inbox' \in [Server -> Seq(VoteRequest \cup AppendRequest)]
    BY <1>13, <2>1 DEF HandleLate, TypeOK
  <2> QED
    BY <1>13, <2>2, <2>3, <2>4, CommitStep DEF HandleLate, TypeOK
<1>14. ASSUME NEW n \in Server, NEW c \in Cmd, ClientCommand(n, c)
       PROVE  TypeInv' /\ KeepsAll
  <2> DEFINE e == [term |-> state[n].term, cmd |-> c]
             l == Append(state[n].log, e)
             s == [state[n] EXCEPT !.log = l]
  <2>1. state[n] \in NodeState /\ state[n].term \in Nat /\ state[n].log \in Seq(Entry)
    BY DEF TypeOK, NodeState
  <2>2. e \in Entry
    BY <2>1, CommandAssumption DEF Entry
  <2>3. Commit(n, s)
    BY <1>14 DEF ClientCommand
  <2>6. l \in Seq(Entry)
    BY <2>1, <2>2
  <2> HIDE DEF e, l
  <2>4. s \in NodeState /\ s.term = state[n].term /\ s.voted_for = state[n].voted_for
    BY <2>1, <2>6 DEF NodeState
  <2> HIDE DEF s
  <2>5. Keeps(state[n], s)
    BY <2>1, <2>4 DEF Keeps
  <2> QED
    BY <1>14, <2>3, <2>4, <2>5, CommitStep DEF ClientCommand, TypeOK
<1>15. ASSUME NEW n \in Server, ClientGet(n)
       PROVE  TypeInv' /\ KeepsAll
  <2> DEFINE s == IF state[n].role = "Leader" THEN Apply(state[n]) ELSE state[n]
  <2>1. state[n] \in NodeState
    BY DEF TypeOK
  <2>2. s \in NodeState /\ s.term = state[n].term /\ s.voted_for = state[n].voted_for
    BY <2>1, ApplyType
  <2>3. state' = [state EXCEPT ![n] = s] /\ disk' = disk
    BY <1>15 DEF ClientGet
  <2> HIDE DEF s
  <2>4. state' \in [Server -> NodeState]
    BY <2>2, <2>3 DEF TypeOK
  <2>5. \A p \in Server : /\ state'[p].term = state[p].term /\ state[p].term \in Nat
                          /\ state'[p].voted_for = state[p].voted_for
    BY <2>2, <2>3 DEF TypeOK, NodeState
  <2>6. Persisted' /\ KeepsAll
    BY <2>3, <2>5 DEF Persisted, KeepsAll, Keeps
  <2> QED
    BY <1>15, <2>4, <2>6 DEF ClientGet, TypeOK
<1>16. ASSUME NEW n \in Server, Restart(n)
       PROVE  TypeInv' /\ KeepsAll
  <2> DEFINE s == Recover(disk[n])
  <2>1. disk[n] \in Durable
    BY DEF TypeOK
  <2>2. s \in NodeState /\ s.term = state[n].term /\ s.voted_for = state[n].voted_for
    BY <2>1, RecoverType DEF Persisted
  <2>3. state' = [state EXCEPT ![n] = s] /\ disk' = disk
    BY <1>16 DEF Restart
  <2> HIDE DEF s
  <2>4. state' \in [Server -> NodeState]
    BY <2>2, <2>3 DEF TypeOK
  <2>5. \A p \in Server : /\ state'[p].term = state[p].term /\ state[p].term \in Nat
                          /\ state'[p].voted_for = state[p].voted_for
    BY <2>2, <2>3 DEF TypeOK, NodeState
  <2>6. Persisted' /\ KeepsAll
    BY <2>3, <2>5 DEF Persisted, KeepsAll, Keeps
  <2>7. inbox' \in [Server -> Seq(VoteRequest \cup AppendRequest)]
    BY <1>16 DEF Restart, TypeOK
  <2> QED
    BY <1>16, <2>4, <2>6, <2>7, EndRoundType DEF Restart, Fault, TypeOK
<1>17. CASE UNCHANGED vars
  BY <1>17, QuietStep DEF vars, TypeOK
<1> QED
  BY <1>1, <1>2, <1>3, <1>4, <1>5, <1>6, <1>7, <1>8, <1>9, <1>10, <1>11, <1>12, <1>13,
     <1>14, <1>15, <1>16, <1>17 DEF Next

\* Every variable keeps its type, for any servers, commands and bounds.
THEOREM TypeCorrect == Spec => []TypeOK
<1>1. TypeInv /\ [Next]_vars => TypeInv'
  BY NextType
<1>2. TypeInv => TypeOK
  BY DEF TypeInv
<1> QED
  BY InitType, <1>1, <1>2, PTL DEF Spec

\* The protocol never moves a vote or turns a term back, whatever crashes.
THEOREM VotesKept == Spec => VoteIsKept
<1>1. TypeInv /\ [Next]_vars => TypeInv'
  BY NextType
<1>2. TypeInv /\ [Next]_vars =>
        [\A n \in Server :
           /\ state[n].term <= state'[n].term
           /\ state[n].term = state'[n].term /\ state[n].voted_for # None
                 => state'[n].voted_for = state[n].voted_for]_vars
  BY NextType DEF KeepsAll, Keeps
<1> QED
  BY InitType, <1>1, <1>2, PTL DEF Spec, VoteIsKept
(***************************** election safety *****************************)

\* A node in state s that voted for c in term t can vote for nobody else in it:
\* its vote is still there, or its term is past t.
Bound(s, t, c) == s.term > t \/ (s.term = t /\ s.voted_for = c)

\* The votes a candidate has counted are bound to it, and two candidates of a
\* term have counted votes of different nodes.
Ballots ==
    /\ \A n \in Server : pc[n] = "vote" =>
          \A v \in rnd[n].votes : Bound(state[v], rnd[n].term, n)
    /\ \A n, m \in Server :
          (pc[n] = "vote" /\ pc[m] = "vote" /\ n # m /\ rnd[n].term = rnd[m].term)
             => rnd[n].votes \cap rnd[m].votes = {}

\* f gives each election won the majority that decided it.
Electorate(f) ==
    /\ f \in [elected -> SUBSET Server]
    /\ \A e \in elected : /\ Cardinality(f[e]) >= Majority
                          /\ \A v \in f[e] : Bound(state[v], e[1], e[2])
    /\ \A e \in elected, n \in Server :
          (pc[n] = "vote" /\ rnd[n].term = e[1] /\ n # e[2])
             => f[e] \cap rnd[n].votes = {}
    /\ \A e, g \in elected : e[1] = g[1] /\ e[2] # g[2] => f[e] \cap f[g] = {}

ElectionInv == TypeInv /\ Ballots /\ \E f : Electorate(f)

\* Two majorities share a server.
LEMMA MajoritiesMeet ==
    ASSUME NEW Q \in SUBSET Server, NEW R \in SUBSET Server,
           Cardinality(Q) >= Majority, Cardinality(R) >= Majority
    PROVE  Q \cap R # {}
<1>1. /\ Cardinality(Server) \in Nat
      /\ Cardinality(Q) \in Nat /\ Cardinality(R) \in Nat
  BY ServerAssumption, FS_CardinalityType, FS_Subset
<1>2. Majority \in Nat /\ Majority + Majority > Cardinality(Server)
  BY <1>1 DEF Majority
<1>3. Cardinality(Q) + Cardinality(R) > Cardinality(Server)
  BY <1>1, <1>2
<1> QED
  BY <1>3, ServerAssumption, FS_MajoritiesIntersect

LEMMA ElectionInvImplies == ElectionInv => ElectionSafety
<1> SUFFICES ASSUME ElectionInv, NEW e \in elected, NEW g \in elected,
                    e[1] = g[1], e[2] # g[2]
             PROVE  FALSE
  BY DEF ElectionSafety
<1>1. PICK f : Electorate(f)
  BY DEF ElectionInv
<1>2. f[e] \cap f[g] = {}
  BY <1>1 DEF Electorate
<1>3. f[e] \cap f[g] # {}
  BY <1>1, MajoritiesMeet DEF Electorate
<1> QED
  BY <1>2, <1>3

LEMMA ElectionInit == Init => ElectionInv
<1> SUFFICES ASSUME Init PROVE ElectionInv
  OBVIOUS
<1>1. Ballots
  BY DEF Init, Ballots
<1>2. Electorate([e \in {} |-> {}])
  BY DEF Init, Electorate
<1> QED
  BY <1>1, <1>2, InitType DEF ElectionInv

\* A bound vote stays bound.
LEMMA BoundStays ==
    ASSUME TypeInv, [Next]_vars, NEW v \in Server, NEW t \in Nat, NEW c \in Server,
           Bound(state[v], t, c)
    PROVE  Bound(state'[v], t, c)
<1>1. Keeps(state[v], state'[v])
  BY NextType DEF KeepsAll
<1>2. state[v].term \in Nat /\ state'[v].term \in Nat
  BY NextType DEF TypeInv, TypeOK, NodeState
<1> QED
  BY <1>1, <1>2, ServerAssumption DEF Bound, Keeps
\* A step after which whoever is counting votes was counting the same votes.
LEMMA NoNewVotes ==
    ASSUME TypeInv, Ballots, NEW f, Electorate(f), [Next]_vars,
           elected' = elected,
           \A m \in Server : pc'[m] = "vote" =>
              /\ pc[m] = "vote" /\ rnd'[m].term = rnd[m].term
              /\ rnd'[m].votes = rnd[m].votes
    PROVE  Ballots' /\ Electorate(f)'
<1>1. \A m \in Server : rnd[m].term \in Nat /\ rnd[m].votes \subseteq Server
  BY DEF TypeInv, TypeOK, Round
<1>2. \A e \in elected : e[1] \in Nat /\ e[2] \in Server /\ f[e] \subseteq Server
  BY DEF TypeInv, TypeOK, Electorate
<1>3. Ballots'
  BY <1>1, BoundStays DEF Ballots
<1>4. \A e \in elected' : Cardinality(f[e]) >= Majority /\ \A v \in f[e] : Bound(state'[v], e[1], e[2])
  BY <1>2, BoundStays DEF Electorate
<1>5. Electorate(f)'
  BY <1>4 DEF Electorate
<1> QED
  BY <1>3, <1>5

\* A candidate for a new term has its own vote, which nobody else can have.
LEMMA TimeoutBallots ==
    ASSUME TypeInv, Ballots, NEW f, Electorate(f), [Next]_vars,
           NEW n \in Server, ElectionTimeout(n)
    PROVE  Ballots' /\ Electorate(f)'
<1> DEFINE t == state[n].term + 1
<1>a. \A m \in Server : rnd[m].term \in Nat /\ rnd[m].votes \subseteq Server
  BY DEF TypeInv, TypeOK, Round
<1>b. state[n].term \in Nat /\ t \in Nat
  BY DEF TypeInv, TypeOK, NodeState
<1>1. /\ \A m \in Server : rnd[m].term \in Nat /\ rnd[m].votes \subseteq Server
      /\ state[n].term \in Nat /\ t \in Nat
  BY <1>a, <1>b
<1>2. \A e \in elected : e[1] \in Nat /\ e[2] \in Server /\ f[e] \subseteq Server
  BY DEF TypeInv, TypeOK, Electorate
<1> DEFINE s == [state[n] EXCEPT !.term = @ + 1, !.role = "Candidate", !.voted_for = n]
<1>3. state[n] \in NodeState
  BY DEF TypeInv, TypeOK
<1>4. s.term = t /\ s.voted_for = n
  BY <1>3, CandidateType
<1>5. state'[n] = s
  BY DEF ElectionTimeout, Commit, TypeInv, TypeOK
<1>6. /\ rnd'[n].term = s.term /\ rnd'[n].votes = {n}
      /\ \A m \in Server \ {n} : rnd'[m] = rnd[m] /\ pc'[m] = pc[m]
      /\ elected' = elected
  <2>1. rnd' = [rnd EXCEPT ![n] = [Idle EXCEPT !.term = s.term, !.log = s.log, !.seen = s.term,
                                               !.todo = Server \ {n}, !.votes = {n}]]
    BY DEF ElectionTimeout
  <2> HIDE DEF s
  <2> QED
    BY <2>1 DEF ElectionTimeout, TypeInv, TypeOK, Idle
<1> HIDE DEF s
<1>7. Bound(state'[n], t, n)
  BY <1>1, <1>4, <1>5 DEF Bound
<1>8. \A c \in Server : ~ Bound(state[n], t, c)
  BY <1>1 DEF Bound
<1>9. \A m \in Server \ {n} : pc[m] = "vote" /\ rnd[m].term = t => n \notin rnd[m].votes
  BY <1>8 DEF Ballots
<1>10. \A e \in elected : e[1] = t => n \notin f[e]
  BY <1>2, <1>8 DEF Electorate
<1> HIDE DEF t
<1>11. \A m \in Server : pc'[m] = "vote" =>
          \A v \in rnd'[m].votes : Bound(state'[v], rnd'[m].term, m)
  BY <1>1, <1>4, <1>6, <1>7, BoundStays DEF Ballots
<1>12. \A l, m \in Server :
          (pc'[l] = "vote" /\ pc'[m] = "vote" /\ l # m /\ rnd'[l].term = rnd'[m].term)
             => rnd'[l].votes \cap rnd'[m].votes = {}
  <2> SUFFICES ASSUME NEW l \in Server, NEW m \in Server, pc'[l] = "vote", pc'[m] = "vote",
                      l # m, rnd'[l].term = rnd'[m].term
               PROVE  rnd'[l].votes \cap rnd'[m].votes = {}
    OBVIOUS
  <2>1. CASE l = n
    BY <1>4, <1>6, <1>9, <2>1
  <2>2. CASE m = n
    BY <1>4, <1>6, <1>9, <2>2
  <2>3. CASE l # n /\ m # n
    BY <1>6, <2>3 DEF Ballots
  <2> QED
    BY <2>1, <2>2, <2>3
<1>13. \A e \in elected' : Cardinality(f[e]) >= Majority /\ \A v \in f[e] : Bound(state'[v], e[1], e[2])
  BY <1>2, <1>6, BoundStays DEF Electorate
<1>14. \A e \in elected', m \in Server :
          (pc'[m] = "vote" /\ rnd'[m].term = e[1] /\ m # e[2]) => f[e] \cap rnd'[m].votes = {}
  <2> SUFFICES ASSUME NEW e \in elected, NEW m \in Server, pc'[m] = "vote",
                      rnd'[m].term = e[1], m # e[2]
               PROVE  f[e] \cap rnd'[m].votes = {}
    BY <1>6
  <2>1. CASE m = n
    BY <1>4, <1>6, <1>10, <2>1
  <2>2. CASE m # n
    BY <1>6, <2>2 DEF Electorate
  <2> QED
    BY <2>1, <2>2
<1>15. Ballots'
  BY <1>11, <1>12 DEF Ballots
<1>16. Electorate(f)'
  BY <1>6, <1>13, <1>14 DEF Electorate
<1> QED
  BY <1>15, <1>16

\* A vote that is granted was not bound to another candidate of the term.
LEMMA VoteBallots ==
    ASSUME TypeInv, Ballots, NEW f, Electorate(f), [Next]_vars,
           NEW n \in Server, NEW p \in Server, VoteAnswered(n, p)
    PROVE  Ballots' /\ Electorate(f)'
<1> DEFINE t   == rnd[n].term
           req == Request(n)
           s   == OnRequestVote(state[p], req)
           yes == Granted(state[p], req) /\ s.term = t
<1>1. /\ \A m \in Server : rnd[m].term \in Nat /\ rnd[m].votes \subseteq Server
      /\ state[p] \in NodeState /\ state[p].term \in Nat
  BY DEF TypeInv, TypeOK, Round, NodeState
<1>2. \A e \in elected : e[1] \in Nat /\ e[2] \in Server /\ f[e] \subseteq Server
  BY DEF TypeInv, TypeOK, Electorate
<1>3. pc[n] = "vote" /\ req \in VoteRequest /\ req.term = t /\ req.from = n
  BY RequestType DEF VoteAnswered, TypeInv
<1>4. state'[p] = s
  BY DEF VoteAnswered, Commit, TypeInv, TypeOK
<1>5. /\ \A m \in Server : rnd'[m].term = rnd[m].term
      /\ \A m \in Server \ {n} : rnd'[m].votes = rnd[m].votes
      /\ rnd'[n].votes = IF yes THEN rnd[n].votes \cup {p} ELSE rnd[n].votes
      /\ pc' = pc /\ elected' = elected
  <2> DEFINE votes == IF yes THEN rnd[n].votes \cup {p} ELSE rnd[n].votes
             r == [rnd[n] EXCEPT !.todo = rnd[n].todo \ {p},
                                 !.seen = Max({rnd[n].seen, s.term}), !.votes = votes]
  <2>1. rnd' = [rnd EXCEPT ![n] = r] /\ pc' = pc /\ elected' = elected
    BY DEF VoteAnswered
  <2> HIDE DEF votes, s
  <2>2. r.term = rnd[n].term /\ r.votes = votes
    BY DEF TypeInv, TypeOK, Round
  <2> HIDE DEF r
  <2> QED
    BY <2>1, <2>2 DEF votes, TypeInv, TypeOK
<1>6. yes => Bound(state'[p], t, n)
  BY <1>1, <1>3, <1>4, RequestVoteType DEF Bound
<1>7. \A c \in Server : yes /\ Bound(state[p], t, c) => c = n
  BY <1>1, <1>3, RequestVoteType, ServerAssumption DEF Bound
<1> HIDE DEF t, req, s, yes
<1>8. \A m \in Server : pc'[m] = "vote" =>
         \A v \in rnd'[m].votes : Bound(state'[v], rnd'[m].term, m)
  <2> SUFFICES ASSUME NEW m \in Server, pc'[m] = "vote", NEW v \in rnd'[m].votes
               PROVE  Bound(state'[v], rnd'[m].term, m)
    OBVIOUS
  <2>1. CASE v \in rnd[m].votes
    BY <1>1, <1>5, <2>1, BoundStays DEF Ballots
  <2>2. CASE v \notin rnd[m].votes
    BY <1>5, <1>6, <2>2 DEF t
  <2> QED
    BY <2>1, <2>2
<1>9. \A m \in Server \ {n} : yes /\ pc[m] = "vote" /\ rnd[m].term = t => p \notin rnd[m].votes
  BY <1>7 DEF Ballots
<1>10. \A e \in elected : yes /\ e[1] = t /\ e[2] # n => p \notin f[e]
  BY <1>2, <1>7 DEF Electorate
<1>11. \A l, m \in Server :
          (pc'[l] = "vote" /\ pc'[m] = "vote" /\ l # m /\ rnd'[l].term = rnd'[m].term)
             => rnd'[l].votes \cap rnd'[m].votes = {}
  <2> SUFFICES ASSUME NEW l \in Server, NEW m \in Server, pc[l] = "vote", pc[m] = "vote",
                      l # m, rnd[l].term = rnd[m].term
               PROVE  rnd'[l].votes \cap rnd'[m].votes = {}
    BY <1>5
  <2>1. rnd[l].votes \cap rnd[m].votes = {}
    BY DEF Ballots
  <2>2. CASE l = n
    BY <1>5, <1>9, <2>1, <2>2 DEF t
  <2>3. CASE m = n
    BY <1>5, <1>9, <2>1, <2>3 DEF t
  <2>4. CASE l # n /\ m # n
    BY <1>5, <2>1, <2>4
  <2> QED
    BY <2>2, <2>3, <2>4
<1>12. \A e \in elected' : Cardinality(f[e]) >= Majority /\ \A v \in f[e] : Bound(state'[v], e[1], e[2])
  BY <1>2, <1>5, BoundStays DEF Electorate
<1>13. \A e \in elected', m \in Server :
          (pc'[m] = "vote" /\ rnd'[m].term = e[1] /\ m # e[2]) => f[e] \cap rnd'[m].votes = {}
  <2> SUFFICES ASSUME NEW e \in elected, NEW m \in Server, pc[m] = "vote",
                      rnd[m].term = e[1], m # e[2]
               PROVE  f[e] \cap rnd'[m].votes = {}
    BY <1>5
  <2>1. f[e] \cap rnd[m].votes = {}
    BY DEF Electorate
  <2>2. CASE m = n
    BY <1>5, <1>10, <2>1, <2>2 DEF t
  <2>3. CASE m # n
    BY <1>5, <2>1, <2>3
  <2> QED
    BY <2>2, <2>3
<1>14. Ballots'
  BY <1>8, <1>11 DEF Ballots
<1>15. Electorate(f)'
  BY <1>5, <1>12, <1>13 DEF Electorate
<1> QED
  BY <1>14, <1>15

\* The winner's votes are a majority that decided no other election of the term.
LEMMA WonBallots ==
    ASSUME TypeInv, Ballots, NEW f, Electorate(f), [Next]_vars,
           NEW n \in Server, ElectionWon(n)
    PROVE  Ballots' /\ \E g : Electorate(g)'
<1> DEFINE t == state[n].term
           w == <<t, n>>
<1>0. PICK g : g = [e \in elected' |-> IF e \in elected THEN f[e] ELSE rnd[n].votes]
  OBVIOUS
<1>1. /\ \A m \in Server : rnd[m].term \in Nat /\ rnd[m].votes \subseteq Server
      /\ t \in Nat
  BY DEF TypeInv, TypeOK, Round, NodeState
<1>2. \A e \in elected : e[1] \in Nat /\ e[2] \in Server /\ f[e] \subseteq Server
  BY DEF TypeInv, TypeOK, Electorate
<1>3. /\ pc[n] = "vote" /\ rnd[n].term = t /\ Cardinality(rnd[n].votes) >= Majority
      /\ elected' = elected \cup {w}
  BY DEF ElectionWon, MayWin
<1>4. \A m \in Server : pc'[m] = "vote" => m # n /\ pc[m] = "vote" /\ rnd'[m] = rnd[m]
  BY DEF ElectionWon, EndRound, TypeInv, TypeOK
<1>5. Ballots'
  BY <1>1, <1>4, BoundStays DEF Ballots
<1>6. w[1] = t /\ w[2] = n
  OBVIOUS
<1> HIDE DEF t, w
<1>7. /\ \A e \in elected : g[e] = f[e]
      /\ w \notin elected => g[w] = rnd[n].votes
  BY <1>0, <1>3
<1>8. g \in [elected' -> SUBSET Server]
  BY <1>0, <1>1, <1>2
<1>9. ASSUME NEW e \in elected'
      PROVE  Cardinality(g[e]) >= Majority /\ \A v \in g[e] : Bound(state'[v], e[1], e[2])
  <2>1. CASE e \in elected
    BY <1>2, <1>7, <2>1, BoundStays DEF Electorate
  <2>2. CASE e \notin elected
    BY <1>1, <1>3, <1>6, <1>7, <2>2, BoundStays DEF Ballots
  <2> QED
    BY <2>1, <2>2
<1>10. ASSUME NEW e \in elected', NEW m \in Server,
              pc'[m] = "vote", rnd'[m].term = e[1], m # e[2]
       PROVE  g[e] \cap rnd'[m].votes = {}
  <2>1. CASE e \in elected
    BY <1>4, <1>7, <1>10, <2>1 DEF Electorate
  <2>2. CASE e \notin elected
    BY <1>3, <1>4, <1>6, <1>7, <1>10, <2>2 DEF Ballots
  <2> QED
    BY <2>1, <2>2
<1>11. ASSUME NEW e \in elected, e[1] = t, e[2] # n
       PROVE  f[e] \cap rnd[n].votes = {}
  BY <1>3, <1>11 DEF Electorate
<1>12. ASSUME NEW e \in elected', NEW h \in elected', e[1] = h[1], e[2] # h[2]
       PROVE  g[e] \cap g[h] = {}
  <2>1. CASE e \in elected /\ h \in elected
    BY <1>7, <1>12, <2>1 DEF Electorate
  <2>2. CASE e \notin elected /\ h \in elected
    BY <1>3, <1>6, <1>7, <1>11, <1>12, <2>2
  <2>3. CASE e \in elected /\ h \notin elected
    BY <1>3, <1>6, <1>7, <1>11, <1>12, <2>3
  <2>4. CASE e \notin elected /\ h \notin elected
    BY <1>3, <1>12, <2>4
  <2> QED
    BY <2>1, <2>2, <2>3, <2>4
<1>13. Electorate(g)'
  BY <1>8, <1>9, <1>10, <1>12 DEF Electorate
<1> QED
  BY <1>5, <1>13

LEMMA ElectionStep == ElectionInv /\ [Next]_vars => ElectionInv'
<1> SUFFICES ASSUME ElectionInv, [Next]_vars PROVE ElectionInv'
  OBVIOUS
<1>1. TypeInv /\ Ballots /\ TypeInv'
  BY NextType DEF ElectionInv
<1>2. PICK f : Electorate(f)
  BY DEF ElectionInv
<1>3. ASSUME NEW n \in Server, ElectionTimeout(n) PROVE Ballots' /\ \E g : Electorate(g)'
  BY <1>1, <1>2, <1>3, TimeoutBallots
<1>4. ASSUME NEW n \in Server, NEW p \in Server, VoteAnswered(n, p)
      PROVE  Ballots' /\ \E g : Electorate(g)'
  BY <1>1, <1>2, <1>4, VoteBallots
<1>5. ASSUME NEW n \in Server, ElectionWon(n) PROVE Ballots' /\ \E g : Electorate(g)'
  BY <1>1, <1>2, <1>5, WonBallots
<1>6. ASSUME \/ UNCHANGED vars
             \/ \E n \in Server :
                  \/ LeaderWake(n) \/ LeaderSnapshot(n)
                  \/ \E p \in Server :
                       AppendAnswered(n, p) \/ CallRefused(n, p) \/ CallAbandoned(n, p)
                  \/ RoundDeposed(n) \/ RoundCommit(n) \/ RoundStale(n)
                  \/ ElectionLost(n) \/ HandleLate(n) \/ ClientGet(n) \/ Restart(n)
                  \/ \E c \in Cmd : ClientCommand(n, c)
      PROVE  Ballots' /\ \E g : Electorate(g)'
  <2>1. elected' = elected
    BY <1>6 DEF vars, LeaderWake, LeaderSnapshot, AppendAnswered, CallRefused, CallAbandoned,
       RoundDeposed, RoundCommit, RoundStale, ElectionLost, HandleLate, ClientGet, Restart,
       ClientCommand
  <2>2. ASSUME NEW n \in Server, EndRound(n)
        PROVE  \A m \in Server : pc'[m] = "vote" => pc[m] = "vote" /\ rnd'[m] = rnd[m]
    BY <1>1, <2>2 DEF EndRound, TypeInv, TypeOK
  <2> DEFINE CountsSame == \A m \in Server : pc'[m] = "vote" =>
                              /\ pc[m] = "vote" /\ rnd'[m].term = rnd[m].term
                              /\ rnd'[m].votes = rnd[m].votes
  <2>3. CountsSame
    <3>1. CASE UNCHANGED vars
      BY <3>1 DEF vars
    <3>2. ASSUME NEW n \in Server, LeaderWake(n) \/ LeaderSnapshot(n) PROVE CountsSame
      <4>1. pc' = [pc EXCEPT ![n] = "snapshot"] \/ pc' = [pc EXCEPT ![n] = "append"]
        BY <3>2 DEF LeaderWake, LeaderSnapshot
      <4>2. \A m \in Server \ {n} : rnd'[m] = rnd[m]
        BY <1>1, <3>2 DEF LeaderWake, LeaderSnapshot, TypeInv, TypeOK
      <4> QED
        BY <1>1, <4>1, <4>2 DEF TypeInv, TypeOK
    <3>3. ASSUME NEW n \in Server, NEW p \in Server, AppendAnswered(n, p) PROVE CountsSame
      <4>1. pc' = pc /\ pc[n] # "vote"
        BY <3>3 DEF AppendAnswered
      <4>2. \A m \in Server \ {n} : rnd'[m] = rnd[m]
        BY <1>1, <3>3 DEF AppendAnswered, TypeInv, TypeOK
      <4> QED
        BY <4>1, <4>2
    <3>4. ASSUME NEW n \in Server, NEW p \in Server, CallRefused(n, p) \/ CallAbandoned(n, p)
          PROVE  CountsSame
      <4> DEFINE r == [rnd[n] EXCEPT !.todo = @ \ {p}]
      <4>1. pc' = pc /\ rnd' = [rnd EXCEPT ![n] = r]
        BY <3>4 DEF CallRefused, CallAbandoned
      <4>2. r.term = rnd[n].term /\ r.votes = rnd[n].votes
        BY <1>1 DEF TypeInv, TypeOK, Round
      <4> HIDE DEF r
      <4> QED
        BY <1>1, <4>1, <4>2 DEF TypeInv, TypeOK
    <3>5. ASSUME NEW n \in Server,
                 RoundDeposed(n) \/ RoundCommit(n) \/ RoundStale(n) \/ ElectionLost(n) \/ Restart(n)
          PROVE  CountsSame
      BY <2>2, <3>5 DEF RoundDeposed, RoundCommit, RoundStale, ElectionLost, Restart
    <3>6. ASSUME NEW n \in Server, \/ HandleLate(n) \/ ClientGet(n)
                                   \/ \E c \in Cmd : ClientCommand(n, c)
          PROVE  CountsSame
      BY <3>6 DEF HandleLate, ClientGet, ClientCommand
    <3> QED
      BY <1>6, <3>1, <3>2, <3>3, <3>4, <3>5, <3>6
  <2> QED
    BY <1>1, <1>2, <2>1, <2>3, NoNewVotes
<1>7. Ballots' /\ \E g : Electorate(g)'
  BY <1>3, <1>4, <1>5, <1>6 DEF Next
<1> QED
  BY <1>1, <1>7 DEF ElectionInv

\* At most one node ever wins the election of a term, for any set of servers and
\* any number of timeouts, crashes and delayed requests.
THEOREM ElectionIsSafe == Spec => []ElectionSafety
<1>1. ElectionInv => ElectionSafety
  BY ElectionInvImplies
<1> QED
  BY ElectionInit, ElectionStep, <1>1, PTL DEF Spec

(********************************** logs ***********************************)

\* Two logs both have k entries, and the same ones.
Agree(a, b, k) == k <= Len(a) /\ k <= Len(b) /\ \A i \in 1 .. k : a[i] = b[i]

\* Log matching: H[t] is the log of the leader of term t.  Up to an entry of
\* term t a log is the log of that leader; terms do not fall along a log.
Matched(H, L) ==
    \A i \in 1 .. Len(L) :
        /\ Agree(L, H[L[i].term], i)
        /\ L[i].cmd \notin Reserved
        /\ \A j \in 1 .. i : L[j].term <= L[i].term

Lawful(H, L, t) == Matched(H, L) /\ \A i \in 1 .. Len(L) : L[i].term <= t

\* Position a of the log of term t holds an entry of that very term: what the
\* commit-term rule lets its leader commit.
Own(H, t, a) == a \in 1 .. Len(H[t]) /\ H[t][a].term = t

\* The leaders' logs only grow.
Grown(H, H2) == \A t \in Nat : Agree(H[t], H2[t], Len(H[t]))

\* One log for every term.
Logs(H) == H \in [Nat -> Seq(Entry)]

LEMMA LogOf ==
    ASSUME NEW H, Logs(H), NEW t \in Nat PROVE H[t] \in Seq(Entry)
  BY DEF Logs

LEMMA AgreeSome ==
    ASSUME NEW a \in Seq(Entry), NEW b \in Seq(Entry), NEW k \in Nat, Agree(a, b, k),
           NEW j \in Nat, j <= k
    PROVE  Agree(b, a, j) /\ Agree(a, b, j)
  BY DEF Agree

LEMMA AgreeAll ==
    ASSUME NEW a \in Seq(Entry), NEW b \in Seq(Entry), NEW c \in Seq(Entry), NEW k \in Nat,
           Agree(a, b, k), Agree(b, c, k)
    PROVE  Agree(a, c, k)
  BY DEF Agree

LEMMA AgreeSelf ==
    ASSUME NEW a \in Seq(Entry) PROVE Agree(a, a, Len(a))
  BY DEF Agree

LEMMA EntryTerm ==
    ASSUME NEW L \in Seq(Entry), NEW i \in 1 .. Len(L)
    PROVE  L[i] \in Entry /\ L[i].term \in Nat
<1>1. L[i] \in Entry
  OBVIOUS
<1> QED
  BY <1>1 DEF Entry

\* The part of a lawful log up to some length is lawful.
LEMMA LawfulPrefix ==
    ASSUME NEW H, Logs(H), NEW L \in Seq(Entry), NEW M \in Seq(Entry),
           NEW t \in Nat, Lawful(H, M, t), Agree(L, M, Len(L))
    PROVE  Lawful(H, L, t)
<1>1. /\ Len(L) \in Nat /\ Len(M) \in Nat /\ Len(L) <= Len(M)
      /\ \A i \in 1 .. Len(L) : L[i] = M[i] /\ i \in 1 .. Len(M)
  BY DEF Agree
<1>2. ASSUME NEW i \in 1 .. Len(L)
      PROVE  Agree(L, H[L[i].term], i)
  <2>1. Agree(M, H[M[i].term], i)
    BY <1>1 DEF Lawful, Matched
  <2>2. \A j \in 1 .. i : j \in 1 .. Len(L)
    BY <1>1
  <2> QED
    BY <1>1, <2>1, <2>2 DEF Agree
<1>3. ASSUME NEW i \in 1 .. Len(L)
      PROVE  L[i].cmd \notin Reserved /\ L[i].term <= t
  BY <1>1 DEF Lawful, Matched
<1>4. ASSUME NEW i \in 1 .. Len(L), NEW j \in 1 .. i
      PROVE  L[j].term <= L[i].term
  <2>1. j \in 1 .. Len(L)
    BY <1>1
  <2> QED
    BY <1>1, <2>1 DEF Lawful, Matched
<1> QED
  BY <1>2, <1>3, <1>4 DEF Lawful, Matched

\* A lawful log stays so when the term passes and the leaders' logs grow.
LEMMA LawfulStays ==
    ASSUME NEW H, Logs(H), NEW H2, Logs(H2),
           Grown(H, H2), NEW L \in Seq(Entry), NEW t \in Nat, Lawful(H, L, t), NEW u \in Nat, t <= u
    PROVE  Lawful(H2, L, u)
<1>1. ASSUME NEW i \in 1 .. Len(L)
      PROVE  Agree(L, H2[L[i].term], i) /\ L[i].term <= u
  <2>1. L[i].term \in Nat /\ L[i].term <= t
    BY EntryTerm DEF Lawful
  <2>2. Agree(L, H[L[i].term], i)
    BY DEF Lawful, Matched
  <2>3. Agree(H[L[i].term], H2[L[i].term], Len(H[L[i].term]))
    BY <2>1 DEF Grown
  <2>4. /\ H[L[i].term] \in Seq(Entry) /\ H2[L[i].term] \in Seq(Entry)
    BY <2>1, LogOf
  <2>5. i \in Nat /\ Len(L) \in Nat
    OBVIOUS
  <2> QED
    <3> DEFINE A == H[L[i].term]
               B == H2[L[i].term]
    <3>1. Agree(L, A, i) /\ Agree(A, B, Len(A)) /\ A \in Seq(Entry) /\ B \in Seq(Entry)
      BY <2>2, <2>3, <2>4
    <3> HIDE DEF A, B
    <3>2. Agree(A, B, i)
      BY <2>5, <3>1, AgreeSome DEF Agree
    <3>3. Agree(L, B, i)
      BY <2>5, <3>1, <3>2, AgreeAll
    <3>4. L[i].term <= u
      BY <2>1
    <3> QED
      BY <3>3, <3>4 DEF B
<1> QED
  BY <1>1 DEF Lawful, Matched

\* The wire format and the state file give a lawful log back.
LEMMA WireLawful ==
    ASSUME NEW H, NEW L \in Seq(Entry), Matched(H, L)
    PROVE  Wire(L) = L
<1>1. DOMAIN L = 1 .. Len(L)
  OBVIOUS
<1>2. ASSUME NEW i \in 1 .. Len(L)
      PROVE  [L[i] EXCEPT !.cmd = IF @ \in Reserved THEN Garbled ELSE @] = L[i]
  <2>1. L[i] \in Entry /\ L[i].cmd \notin Reserved
    BY DEF Matched
  <2> QED
    BY <2>1 DEF Entry
<1>3. Wire(L) = [i \in 1 .. Len(L) |-> L[i]]
  BY <1>1, <1>2 DEF Wire
<1> QED
  BY <1>1, <1>3

\* A log with one more entry of a term that is not below the others.
LEMMA LawfulAppend ==
    ASSUME NEW H, Logs(H), NEW L \in Seq(Entry), NEW M \in Seq(Entry),
           NEW t \in Nat, Lawful(H, L, t), NEW e \in Entry, e.term = t, e.cmd \notin Reserved,
           M = Append(L, e), H[t] = M
    PROVE  Lawful(H, M, t)
<1>1. /\ Len(M) = Len(L) + 1 /\ Len(L) \in Nat
      /\ \A i \in 1 .. Len(L) : M[i] = L[i]
      /\ M[Len(L) + 1] = e
  OBVIOUS
<1>2. ASSUME NEW i \in 1 .. Len(M)
      PROVE  /\ Agree(M, H[M[i].term], i) /\ M[i].cmd \notin Reserved /\ M[i].term <= t
             /\ \A j \in 1 .. i : M[j].term <= M[i].term
  <2>1. CASE i \in 1 .. Len(L)
    <3>1. Agree(L, H[L[i].term], i) /\ L[i].cmd \notin Reserved /\ L[i].term <= t
      BY <2>1 DEF Lawful, Matched
    <3>2. \A j \in 1 .. i : M[j].term <= M[i].term
      <4>1. \A j \in 1 .. i : L[j].term <= L[i].term /\ j \in 1 .. Len(L)
        BY <1>1, <2>1 DEF Lawful, Matched
      <4> QED
        BY <1>1, <2>1, <4>1
    <3>3. Agree(M, H[M[i].term], i)
      <4>1. \A j \in 1 .. i : j \in 1 .. Len(L)
        BY <1>1, <2>1
      <4>2. M[i] = L[i] /\ i <= Len(M)
        BY <1>1, <2>1
      <4> QED
        BY <1>1, <3>1, <4>1, <4>2 DEF Agree
    <3> QED
      BY <1>1, <2>1, <3>1, <3>2, <3>3
  <2>2. CASE i = Len(L) + 1
    <3>1. M[i] = e /\ M[i].term = t /\ M[i].cmd \notin Reserved
      BY <1>1, <2>2
    <3>2. Agree(M, H[M[i].term], i)
      BY <1>1, <2>2, <3>1, AgreeSelf
    <3>3. \A j \in 1 .. i : M[j].term <= t
      <4> TAKE j \in 1 .. i
      <4>1. CASE j \in 1 .. Len(L)
        BY <1>1, <4>1 DEF Lawful
      <4>2. CASE j = Len(L) + 1
        BY <1>1, <4>2
      <4> QED
        BY <1>1, <2>2, <4>1, <4>2
    <3> QED
      BY <3>1, <3>2, <3>3
  <2> QED
    BY <1>1, <2>1, <2>2
<1> QED
  BY <1>2 DEF Lawful, Matched

(***************************** the invariant *******************************)

\* K[q][t] is the length of the longest log node q has held as a node of term
\* t that took the log of the leader of t (0: it has not taken any).
Acks(K) == K \in [Server -> [Nat -> Nat]]

LEMMA AckOf ==
    ASSUME NEW K, Acks(K), NEW q \in Server, NEW t \in Nat PROVE K[q][t] \in Nat
  BY DEF Acks

Won(t) == \E e \in elected : e[1] = t

\* A majority has taken a entries of the log of term t.
Cert(K, t, a) ==
    \E Q \in SUBSET Server : Cardinality(Q) >= Majority /\ \A q \in Q : K[q][t] >= a

\* A majority may have, once those that are not past term t have answered.
Choosable(K, t, a) ==
    \E Q \in SUBSET Server :
        Cardinality(Q) >= Majority /\ \A q \in Q : K[q][t] >= a \/ state[q].term <= t

\* The first k entries of a log held in term t are a majority's for good.  If the
\* term is t itself, k is at most c.
Backed(H, K, L, k, t, c) ==
    \/ k = 0
    \/ \E w \in Nat, a \in Nat :
          /\ w <= t /\ k <= a
          /\ Own(H, w, a) /\ Cert(K, w, a)
          /\ Agree(L, H[w], k)
          /\ w = t => k <= c

\* I[t] is the log the leader of t was elected with.
Histories(H, I, K) ==
    /\ Logs(H) /\ Logs(I) /\ Acks(K)
    /\ \A t \in Nat : Lawful(H, H[t], t) /\ Agree(I[t], H[t], Len(I[t]))
    /\ \A t \in Nat, q \in Server : K[q][t] <= Len(H[t])
    /\ \A t \in Nat : ~Won(t) => H[t] = <<>>

\* A leader was elected with all that an earlier term's leader may have
\* committed, or may commit yet.
Cover(H, I, K) ==
    \A e \in elected, t \in Nat, a \in Nat :
        t < e[1] /\ Own(H, t, a) /\ Choosable(K, t, a) => Agree(I[e[1]], H[t], a)

\* A log L that node q may be left with holds what q helped to make choosable
\* in the terms below u.
Keep(H, K, L, q, u) ==
    \A t \in Nat, a \in Nat :
        t < u /\ a <= K[q][t] /\ Own(H, t, a) /\ Choosable(K, t, a) => Agree(L, H[t], a)

NodeOK(H, K, n) ==
    /\ Lawful(H, state[n].log, state[n].term)
    /\ \A t \in Nat : t > state[n].term => K[n][t] = 0
    /\ Keep(H, K, state[n].log, n, state[n].term + 1)
    /\ state[n].applied = state[n].commit_index
    /\ Backed(H, K, state[n].log, state[n].commit_index, state[n].term, K[n][state[n].term])

\* A leader's log is the log of its term; nobody wins twice.
LeaderOK(H, K, n) ==
    /\ state[n].role = "Leader" =>
          /\ <<state[n].term, n>> \in elected
          /\ state[n].log = H[state[n].term]
          /\ K[n][state[n].term] = Len(state[n].log)
    /\ \A e \in elected : e[2] = n =>
          e[1] < state[n].term \/ (e[1] = state[n].term /\ state[n].role # "Candidate")

\* A log that a leader of term t has sent, with its commit index.
Sent(H, I, K, L, c, t) ==
    /\ Agree(I[t], L, Len(I[t])) /\ Agree(L, H[t], Len(L))
    /\ c <= Len(L) /\ Backed(H, K, L, c, t, Len(L))

VoteRound(H, K, n) ==
    pc[n] = "vote" =>
        /\ Lawful(H, rnd[n].log, rnd[n].term)
        /\ state[n].role = "Candidate" /\ state[n].term = rnd[n].term
              => state[n].log = rnd[n].log
        /\ \A v \in rnd[n].votes : Keep(H, K, rnd[n].log, v, rnd[n].term)

AppendRound(H, I, K, n) ==
    pc[n] = "append" =>
        /\ <<rnd[n].term, n>> \in elected /\ n \notin rnd[n].todo
        /\ Sent(H, I, K, rnd[n].log, rnd[n].commit, rnd[n].term)
        /\ \A q \in Server : rnd[n].lens[q] <= K[q][rnd[n].term]

\* m is an append of term t; its log has at least, or at most, l entries.
AppendOf(m, t) == m.kind = "append" /\ m.term = t
AtLeast(m, t, l) == AppendOf(m, t) => l <= Len(m.entries)
AtMost(m, t, l) == AppendOf(m, t) => Len(m.entries) <= l

\* What n still sends in its round is not shorter than what was sent before.
RoundOrder(K, n) ==
    pc[n] = "append" =>
        \A p \in rnd[n].todo :
            /\ K[p][rnd[n].term] <= Len(rnd[n].log)
            /\ \A i \in 1 .. Len(inbox[p]) : AtMost(inbox[p][i], rnd[n].term, Len(rnd[n].log))

\* So it is with what waits at p.
Queue(H, I, K, p) ==
    \A i \in 1 .. Len(inbox[p]) :
        inbox[p][i].kind = "append" =>
            /\ Won(inbox[p][i].term) /\ <<inbox[p][i].term, p>> \notin elected
            /\ Sent(H, I, K, inbox[p][i].entries, inbox[p][i].commit, inbox[p][i].term)
            /\ K[p][inbox[p][i].term] <= Len(inbox[p][i].entries)
            /\ \A j \in i .. Len(inbox[p]) :
                  AtLeast(inbox[p][j], inbox[p][i].term, Len(inbox[p][i].entries))

LogInv(H, I, K) ==
    /\ Histories(H, I, K)
    /\ Cover(H, I, K)
    /\ \A n \in Server : /\ NodeOK(H, K, n) /\ LeaderOK(H, K, n)
                         /\ VoteRound(H, K, n) /\ AppendRound(H, I, K, n)
                         /\ RoundOrder(K, n) /\ Queue(H, I, K, n)

\* The state file holds all that is not volatile.
Saved == \A n \in Server : disk[n] = Persist(state[n])

RaftInv == ElectionInv /\ Saved /\ \E H, I, K : LogInv(H, I, K)

(******************************* one step **********************************)

LEMMA NodeFacts ==
    ASSUME TypeInv, NEW n \in Server
    PROVE  /\ state[n] \in NodeState /\ state[n].term \in Nat
           /\ state[n].log \in Seq(Entry) /\ state[n].commit_index \in Nat
  BY DEF TypeInv, TypeOK, NodeState

LEMMA NextNodeFacts ==
    ASSUME TypeInv', NEW n \in Server
    PROVE  /\ state'[n] \in NodeState /\ state'[n].term \in Nat
           /\ state'[n].log \in Seq(Entry) /\ state'[n].commit_index \in Nat
  BY DEF TypeInv, TypeOK, NodeState

LEMMA ElectedFacts ==
    ASSUME TypeInv, NEW e \in elected
    PROVE  e[1] \in Nat /\ e[2] \in Server /\ e = <<e[1], e[2]>> /\ Won(e[1])
  BY DEF TypeInv, TypeOK, Won

\* What a step of node m does to the nodes and to H, I and K: they change at m
\* and at the term m is in after the step only, and they grow.
Change(m, H, I, K, H2, I2, K2) ==
    /\ \A n \in Server \ {m} : state'[n] = state[n]
    /\ \A n \in Server, t \in Nat : n # m \/ t # state'[m].term => K2[n][t] = K[n][t]
    /\ \A t \in Nat : t # state'[m].term => H2[t] = H[t] /\ I2[t] = I[t]
    /\ state[m].term <= state'[m].term
    /\ K[m][state'[m].term] <= K2[m][state'[m].term]
    /\ Agree(H[state'[m].term], H2[state'[m].term], Len(H[state'[m].term]))
    /\ Won(state'[m].term) => I2[state'[m].term] = I[state'[m].term]
    /\ H2[state'[m].term] = H[state'[m].term] \/ <<state'[m].term, m>> \in elected'
    /\ elected \subseteq elected'
    /\ \A e \in elected' \ elected : e = <<state'[m].term, m>> /\ ~Won(e[1])

Before(m, H, I, K, H2, I2, K2) ==
    /\ TypeInv /\ TypeInv' /\ m \in Server
    /\ Histories(H, I, K)
    /\ Logs(H2) /\ Logs(I2) /\ Acks(K2)
    /\ Change(m, H, I, K, H2, I2, K2)

LEMMA Grows ==
    ASSUME NEW m, NEW H, NEW I, NEW K, NEW H2, NEW I2, NEW K2, Before(m, H, I, K, H2, I2, K2)
    PROVE  /\ \A n \in Server : state[n].term <= state'[n].term
           /\ \A n \in Server, t \in Nat : K[n][t] <= K2[n][t]
           /\ Grown(H, H2)
           /\ \A t \in Nat : Won(t) => I2[t] = I[t] /\ Won(t)'
<1> USE DEF Before
<1>1. \A n \in Server : state[n].term <= state'[n].term
  <2> SUFFICES ASSUME NEW n \in Server PROVE state[n].term <= state'[n].term
    OBVIOUS
  <2>1. state[n].term \in Nat
    BY NodeFacts
  <2> QED
    BY <2>1 DEF Change
<1>2. \A n \in Server, t \in Nat : K[n][t] <= K2[n][t]
  <2> SUFFICES ASSUME NEW n \in Server, NEW t \in Nat PROVE K[n][t] <= K2[n][t]
    OBVIOUS
  <2>1. K[n][t] \in Nat
    BY AckOf DEF Histories
  <2> QED
    BY <2>1 DEF Change
<1>3. Grown(H, H2)
  <2> SUFFICES ASSUME NEW t \in Nat PROVE Agree(H[t], H2[t], Len(H[t]))
    BY DEF Grown
  <2>1. CASE t = state'[m].term
    BY <2>1 DEF Change
  <2>2. CASE t # state'[m].term
    <3>1. H[t] \in Seq(Entry) /\ H2[t] = H[t]
      BY <2>2, LogOf DEF Histories, Change
    <3> QED
      BY <3>1, AgreeSelf
  <2> QED
    BY <2>1, <2>2
<1>4. \A t \in Nat : Won(t) => I2[t] = I[t] /\ Won(t)'
  <2> SUFFICES ASSUME NEW t \in Nat, Won(t) PROVE I2[t] = I[t] /\ Won(t)'
    OBVIOUS
  <2>1. Won(t)'
    BY DEF Won, Change
  <2>2. I2[t] = I[t]
    BY DEF Change
  <2> QED
    BY <2>1, <2>2
<1> QED
  BY <1>1, <1>2, <1>3, <1>4

\* The leaders' logs and what has been taken of them only grow.
Onward(H, K, H2, K2) ==
    Grown(H, H2) /\ \A q \in Server, t \in Nat : K[q][t] <= K2[q][t]

LEMMA OnwardSame ==
    ASSUME NEW H, NEW I, NEW K, Histories(H, I, K)
    PROVE  Onward(H, K, H, K)
<1>1. \A t \in Nat : H[t] \in Seq(Entry)
  BY LogOf DEF Histories
<1>2. \A q \in Server, t \in Nat : K[q][t] \in Nat
  BY AckOf DEF Histories
<1>3. \A t \in Nat : Agree(H[t], H[t], Len(H[t]))
  BY <1>1, AgreeSelf
<1>4. \A q \in Server, t \in Nat : K[q][t] <= K[q][t]
  BY <1>2
<1> QED
  BY <1>3, <1>4 DEF Onward, Grown

\* What can still be chosen after the step could be before it.
LEMMA ChoosableBefore ==
    ASSUME NEW m, NEW H, NEW I, NEW K, NEW H2, NEW I2, NEW K2, Before(m, H, I, K, H2, I2, K2),
           NEW t \in Nat, NEW a \in Nat, Choosable(K2, t, a)'
    PROVE  Choosable(K, t, a)
<1>1. PICK Q \in SUBSET Server :
         Cardinality(Q) >= Majority /\ \A q \in Q : K2[q][t] >= a \/ state'[q].term <= t
  BY DEF Choosable
<1>2. ASSUME NEW q \in Q PROVE K[q][t] >= a \/ state[q].term <= t
  <2>1. q \in Server /\ state[q].term \in Nat /\ state'[q].term \in Nat
    BY NodeFacts, NextNodeFacts DEF Before
  <2>2. state[q].term <= state'[q].term
    BY <2>1, Grows
  <2>3. CASE K2[q][t] = K[q][t]
    BY <1>1, <2>1, <2>2, <2>3
  <2>4. CASE K2[q][t] # K[q][t]
    <3>1. t = state'[q].term
      BY <2>1, <2>4 DEF Before, Change
    <3> QED
      BY <2>1, <2>2, <3>1
  <2> QED
    BY <2>3, <2>4
<1> QED
  BY <1>1, <1>2 DEF Choosable

LEMMA OwnBefore ==
    ASSUME NEW H, NEW H2, Logs(H), Logs(H2), Grown(H, H2), NEW t \in Nat, NEW a \in Nat
    PROVE  /\ Own(H2, t, a) /\ a <= Len(H[t]) => Own(H, t, a)
           /\ Own(H, t, a) => Own(H2, t, a)
<1> DEFINE A == H[t]
           B == H2[t]
<1>1. A \in Seq(Entry) /\ B \in Seq(Entry) /\ Agree(A, B, Len(A))
  BY LogOf DEF Grown
<1>2. /\ Own(H, t, a) <=> a \in 1 .. Len(A) /\ A[a].term = t
      /\ Own(H2, t, a) <=> a \in 1 .. Len(B) /\ B[a].term = t
  BY DEF Own
<1> HIDE DEF A, B
<1>3. /\ a \in 1 .. Len(B) /\ B[a].term = t /\ a <= Len(A) => a \in 1 .. Len(A) /\ A[a].term = t
      /\ a \in 1 .. Len(A) /\ A[a].term = t => a \in 1 .. Len(B) /\ B[a].term = t
  BY <1>1 DEF Agree
<1> QED
  BY <1>2, <1>3 DEF A

\* The part of a log that agrees with a leader's still does.
LEMMA AgreeStays ==
    ASSUME NEW H, NEW H2, Logs(H), Logs(H2), Grown(H, H2), NEW t \in Nat,
           NEW L \in Seq(Entry), NEW k \in Nat, Agree(L, H[t], k)
    PROVE  Agree(L, H2[t], k)
<1> DEFINE A == H[t]
           B == H2[t]
<1>1. A \in Seq(Entry) /\ B \in Seq(Entry) /\ Agree(A, B, Len(A)) /\ Agree(L, A, k)
  BY LogOf DEF Grown
<1> HIDE DEF A, B
<1>2. k <= Len(A) /\ Len(A) \in Nat
  BY <1>1 DEF Agree
<1>3. Agree(A, B, k)
  BY <1>1, <1>2, AgreeSome
<1>4. Agree(L, B, k)
  BY <1>1, <1>3, AgreeAll
<1> QED
  BY <1>4 DEF B

LEMMA BackedStays ==
    ASSUME NEW m, NEW H, NEW I, NEW K, NEW H2, NEW I2, NEW K2, Before(m, H, I, K, H2, I2, K2),
           NEW L \in Seq(Entry), NEW k \in Nat, NEW t \in Nat, NEW c \in Nat,
           Backed(H, K, L, k, t, c), NEW d \in Nat, c <= d
    PROVE  Backed(H2, K2, L, k, t, d)
<1>1. CASE k = 0
  BY <1>1 DEF Backed
<1>2. CASE k # 0
  <2>1. PICK w \in Nat, a \in Nat : /\ w <= t /\ k <= a /\ Own(H, w, a) /\ Cert(K, w, a)
                                    /\ Agree(L, H[w], k) /\ (w = t => k <= c)
    BY <1>2 DEF Backed
  <2>2. Logs(H) /\ Logs(H2) /\ Grown(H, H2)
    BY Grows DEF Before, Histories
  <2>3. Own(H2, w, a) /\ Agree(L, H2[w], k)
    BY <2>1, <2>2, OwnBefore, AgreeStays
  <2>4. Cert(K2, w, a)
    <3>1. PICK Q \in SUBSET Server : Cardinality(Q) >= Majority /\ \A q \in Q : K[q][w] >= a
      BY <2>1 DEF Cert
    <3>2. ASSUME NEW q \in Q PROVE K2[q][w] >= a
      <4>1. q \in Server /\ K[q][w] \in Nat /\ K2[q][w] \in Nat
        BY AckOf DEF Before, Histories
      <4>2. K[q][w] <= K2[q][w]
        BY <4>1, Grows
      <4> QED
        BY <3>1, <4>1, <4>2
    <3> QED
      BY <3>1, <3>2 DEF Cert
  <2>5. w = t => k <= d
    BY <2>1
  <2> QED
    BY <2>1, <2>3, <2>4, <2>5 DEF Backed
<1> QED
  BY <1>1, <1>2

\* In a later term it does not matter any more how much was taken in this one.
LEMMA BackedLater ==
    ASSUME NEW H, NEW K, NEW L, NEW k \in Nat, NEW t \in Nat, NEW c, Backed(H, K, L, k, t, c),
           NEW u \in Nat, t < u, NEW d
    PROVE  Backed(H, K, L, k, u, d)
<1>1. CASE k = 0
  BY <1>1 DEF Backed
<1>2. CASE k # 0
  <2>1. PICK w \in Nat, a \in Nat : /\ w <= t /\ k <= a /\ Own(H, w, a) /\ Cert(K, w, a)
                                    /\ Agree(L, H[w], k)
    BY <1>2 DEF Backed
  <2>2. w <= u /\ w # u
    BY <2>1
  <2> QED
    BY <2>1, <2>2 DEF Backed
<1> QED
  BY <1>1, <1>2

LEMMA SentStays ==
    ASSUME NEW m, NEW H, NEW I, NEW K, NEW H2, NEW I2, NEW K2, Before(m, H, I, K, H2, I2, K2),
           NEW L \in Seq(Entry), NEW c \in Nat, NEW t \in Nat, Won(t), Sent(H, I, K, L, c, t)
    PROVE  Sent(H2, I2, K2, L, c, t)
<1>1. Logs(H) /\ Logs(H2) /\ Grown(H, H2) /\ I2[t] = I[t]
  BY Grows DEF Before, Histories
<1>2. Len(L) \in Nat
  OBVIOUS
<1>3. Agree(L, H2[t], Len(L))
  BY <1>1, <1>2, AgreeStays DEF Sent
<1>4. Backed(H2, K2, L, c, t, Len(L))
  BY <1>2, BackedStays DEF Sent
<1> QED
  BY <1>1, <1>3, <1>4 DEF Sent

\* Keep of a log L after the step.
KeepNext(H, K, L, q, u) ==
    \A t \in Nat, a \in Nat :
        t < u /\ a <= K[q][t] /\ Own(H, t, a) /\ Choosable(K, t, a)' => Agree(L, H[t], a)

\* A log that kept what q had helped with below term u still does, when q has
\* helped with nothing else there.
LEMMA KeepStays ==
    ASSUME NEW m, NEW H, NEW I, NEW K, NEW H2, NEW I2, NEW K2, Before(m, H, I, K, H2, I2, K2),
           NEW L \in Seq(Entry), NEW q \in Server, NEW u \in Nat, Keep(H, K, L, q, u),
           \A t \in Nat : t < u => K2[q][t] = K[q][t]
    PROVE  KeepNext(H2, K2, L, q, u)
<1> SUFFICES ASSUME NEW t \in Nat, NEW a \in Nat,
                    t < u, a <= K2[q][t], Own(H2, t, a), Choosable(K2, t, a)'
             PROVE  Agree(L, H2[t], a)
  BY DEF KeepNext
<1>1. Logs(H) /\ Logs(H2) /\ Grown(H, H2)
  BY Grows DEF Before, Histories
<1>2. a <= K[q][t] /\ K[q][t] <= Len(H[t]) /\ K[q][t] \in Nat
  BY AckOf DEF Before, Histories
<1>3. H[t] \in Seq(Entry)
  BY <1>1, LogOf
<1>4. Len(H[t]) \in Nat
  BY <1>3
<1>5. a <= Len(H[t])
  BY <1>2, <1>4
<1>6. Own(H, t, a)
  BY <1>1, <1>5, OwnBefore
<1>7. Agree(L, H[t], a)
  BY <1>2, <1>6, ChoosableBefore DEF Keep
<1> QED
  BY <1>1, <1>7, AgreeStays

\* A node whose log and acknowledgements stay as they are, and whose commit
\* index does or is backed.
LEMMA NodeStays ==
    ASSUME NEW m, NEW H, NEW I, NEW K, NEW H2, NEW I2, NEW K2, Before(m, H, I, K, H2, I2, K2),
           NEW n \in Server, NodeOK(H, K, n),
           state'[n].log = state[n].log,
           \/ /\ state'[n].commit_index = state[n].commit_index
              /\ state'[n].applied = state[n].applied
           \/ /\ state'[n].applied = state'[n].commit_index
              /\ Backed(H2, K2, state'[n].log, state'[n].commit_index, state'[n].term,
                        K2[n][state'[n].term]),
           \A t \in Nat : K2[n][t] = K[n][t]
    PROVE  NodeOK(H2, K2, n)'
<1> DEFINE L == state[n].log
           k == state[n].commit_index
           t == state[n].term
           u == state'[n].term
<1>1. L \in Seq(Entry) /\ k \in Nat /\ t \in Nat /\ u \in Nat /\ t <= u
  BY NodeFacts, NextNodeFacts, Grows DEF Before
<1>2. Logs(H) /\ Logs(H2) /\ Grown(H, H2) /\ Acks(K)
  BY Grows DEF Before, Histories
<1>3. /\ Lawful(H, L, t) /\ (\A x \in Nat : x > t => K[n][x] = 0)
      /\ Keep(H, K, L, n, t + 1) /\ Backed(H, K, L, k, t, K[n][t])
      /\ state[n].applied = k
  BY DEF NodeOK
<1>4. state'[n].log = L /\ state'[n].term = u
  OBVIOUS
<1> HIDE DEF L, k, t, u
<1>5. Lawful(H2, L, u)
  BY <1>1, <1>2, <1>3, LawfulStays
<1>6. \A x \in Nat : x > u => K2[n][x] = 0
  BY <1>1, <1>3
<1>7. Keep(H, K, L, n, u + 1)
  <2> SUFFICES ASSUME NEW x \in Nat, NEW a \in Nat, x < u + 1, a <= K[n][x], Own(H, x, a),
                      Choosable(K, x, a)
               PROVE  Agree(L, H[x], a)
    BY DEF Keep
  <2>1. a # 0
    BY DEF Own
  <2>2. K[n][x] # 0
    BY <1>2, <2>1, AckOf
  <2>3. x < t + 1
    BY <1>1, <1>3, <2>2
  <2> QED
    BY <1>3, <2>3 DEF Keep
<1>8. KeepNext(H2, K2, L, n, u + 1)
  BY <1>1, <1>7, KeepStays
<1>9. Backed(H2, K2, L, k, u, K2[n][u])
  <2>1. K[n][t] \in Nat /\ K[n][u] \in Nat /\ K2[n][u] = K[n][u] /\ K2[n][t] = K[n][t]
    BY <1>1, <1>2, AckOf
  <2>2. Backed(H2, K2, L, k, t, K2[n][t])
    BY <1>1, <1>3, <2>1, BackedStays
  <2>3. CASE t = u
    BY <2>2, <2>3
  <2>4. CASE t < u
    BY <1>1, <2>2, <2>4, BackedLater
  <2> QED
    BY <1>1, <2>3, <2>4
<1>10. /\ state'[n].applied = state'[n].commit_index
       /\ Backed(H2, K2, state'[n].log, state'[n].commit_index, state'[n].term,
                 K2[n][state'[n].term])
  BY <1>3, <1>4, <1>9 DEF k
<1>11. Keep(H2, K2, state[n].log, n, state[n].term + 1)'
  BY <1>4, <1>8 DEF u, Keep, KeepNext
<1> QED
  BY <1>4, <1>5, <1>6, <1>10, <1>11 DEF NodeOK

\* What a step does not change: a node other than its own keeps its role.
LEMMA LeaderStays ==
    ASSUME NEW m, NEW H, NEW I, NEW K, NEW H2, NEW I2, NEW K2, Before(m, H, I, K, H2, I2, K2),
           ElectionSafety', NEW n \in Server, n # m, LeaderOK(H, K, n)
    PROVE  LeaderOK(H2, K2, n)'
<1>1. state'[n] = state[n] /\ state[n].term \in Nat /\ elected \subseteq elected'
  BY NodeFacts DEF Before, Change
<1>2. K2[n][state[n].term] = K[n][state[n].term]
  BY <1>1 DEF Before, Change
<1>3. ASSUME state[n].role = "Leader"
      PROVE  H2[state[n].term] = H[state[n].term]
  <2>1. <<state[n].term, n>> \in elected'
    BY <1>1, <1>3 DEF LeaderOK
  <2>2. <<state[n].term, m>> \notin elected'
    BY <2>1 DEF ElectionSafety
  <2> QED
    BY <1>1, <2>2 DEF Before, Change
<1>4. \A e \in elected' : e[2] = n => e \in elected
  BY DEF Before, Change
<1> QED
  BY <1>1, <1>2, <1>3, <1>4 DEF LeaderOK

\* The majority that elected the leader of a term has reached that term.
Reached(t) ==
    \E Q \in SUBSET Server : Cardinality(Q) >= Majority /\ \A q \in Q : state[q].term >= t

LEMMA ElectedReached ==
    ASSUME ElectionInv, NEW e \in elected
    PROVE  Reached(e[1])
<1>1. PICK f : Electorate(f)
  BY DEF ElectionInv
<1>2. f[e] \in SUBSET Server /\ Cardinality(f[e]) >= Majority
  BY <1>1 DEF Electorate
<1>3. ASSUME NEW v \in f[e] PROVE state[v].term >= e[1]
  <2>1. v \in Server /\ state[v].term \in Nat /\ e[1] \in Nat
    BY <1>2, NodeFacts, ElectedFacts DEF ElectionInv
  <2>2. Bound(state[v], e[1], e[2])
    BY <1>1 DEF Electorate
  <2> QED
    BY <2>1, <2>2 DEF Bound
<1> QED
  BY <1>2, <1>3 DEF Reached

\* An entry that a deposed leader appends cannot be chosen any more.
LEMMA CoverStays ==
    ASSUME NEW m, NEW H, NEW I, NEW K, NEW H2, NEW I2, NEW K2, Before(m, H, I, K, H2, I2, K2),
           Histories(H2, I2, K2)', Cover(H, I, K), NEW e \in elected, Reached(e[1])',
           NEW t \in Nat, NEW a \in Nat, t < e[1], Own(H2, t, a), Choosable(K2, t, a)'
    PROVE  Agree(I2[e[1]], H2[t], a)
<1>1. Logs(H) /\ Logs(I) /\ Logs(H2) /\ Grown(H, H2)
  BY Grows DEF Before, Histories
<1>2. e[1] \in Nat /\ I2[e[1]] = I[e[1]]
  BY ElectedFacts, Grows DEF Before
<1>3. CASE a <= Len(H[t])
  <2>1. Own(H, t, a)
    BY <1>1, <1>3, OwnBefore
  <2>2. Agree(I[e[1]], H[t], a)
    BY <2>1, ChoosableBefore DEF Cover
  <2>3. I[e[1]] \in Seq(Entry)
    BY <1>1, <1>2, LogOf
  <2> QED
    BY <1>1, <1>2, <2>2, <2>3, AgreeStays
<1>4. CASE ~(a <= Len(H[t]))
  <2>1. PICK Q \in SUBSET Server :
           Cardinality(Q) >= Majority /\ \A q \in Q : K2[q][t] >= a \/ state'[q].term <= t
    BY DEF Choosable
  <2>2. PICK R \in SUBSET Server : Cardinality(R) >= Majority /\ \A q \in R : state'[q].term >= e[1]
    BY DEF Reached
  <2>3. PICK q \in Q : q \in R
    BY <2>1, <2>2, MajoritiesMeet
  <2>4. q \in Server /\ state'[q].term \in Nat
    BY NextNodeFacts DEF Before
  <2>5. K2[q][t] >= a
    BY <1>2, <2>1, <2>2, <2>3, <2>4
  <2>6. K2[q][t] # K[q][t]
    <3>1. K[q][t] <= Len(H[t]) /\ K[q][t] \in Nat
      BY <2>4, AckOf DEF Before, Histories
    <3>2. H[t] \in Seq(Entry)
      BY <1>1, LogOf
    <3>3. Len(H[t]) \in Nat
      BY <3>2
    <3> QED
      BY <1>4, <2>5, <3>1, <3>3
  <2>7. t = state'[q].term
    BY <2>4, <2>6 DEF Before, Change
  <2> QED
    BY <1>2, <2>2, <2>3, <2>4, <2>7
<1> QED
  BY <1>3, <1>4

\* A candidate's round of a term that all who voted have reached.
LEMMA VoteRoundStays ==
    ASSUME NEW m, NEW H, NEW I, NEW K, NEW H2, NEW I2, NEW K2, Before(m, H, I, K, H2, I2, K2),
           Ballots, NEW n \in Server, VoteRound(H, K, n), pc[n] = "vote",
           rnd'[n].term = rnd[n].term, rnd'[n].log = rnd[n].log,
           \A v \in rnd'[n].votes \ rnd[n].votes :
              /\ v \in Server /\ state'[v].term >= rnd[n].term
              /\ Keep(H, K, rnd[n].log, v, rnd[n].term),
           \/ n # m
           \/ state'[n].role # "Candidate"
           \/ state'[n].role = state[n].role /\ state'[n].term = state[n].term
              /\ state'[n].log = state[n].log
    PROVE  VoteRound(H2, K2, n)'
<1>1. rnd[n].term \in Nat /\ rnd[n].log \in Seq(Entry) /\ rnd[n].votes \subseteq Server
  BY DEF Before, TypeInv, TypeOK, Round
<1>2. Logs(H) /\ Logs(H2) /\ Grown(H, H2)
  BY Grows DEF Before, Histories
<1>3. Lawful(H2, rnd[n].log, rnd[n].term)
  BY <1>1, <1>2, LawfulStays DEF VoteRound
<1>4. state'[n].role = "Candidate" /\ state'[n].term = rnd[n].term => state'[n].log = rnd[n].log
  BY DEF VoteRound, Before, Change
<1>5. ASSUME NEW v \in rnd'[n].votes
      PROVE  Keep(H2, K2, rnd[n].log, v, rnd[n].term)'
  <2>1. v \in Server /\ state[v].term \in Nat /\ state'[v].term \in Nat
    BY <1>1, NodeFacts, NextNodeFacts DEF Before
  <2>2. v \in rnd[n].votes => state[v].term >= rnd[n].term
    BY <1>1, <2>1 DEF Ballots, Bound
  <2>3. state'[v].term >= rnd[n].term
    BY <1>1, <2>1, <2>2, Grows
  <2>4. \A t \in Nat : t < rnd[n].term => K2[v][t] = K[v][t]
    <3> SUFFICES ASSUME NEW t \in Nat, t < rnd[n].term PROVE K2[v][t] = K[v][t]
      OBVIOUS
    <3>1. t # state'[v].term
      BY <1>1, <2>1, <2>3
    <3> QED
      BY <2>1, <3>1 DEF Before, Change
  <2>5. Keep(H, K, rnd[n].log, v, rnd[n].term)
    BY DEF VoteRound
  <2> DEFINE L == rnd[n].log
             u == rnd[n].term
  <2>6. L \in Seq(Entry) /\ u \in Nat /\ Keep(H, K, L, v, u) /\ L = rnd'[n].log /\ u = rnd'[n].term
        /\ \A t \in Nat : t < u => K2[v][t] = K[v][t]
    BY <1>1, <2>4, <2>5
  <2> HIDE DEF L, u
  <2>7. KeepNext(H2, K2, L, v, u)
    BY <2>1, <2>6, KeepStays
  <2> QED
    BY <2>6, <2>7 DEF Keep, KeepNext
<1> QED
  BY <1>3, <1>4, <1>5 DEF VoteRound

LEMMA RoundFacts ==
    ASSUME TypeInv, NEW n \in Server
    PROVE  /\ rnd[n] \in Round /\ rnd[n].term \in Nat /\ rnd[n].log \in Seq(Entry)
           /\ rnd[n].commit \in Nat /\ rnd[n].todo \subseteq Server /\ rnd[n].seen \in Nat
           /\ rnd[n].votes \subseteq Server /\ \A q \in Server : rnd[n].lens[q] \in Nat
  BY DEF TypeInv, TypeOK, Round

LEMMA MessageFacts ==
    ASSUME NEW m \in VoteRequest \cup AppendRequest
    PROVE  /\ m.term \in Nat
           /\ m.kind \in {"append", "requestvote"}
           /\ m.kind = "append" => /\ m \in AppendRequest
                                   /\ m.entries \in Seq(Entry) /\ m.commit \in Nat
           /\ m.kind = "requestvote" => m \in VoteRequest
  BY DEF VoteRequest, AppendRequest

LEMMA LensStay ==
    ASSUME NEW m, NEW H, NEW I, NEW K, NEW H2, NEW I2, NEW K2, Before(m, H, I, K, H2, I2, K2),
           NEW q \in Server, NEW t \in Nat, NEW l \in Nat, l <= K[q][t]
    PROVE  l <= K2[q][t]
<1>1. K[q][t] \in Nat /\ K2[q][t] \in Nat
  BY AckOf DEF Before, Histories
<1>2. K[q][t] <= K2[q][t]
  BY Grows
<1> QED
  BY <1>1, <1>2

LEMMA AppendRoundStays ==
    ASSUME NEW m, NEW H, NEW I, NEW K, NEW H2, NEW I2, NEW K2, Before(m, H, I, K, H2, I2, K2),
           NEW n \in Server, AppendRound(H, I, K, n), pc[n] = "append",
           rnd'[n].term = rnd[n].term, rnd'[n].log = rnd[n].log,
           rnd'[n].commit = rnd[n].commit, rnd'[n].todo \subseteq rnd[n].todo,
           \A q \in Server : rnd'[n].lens[q] <= K2[q][rnd[n].term]
    PROVE  AppendRound(H2, I2, K2, n)'
<1>1. rnd[n].term \in Nat /\ rnd[n].log \in Seq(Entry) /\ rnd[n].commit \in Nat
  BY RoundFacts DEF Before
<1>2. <<rnd[n].term, n>> \in elected /\ n \notin rnd'[n].todo
  BY DEF AppendRound
<1>3. Won(rnd[n].term)
  BY <1>2 DEF Won
<1>4. Sent(H2, I2, K2, rnd[n].log, rnd[n].commit, rnd[n].term)
  BY <1>1, <1>3, SentStays DEF AppendRound
<1>5. <<rnd[n].term, n>> \in elected'
  BY <1>2 DEF Before, Change
<1> QED
  BY <1>2, <1>4, <1>5 DEF AppendRound

LEMMA RoundOrderStays ==
    ASSUME NEW m, NEW H, NEW I, NEW K, NEW H2, NEW I2, NEW K2, Before(m, H, I, K, H2, I2, K2),
           NEW n \in Server, RoundOrder(K, n), pc[n] = "append",
           rnd'[n].term = rnd[n].term, rnd'[n].log = rnd[n].log,
           rnd'[n].todo \subseteq rnd[n].todo,
           m \in rnd'[n].todo /\ state'[m].term = rnd[n].term
              => K2[m][rnd[n].term] <= Len(rnd[n].log),
           \A p \in rnd'[n].todo : \A i \in 1 .. Len(inbox'[p]) :
              AtMost(inbox'[p][i], rnd[n].term, Len(rnd[n].log))
    PROVE  RoundOrder(K2, n)'
<1>1. rnd[n].term \in Nat /\ rnd[n].todo \subseteq Server
  BY RoundFacts DEF Before
<1>2. ASSUME NEW p \in rnd'[n].todo PROVE K2[p][rnd[n].term] <= Len(rnd[n].log)
  <2>1. K[p][rnd[n].term] <= Len(rnd[n].log)
    BY DEF RoundOrder
  <2>2. CASE p = m /\ state'[m].term = rnd[n].term
    BY <1>2, <2>2
  <2>3. CASE ~(p = m /\ state'[m].term = rnd[n].term)
    BY <1>1, <2>1, <2>3 DEF Before, Change
  <2> QED
    BY <2>2, <2>3
<1> QED
  BY <1>2 DEF RoundOrder

\* box2 is what remains of box when its first d messages are gone.
Rest(box, box2, d) ==
    Len(box2) + d = Len(box) /\ \A i \in 1 .. Len(box2) : box2[i] = box[i + d]

\* A queue keeps its messages, has its first one taken, or is lost.
Serves(box, box2) ==
    box2 = box \/ (box # <<>> /\ box2 = Tail(box)) \/ box2 = <<>>

LEMMA RestOf ==
    ASSUME NEW M, NEW box \in Seq(M), NEW box2, Serves(box, box2)
    PROVE  box2 \in Seq(M) /\ \E d \in Nat : Rest(box, box2, d)
<1>1. CASE box2 = box
  <2>1. Rest(box, box2, 0)
    BY <1>1 DEF Rest
  <2> QED
    BY <1>1, <2>1
<1>2. CASE box # <<>> /\ box2 = Tail(box)
  <2>1. Rest(box, box2, 1)
    BY <1>2 DEF Rest
  <2> QED
    BY <1>2, <2>1
<1>3. CASE box2 = <<>>
  <2>1. Rest(box, box2, Len(box)) /\ Len(box) \in Nat
    BY <1>3 DEF Rest
  <2> QED
    BY <1>3, <2>1
<1> QED
  BY <1>1, <1>2, <1>3 DEF Serves

LEMMA QueueStays ==
    ASSUME NEW m, NEW H, NEW I, NEW K, NEW H2, NEW I2, NEW K2, Before(m, H, I, K, H2, I2, K2),
           ElectionSafety', NEW p \in Server, Queue(H, I, K, p), Serves(inbox[p], inbox'[p]),
           p = m => \A i \in 1 .. Len(inbox'[p]) :
                       AtLeast(inbox'[p][i], state'[m].term, K2[m][state'[m].term])
    PROVE  Queue(H2, I2, K2, p)'
<1> DEFINE box  == inbox[p]
           box2 == inbox'[p]
<1>1. box \in Seq(VoteRequest \cup AppendRequest)
  BY DEF Before, TypeInv, TypeOK
<1>2. PICK d \in Nat : Rest(box, box2, d)
  BY <1>1, RestOf
<1>3. box2 \in Seq(VoteRequest \cup AppendRequest)
  BY <1>1, RestOf
<1> HIDE DEF box, box2
<1>4. Len(box) \in Nat /\ Len(box2) \in Nat
  BY <1>1, <1>3
<1>5. \A i \in 1 .. Len(box2) : i + d \in 1 .. Len(box) /\ box2[i] = box[i + d]
  BY <1>2, <1>4 DEF Rest
<1>6. ASSUME NEW i \in 1 .. Len(box2), box2[i].kind = "append"
      PROVE  /\ (\E e \in elected' : e[1] = box2[i].term) /\ <<box2[i].term, p>> \notin elected'
             /\ Sent(H2, I2, K2, box2[i].entries, box2[i].commit, box2[i].term)
             /\ K2[p][box2[i].term] <= Len(box2[i].entries)
             /\ \A j \in i .. Len(box2) : AtLeast(box2[j], box2[i].term, Len(box2[i].entries))
  <2> PICK x : x = box2[i]
    OBVIOUS
  <2>1. x = box[i + d] /\ i + d \in 1 .. Len(box) /\ x.kind = "append"
    BY <1>5, <1>6
  <2>2. x \in VoteRequest \cup AppendRequest
    BY <1>1, <2>1
  <2>3. x.term \in Nat /\ x.entries \in Seq(Entry) /\ x.commit \in Nat
    BY <2>1, <2>2, MessageFacts
  <2>4. /\ Won(x.term) /\ <<x.term, p>> \notin elected
        /\ Sent(H, I, K, x.entries, x.commit, x.term)
        /\ K[p][x.term] <= Len(x.entries)
        /\ \A j \in i + d .. Len(box) : AtLeast(box[j], x.term, Len(x.entries))
    BY <2>1 DEF Queue, box
  <2>5. (\E e \in elected' : e[1] = x.term) /\ Sent(H2, I2, K2, x.entries, x.commit, x.term)
    <3>1. Sent(H2, I2, K2, x.entries, x.commit, x.term)
      BY <2>3, <2>4, SentStays
    <3>2. elected \subseteq elected'
      BY DEF Before, Change
    <3> QED
      BY <2>4, <3>1, <3>2 DEF Won
  <2>6. <<x.term, p>> \notin elected'
    <3> SUFFICES ASSUME <<x.term, p>> \in elected' PROVE FALSE
      OBVIOUS
    <3>1. <<x.term, p>>[1] = x.term
      OBVIOUS
    <3> QED
      BY <2>4, <3>1 DEF Before, Change
  <2>7. K2[p][x.term] <= Len(x.entries)
    <3>1. CASE p = m /\ x.term = state'[m].term
      BY <2>1, <3>1 DEF AtLeast, AppendOf, box2
    <3>2. CASE ~(p = m /\ x.term = state'[m].term)
      BY <2>3, <2>4, <3>2 DEF Before, Change
    <3> QED
      BY <3>1, <3>2
  <2>8. ASSUME NEW j \in i .. Len(box2) PROVE AtLeast(box2[j], x.term, Len(x.entries))
    <3>1. j \in 1 .. Len(box2) /\ j + d \in i + d .. Len(box)
      BY <1>2, <1>4 DEF Rest
    <3> QED
      BY <1>5, <2>4, <3>1
  <2> QED
    BY <2>4, <2>5, <2>6, <2>7, <2>8
<1> QED
  BY <1>6 DEF Queue, Won, box2

\* Nothing longer than before waits in a queue that only serves.
LEMMA AtMostStays ==
    ASSUME TypeInv, NEW p \in Server, Serves(inbox[p], inbox'[p]), NEW t, NEW l,
           \A i \in 1 .. Len(inbox[p]) : AtMost(inbox[p][i], t, l)
    PROVE  \A i \in 1 .. Len(inbox'[p]) : AtMost(inbox'[p][i], t, l)
<1> DEFINE box  == inbox[p]
           box2 == inbox'[p]
<1>1. box \in Seq(VoteRequest \cup AppendRequest)
  BY DEF TypeInv, TypeOK
<1>2. PICK d \in Nat : Rest(box, box2, d)
  BY <1>1, RestOf
<1>3. box2 \in Seq(VoteRequest \cup AppendRequest)
  BY <1>1, RestOf
<1> HIDE DEF box, box2
<1>4. \A i \in 1 .. Len(box2) : i + d \in 1 .. Len(box) /\ box2[i] = box[i + d]
  BY <1>1, <1>2, <1>3 DEF Rest
<1> QED
  BY <1>4 DEF box, box2

(**************************** steps that are quiet **************************)

LEMMA ElectionImplies ==
    ElectionInv => ElectionSafety /\ \A e \in elected : Reached(e[1])
  BY ElectionInvImplies, ElectedReached

LEMMA NextElection ==
    ASSUME ElectionInv, [Next]_vars
    PROVE  /\ ElectionInv' /\ TypeInv /\ TypeInv' /\ Ballots /\ ElectionSafety /\ ElectionSafety'
           /\ \A e \in elected' : Reached(e[1])'
           /\ \A n \in Server : state[n].term <= state'[n].term
<1>1. ElectionInv' /\ TypeInv /\ Ballots /\ ElectionSafety
  BY ElectionStep, ElectionInvImplies DEF ElectionInv
<1>2. TypeInv' /\ \A n \in Server : state[n].term <= state'[n].term
  BY <1>1, NextType DEF KeepsAll, Keeps
<1>3. (ElectionInv => ElectionSafety /\ \A e \in elected : Reached(e[1]))'
  BY ElectionImplies, PTL
<1> QED
  BY <1>1, <1>2, <1>3

\* A step of node m that elects nobody and after which H, I and K stand.
LEMMA QuietBefore ==
    ASSUME ElectionInv, [Next]_vars, NEW H, NEW I, NEW K, Histories(H, I, K), NEW m \in Server,
           \A n \in Server \ {m} : state'[n] = state[n], elected' = elected
    PROVE  Before(m, H, I, K, H, I, K) /\ Histories(H, I, K)'
<1>1. TypeInv /\ TypeInv' /\ state[m].term <= state'[m].term
  BY NextElection
<1>2. state'[m].term \in Nat
  BY <1>1, NextNodeFacts
<1>3. H[state'[m].term] \in Seq(Entry) /\ K[m][state'[m].term] \in Nat
  BY <1>2, LogOf, AckOf DEF Histories
<1>4. Agree(H[state'[m].term], H[state'[m].term], Len(H[state'[m].term]))
  BY <1>3, AgreeSelf
<1>5. Change(m, H, I, K, H, I, K)
  BY <1>1, <1>3, <1>4 DEF Change
<1> QED
  BY <1>1, <1>5 DEF Before, Histories, Won

\* n's round, if it goes on, goes on as it was, but for calls that are over.
SameRound(n) ==
    pc'[n] \in {"vote", "append"} =>
        /\ pc[n] = pc'[n]
        /\ rnd'[n].term = rnd[n].term /\ rnd'[n].log = rnd[n].log
        /\ rnd'[n].commit = rnd[n].commit /\ rnd'[n].votes = rnd[n].votes
        /\ rnd'[n].lens = rnd[n].lens /\ rnd'[n].todo \subseteq rnd[n].todo

\* A candidate that n is after the step it was before, with its log.
SameCandidate(n) ==
    pc'[n] = "vote" =>
        \/ state'[n].role # "Candidate"
        \/ state'[n].role = state[n].role /\ state'[n].term = state[n].term
           /\ state'[n].log = state[n].log

LEMMA RoundsStay ==
    ASSUME NEW m, NEW H, NEW I, NEW K, NEW H2, NEW I2, NEW K2, Before(m, H, I, K, H2, I2, K2),
           Ballots, NEW n \in Server,
           VoteRound(H, K, n), AppendRound(H, I, K, n), RoundOrder(K, n), SameRound(n),
           n # m \/ SameCandidate(n),
           \A p \in Server : Serves(inbox[p], inbox'[p]),
           pc[n] = "append" /\ m \in rnd[n].todo /\ state'[m].term = rnd[n].term
              => K2[m][rnd[n].term] <= Len(rnd[n].log)
    PROVE  VoteRound(H2, K2, n)' /\ AppendRound(H2, I2, K2, n)' /\ RoundOrder(K2, n)'
<1>1. VoteRound(H2, K2, n)'
  <2>1. CASE pc'[n] = "vote"
    BY <2>1, VoteRoundStays DEF SameRound, SameCandidate
  <2>2. CASE pc'[n] # "vote"
    BY <2>2 DEF VoteRound
  <2> QED
    BY <2>1, <2>2
<1>2. CASE pc'[n] = "append"
  <2>1. /\ pc[n] = "append" /\ rnd'[n].term = rnd[n].term /\ rnd'[n].log = rnd[n].log
        /\ rnd'[n].commit = rnd[n].commit /\ rnd'[n].lens = rnd[n].lens
        /\ rnd'[n].todo \subseteq rnd[n].todo
    BY <1>2 DEF SameRound
  <2>2. rnd[n].term \in Nat /\ rnd[n].todo \subseteq Server /\ \A q \in Server : rnd[n].lens[q] \in Nat
    BY RoundFacts DEF Before
  <2>3. \A q \in Server : rnd'[n].lens[q] <= K2[q][rnd[n].term]
    BY <2>1, <2>2, LensStay DEF AppendRound
  <2>4. AppendRound(H2, I2, K2, n)'
    BY <2>1, <2>3, AppendRoundStays
  <2>5. ASSUME NEW p \in rnd'[n].todo
        PROVE  \A i \in 1 .. Len(inbox'[p]) : AtMost(inbox'[p][i], rnd[n].term, Len(rnd[n].log))
    <3>1. p \in Server /\ p \in rnd[n].todo
      BY <2>1, <2>2
    <3>2. \A i \in 1 .. Len(inbox[p]) : AtMost(inbox[p][i], rnd[n].term, Len(rnd[n].log))
      BY <2>1, <3>1 DEF RoundOrder
    <3> QED
      BY <3>1, <3>2, AtMostStays DEF Before
  <2>6. RoundOrder(K2, n)'
    BY <2>1, <2>5, RoundOrderStays
  <2> QED
    BY <1>1, <2>4, <2>6
<1>3. CASE pc'[n] # "append"
  BY <1>1, <1>3 DEF AppendRound, RoundOrder
<1> QED
  BY <1>2, <1>3

\* A node whose log and commit index stay, and that does not come to lead.
LEMMA MovedNode ==
    ASSUME NEW m, NEW H, NEW I, NEW K, Before(m, H, I, K, H, I, K), elected' = elected,
           NodeOK(H, K, m), LeaderOK(H, K, m),
           state'[m].log = state[m].log, state'[m].commit_index = state[m].commit_index,
           state'[m].applied = state[m].applied,
           state'[m].role = "Leader" => state[m].role = "Leader" /\ state'[m].term = state[m].term,
           state'[m].role = "Candidate" =>
              state[m].role = "Candidate" \/ state'[m].term = state[m].term + 1
    PROVE  NodeOK(H, K, m)' /\ LeaderOK(H, K, m)'
<1>1. /\ m \in Server /\ state[m].term \in Nat /\ state'[m].term \in Nat
      /\ state[m].term <= state'[m].term
  BY NodeFacts, NextNodeFacts DEF Before, Change
<1>2. NodeOK(H, K, m)'
  BY <1>1, NodeStays
<1>3. \A e \in elected : e[2] = m =>
         e[1] < state'[m].term \/ (e[1] = state'[m].term /\ state'[m].role # "Candidate")
  <2> SUFFICES ASSUME NEW e \in elected, e[2] = m
               PROVE  e[1] < state'[m].term \/ (e[1] = state'[m].term /\ state'[m].role # "Candidate")
    OBVIOUS
  <2>1. e[1] \in Nat
    BY ElectedFacts DEF Before
  <2> QED
    BY <1>1, <2>1 DEF LeaderOK
<1> QED
  BY <1>2, <1>3 DEF LeaderOK

\* What remains to be shown of a quiet step: its own node.
LEMMA QuietInv ==
    ASSUME ElectionInv, [Next]_vars, NEW H, NEW I, NEW K, LogInv(H, I, K), NEW m \in Server,
           \A n \in Server \ {m} : state'[n] = state[n], elected' = elected,
           NodeOK(H, K, m)', LeaderOK(H, K, m)',
           \A n \in Server : VoteRound(H, K, n)' /\ AppendRound(H, I, K, n)' /\ RoundOrder(K, n)',
           \A p \in Server : Queue(H, I, K, p)'
    PROVE  LogInv(H, I, K)'
<1>1. Before(m, H, I, K, H, I, K) /\ Histories(H, I, K)' /\ ElectionSafety'
  BY QuietBefore, NextElection DEF LogInv
<1>2. Cover(H, I, K)'
  <2> SUFFICES ASSUME NEW e \in elected', NEW t \in Nat, NEW a \in Nat, t < e[1], Own(H, t, a),
                      Choosable(K, t, a)'
               PROVE  Agree(I[e[1]], H[t], a)
    BY DEF Cover
  <2>1. Reached(e[1])'
    BY NextElection
  <2> QED
    BY <1>1, <2>1, CoverStays DEF LogInv
<1>3. ASSUME NEW n \in Server PROVE NodeOK(H, K, n)' /\ LeaderOK(H, K, n)'
  <2>1. CASE n = m
    BY <2>1
  <2>2. CASE n # m
    <3>1. state'[n] = state[n]
      BY <2>2
    <3> QED
      BY <1>1, <2>2, <3>1, NodeStays, LeaderStays DEF LogInv
  <2> QED
    BY <2>1, <2>2
<1> QED
  BY <1>1, <1>2, <1>3 DEF LogInv

LEMMA SameQueues ==
    ASSUME ElectionInv, [Next]_vars, NEW H, NEW I, NEW K, LogInv(H, I, K), NEW m \in Server,
           \A n \in Server \ {m} : state'[n] = state[n], elected' = elected,
           NEW p \in Server, Serves(inbox[p], inbox'[p])
    PROVE  Queue(H, I, K, p)'
<1>1. Before(m, H, I, K, H, I, K) /\ ElectionSafety'
  BY QuietBefore, NextElection DEF LogInv
<1>2. Queue(H, I, K, p)
  BY DEF LogInv
<1>3. ASSUME NEW i \in 1 .. Len(inbox'[p])
      PROVE  AtLeast(inbox'[p][i], state'[p].term, K[p][state'[p].term])
  <2>1. inbox[p] \in Seq(VoteRequest \cup AppendRequest)
    BY <1>1 DEF Before, TypeInv, TypeOK
  <2>2. PICK d \in Nat : Rest(inbox[p], inbox'[p], d)
    BY <2>1, RestOf
  <2>3. inbox'[p] \in Seq(VoteRequest \cup AppendRequest)
    BY <2>1, RestOf
  <2>4. i + d \in 1 .. Len(inbox[p]) /\ inbox'[p][i] = inbox[p][i + d]
    BY <2>1, <2>2, <2>3 DEF Rest
  <2> QED
    BY <1>2, <2>4 DEF Queue, AtLeast, AppendOf
<1> QED
  BY <1>1, <1>2, <1>3, QueueStays

\* The steps of node m in which a round may end or lose a call, a queue may be
\* served or lost, and no log or commit index changes.
LEMMA IdleInv ==
    ASSUME ElectionInv, [Next]_vars, NEW H, NEW I, NEW K, LogInv(H, I, K), NEW m \in Server,
           \A n \in Server \ {m} : state'[n] = state[n], elected' = elected,
           NodeOK(H, K, m)', LeaderOK(H, K, m)',
           \A n \in Server : SameRound(n), SameCandidate(m),
           \A p \in Server : Serves(inbox[p], inbox'[p])
    PROVE  LogInv(H, I, K)'
<1>1. Before(m, H, I, K, H, I, K) /\ Ballots
  BY QuietBefore, NextElection DEF LogInv
<1>2. ASSUME NEW n \in Server
      PROVE  VoteRound(H, K, n)' /\ AppendRound(H, I, K, n)' /\ RoundOrder(K, n)'
  <2>1. VoteRound(H, K, n) /\ AppendRound(H, I, K, n) /\ RoundOrder(K, n)
    BY DEF LogInv
  <2>2. pc[n] = "append" /\ m \in rnd[n].todo => K[m][rnd[n].term] <= Len(rnd[n].log)
    BY <2>1 DEF RoundOrder
  <2> QED
    BY <1>1, <2>1, <2>2, RoundsStay
<1> QED
  BY <1>2, QuietInv, SameQueues

(****************************** the handlers *******************************)

\* apply() leaves what it applies alone, and catches up with the commit index.
LEMMA ApplyLog ==
    ASSUME NEW s \in NodeState
    PROVE  /\ Apply(s).log = s.log /\ Apply(s).term = s.term /\ Apply(s).role = s.role
           /\ Apply(s).voted_for = s.voted_for /\ Apply(s).commit_index = s.commit_index
           /\ s.applied <= s.commit_index => Apply(s).applied = s.commit_index
<1> DEFINE new        == s.applied + 1 .. Min({s.commit_index, Len(s.log)})
           touches(k) == {i \in new : s.log[i].cmd.op # "noop" /\ s.log[i].cmd.key = k}
           effect(c)  == IF c.op = "set" THEN c.val ELSE Nil
           kv   == [k \in Key |-> IF touches(k) = {} THEN s.kv[k]
                                  ELSE effect(s.log[Max(touches(k))].cmd)]
           done == Max({s.applied, s.commit_index})
<1>1. s.applied \in Nat /\ s.commit_index \in Nat
  BY DEF NodeState
<1>2. Apply(s) = [s EXCEPT !.kv = kv, !.applied = done]
  BY DEF Apply, NodeState
<1>3. s.applied <= s.commit_index => done = s.commit_index
  BY <1>1, MaxOfTwo
<1> HIDE DEF kv, done
<1> QED
  BY <1>2, <1>3 DEF NodeState

\* A vote request moves the term, the vote and the role, and makes no leader.
LEMMA RequestVoteLog ==
    ASSUME NEW s \in NodeState, NEW m \in VoteRequest, NEW t, t = OnRequestVote(s, m)
    PROVE  /\ t.log = s.log /\ t.commit_index = s.commit_index /\ t.applied = s.applied
           /\ t.role = "Follower" \/ (t.role = s.role /\ t.term = s.term)
<1> DEFINE a == IF m.term > s.term THEN StepDown(s, m.term) ELSE s
<1>1. /\ a.log = s.log /\ a.commit_index = s.commit_index /\ a.applied = s.applied
      /\ a.role = "Follower" \/ (a.role = s.role /\ a.term = s.term)
      /\ a \in NodeState
  BY DEF StepDown, NodeState, VoteRequest
<1>2. t = IF MayGrant(a, m) THEN [a EXCEPT !.voted_for = m.from] ELSE a
  BY DEF OnRequestVote
<1> HIDE DEF a
<1> QED
  BY <1>1, <1>2 DEF NodeState

\* What a node is after a restart.
LEMMA RecoverLog ==
    ASSUME TypeInv, Saved, NEW n \in Server, NEW H, Lawful(H, state[n].log, state[n].term),
           NEW s, s = Recover(disk[n])
    PROVE  /\ s.log = state[n].log /\ s.commit_index = state[n].commit_index
           /\ s.term = state[n].term /\ s.voted_for = state[n].voted_for
           /\ s.applied = s.commit_index /\ s.role = "Follower"
<1> DEFINE d == disk[n]
           a == [term |-> d.term, role |-> "Follower", voted_for |-> d.voted_for,
                 log |-> Wire(d.log), commit_index |-> d.commit_index,
                 applied |-> 0, kv |-> [k \in Key |-> Nil]]
<1>1. /\ d.term = state[n].term /\ d.log = state[n].log /\ d.voted_for = state[n].voted_for
      /\ d.commit_index = state[n].commit_index /\ d \in Durable
  BY DEF Saved, Persist, TypeInv, TypeOK
<1>2. Wire(d.log) = d.log
  BY <1>1, NodeFacts, WireLawful DEF Lawful
<1>3. s = Apply(a)
  BY DEF Recover
<1>4. /\ a \in NodeState /\ a.log = d.log /\ a.commit_index = d.commit_index /\ a.term = d.term
      /\ a.applied = 0 /\ a.role = "Follower" /\ a.commit_index \in Nat /\ a.voted_for = d.voted_for
  BY <1>1, <1>2, NodeFacts DEF NodeState, Durable
<1> HIDE DEF a, d
<1> QED
  BY <1>1, <1>3, <1>4, ApplyLog

(**************************** one action at a time *************************)

\* Steps that leave every node's state alone.
LEMMA StillNode ==
    ASSUME ElectionInv, [Next]_vars, NEW H, NEW I, NEW K, LogInv(H, I, K),
           NEW m \in Server, state' = state, elected' = elected
    PROVE  NodeOK(H, K, m)' /\ LeaderOK(H, K, m)' /\ SameCandidate(m)
<1>1. Before(m, H, I, K, H, I, K)
  BY QuietBefore DEF LogInv
<1> QED
  BY <1>1, MovedNode DEF LogInv, SameCandidate

LEMMA EndRoundSame ==
    ASSUME TypeInv, NEW m \in Server, EndRound(m), NEW n \in Server
    PROVE  SameRound(n)
  BY DEF EndRound, SameRound, TypeInv, TypeOK

LEMMA QueuesServe ==
    ASSUME UNCHANGED inbox PROVE \A p \in Server : Serves(inbox[p], inbox'[p])
  BY DEF Serves

LEMMA StillInv ==
    ASSUME ElectionInv, [Next]_vars, NEW H, NEW I, NEW K, LogInv(H, I, K), NEW n \in Server,
           \/ LeaderWake(n) \/ RoundStale(n) \/ ElectionLost(n)
           \/ \E p \in Server : CallRefused(n, p)
    PROVE  LogInv(H, I, K)'
<1>1. state' = state /\ elected' = elected /\ inbox' = inbox
  BY DEF LeaderWake, RoundStale, ElectionLost, CallRefused
<1>2. TypeInv
  BY NextElection
<1>3. \A k \in Server : SameRound(k)
  <2>1. CASE LeaderWake(n)
    BY <1>2, <2>1 DEF LeaderWake, SameRound, TypeInv, TypeOK
  <2>2. CASE RoundStale(n) \/ ElectionLost(n)
    BY <1>2, <2>2, EndRoundSame DEF RoundStale, ElectionLost
  <2>3. ASSUME NEW p \in Server, CallRefused(n, p) PROVE \A k \in Server : SameRound(k)
    <3>1. pc' = pc /\ rnd' = [rnd EXCEPT ![n].todo = @ \ {p}]
      BY <2>3 DEF CallRefused
    <3>2. /\ \A k \in Server \ {n} : rnd'[k] = rnd[k]
          /\ rnd'[n] = [rnd[n] EXCEPT !.todo = @ \ {p}]
      BY <1>2, <3>1 DEF TypeInv, TypeOK
    <3>3. rnd[n] \in Round
      BY <1>2, RoundFacts
    <3> QED
      BY <3>1, <3>2, <3>3 DEF SameRound, Round
  <2> QED
    BY <2>1, <2>2, <2>3
<1> QED
  BY <1>1, <1>3, StillNode, QueuesServe, IdleInv

\* The node's own state changes, by a handler that keeps the log and the commit
\* index; its round ends or goes on.
LEMMA MovedInv ==
    ASSUME ElectionInv, [Next]_vars, NEW H, NEW I, NEW K, LogInv(H, I, K), NEW m \in Server,
           NEW s, state' = [state EXCEPT ![m] = s], elected' = elected,
           s.log = state[m].log, s.commit_index = state[m].commit_index,
           s.applied = state[m].applied,
           s.role = "Follower" \/ (s.role = state[m].role /\ s.term = state[m].term),
           \A n \in Server : SameRound(n), \A p \in Server : Serves(inbox[p], inbox'[p])
    PROVE  LogInv(H, I, K)'
<1>1. /\ state'[m] = s /\ \A n \in Server \ {m} : state'[n] = state[n]
  BY NextElection DEF TypeInv, TypeOK
<1>2. Before(m, H, I, K, H, I, K)
  BY <1>1, QuietBefore DEF LogInv
<1>3. NodeOK(H, K, m)' /\ LeaderOK(H, K, m)'
  BY <1>1, <1>2, MovedNode DEF LogInv
<1>4. SameCandidate(m)
  BY <1>1 DEF SameCandidate
<1> QED
  BY <1>1, <1>3, <1>4, IdleInv

LEMMA DeposedInv ==
    ASSUME ElectionInv, [Next]_vars, NEW H, NEW I, NEW K, LogInv(H, I, K), NEW n \in Server,
           RoundDeposed(n)
    PROVE  LogInv(H, I, K)'
<1> DEFINE s == StepDown(state[n], rnd[n].seen)
<1>1. TypeInv /\ state[n] \in NodeState
  BY NextElection, NodeFacts
<1>2. /\ s.log = state[n].log /\ s.commit_index = state[n].commit_index
      /\ s.applied = state[n].applied /\ s.role = "Follower"
  BY <1>1 DEF StepDown, NodeState
<1>3. state' = [state EXCEPT ![n] = s] /\ elected' = elected /\ inbox' = inbox /\ EndRound(n)
  BY DEF RoundDeposed, Commit
<1> HIDE DEF s
<1> QED
  BY <1>1, <1>2, <1>3, MovedInv, EndRoundSame, QueuesServe

LEMMA GetInv ==
    ASSUME ElectionInv, [Next]_vars, NEW H, NEW I, NEW K, LogInv(H, I, K), NEW n \in Server,
           ClientGet(n)
    PROVE  LogInv(H, I, K)'
<1> DEFINE s == IF state[n].role = "Leader" THEN Apply(state[n]) ELSE state[n]
<1>1. TypeInv /\ state[n] \in NodeState /\ state[n].commit_index \in Nat
      /\ state[n].applied = state[n].commit_index
  BY NextElection, NodeFacts DEF LogInv, NodeOK
<1>2. /\ s.log = state[n].log /\ s.commit_index = state[n].commit_index
      /\ s.applied = state[n].applied /\ s.role = state[n].role /\ s.term = state[n].term
  BY <1>1, ApplyLog
<1>3. state' = [state EXCEPT ![n] = s]
  BY <1>1 DEF ClientGet, TypeInv, TypeOK
<1>4. elected' = elected /\ inbox' = inbox /\ pc' = pc /\ rnd' = rnd
  BY DEF ClientGet
<1> HIDE DEF s
<1>5. \A k \in Server : SameRound(k)
  BY <1>4 DEF SameRound
<1> QED
  BY <1>2, <1>3, <1>4, <1>5, MovedInv, QueuesServe

LEMMA RestartInv ==
    ASSUME ElectionInv, Saved, [Next]_vars, NEW H, NEW I, NEW K, LogInv(H, I, K),
           NEW n \in Server, Restart(n)
    PROVE  LogInv(H, I, K)'
<1> DEFINE s == Recover(disk[n])
<1>1. TypeInv
  BY NextElection
<1>2. Lawful(H, state[n].log, state[n].term) /\ state[n].applied = state[n].commit_index
  BY DEF LogInv, NodeOK
<1>3. state' = [state EXCEPT ![n] = s] /\ elected' = elected /\ EndRound(n)
      /\ inbox' = [inbox EXCEPT ![n] = <<>>]
  BY DEF Restart
<1> HIDE DEF s
<1>4. /\ s.log = state[n].log /\ s.commit_index = state[n].commit_index
      /\ s.applied = state[n].applied /\ s.role = "Follower"
  BY <1>1, <1>2, RecoverLog DEF s
<1>5. \A p \in Server : Serves(inbox[p], inbox'[p])
  BY <1>1, <1>3 DEF Serves, TypeInv, TypeOK
<1> QED
  BY <1>1, <1>3, <1>4, <1>5, MovedInv, EndRoundSame

LEMMA TimeoutInv ==
    ASSUME ElectionInv, [Next]_vars, NEW H, NEW I, NEW K, LogInv(H, I, K), NEW n \in Server,
           ElectionTimeout(n)
    PROVE  LogInv(H, I, K)'
<1> DEFINE s == [state[n] EXCEPT !.term = @ + 1, !.role = "Candidate", !.voted_for = n]
<1>1. TypeInv /\ state[n] \in NodeState /\ state[n].term \in Nat
  BY NextElection, NodeFacts
<1>2. /\ s.term = state[n].term + 1 /\ s.role = "Candidate" /\ s.log = state[n].log
      /\ s.commit_index = state[n].commit_index /\ s.applied = state[n].applied
  BY <1>1 DEF NodeState
<1>3. state' = [state EXCEPT ![n] = s] /\ elected' = elected /\ inbox' = inbox
  BY DEF ElectionTimeout, Commit
<1>4. /\ pc'[n] = "vote" /\ rnd'[n].term = s.term /\ rnd'[n].log = s.log /\ rnd'[n].votes = {n}
      /\ \A k \in Server \ {n} : rnd'[k] = rnd[k] /\ pc'[k] = pc[k]
  <2>1. rnd' = [rnd EXCEPT ![n] = [Idle EXCEPT !.term = s.term, !.log = s.log, !.seen = s.term,
                                               !.todo = Server \ {n}, !.votes = {n}]]
    BY DEF ElectionTimeout
  <2> HIDE DEF s
  <2> QED
    BY <1>1, <2>1 DEF ElectionTimeout, TypeInv, TypeOK, Idle
<1>5. state'[n] = s /\ \A k \in Server \ {n} : state'[k] = state[k]
  BY <1>1, <1>3 DEF TypeInv, TypeOK
<1> HIDE DEF s
<1>6. Before(n, H, I, K, H, I, K) /\ Ballots
  BY <1>3, <1>5, QuietBefore, NextElection DEF LogInv
<1>7. NodeOK(H, K, n)' /\ LeaderOK(H, K, n)'
  BY <1>2, <1>3, <1>5, <1>6, MovedNode DEF LogInv
<1>8. ASSUME NEW k \in Server \ {n}
      PROVE  VoteRound(H, K, k)' /\ AppendRound(H, I, K, k)' /\ RoundOrder(K, k)'
  <2>1. VoteRound(H, K, k) /\ AppendRound(H, I, K, k) /\ RoundOrder(K, k)
    BY DEF LogInv
  <2>2. pc[k] = "append" /\ n \in rnd[k].todo => K[n][rnd[k].term] <= Len(rnd[k].log)
    BY <2>1 DEF RoundOrder
  <2>3. SameRound(k)
    BY <1>4 DEF SameRound
  <2> QED
    BY <1>3, <1>6, <2>1, <2>2, <2>3, QueuesServe, RoundsStay
<1>9. VoteRound(H, K, n)'
  <2>1. Lawful(H, rnd'[n].log, rnd'[n].term)
    BY <1>4, <1>5, <1>7 DEF NodeOK
  <2>2. state'[n].log = rnd'[n].log
    BY <1>4, <1>5
  <2>3. Keep(H, K, state[n].log, n, state[n].term + 1)'
    BY <1>7 DEF NodeOK
  <2>4. state'[n].term \in Nat /\ state'[n].term = rnd'[n].term
    BY <1>4, <1>5, <1>6, NextNodeFacts DEF Before
  <2>5. Keep(H, K, rnd[n].log, n, rnd[n].term)'
    BY <2>2, <2>3, <2>4 DEF Keep
  <2> QED
    BY <1>4, <2>1, <2>2, <2>5 DEF VoteRound
<1>10. AppendRound(H, I, K, n)' /\ RoundOrder(K, n)'
  BY <1>4 DEF AppendRound, RoundOrder
<1>11. \A p \in Server : Queue(H, I, K, p)'
  BY <1>3, <1>5, QueuesServe, SameQueues
<1> QED
  BY <1>3, <1>5, <1>7, <1>8, <1>9, <1>10, <1>11, QuietInv

\* The term of the last entry is the term of the log up to there.
LEMMA LastEntry ==
    ASSUME NEW H, Logs(H), NEW L \in Seq(Entry), Matched(H, L), L # <<>>
    PROVE  /\ Len(L) \in 1 .. Len(L) /\ LastTerm(L) = L[Len(L)].term /\ LastTerm(L) \in Nat
           /\ Agree(L, H[LastTerm(L)], Len(L))
           /\ \A i \in 1 .. Len(L) : L[i].term <= LastTerm(L)
<1>1. Len(L) \in 1 .. Len(L) /\ Last(L) = L[Len(L)]
  BY DEF Last
<1>2. LastTerm(L) = L[Len(L)].term /\ LastTerm(L) \in Nat
  BY <1>1, EntryTerm DEF LastTerm
<1> QED
  BY <1>1, <1>2 DEF Matched

\* The election restriction: a log that is as up to date as one with a choosable
\* entry has that entry too.
LEMMA UpToDateHas ==
    ASSUME TypeInv, NEW H, NEW I, NEW K, Histories(H, I, K), Cover(H, I, K),
           NEW x \in Seq(Entry), NEW c \in Seq(Entry), Matched(H, x), Matched(H, c),
           NEW t \in Nat, NEW a \in Nat, Own(H, t, a), Choosable(K, t, a), Agree(x, H[t], a),
           \/ LastTerm(c) > LastTerm(x)
           \/ LastTerm(c) = LastTerm(x) /\ Len(c) >= Len(x)
    PROVE  Agree(c, H[t], a)
<1> DEFINE A == H[t]
           w == LastTerm(c)
           v == LastTerm(x)
           B == H[w]
           C == I[w]
<1>1. Logs(H) /\ Logs(I)
  BY DEF Histories
<1>2. A \in Seq(Entry) /\ Agree(x, A, a) /\ a \in 1 .. Len(A) /\ A[a].term = t
  BY <1>1, LogOf DEF Own
<1>3. a \in 1 .. Len(x) /\ x[a].term = t /\ x # <<>>
  BY <1>2 DEF Agree
<1>4. v \in Nat /\ w \in Nat /\ t <= v
  BY <1>1, <1>3, LastEntry, LastTermType
<1>5. c # <<>>
  BY <1>3, <1>4 DEF LastTerm
<1>6. /\ Len(c) \in 1 .. Len(c) /\ c[Len(c)].term = w /\ Agree(c, B, Len(c))
      /\ B \in Seq(Entry)
  BY <1>1, <1>4, <1>5, LastEntry, LogOf
<1>7. CASE w = v /\ Len(c) >= Len(x)
  <2>1. Agree(x, B, Len(x))
    BY <1>1, <1>3, <1>7, LastEntry
  <2> HIDE DEF A, B, w, v
  <2> QED
    BY <1>2, <1>3, <1>6, <1>7, <2>1 DEF Agree, A
<1>8. CASE w > v
  <2>1. t < w
    BY <1>4, <1>8
  <2>2. B # <<>>
    <3> HIDE DEF B, w
    <3> QED
      BY <1>6 DEF Agree
  <2>3. PICK e \in elected : e[1] = w
    BY <1>4, <2>2 DEF Histories, Won
  <2>4. Agree(C, A, a) /\ C \in Seq(Entry) /\ Agree(C, B, Len(C))
    BY <1>1, <1>4, <2>1, <2>3, LogOf DEF Cover, Histories
  <2>5. Matched(H, B)
    BY <1>4 DEF Histories, Lawful
  <2> HIDE DEF A, B, C, w, v
  <2>6. /\ a \in 1 .. Len(B) /\ B[a].term = t /\ Agree(B, A, a)
    BY <1>2, <1>6, <2>4 DEF Agree
  <2>7. Len(c) \in 1 .. Len(B) /\ B[Len(c)].term = w
    BY <1>6 DEF Agree
  <2>8. a <= Len(c)
    <3> SUFFICES ASSUME ~(a <= Len(c)) PROVE FALSE
      OBVIOUS
    <3>1. Len(c) \in 1 .. a
      BY <1>6, <2>6
    <3>2. B[Len(c)].term <= B[a].term
      BY <2>5, <2>6, <3>1 DEF Matched
    <3> QED
      BY <1>4, <2>1, <2>6, <2>7, <3>2
  <2>9. a \in Nat /\ Len(c) \in Nat
    OBVIOUS
  <2>10. Agree(c, B, a)
    BY <1>6, <2>8, <2>9, AgreeSome
  <2>11. Agree(c, A, a)
    BY <1>2, <1>6, <2>6, <2>10, AgreeAll
  <2> QED
    BY <2>11 DEF A
<1> QED
  BY <1>7, <1>8

\* A voter leaves to the candidate's log what its own has kept.
LEMMA VoterKeeps ==
    ASSUME TypeInv, NEW H, NEW I, NEW K, Histories(H, I, K), Cover(H, I, K),
           NEW p \in Server, NodeOK(H, K, p), NEW c \in Seq(Entry), Matched(H, c),
           NEW u \in Nat,
           \/ LastTerm(c) > LastTerm(state[p].log)
           \/ LastTerm(c) = LastTerm(state[p].log) /\ Len(c) >= Len(state[p].log)
    PROVE  Keep(H, K, c, p, u)
<1> SUFFICES ASSUME NEW t \in Nat, NEW a \in Nat, t < u, a <= K[p][t], Own(H, t, a),
                    Choosable(K, t, a)
             PROVE  Agree(c, H[t], a)
  BY DEF Keep
<1>1. state[p].log \in Seq(Entry) /\ state[p].term \in Nat /\ K[p][t] \in Nat
  BY NodeFacts, AckOf DEF Histories
<1>2. a # 0
  BY DEF Own
<1>3. t < state[p].term + 1
  BY <1>1, <1>2 DEF NodeOK
<1>4. Agree(state[p].log, H[t], a) /\ Matched(H, state[p].log)
  BY <1>3 DEF NodeOK, Keep, Lawful
<1> QED
  BY <1>1, <1>4, UpToDateHas

LEMMA VoteInv ==
    ASSUME ElectionInv, [Next]_vars, NEW H, NEW I, NEW K, LogInv(H, I, K),
           NEW n \in Server, NEW p \in Server, VoteAnswered(n, p)
    PROVE  LogInv(H, I, K)'
<1> DEFINE r == rnd[n]
           m == Request(n)
           s == OnRequestVote(state[p], m)
<1>1. TypeInv /\ TypeOK /\ state[p] \in NodeState /\ pc[n] = "vote"
  BY NextElection, NodeFacts DEF TypeInv, VoteAnswered
<1>2. m \in VoteRequest /\ m.term = r.term
  BY <1>1, RequestType
<1>3. /\ s.log = state[p].log /\ s.commit_index = state[p].commit_index
      /\ s.applied = state[p].applied
      /\ s.role = "Follower" \/ (s.role = state[p].role /\ s.term = state[p].term)
  BY <1>1, <1>2, RequestVoteLog
<1>4. /\ state' = [state EXCEPT ![p] = s] /\ elected' = elected /\ inbox' = inbox /\ pc' = pc
  BY DEF VoteAnswered, Commit
<1>5. PICK V \in SUBSET Server :
         /\ rnd' = [rnd EXCEPT ![n] =
               [r EXCEPT !.todo = r.todo \ {p}, !.seen = Max({r.seen, s.term}), !.votes = V]]
         /\ \A v \in V \ r.votes : v = p /\ Granted(state[p], m) /\ s.term = r.term
  <2> DEFINE W == IF Granted(state[p], m) /\ s.term = r.term THEN r.votes \cup {p} ELSE r.votes
  <2>1. W \in SUBSET Server /\ \A v \in W \ r.votes : v = p /\ Granted(state[p], m) /\ s.term = r.term
    BY <1>1, RoundFacts
  <2>2. rnd' = [rnd EXCEPT ![n] =
            [r EXCEPT !.todo = r.todo \ {p}, !.seen = Max({r.seen, s.term}), !.votes = W]]
    BY DEF VoteAnswered
  <2> QED
    BY <2>1, <2>2
<1>6. state'[p] = s /\ \A k \in Server \ {p} : state'[k] = state[k]
  BY <1>1, <1>4 DEF TypeOK
<1>7. \A v \in V \ r.votes :
         /\ v \in Server /\ state'[v].term >= r.term /\ Keep(H, K, r.log, v, r.term)
  <2> SUFFICES ASSUME NEW v \in V \ r.votes
               PROVE  /\ v \in Server /\ state'[v].term >= r.term
                      /\ Keep(H, K, r.log, v, r.term)
    OBVIOUS
  <2>1. v = p /\ Granted(state[p], m) /\ s.term = r.term
    BY <1>5
  <2>2. r.term \in Nat /\ r.log \in Seq(Entry)
    BY <1>1, RoundFacts
  <2>3. m.last_term = LastTerm(r.log) /\ m.last_index = Len(r.log)
    BY <1>1 DEF Request
  <2>4. UpToDate(state[p], m)
    <3>1. UpToDate(IF m.term > state[p].term THEN StepDown(state[p], m.term) ELSE state[p], m)
      BY <2>1 DEF Granted, MayGrant
    <3>2. (IF m.term > state[p].term THEN StepDown(state[p], m.term) ELSE state[p]).log = state[p].log
      BY <1>1 DEF StepDown, NodeState
    <3> QED
      BY <3>1, <3>2 DEF UpToDate
  <2>5. Matched(H, r.log) /\ NodeOK(H, K, p) /\ Histories(H, I, K) /\ Cover(H, I, K)
    BY <1>1 DEF LogInv, VoteRound, Lawful
  <2>6. Keep(H, K, r.log, p, r.term)
    BY <1>1, <2>2, <2>3, <2>4, <2>5, VoterKeeps DEF UpToDate
  <2>7. state'[p].term >= r.term
    BY <1>6, <2>1, <2>2
  <2> QED
    BY <2>1, <2>6, <2>7
<1>8. /\ rnd'[n].term = r.term /\ rnd'[n].log = r.log /\ rnd'[n].votes = V
      /\ \A k \in Server \ {n} : rnd'[k] = rnd[k]
  <2>1. r \in Round
    BY <1>1, RoundFacts
  <2> HIDE DEF s, m
  <2> QED
    BY <1>1, <1>5, <2>1 DEF TypeOK, Round
<1> HIDE DEF s, m
<1>9. Before(p, H, I, K, H, I, K) /\ Ballots
  BY <1>4, <1>6, QuietBefore, NextElection DEF LogInv
<1>10. NodeOK(H, K, p)' /\ LeaderOK(H, K, p)'
  BY <1>3, <1>4, <1>6, <1>9, MovedNode DEF LogInv
<1>11. SameCandidate(p)
  BY <1>3, <1>6 DEF SameCandidate
<1>12. VoteRound(H, K, n)'
  <2>1. VoteRound(H, K, n)
    BY DEF LogInv
  <2> QED
    BY <1>1, <1>3, <1>6, <1>7, <1>8, <1>9, <2>1, VoteRoundStays
<1>13. AppendRound(H, I, K, n)' /\ RoundOrder(K, n)'
  BY <1>1, <1>4 DEF AppendRound, RoundOrder
<1>14. ASSUME NEW k \in Server \ {n}
       PROVE  VoteRound(H, K, k)' /\ AppendRound(H, I, K, k)' /\ RoundOrder(K, k)'
  <2>1. VoteRound(H, K, k) /\ AppendRound(H, I, K, k) /\ RoundOrder(K, k)
    BY DEF LogInv
  <2>2. pc[k] = "append" /\ p \in rnd[k].todo => K[p][rnd[k].term] <= Len(rnd[k].log)
    BY <2>1 DEF RoundOrder
  <2>3. SameRound(k)
    BY <1>4, <1>8 DEF SameRound
  <2> QED
    BY <1>4, <1>9, <1>11, <2>1, <2>2, <2>3, QueuesServe, RoundsStay
<1>15. \A q \in Server : Queue(H, I, K, q)'
  BY <1>4, <1>6, QueuesServe, SameQueues
<1> QED
  BY <1>4, <1>6, <1>10, <1>12, <1>13, <1>14, <1>15, QuietInv

LEMMA LateVoteInv ==
    ASSUME ElectionInv, [Next]_vars, NEW H, NEW I, NEW K, LogInv(H, I, K), NEW n \in Server,
           HandleLate(n), Head(inbox[n]).kind = "requestvote"
    PROVE  LogInv(H, I, K)'
<1> DEFINE m == Head(inbox[n])
           s == OnRequestVote(state[n], m)
<1>1. TypeInv /\ state[n] \in NodeState /\ inbox[n] # <<>>
      /\ inbox[n] \in Seq(VoteRequest \cup AppendRequest)
  BY NextElection, NodeFacts DEF HandleLate, TypeInv, TypeOK
<1>2. m \in VoteRequest
  BY <1>1, MessageFacts
<1>3. state' = [state EXCEPT ![n] = s] /\ elected' = elected
      /\ pc' = pc /\ rnd' = rnd /\ inbox' = [inbox EXCEPT ![n] = Tail(@)]
  BY DEF HandleLate, Commit, Handle
<1>4. \A p \in Server : Serves(inbox[p], inbox'[p])
  BY <1>1, <1>3 DEF Serves, TypeInv, TypeOK
<1>5. \A k \in Server : SameRound(k)
  BY <1>3 DEF SameRound
<1>6. /\ s.log = state[n].log /\ s.commit_index = state[n].commit_index
      /\ s.applied = state[n].applied
      /\ s.role = "Follower" \/ (s.role = state[n].role /\ s.term = state[n].term)
  BY <1>1, <1>2, RequestVoteLog
<1> HIDE DEF s, m
<1> QED
  BY <1>3, <1>4, <1>5, <1>6, MovedInv

LEMMA BackedLen ==
    ASSUME NEW H, NEW K, NEW L \in Seq(Entry), NEW k \in Nat, NEW t, NEW c, Backed(H, K, L, k, t, c)
    PROVE  k <= Len(L)
<1>1. CASE k = 0
  <2>1. Len(L) \in Nat
    OBVIOUS
  <2> QED
    BY <1>1, <2>1
<1>2. CASE k # 0
  BY <1>2 DEF Backed, Agree
<1> QED
  BY <1>1, <1>2

\* A leader may send its own log.
LEMMA LeaderSends ==
    ASSUME TypeInv, NEW H, NEW I, NEW K, Histories(H, I, K), NEW n \in Server,
           NodeOK(H, K, n), LeaderOK(H, K, n), state[n].role = "Leader"
    PROVE  Sent(H, I, K, state[n].log, state[n].commit_index, state[n].term)
<1> DEFINE L == state[n].log
           t == state[n].term
           c == state[n].commit_index
<1>1. L \in Seq(Entry) /\ t \in Nat /\ c \in Nat
  BY NodeFacts
<1>2. L = H[t] /\ K[n][t] = Len(L)
  BY DEF LeaderOK
<1>3. Backed(H, K, L, c, t, Len(L))
  BY <1>2 DEF NodeOK
<1>4. Agree(I[t], H[t], Len(I[t]))
  BY <1>1 DEF Histories
<1> HIDE DEF L, t, c
<1>5. Agree(I[t], L, Len(I[t])) /\ Agree(L, H[t], Len(L)) /\ c <= Len(L)
  BY <1>1, <1>2, <1>3, <1>4, AgreeSelf, BackedLen
<1>6. Sent(H, I, K, L, c, t)
  BY <1>3, <1>5 DEF Sent
<1> QED
  BY <1>6 DEF L, t, c

\* What waits in a queue is no longer than its leader's log.
LEMMA QueueAtMost ==
    ASSUME TypeInv, NEW H, NEW I, NEW K, NEW p \in Server, Queue(H, I, K, p),
           NEW i \in 1 .. Len(inbox[p]), NEW t \in Nat
    PROVE  AtMost(inbox[p][i], t, Len(H[t]))
<1> SUFFICES ASSUME AppendOf(inbox[p][i], t) PROVE Len(inbox[p][i].entries) <= Len(H[t])
  BY DEF AtMost
<1> QED
  BY DEF Queue, AppendOf, Sent, Agree

LEMMA SnapshotInv ==
    ASSUME ElectionInv, [Next]_vars, NEW H, NEW I, NEW K, LogInv(H, I, K), NEW n \in Server,
           LeaderSnapshot(n), state[n].role = "Leader", state[n].term = rnd[n].term
    PROVE  LogInv(H, I, K)'
<1> DEFINE L == state[n].log
           t == state[n].term
           c == state[n].commit_index
<1>1. TypeInv /\ L \in Seq(Entry) /\ t \in Nat /\ c \in Nat
  BY NextElection, NodeFacts
<1>2. state' = state /\ elected' = elected /\ inbox' = inbox
  BY DEF LeaderSnapshot
<1>3. /\ pc'[n] = "append" /\ \A k \in Server \ {n} : pc'[k] = pc[k] /\ rnd'[k] = rnd[k]
      /\ rnd'[n].term = t /\ rnd'[n].log = L /\ rnd'[n].commit = c
      /\ rnd'[n].todo = Server \ {n}
      /\ \A q \in Server : rnd'[n].lens[q] = IF q = n THEN Len(L) ELSE 0
  <2>1. rnd' = [rnd EXCEPT ![n] =
            [rnd[n] EXCEPT !.log = L, !.commit = c, !.todo = Server \ {n}, !.seen = t,
                           !.lens = [Idle.lens EXCEPT ![n] = Len(L)]]]
    BY DEF LeaderSnapshot
  <2>2. rnd[n] \in Round /\ rnd[n].term = t
    BY <1>1, RoundFacts
  <2>3. Idle.lens = [q \in Server |-> 0]
    BY DEF Idle
  <2> HIDE DEF L, t, c
  <2>4. \A q \in Server : [Idle.lens EXCEPT ![n] = Len(L)][q] = IF q = n THEN Len(L) ELSE 0
    BY <2>3
  <2> DEFINE lens == [Idle.lens EXCEPT ![n] = Len(L)]
  <2>5. \A q \in Server : lens[q] = IF q = n THEN Len(L) ELSE 0
    BY <2>4
  <2> HIDE DEF lens
  <2>6. rnd' = [rnd EXCEPT ![n] =
            [rnd[n] EXCEPT !.log = L, !.commit = c, !.todo = Server \ {n}, !.seen = t,
                           !.lens = lens]]
    BY <2>1 DEF lens
  <2>7. /\ \A k \in Server \ {n} : rnd'[k] = rnd[k]
        /\ rnd'[n] = [rnd[n] EXCEPT !.log = L, !.commit = c, !.todo = Server \ {n}, !.seen = t,
                           !.lens = lens]
    BY <1>1, <2>6 DEF TypeInv, TypeOK
  <2>8. /\ pc'[n] = "append" /\ \A k \in Server \ {n} : pc'[k] = pc[k]
    BY <1>1 DEF LeaderSnapshot, TypeInv, TypeOK
  <2> QED
    BY <2>2, <2>5, <2>7, <2>8 DEF Round
<1>4. /\ Histories(H, I, K) /\ NodeOK(H, K, n) /\ LeaderOK(H, K, n)
      /\ \A p \in Server : Queue(H, I, K, p)
  BY DEF LogInv
<1>5. Sent(H, I, K, L, c, t) /\ L = H[t] /\ K[n][t] = Len(L) /\ <<t, n>> \in elected
  BY <1>1, <1>4, LeaderSends DEF LeaderOK
<1>6. \A q \in Server : K[q][t] \in Nat /\ K[q][t] <= Len(L)
  BY <1>1, <1>4, <1>5, AckOf DEF Histories
<1>7. \A p \in Server : \A i \in 1 .. Len(inbox[p]) : AtMost(inbox[p][i], t, Len(L))
  BY <1>1, <1>4, <1>5, QueueAtMost
<1> HIDE DEF L, t, c
<1>8. AppendRound(H, I, K, n)'
  <2>1. \A q \in Server : rnd'[n].lens[q] <= K[q][t]
    BY <1>3, <1>5, <1>6
  <2>2. Sent(H, I, K, rnd[n].log, rnd[n].commit, rnd[n].term)'
    BY <1>3, <1>5 DEF Sent
  <2> QED
    BY <1>2, <1>3, <1>5, <2>1, <2>2 DEF AppendRound
<1>9. RoundOrder(K, n)'
  BY <1>2, <1>3, <1>6, <1>7 DEF RoundOrder
<1>10. VoteRound(H, K, n)'
  BY <1>3 DEF VoteRound
<1>11. NodeOK(H, K, n)' /\ LeaderOK(H, K, n)' /\ Before(n, H, I, K, H, I, K) /\ Ballots
  BY <1>2, <1>4, StillNode, QuietBefore, NextElection
<1>12. ASSUME NEW k \in Server \ {n}
       PROVE  VoteRound(H, K, k)' /\ AppendRound(H, I, K, k)' /\ RoundOrder(K, k)'
  <2>1. VoteRound(H, K, k) /\ AppendRound(H, I, K, k) /\ RoundOrder(K, k)
    BY DEF LogInv
  <2>2. pc[k] = "append" /\ n \in rnd[k].todo => K[n][rnd[k].term] <= Len(rnd[k].log)
    BY <2>1 DEF RoundOrder
  <2>3. SameRound(k)
    BY <1>3 DEF SameRound
  <2> QED
    BY <1>2, <1>11, <2>1, <2>2, <2>3, QueuesServe, RoundsStay
<1>13. \A p \in Server : Queue(H, I, K, p)'
  BY <1>2, QueuesServe, SameQueues
<1> QED
  BY <1>2, <1>8, <1>9, <1>10, <1>11, <1>12, <1>13, QuietInv

LEMMA AbandonedInv ==
    ASSUME ElectionInv, [Next]_vars, NEW H, NEW I, NEW K, LogInv(H, I, K),
           NEW n \in Server, NEW p \in Server, CallAbandoned(n, p)
    PROVE  LogInv(H, I, K)'
<1> DEFINE m == Request(n)
           box == inbox[p]
           box2 == inbox'[p]
           t == rnd[n].term
<1>1. /\ TypeInv /\ TypeOK /\ ElectionSafety /\ box \in Seq(VoteRequest \cup AppendRequest)
      /\ pc[n] \in {"append", "vote"} /\ p \in rnd[n].todo /\ t \in Nat
  BY NextElection, RoundFacts DEF CallAbandoned, TypeInv, TypeOK
<1>2. state' = state /\ elected' = elected /\ pc' = pc
  BY DEF CallAbandoned
<1>3. /\ \A k \in Server \ {n} : rnd'[k] = rnd[k]
      /\ rnd'[n].todo = rnd[n].todo \ {p}
      /\ rnd'[n].term = rnd[n].term /\ rnd'[n].log = rnd[n].log
      /\ rnd'[n].commit = rnd[n].commit /\ rnd'[n].votes = rnd[n].votes
      /\ rnd'[n].lens = rnd[n].lens
  <2>1. rnd' = [rnd EXCEPT ![n].todo = @ \ {p}] /\ rnd[n] \in Round
    BY <1>1, RoundFacts DEF CallAbandoned
  <2> QED
    BY <1>1, <2>1 DEF TypeOK, Round
<1>4. /\ box2 = Append(box, m) /\ \A q \in Server \ {p} : inbox'[q] = inbox[q]
  BY <1>1 DEF CallAbandoned, TypeOK
<1>5. m.term = t /\ (m.kind = "append" =>
          pc[n] = "append" /\ m.commit = rnd[n].commit /\ m.entries = rnd[n].log)
  BY <1>1 DEF Request
<1> HIDE DEF m, box, box2, t
<1>6. /\ Len(box) \in Nat /\ Len(box2) = Len(box) + 1
      /\ \A i \in 1 .. Len(box) : box2[i] = box[i]
      /\ box2[Len(box) + 1] = m
  BY <1>1, <1>4
<1>7. /\ Histories(H, I, K) /\ NodeOK(H, K, n) /\ LeaderOK(H, K, n)
      /\ \A q \in Server : VoteRound(H, K, q) /\ AppendRound(H, I, K, q) /\ RoundOrder(K, q)
                           /\ Queue(H, I, K, q)
  BY DEF LogInv
<1>8. /\ NodeOK(H, K, n)' /\ LeaderOK(H, K, n)' /\ Before(n, H, I, K, H, I, K) /\ Ballots
      /\ SameCandidate(n)
  BY <1>2, <1>7, StillNode, QuietBefore, NextElection
<1>9. \A k \in Server : SameRound(k)
  BY <1>2, <1>3 DEF SameRound
<1>10. ASSUME NEW k \in Server, pc[k] = "append", NEW q \in rnd'[k].todo,
              NEW i \in 1 .. Len(inbox'[q])
       PROVE  AtMost(inbox'[q][i], rnd[k].term, Len(rnd[k].log))
  <2>1. q \in rnd[k].todo /\ q \in Server
    BY <1>1, <1>3, <1>10, RoundFacts
  <2>2. \A j \in 1 .. Len(inbox[q]) : AtMost(inbox[q][j], rnd[k].term, Len(rnd[k].log))
    BY <1>7, <1>10, <2>1 DEF RoundOrder
  <2>3. CASE q # p
    BY <1>4, <1>10, <2>1, <2>2, <2>3
  <2>4. CASE q = p /\ i \in 1 .. Len(box)
    BY <1>6, <2>2, <2>4 DEF box, box2
  <2>5. CASE q = p /\ i = Len(box) + 1
    <3>1. inbox'[q][i] = m
      BY <1>6, <2>5 DEF box2
    <3>2. SUFFICES ASSUME AppendOf(m, rnd[k].term) PROVE FALSE
      BY <3>1 DEF AtMost
    <3>3. pc[n] = "append" /\ rnd[n].term = rnd[k].term
      BY <1>5, <3>2 DEF AppendOf, t
    <3>4. <<rnd[n].term, n>> \in elected /\ <<rnd[k].term, k>> \in elected
      BY <1>7, <1>10, <3>3 DEF AppendRound
    <3>5. n = k
      BY <1>1, <3>3, <3>4 DEF ElectionSafety
    <3> QED
      BY <1>3, <1>10, <2>5, <3>5
  <2>6. i \in 1 .. Len(box) \/ i = Len(box) + 1 \/ q # p
    BY <1>6, <1>10 DEF box2
  <2> QED
    BY <2>3, <2>4, <2>5, <2>6
<1>11. ASSUME NEW k \in Server
       PROVE  VoteRound(H, K, k)' /\ AppendRound(H, I, K, k)' /\ RoundOrder(K, k)'
  <2>0. /\ rnd'[k].term = rnd[k].term /\ rnd'[k].log = rnd[k].log
        /\ rnd'[k].commit = rnd[k].commit /\ rnd'[k].votes = rnd[k].votes
        /\ rnd'[k].lens = rnd[k].lens /\ rnd'[k].todo \subseteq rnd[k].todo
    BY <1>3
  <2>1. VoteRound(H, K, k)'
    <3>1. CASE pc[k] = "vote"
      BY <1>2, <1>7, <1>8, <2>0, <3>1, VoteRoundStays
    <3>2. CASE pc[k] # "vote"
      BY <1>2, <3>2 DEF VoteRound
    <3> QED
      BY <3>1, <3>2
  <2>2. CASE pc[k] = "append"
    <3>1. \A q \in Server : rnd'[k].lens[q] <= K[q][rnd[k].term]
      BY <1>7, <2>0, <2>2 DEF AppendRound
    <3>2. AppendRound(H, I, K, k)'
      BY <1>7, <1>8, <2>0, <2>2, <3>1, AppendRoundStays
    <3>3. n \in rnd'[k].todo => K[n][rnd[k].term] <= Len(rnd[k].log)
      BY <1>7, <2>0, <2>2 DEF RoundOrder
    <3>4. RoundOrder(K, k)'
      BY <1>7, <1>8, <1>10, <2>0, <2>2, <3>3, RoundOrderStays
    <3> QED
      BY <2>1, <3>2, <3>4
  <2>3. CASE pc[k] # "append"
    BY <1>2, <2>1, <2>3 DEF AppendRound, RoundOrder
  <2> QED
    BY <2>2, <2>3
<1>12. Queue(H, I, K, p)'
  <2>1. ASSUME m.kind = "append"
        PROVE  /\ Won(t) /\ <<t, p>> \notin elected
               /\ Sent(H, I, K, m.entries, m.commit, t)
               /\ K[p][t] <= Len(m.entries)
               /\ \A i \in 1 .. Len(box) : AtMost(box[i], t, Len(m.entries))
    <3>1. pc[n] = "append" /\ m.commit = rnd[n].commit /\ m.entries = rnd[n].log
      BY <1>5, <2>1
    <3>2. /\ <<t, n>> \in elected /\ p # n /\ Sent(H, I, K, m.entries, m.commit, t)
      BY <1>1, <1>7, <3>1 DEF AppendRound, t
    <3>3. Won(t) /\ <<t, p>> \notin elected
      BY <1>1, <3>2 DEF Won, ElectionSafety
    <3>4. K[p][t] <= Len(m.entries) /\ \A i \in 1 .. Len(box) : AtMost(box[i], t, Len(m.entries))
      BY <1>1, <1>7, <3>1 DEF RoundOrder, t, box
    <3> QED
      BY <3>2, <3>3, <3>4
  <2>2. \A i \in 1 .. Len(box) : box[i].kind = "append" =>
            /\ Won(box[i].term) /\ <<box[i].term, p>> \notin elected
            /\ Sent(H, I, K, box[i].entries, box[i].commit, box[i].term)
            /\ K[p][box[i].term] <= Len(box[i].entries)
            /\ \A j \in i .. Len(box) : AtLeast(box[j], box[i].term, Len(box[i].entries))
    BY <1>7 DEF Queue, box
  <2>3. ASSUME NEW i \in 1 .. Len(box2), box2[i].kind = "append"
        PROVE  /\ Won(box2[i].term) /\ <<box2[i].term, p>> \notin elected
               /\ Sent(H, I, K, box2[i].entries, box2[i].commit, box2[i].term)
               /\ K[p][box2[i].term] <= Len(box2[i].entries)
               /\ \A j \in i .. Len(box2) : AtLeast(box2[j], box2[i].term, Len(box2[i].entries))
    <3>1. CASE i \in 1 .. Len(box)
      <4>1. box2[i] = box[i]
        BY <1>6, <3>1
      <4>2. AtLeast(m, box[i].term, Len(box[i].entries))
        <5> SUFFICES ASSUME AppendOf(m, box[i].term) PROVE Len(box[i].entries) <= Len(m.entries)
          BY DEF AtLeast
        <5>1. m.kind = "append" /\ t = box[i].term
          BY <1>5 DEF AppendOf
        <5> QED
          BY <2>1, <2>3, <3>1, <4>1, <5>1 DEF AtMost, AppendOf
      <4>3. ASSUME NEW j \in i .. Len(box2) PROVE AtLeast(box2[j], box[i].term, Len(box[i].entries))
        <5>1. CASE j \in i .. Len(box)
          <6>1. box2[j] = box[j]
            BY <1>6, <3>1, <5>1
          <6>2. AtLeast(box[j], box[i].term, Len(box[i].entries))
            BY <2>2, <2>3, <3>1, <4>1, <5>1
          <6> QED
            BY <6>1, <6>2
        <5>2. CASE j = Len(box) + 1
          BY <1>6, <4>2, <5>2
        <5> QED
          BY <1>6, <3>1, <5>1, <5>2
      <4> QED
        BY <2>2, <2>3, <3>1, <4>1, <4>3
    <3>2. CASE i = Len(box) + 1
      <4>1. box2[i] = m /\ m.term = t /\ m.kind = "append"
        BY <1>5, <1>6, <2>3, <3>2
      <4>2. m \in VoteRequest \cup AppendRequest
        BY <1>1, RequestType DEF m
      <4>3. m.entries \in Seq(Entry)
        BY <4>1, <4>2, MessageFacts
      <4>4. \A j \in i .. Len(box2) : j = i
        BY <1>6, <3>2
      <4>5. Len(m.entries) \in Nat
        BY <4>3
      <4>6. AtLeast(m, t, Len(m.entries))
        BY <4>5 DEF AtLeast
      <4>7. \A j \in i .. Len(box2) : AtLeast(box2[j], t, Len(m.entries))
        BY <4>1, <4>4, <4>6
      <4> QED
        BY <2>1, <4>1, <4>7
    <3> QED
      BY <1>6, <3>1, <3>2
  <2> QED
    BY <1>2, <2>3 DEF Queue, Won, box2
<1>13. ASSUME NEW q \in Server \ {p} PROVE Queue(H, I, K, q)'
  <2>1. Serves(inbox[q], inbox'[q])
    BY <1>4 DEF Serves
  <2> QED
    BY <1>2, <2>1, SameQueues
<1> QED
  BY <1>2, <1>8, <1>11, <1>12, <1>13, QuietInv

\* What the commit-term rule lets a leader commit.
LEMMA AdvanceLog ==
    ASSUME NEW s \in NodeState, NEW r \in Round, NEW t, t = Advance(s, r)
    PROVE  /\ t \in NodeState
           /\ t.log = s.log /\ t.term = s.term /\ t.role = s.role /\ t.applied = s.applied
           /\ \/ t.commit_index = s.commit_index
              \/ /\ t.commit_index \in s.commit_index + 1 .. Len(s.log)
                 /\ Agreed(r.lens, t.commit_index)
                 /\ s.log[t.commit_index].term = r.term
<1> DEFINE new == {a \in s.commit_index + 1 .. Len(s.log) :
                      Agreed(r.lens, a) /\ s.log[a].term = r.term}
<1>1. s.commit_index \in Nat /\ s.log \in Seq(Entry)
  BY DEF NodeState
<1>2. new \subseteq s.commit_index + 1 .. Len(s.log) /\ Len(s.log) \in Nat
  BY <1>1
<1>3. \A a \in new : Agreed(r.lens, a) /\ s.log[a].term = r.term
  OBVIOUS
<1>4. t = IF new = {} THEN s ELSE [s EXCEPT !.commit_index = Max(new)]
  BY DEF Advance
<1> HIDE DEF new
<1>5. CASE new = {}
  BY <1>4, <1>5
<1>6. CASE new # {}
  <2>1. new \in SUBSET (0 .. Len(s.log)) /\ new \subseteq Nat
    BY <1>1, <1>2
  <2>2. Max(new) \in new
    BY <1>2, <1>6, <2>1, MaxOfBounded
  <2>3. Max(new) \in Nat
    BY <2>1, <2>2
  <2>4. t = [s EXCEPT !.commit_index = Max(new)]
    BY <1>4, <1>6
  <2>5. /\ t \in NodeState /\ t.commit_index = Max(new) /\ t.log = s.log /\ t.term = s.term
        /\ t.role = s.role /\ t.applied = s.applied
    BY <2>3, <2>4 DEF NodeState
  <2> QED
    BY <1>2, <1>3, <2>2, <2>5
<1> QED
  BY <1>5, <1>6

LEMMA CommitInv ==
    ASSUME ElectionInv, [Next]_vars, NEW H, NEW I, NEW K, LogInv(H, I, K), NEW n \in Server,
           RoundCommit(n)
    PROVE  LogInv(H, I, K)'
<1> DEFINE a == Advance(state[n], rnd[n])
           s == Apply(a)
           L == state[n].log
           t == state[n].term
           k == a.commit_index
<1>1. /\ TypeInv /\ state[n] \in NodeState /\ rnd[n] \in Round /\ pc[n] = "append"
      /\ state[n].role = "Leader" /\ t = rnd[n].term
      /\ L \in Seq(Entry) /\ t \in Nat /\ state[n].commit_index \in Nat
  BY NextElection, NodeFacts, RoundFacts DEF RoundCommit
<1>2. /\ state' = [state EXCEPT ![n] = s] /\ elected' = elected /\ inbox' = inbox /\ EndRound(n)
  BY DEF RoundCommit, Commit
<1>3. /\ a \in NodeState /\ a.log = L /\ a.term = t /\ a.role = "Leader"
      /\ a.applied = state[n].applied
      /\ \/ k = state[n].commit_index
         \/ /\ k \in state[n].commit_index + 1 .. Len(L)
            /\ Agreed(rnd[n].lens, k) /\ L[k].term = t
  <2> DEFINE x == state[n]
             r == rnd[n]
  <2>1. x \in NodeState /\ r \in Round
    BY <1>1
  <2> HIDE DEF a
  <2>2. x.role = "Leader" /\ x.term = r.term
    BY <1>1
  <2> HIDE DEF x, r
  <2>3. a = Advance(x, r)
    BY DEF a, x, r
  <2>4. /\ a \in NodeState
        /\ a.log = x.log /\ a.term = x.term /\ a.role = x.role /\ a.applied = x.applied
        /\ \/ a.commit_index = x.commit_index
           \/ /\ a.commit_index \in x.commit_index + 1 .. Len(x.log)
              /\ Agreed(r.lens, a.commit_index)
              /\ x.log[a.commit_index].term = r.term
    BY <2>1, <2>3, AdvanceLog
  <2> QED
    BY <2>2, <2>4 DEF x, r
<1>4. /\ NodeOK(H, K, n) /\ LeaderOK(H, K, n) /\ AppendRound(H, I, K, n) /\ Histories(H, I, K)
  BY DEF LogInv
<1>5. /\ state[n].applied = state[n].commit_index /\ Backed(H, K, L, state[n].commit_index, t, K[n][t])
      /\ L = H[t] /\ K[n][t] = Len(L) /\ <<t, n>> \in elected
  BY <1>1, <1>4 DEF NodeOK, LeaderOK
<1>6. k \in Nat /\ a.applied <= k
  BY <1>1, <1>3, <1>5
<1>7. /\ s.log = L /\ s.term = t /\ s.role = "Leader" /\ s.commit_index = k /\ s.applied = k
  BY <1>3, <1>6, ApplyLog
<1>8. Backed(H, K, L, k, t, K[n][t])
  <2>1. CASE k = state[n].commit_index
    BY <1>5, <2>1
  <2>2. CASE k \in state[n].commit_index + 1 .. Len(L) /\ Agreed(rnd[n].lens, k) /\ L[k].term = t
    <3>1. Own(H, t, k)
      BY <1>1, <1>5, <2>2 DEF Own
    <3>2. Cert(K, t, k)
      <4> DEFINE Q == {q \in Server : rnd[n].lens[q] >= k}
      <4>1. Q \in SUBSET Server /\ Cardinality(Q) >= Majority
        BY <2>2 DEF Agreed
      <4>2. ASSUME NEW q \in Q PROVE K[q][t] >= k
        <5>1. rnd[n].lens[q] \in Nat /\ K[q][t] \in Nat
          BY <1>1, <1>4, RoundFacts, AckOf DEF Histories
        <5>2. rnd[n].lens[q] <= K[q][t] /\ rnd[n].lens[q] >= k
          BY <1>1, <1>4 DEF AppendRound
        <5> QED
          BY <1>6, <5>1, <5>2
      <4> QED
        BY <4>1, <4>2 DEF Cert
    <3>3. Agree(L, H[t], k) /\ k <= K[n][t]
      <4> HIDE DEF L, t, k
      <4>1. Agree(L, L, k) /\ k <= Len(L)
        BY <1>1, <1>6, <2>2 DEF Agree
      <4> QED
        BY <1>5, <4>1
    <3>4. t <= t /\ k <= k
      BY <1>1, <1>6
    <3> QED
      BY <1>1, <1>6, <3>1, <3>2, <3>3, <3>4 DEF Backed
  <2> QED
    BY <1>3, <2>1, <2>2
<1>9. state'[n] = s /\ \A q \in Server \ {n} : state'[q] = state[q]
  BY <1>1, <1>2 DEF TypeInv, TypeOK
<1> HIDE DEF s, a, L, t, k
<1>10. Before(n, H, I, K, H, I, K)
  BY <1>2, <1>4, <1>9, QuietBefore
<1>11. NodeOK(H, K, n)'
  <2>1. /\ state'[n].applied = state'[n].commit_index
        /\ Backed(H, K, state'[n].log, state'[n].commit_index, state'[n].term, K[n][state'[n].term])
    BY <1>7, <1>8, <1>9
  <2>2. state'[n].log = state[n].log
    BY <1>7, <1>9 DEF L
  <2> QED
    BY <1>4, <1>10, <2>1, <2>2, NodeStays
<1>12. LeaderOK(H, K, n)' /\ SameCandidate(n)
  <2>1. /\ state'[n].log = state[n].log /\ state'[n].term = state[n].term
        /\ state'[n].role = "Leader" /\ state[n].role = "Leader"
    BY <1>1, <1>7, <1>9 DEF L, t
  <2> QED
    BY <1>2, <1>4, <2>1 DEF LeaderOK, SameCandidate
<1> QED
  BY <1>1, <1>2, <1>9, <1>11, <1>12, EndRoundSame, QueuesServe, IdleInv

\* What remains to be shown of a step of node m: its own node, the rounds, the
\* queues, and what a new leader was elected with.
LEMMA StepInv ==
    ASSUME ElectionInv, [Next]_vars, NEW H, NEW I, NEW K, LogInv(H, I, K),
           NEW m, NEW H2, NEW I2, NEW K2, Before(m, H, I, K, H2, I2, K2), Histories(H2, I2, K2)',
           \A e \in elected' \ elected, t \in Nat, a \in Nat :
              t < e[1] /\ Own(H2, t, a) /\ Choosable(K2, t, a)' => Agree(I2[e[1]], H2[t], a),
           NodeOK(H2, K2, m)', LeaderOK(H2, K2, m)',
           \A n \in Server :
              VoteRound(H2, K2, n)' /\ AppendRound(H2, I2, K2, n)' /\ RoundOrder(K2, n)',
           \A p \in Server : Queue(H2, I2, K2, p)'
    PROVE  LogInv(H2, I2, K2)'
<1>1. Cover(H2, I2, K2)'
  <2> SUFFICES ASSUME NEW e \in elected', NEW t \in Nat, NEW a \in Nat, t < e[1], Own(H2, t, a),
                      Choosable(K2, t, a)'
               PROVE  Agree(I2[e[1]], H2[t], a)
    BY DEF Cover
  <2>1. Reached(e[1])' /\ Cover(H, I, K)
    BY NextElection DEF LogInv
  <2>2. CASE e \in elected
    BY <2>1, <2>2, CoverStays
  <2> QED
    BY <2>2
<1>2. ASSUME NEW n \in Server PROVE NodeOK(H2, K2, n)' /\ LeaderOK(H2, K2, n)'
  <2>1. CASE n = m
    BY <2>1
  <2>2. CASE n # m
    <3>1. state'[n] = state[n] /\ \A t \in Nat : K2[n][t] = K[n][t]
      BY <2>2 DEF Before, Change
    <3>2. NodeOK(H, K, n) /\ LeaderOK(H, K, n) /\ ElectionSafety'
      BY NextElection DEF LogInv
    <3> QED
      BY <2>2, <3>1, <3>2, NodeStays, LeaderStays
  <2> QED
    BY <2>1, <2>2
<1> QED
  BY <1>1, <1>2 DEF LogInv

(**************************** the append handler ***************************)

LEMMA AppendLog ==
    ASSUME NEW s \in NodeState, NEW m \in AppendRequest, s.term <= m.term,
           Wire(m.entries) = m.entries, m.commit <= Len(m.entries),
           s.applied = s.commit_index, NEW t, t = OnAppend(s, m)
    PROVE  /\ t.log = m.entries /\ t.term = m.term /\ t.role = "Follower"
           /\ t.commit_index \in {s.commit_index, m.commit}
           /\ t.applied = t.commit_index
<1>1. /\ s.commit_index \in Nat /\ s.term \in Nat /\ m.term \in Nat /\ m.commit \in Nat
      /\ m.entries \in Seq(Entry) /\ s.applied \in Nat
  BY DEF NodeState, AppendRequest
<1>2. Len(m.entries) \in Nat /\ ~(m.term < s.term)
  BY <1>1
<1>3. Min({m.commit, Len(m.entries)}) = m.commit
  BY <1>1, <1>2 DEF Min
<1> DEFINE c == Max({s.commit_index, m.commit})
           v == IF m.term > s.term THEN None ELSE s.voted_for
           a == [s EXCEPT !.voted_for = v, !.term = m.term, !.role = "Follower",
                          !.log = m.entries, !.commit_index = c]
<1>4. c \in {s.commit_index, m.commit} /\ c \in Nat /\ c >= s.commit_index
  BY <1>1, MaxOfTwo
<1>5. v \in Server \cup {None}
  BY DEF NodeState
<1>6. t = Apply(a)
  BY <1>2, <1>3 DEF OnAppend
<1> HIDE DEF c, v
<1>7. /\ a \in NodeState /\ a.log = m.entries /\ a.term = m.term /\ a.role = "Follower"
      /\ a.commit_index = c /\ a.applied = s.commit_index
  BY <1>1, <1>4, <1>5 DEF NodeState
<1> HIDE DEF a
<1> QED
  BY <1>1, <1>4, <1>6, <1>7, ApplyLog

\* An append that p may be served.
Offered(H, I, K, p, m) ==
    /\ m \in AppendRequest /\ Won(m.term) /\ <<m.term, p>> \notin elected
    /\ Sent(H, I, K, m.entries, m.commit, m.term)
    /\ K[p][m.term] <= Len(m.entries)

Taken(K, p, m) == [K EXCEPT ![p][m.term] = Len(m.entries)]

LEMMA TakenAcks ==
    ASSUME NEW K, Acks(K), NEW p \in Server, NEW m \in AppendRequest
    PROVE  /\ Acks(Taken(K, p, m)) /\ Taken(K, p, m)[p][m.term] = Len(m.entries)
           /\ \A q \in Server, t \in Nat :
                 q # p \/ t # m.term => Taken(K, p, m)[q][t] = K[q][t]
<1>1. m.term \in Nat /\ Len(m.entries) \in Nat
  BY DEF AppendRequest
<1> QED
  BY <1>1 DEF Acks, Taken

\* A leader's message carries what the leaders before it may have committed.
LEMMA SentCovers ==
    ASSUME TypeInv, NEW H, NEW I, NEW K, Histories(H, I, K), Cover(H, I, K),
           NEW L \in Seq(Entry), NEW c, NEW u \in Nat, Won(u), Sent(H, I, K, L, c, u),
           NEW t \in Nat, t < u, NEW a \in Nat, Own(H, t, a), Choosable(K, t, a)
    PROVE  Agree(L, H[t], a)
<1> DEFINE A == H[t]
           C == I[u]
<1>1. PICK e \in elected : e[1] = u
  BY DEF Won
<1>2. Agree(C, A, a) /\ Agree(C, L, Len(C))
  BY <1>1 DEF Cover, Sent
<1>3. A \in Seq(Entry) /\ C \in Seq(Entry)
  BY LogOf DEF Histories
<1> HIDE DEF A, C
<1>4. Agree(L, C, a)
  BY <1>2, <1>3 DEF Agree
<1>5. Agree(L, A, a)
  BY <1>2, <1>3, <1>4, AgreeAll
<1> QED
  BY <1>5 DEF A

LEMMA CertChoosable ==
    ASSUME NEW K, NEW t, NEW a, Cert(K, t, a) PROVE Choosable(K, t, a)
  BY DEF Cert, Choosable

\* What p had committed is backed by the log it takes.
LEMMA TakenBacked ==
    ASSUME TypeInv, NEW H, NEW I, NEW K, Histories(H, I, K), Cover(H, I, K),
           NEW p \in Server, NodeOK(H, K, p), NEW m, Offered(H, I, K, p, m),
           state[p].term <= m.term
    PROVE  Backed(H, K, m.entries, state[p].commit_index, m.term, Len(m.entries))
<1> DEFINE L == m.entries
           u == m.term
           k == state[p].commit_index
           t == state[p].term
           G == state[p].log
<1>1. /\ L \in Seq(Entry) /\ u \in Nat /\ k \in Nat /\ t \in Nat /\ G \in Seq(Entry)
      /\ Len(L) \in Nat
  BY NodeFacts DEF Offered, AppendRequest
<1>2. /\ Won(u) /\ Sent(H, I, K, L, m.commit, u) /\ K[p][u] <= Len(L) /\ t <= u
      /\ Backed(H, K, G, k, t, K[p][t])
  BY DEF Offered, NodeOK
<1>3. K[p][u] \in Nat
  BY <1>1, AckOf DEF Histories
<1> HIDE DEF L, u, k, t, G
<1>4. CASE k = 0
  BY <1>4 DEF Backed, L, u, k
<1>5. CASE k # 0
  <2>1. PICK w \in Nat, a \in Nat : /\ w <= t /\ k <= a /\ Own(H, w, a) /\ Cert(K, w, a)
                                    /\ Agree(G, H[w], k) /\ (w = t => k <= K[p][t])
    BY <1>2, <1>5 DEF Backed
  <2> DEFINE A == H[w]
  <2>2. A \in Seq(Entry)
    BY LogOf DEF Histories
  <2>3. CASE w < u
    <3>1. Agree(L, A, a)
      BY <1>1, <1>2, <2>1, <2>3, CertChoosable, SentCovers
    <3> HIDE DEF A
    <3>2. Agree(L, A, k)
      BY <1>1, <2>1, <2>2, <3>1, AgreeSome
    <3>3. w <= u /\ w # u
      BY <1>1, <2>3
    <3>4. Backed(H, K, L, k, u, Len(L))
      BY <2>1, <3>2, <3>3 DEF Backed, A
    <3> QED
      BY <3>4 DEF L, u, k
  <2>4. CASE w = u
    <3>1. t = u /\ k <= Len(L)
      BY <1>1, <1>2, <1>3, <2>1, <2>4
    <3>2. Agree(L, A, Len(L))
      BY <1>2, <2>4 DEF Sent
    <3> HIDE DEF A
    <3>3. Agree(L, A, k)
      BY <1>1, <2>2, <3>1, <3>2, AgreeSome
    <3>4. Backed(H, K, L, k, u, Len(L))
      BY <2>1, <3>1, <3>3 DEF Backed, A
    <3> QED
      BY <3>4 DEF L, u, k
  <2> QED
    BY <1>1, <1>2, <2>1, <2>3, <2>4
<1> QED
  BY <1>4, <1>5

\* p takes the log of an append.
Takes(H, I, K, p, m) ==
    /\ Offered(H, I, K, p, m) /\ state[p].term <= m.term
    /\ state' = [state EXCEPT ![p] = OnAppend(state[p], m)]
    /\ elected' = elected

LEMMA TakenState ==
    ASSUME TypeInv, NEW H, NEW I, NEW K, LogInv(H, I, K), NEW p \in Server, NEW m,
           Takes(H, I, K, p, m)
    PROVE  /\ m \in AppendRequest /\ m.term \in Nat /\ m.entries \in Seq(Entry) /\ m.commit \in Nat
           /\ Len(m.entries) \in Nat
           /\ Lawful(H, m.entries, m.term)
           /\ state'[p].log = m.entries /\ state'[p].term = m.term
           /\ state'[p].role = "Follower"
           /\ state'[p].commit_index \in {state[p].commit_index, m.commit}
           /\ state'[p].applied = state'[p].commit_index
           /\ \A q \in Server \ {p} : state'[q] = state[q]
<1> DEFINE L == m.entries
           A == H[m.term]
<1>1. /\ m \in AppendRequest /\ m.term \in Nat /\ L \in Seq(Entry) /\ m.commit \in Nat
      /\ Len(L) \in Nat
  BY DEF Takes, Offered, AppendRequest
<1>2. Agree(L, A, Len(L)) /\ m.commit <= Len(L) /\ Lawful(H, A, m.term) /\ A \in Seq(Entry)
      /\ Logs(H)
  BY <1>1, LogOf DEF Takes, Offered, Sent, LogInv, Histories
<1>3. Lawful(H, L, m.term)
  <2> HIDE DEF L, A
  <2> QED
    BY <1>1, <1>2, LawfulPrefix
<1>4. Wire(L) = L
  <2> HIDE DEF L, A
  <2> QED
    BY <1>1, <1>3, WireLawful DEF Lawful
<1>5. /\ state[p] \in NodeState /\ state[p].applied = state[p].commit_index
      /\ state[p].term <= m.term
  BY NodeFacts DEF LogInv, NodeOK, Takes
<1>6. /\ state'[p] = OnAppend(state[p], m)
      /\ \A q \in Server \ {p} : state'[q] = state[q]
  BY DEF Takes, TypeInv, TypeOK
<1>7. /\ state'[p].log = L /\ state'[p].term = m.term /\ state'[p].role = "Follower"
      /\ state'[p].commit_index \in {state[p].commit_index, m.commit}
      /\ state'[p].applied = state'[p].commit_index
  BY <1>1, <1>2, <1>4, <1>5, <1>6, AppendLog
<1> QED
  BY <1>1, <1>3, <1>6, <1>7

LEMMA TakenBefore ==
    ASSUME ElectionInv, [Next]_vars, NEW H, NEW I, NEW K, LogInv(H, I, K),
           NEW p \in Server, NEW m, Takes(H, I, K, p, m), NEW K2, K2 = Taken(K, p, m)
    PROVE  Before(p, H, I, K, H, I, K2) /\ Histories(H, I, K2)'
<1> DEFINE u == m.term
           A == H[u]
<1>1. TypeInv /\ TypeInv' /\ Histories(H, I, K) /\ Acks(K) /\ state[p].term \in Nat
  BY NextElection, NodeFacts DEF LogInv, Histories
<1>2. /\ m \in AppendRequest /\ u \in Nat /\ Len(m.entries) \in Nat /\ m.entries \in Seq(Entry)
      /\ state'[p].term = u /\ \A q \in Server \ {p} : state'[q] = state[q]
  BY <1>1, TakenState
<1>3. /\ Acks(K2) /\ K2[p][u] = Len(m.entries)
      /\ \A q \in Server, t \in Nat : q # p \/ t # u => K2[q][t] = K[q][t]
  BY <1>1, <1>2, TakenAcks
<1>4. /\ K[p][u] <= Len(m.entries) /\ state[p].term <= u /\ elected' = elected
      /\ Agree(m.entries, A, Len(m.entries))
  BY DEF Takes, Offered, Sent
<1>5. A \in Seq(Entry)
  BY <1>1, <1>2, LogOf DEF Histories
<1>6. Agree(A, A, Len(A))
  BY <1>5, AgreeSelf
<1>7. Change(p, H, I, K, H, I, K2)
  <2> HIDE DEF u, A
  <2>1. K[p][u] <= K2[p][u]
    BY <1>2, <1>3, <1>4
  <2> QED
    BY <1>1, <1>2, <1>3, <1>4, <1>6, <2>1 DEF Change, u, A
<1>8. \A q \in Server, t \in Nat : K2[q][t] <= Len(H[t])
  <2> SUFFICES ASSUME NEW q \in Server, NEW t \in Nat PROVE K2[q][t] <= Len(H[t])
    OBVIOUS
  <2>1. CASE q = p /\ t = u
    BY <1>3, <1>4, <2>1 DEF Agree
  <2>2. CASE ~(q = p /\ t = u)
    BY <1>1, <1>3, <2>2 DEF Histories
  <2> QED
    BY <2>1, <2>2
<1>9. \A t \in Nat : Won(t)' <=> Won(t)
  BY <1>4 DEF Won
<1>10. Histories(H, I, K2)'
  BY <1>1, <1>3, <1>8, <1>9 DEF Histories
<1> QED
  BY <1>1, <1>3, <1>7, <1>10 DEF Before, Histories

LEMMA TakenNode ==
    ASSUME ElectionInv, [Next]_vars, NEW H, NEW I, NEW K, LogInv(H, I, K),
           NEW p \in Server, NEW m, Takes(H, I, K, p, m), NEW K2, K2 = Taken(K, p, m)
    PROVE  NodeOK(H, K2, p)' /\ LeaderOK(H, K2, p)' /\ SameCandidate(p)
<1> DEFINE L == m.entries
           u == m.term
           k == state'[p].commit_index
<1>1. /\ TypeInv /\ Histories(H, I, K) /\ Cover(H, I, K) /\ NodeOK(H, K, p) /\ LeaderOK(H, K, p)
      /\ state[p].term \in Nat /\ Before(p, H, I, K, H, I, K2)
  BY NextElection, NodeFacts, TakenBefore DEF LogInv
<1>2. /\ m \in AppendRequest /\ u \in Nat /\ L \in Seq(Entry) /\ m.commit \in Nat /\ Len(L) \in Nat
      /\ Lawful(H, L, u) /\ state'[p].log = L /\ state'[p].term = u
      /\ state'[p].role = "Follower" /\ state'[p].applied = k
      /\ k \in {state[p].commit_index, m.commit} /\ state[p].commit_index \in Nat
  BY <1>1, TakenState, NodeFacts
<1>3. /\ K2[p][u] = Len(L) /\ Logs(H)
      /\ \A t \in Nat : t # u => K2[p][t] = K[p][t]
  BY <1>1, <1>2, TakenAcks DEF Histories
<1>4. /\ Won(u) /\ Sent(H, I, K, L, m.commit, u) /\ state[p].term <= u /\ elected' = elected
      /\ Offered(H, I, K, p, m)
  BY DEF Takes, Offered
<1>5. \A t \in Nat : t > u => K2[p][t] = 0
  <2> SUFFICES ASSUME NEW t \in Nat, t > u PROVE K2[p][t] = 0
    OBVIOUS
  <2>1. t # u /\ t > state[p].term
    BY <1>1, <1>2, <1>4
  <2> QED
    BY <1>1, <1>3, <2>1 DEF NodeOK
<1>6. KeepNext(H, K2, L, p, u + 1)
  <2> SUFFICES ASSUME NEW t \in Nat, NEW a \in Nat, t < u + 1, a <= K2[p][t], Own(H, t, a),
                      Choosable(K2, t, a)'
               PROVE  Agree(L, H[t], a)
    BY DEF KeepNext
  <2>1. Choosable(K, t, a)
    BY <1>1, ChoosableBefore
  <2>2. CASE t < u
    BY <1>1, <1>2, <1>4, <2>1, <2>2, SentCovers
  <2>3. CASE t = u
    <3> DEFINE A == H[t]
    <3>1. Agree(L, A, Len(L)) /\ A \in Seq(Entry) /\ a <= Len(L)
      BY <1>3, <1>4, <2>3, LogOf DEF Sent
    <3> HIDE DEF A, L
    <3>2. Agree(L, A, a)
      BY <1>2, <3>1, AgreeSome
    <3> QED
      BY <3>2 DEF A
  <2> QED
    BY <1>2, <2>2, <2>3
<1>7. Backed(H, K2, L, k, u, Len(L))
  <2>1. Backed(H, K, L, k, u, Len(L))
    <3>1. CASE k = m.commit
      BY <1>4, <3>1 DEF Sent
    <3>2. CASE k = state[p].commit_index
      BY <1>1, <1>4, <3>2, TakenBacked
    <3> QED
      BY <1>2, <3>1, <3>2
  <2>2. k \in Nat /\ Len(L) <= Len(L)
    BY <1>2
  <2> QED
    BY <1>1, <1>2, <2>1, <2>2, BackedStays
<1> HIDE DEF L, u, k
<1>8. NodeOK(H, K2, p)'
  <2>1. Keep(H, K2, state[p].log, p, state[p].term + 1)'
    BY <1>2, <1>6 DEF Keep, KeepNext
  <2>2. Lawful(H, state'[p].log, state'[p].term)
    BY <1>2
  <2>3. \A t \in Nat : t > state'[p].term => K2[p][t] = 0
    BY <1>2, <1>5
  <2>4. /\ state'[p].applied = state'[p].commit_index
        /\ Backed(H, K2, state'[p].log, state'[p].commit_index, state'[p].term, K2[p][state'[p].term])
    BY <1>2, <1>3, <1>7 DEF k
  <2> QED
    BY <2>1, <2>2, <2>3, <2>4 DEF NodeOK
<1>9. LeaderOK(H, K2, p)'
  <2>1. ASSUME NEW e \in elected, e[2] = p PROVE e[1] < u \/ e[1] = u
    <3>1. e[1] \in Nat
      BY <1>1, ElectedFacts
    <3>2. e[1] <= state[p].term
      BY <1>1, <2>1, <3>1 DEF LeaderOK
    <3> QED
      BY <1>1, <1>2, <1>4, <3>1, <3>2
  <2> QED
    BY <1>2, <1>4, <2>1 DEF LeaderOK
<1> QED
  BY <1>2, <1>8, <1>9 DEF SameCandidate

LEMMA LateAppendInv ==
    ASSUME ElectionInv, [Next]_vars, NEW H, NEW I, NEW K, LogInv(H, I, K), NEW n \in Server,
           HandleLate(n), Head(inbox[n]).kind = "append"
    PROVE  \E K2 : LogInv(H, I, K2)' /\ Onward(H, K, H, K2)
<1> DEFINE m == inbox[n][1]
           u == m.term
<1> PICK K2 : K2 = Taken(K, n, m)
  OBVIOUS
<1>1. TypeInv /\ TypeInv' /\ state[n] \in NodeState /\ inbox[n] # <<>> /\ ElectionSafety' /\ Ballots
      /\ inbox[n] \in Seq(VoteRequest \cup AppendRequest)
  BY NextElection, NodeFacts DEF HandleLate, TypeInv, TypeOK
<1>2. 1 \in 1 .. Len(inbox[n]) /\ m = Head(inbox[n]) /\ m.kind = "append"
  BY <1>1
<1>3. m \in AppendRequest /\ u \in Nat
  BY <1>1, <1>2, MessageFacts
<1>4. state' = [state EXCEPT ![n] = OnAppend(state[n], m)] /\ elected' = elected
      /\ pc' = pc /\ rnd' = rnd /\ inbox' = [inbox EXCEPT ![n] = Tail(@)]
  BY <1>2 DEF HandleLate, Commit, Handle
<1>5. \A p \in Server : Serves(inbox[p], inbox'[p])
  BY <1>1, <1>4 DEF Serves, TypeInv, TypeOK
<1>6. \A k \in Server : SameRound(k)
  BY <1>4 DEF SameRound
<1>7. CASE u < state[n].term
  <2>1. state' = [state EXCEPT ![n] = state[n]]
    BY <1>4, <1>7 DEF OnAppend
  <2>2. LogInv(H, I, K)'
    BY <1>4, <1>5, <1>6, <2>1, MovedInv
  <2>3. Onward(H, K, H, K)
    BY OnwardSame DEF LogInv
  <2> QED
    BY <2>2, <2>3
<1>8. CASE ~(u < state[n].term)
  <2>1. Queue(H, I, K, n)
    BY DEF LogInv
  <2>2. /\ Won(u) /\ <<u, n>> \notin elected /\ Sent(H, I, K, m.entries, m.commit, u)
        /\ K[n][u] <= Len(m.entries)
        /\ \A j \in 1 .. Len(inbox[n]) : AtLeast(inbox[n][j], u, Len(m.entries))
    BY <1>2, <2>1 DEF Queue
  <2>3. state[n].term <= u
    BY <1>1, <1>3, <1>8, NodeFacts
  <2>4. Takes(H, I, K, n, m)
    BY <1>3, <1>4, <2>2, <2>3 DEF Takes, Offered
  <2>5. /\ Before(n, H, I, K, H, I, K2) /\ Histories(H, I, K2)'
        /\ NodeOK(H, K2, n)' /\ LeaderOK(H, K2, n)' /\ SameCandidate(n)
    BY <2>4, TakenBefore, TakenNode
  <2>6. state'[n].term = u /\ K2[n][u] = Len(m.entries)
    BY <1>1, <1>3, <2>4, TakenState, TakenAcks DEF LogInv, Histories
  <2> HIDE DEF m, u
  <2>7. ASSUME NEW k \in Server
        PROVE  VoteRound(H, K2, k)' /\ AppendRound(H, I, K2, k)' /\ RoundOrder(K2, k)'
    <3>1. VoteRound(H, K, k) /\ AppendRound(H, I, K, k) /\ RoundOrder(K, k)
      BY DEF LogInv
    <3>2. pc[k] = "append" /\ n \in rnd[k].todo /\ state'[n].term = rnd[k].term
             => K2[n][rnd[k].term] <= Len(rnd[k].log)
      BY <1>2, <2>6, <3>1 DEF RoundOrder, AtMost, AppendOf, m, u
    <3> QED
      BY <1>1, <1>5, <1>6, <2>5, <3>1, <3>2, RoundsStay
  <2>8. ASSUME NEW p \in Server PROVE Queue(H, I, K2, p)'
    <3>1. ASSUME NEW i \in 1 .. Len(inbox'[n])
          PROVE  AtLeast(inbox'[n][i], state'[n].term, K2[n][state'[n].term])
      <4>1. inbox'[n] = Tail(inbox[n])
        BY <1>1, <1>4 DEF TypeInv, TypeOK
      <4>2. i + 1 \in 1 .. Len(inbox[n]) /\ inbox'[n][i] = inbox[n][i + 1]
        BY <1>1, <4>1
      <4> QED
        BY <2>2, <2>6, <4>2
    <3>2. Queue(H, I, K, p) /\ Serves(inbox[p], inbox'[p])
      BY <1>5 DEF LogInv
    <3> QED
      BY <1>1, <2>5, <3>1, <3>2, QueueStays
  <2>9. LogInv(H, I, K2)'
    BY <1>4, <2>5, <2>7, <2>8, StepInv
  <2>10. Onward(H, K, H, K2)
    BY <2>5, Grows DEF Onward
  <2> QED
    BY <2>9, <2>10
<1> QED
  BY <1>7, <1>8

\* The caller's round goes on after an answer, whether the append was taken
\* (K2 = Taken) or ignored (K2 = K).
LEMMA AnsweredInv ==
    ASSUME ElectionInv, [Next]_vars, NEW H, NEW I, NEW K, LogInv(H, I, K),
           NEW n \in Server, NEW p \in Server, AppendAnswered(n, p), NEW K2,
           Before(p, H, I, K, H, I, K2), Histories(H, I, K2)',
           NodeOK(H, K2, p)', LeaderOK(H, K2, p)', SameCandidate(p),
           rnd'[n].lens[p] <= K2[p][rnd[n].term],
           K2[p] = K[p] \/ state'[p].term = rnd[n].term
    PROVE  LogInv(H, I, K2)'
<1>1. /\ TypeInv /\ TypeInv' /\ ElectionSafety /\ ElectionSafety' /\ Ballots
      /\ pc[n] = "append" /\ p \in rnd[n].todo /\ inbox[p] = <<>>
      /\ elected' = elected /\ inbox' = inbox /\ pc' = pc
  BY NextElection DEF AppendAnswered
<1>2. /\ \A k \in Server \ {n} : rnd'[k] = rnd[k]
      /\ rnd'[n].term = rnd[n].term /\ rnd'[n].log = rnd[n].log
      /\ rnd'[n].commit = rnd[n].commit /\ rnd'[n].todo = rnd[n].todo \ {p}
      /\ \A q \in Server \ {p} : rnd'[n].lens[q] = rnd[n].lens[q]
  <2> DEFINE s == OnAppend(state[p], Request(n))
             l == IF s.term = rnd[n].term THEN Len(s.log) ELSE 0
             d == Max({rnd[n].seen, s.term})
  <2>1. rnd' = [rnd EXCEPT ![n] =
            [rnd[n] EXCEPT !.todo = rnd[n].todo \ {p}, !.seen = d, !.lens[p] = l]]
    BY DEF AppendAnswered
  <2>2. rnd[n] \in Round
    BY <1>1, RoundFacts
  <2> HIDE DEF l, d
  <2> QED
    BY <1>1, <2>1, <2>2 DEF TypeInv, TypeOK, Round
<1>3. \A k \in Server : VoteRound(H, K, k) /\ AppendRound(H, I, K, k) /\ RoundOrder(K, k)
                        /\ Queue(H, I, K, k)
  BY DEF LogInv
<1>4. \A q \in Server : Serves(inbox[q], inbox'[q])
  BY <1>1, QueuesServe
<1>5. VoteRound(H, K2, n)'
  BY <1>1 DEF VoteRound
<1>6. AppendRound(H, I, K2, n)'
  <2>1. ASSUME NEW q \in Server PROVE rnd'[n].lens[q] <= K2[q][rnd[n].term]
    <3>1. CASE q = p
      BY <3>1
    <3>2. CASE q # p
      <4>1. rnd'[n].lens[q] = rnd[n].lens[q] /\ rnd[n].lens[q] <= K[q][rnd[n].term]
        BY <1>1, <1>2, <1>3, <3>2 DEF AppendRound
      <4>2. rnd[n].term \in Nat /\ rnd[n].lens[q] \in Nat
        BY <1>1, RoundFacts
      <4> QED
        BY <4>1, <4>2, LensStay
    <3> QED
      BY <3>1, <3>2
  <2> QED
    BY <1>1, <1>2, <1>3, <2>1, AppendRoundStays
<1>7. RoundOrder(K2, n)'
  <2>1. rnd'[n].todo \subseteq rnd[n].todo /\ p \notin rnd'[n].todo
    BY <1>2
  <2>2. \A q \in rnd'[n].todo : \A i \in 1 .. Len(inbox'[q]) :
           AtMost(inbox'[q][i], rnd[n].term, Len(rnd[n].log))
    BY <1>1, <1>3, <2>1 DEF RoundOrder
  <2> QED
    BY <1>1, <1>2, <1>3, <2>1, <2>2, RoundOrderStays
<1>8. ASSUME NEW k \in Server \ {n}
      PROVE  VoteRound(H, K2, k)' /\ AppendRound(H, I, K2, k)' /\ RoundOrder(K2, k)'
  <2>1. SameRound(k)
    BY <1>1, <1>2 DEF SameRound
  <2>2. ASSUME pc[k] = "append", p \in rnd[k].todo, state'[p].term = rnd[k].term
        PROVE  K2[p][rnd[k].term] <= Len(rnd[k].log)
    <3>1. CASE K2[p] = K[p]
      BY <1>3, <2>2, <3>1 DEF RoundOrder
    <3>2. CASE state'[p].term = rnd[n].term
      <4>1. <<rnd[n].term, n>> \in elected /\ <<rnd[k].term, k>> \in elected
        BY <1>1, <1>3, <2>2 DEF AppendRound
      <4> QED
        BY <1>1, <2>2, <3>2, <4>1 DEF ElectionSafety
    <3> QED
      BY <3>1, <3>2
  <2> QED
    BY <1>1, <1>3, <1>4, <2>1, <2>2, RoundsStay
<1>9. ASSUME NEW q \in Server PROVE Queue(H, I, K2, q)'
  <2>1. q = p => \A i \in 1 .. Len(inbox'[q]) :
                    AtLeast(inbox'[q][i], state'[p].term, K2[p][state'[p].term])
    BY <1>1
  <2> QED
    BY <1>1, <1>3, <1>4, <2>1, QueueStays
<1> QED
  BY <1>1, <1>5, <1>6, <1>7, <1>8, <1>9, StepInv

LEMMA AppendInv ==
    ASSUME ElectionInv, [Next]_vars, NEW H, NEW I, NEW K, LogInv(H, I, K),
           NEW n \in Server, NEW p \in Server, AppendAnswered(n, p)
    PROVE  \E K2 : LogInv(H, I, K2)' /\ Onward(H, K, H, K2)
<1> DEFINE m == Request(n)
           u == rnd[n].term
           s == OnAppend(state[p], m)
<1> PICK K2 : K2 = Taken(K, p, m)
  OBVIOUS
<1>1. /\ TypeInv /\ TypeOK /\ ElectionSafety /\ pc[n] = "append" /\ p \in rnd[n].todo
      /\ u \in Nat /\ state[p].term \in Nat /\ state[p] \in NodeState
      /\ Acks(K) /\ Histories(H, I, K)
  BY NextElection, RoundFacts, NodeFacts DEF AppendAnswered, TypeInv, LogInv, Histories
<1>2. m \in AppendRequest /\ m.term = u /\ m.entries = rnd[n].log /\ m.commit = rnd[n].commit
  <2>1. m \in AppendRequest /\ m.term = u
    BY <1>1, RequestType
  <2> QED
    BY <1>1, <2>1 DEF Request
<1>3. state' = [state EXCEPT ![p] = s] /\ elected' = elected
  BY DEF AppendAnswered, Commit
<1>4. rnd'[n].lens[p] = IF s.term = u THEN Len(s.log) ELSE 0
  <2> DEFINE l == IF s.term = u THEN Len(s.log) ELSE 0
             d == Max({rnd[n].seen, s.term})
  <2>1. rnd' = [rnd EXCEPT ![n] =
            [rnd[n] EXCEPT !.todo = rnd[n].todo \ {p}, !.seen = d, !.lens[p] = l]]
    BY DEF AppendAnswered
  <2>2. rnd[n] \in Round
    BY <1>1, RoundFacts
  <2> HIDE DEF l, d
  <2>3. rnd'[n].lens[p] = l
    BY <1>1, <2>1, <2>2 DEF TypeOK, Round
  <2> QED
    BY <2>3 DEF l
<1>5. state'[p] = s /\ \A q \in Server \ {p} : state'[q] = state[q]
  BY <1>1, <1>3 DEF TypeOK
<1>6. CASE u < state[p].term
  <2>1. s = state[p]
    BY <1>2, <1>6 DEF OnAppend
  <2>2. state' = state
    BY <1>1, <1>3, <2>1 DEF TypeOK
  <2>3. /\ NodeOK(H, K, p)' /\ LeaderOK(H, K, p)' /\ SameCandidate(p)
        /\ Before(p, H, I, K, H, I, K) /\ Histories(H, I, K)'
    BY <1>1, <1>3, <2>2, StillNode, QuietBefore
  <2>4. rnd'[n].lens[p] = 0 /\ K[p][u] \in Nat
    BY <1>1, <1>4, <1>6, <2>1, AckOf
  <2>5. rnd'[n].lens[p] <= K[p][u]
    BY <2>4
  <2>6. LogInv(H, I, K)' /\ Onward(H, K, H, K)
    BY <1>1, <2>3, <2>5, AnsweredInv, OnwardSame
  <2> QED
    BY <2>6
<1>7. CASE ~(u < state[p].term)
  <2>1. AppendRound(H, I, K, n) /\ RoundOrder(K, n)
    BY DEF LogInv
  <2>2. /\ <<u, n>> \in elected /\ n # p /\ Sent(H, I, K, m.entries, m.commit, u)
        /\ K[p][u] <= Len(m.entries)
    BY <1>1, <1>2, <2>1 DEF AppendRound, RoundOrder
  <2>3. Won(u) /\ <<u, p>> \notin elected
    BY <1>1, <2>2 DEF Won, ElectionSafety
  <2>4. Takes(H, I, K, p, m)
    BY <1>1, <1>2, <1>3, <1>7, <2>2, <2>3 DEF Takes, Offered
  <2>5. /\ Before(p, H, I, K, H, I, K2) /\ Histories(H, I, K2)'
        /\ NodeOK(H, K2, p)' /\ LeaderOK(H, K2, p)' /\ SameCandidate(p)
    BY <2>4, TakenBefore, TakenNode
  <2>6. state'[p].term = u /\ state'[p].log = m.entries /\ K2[p][u] = Len(m.entries)
        /\ Len(m.entries) \in Nat
    BY <1>1, <1>2, <2>4, TakenState, TakenAcks
  <2>7. rnd'[n].lens[p] <= K2[p][u]
    BY <1>4, <1>5, <2>6
  <2> HIDE DEF m, s
  <2>8. LogInv(H, I, K2)'
    BY <2>5, <2>6, <2>7, AnsweredInv
  <2>9. Onward(H, K, H, K2)
    BY <2>5, Grows DEF Onward
  <2> QED
    BY <2>8, <2>9
<1> QED
  BY <1>6, <1>7

(******************************* leaders' steps ****************************)

\* The log of a term nobody has won is empty, and nobody has taken it.
LEMMA NoLog ==
    ASSUME NEW H, NEW I, NEW K, Histories(H, I, K), NEW u \in Nat, ~Won(u)
    PROVE  H[u] = <<>> /\ \A q \in Server : K[q][u] = 0
<1>1. H[u] = <<>>
  BY DEF Histories
<1>2. \A q \in Server : K[q][u] <= Len(H[u]) /\ K[q][u] \in Nat
  BY AckOf DEF Histories
<1> QED
  BY <1>1, <1>2

\* What is left of the invariant about the logs when one of them grows.
LEMMA HistoriesNext ==
    ASSUME NEW m, NEW H, NEW I, NEW K, NEW H2, NEW I2, NEW K2, Before(m, H, I, K, H2, I2, K2),
           NEW u, u = state'[m].term,
           Lawful(H2, H2[u], u), Agree(I2[u], H2[u], Len(I2[u])),
           \A q \in Server : K2[q][u] <= Len(H2[u]), <<u, m>> \in elected'
    PROVE  Histories(H2, I2, K2)'
<1>1. Logs(H2) /\ Logs(I2) /\ Acks(K2) /\ Logs(H) /\ Logs(I) /\ Grown(H, H2) /\ u \in Nat
  BY Grows, NextNodeFacts DEF Before, Histories
<1>2. \A t \in Nat : t # u => H2[t] = H[t] /\ I2[t] = I[t]
  BY DEF Before, Change
<1>3. \A t \in Nat : Lawful(H2, H2[t], t)
  <2> SUFFICES ASSUME NEW t \in Nat, t # u PROVE Lawful(H2, H2[t], t)
    OBVIOUS
  <2> DEFINE A == H[t]
  <2>1. H2[t] = A /\ A \in Seq(Entry) /\ Lawful(H, A, t)
    BY <1>1, <1>2, LogOf DEF Before, Histories
  <2>2. t <= t
    OBVIOUS
  <2> HIDE DEF A
  <2>3. Lawful(H2, A, t)
    BY <1>1, <2>1, <2>2, LawfulStays
  <2> QED
    BY <2>1, <2>3
<1>4. \A t \in Nat : Agree(I2[t], H2[t], Len(I2[t]))
  <2> SUFFICES ASSUME NEW t \in Nat, t # u PROVE Agree(I2[t], H2[t], Len(I2[t]))
    OBVIOUS
  <2> QED
    BY <1>2 DEF Before, Histories
<1>5. \A t \in Nat, q \in Server : K2[q][t] <= Len(H2[t])
  <2> SUFFICES ASSUME NEW t \in Nat, NEW q \in Server, t # u PROVE K2[q][t] <= Len(H2[t])
    OBVIOUS
  <2>1. K2[q][t] = K[q][t] /\ H2[t] = H[t]
    BY <1>2 DEF Before, Change
  <2> QED
    BY <2>1 DEF Before, Histories
<1>6. \A t \in Nat : ~Won(t)' => H2[t] = <<>>
  <2> SUFFICES ASSUME NEW t \in Nat, ~Won(t)' PROVE H2[t] = <<>>
    OBVIOUS
  <2>1. t # u
    BY DEF Won
  <2>2. ~Won(t)
    BY DEF Before, Change, Won
  <2> QED
    BY <1>2, <2>1, <2>2 DEF Before, Histories
<1> QED
  BY <1>1, <1>3, <1>4, <1>5, <1>6 DEF Histories

\* A longer log is backed as the log it starts with.
LEMMA BackedLonger ==
    ASSUME NEW H, Logs(H), NEW K, NEW L \in Seq(Entry), NEW M \in Seq(Entry), Agree(L, M, Len(L)),
           NEW k \in Nat, NEW t, NEW c, Backed(H, K, L, k, t, c)
    PROVE  Backed(H, K, M, k, t, c)
<1>1. CASE k = 0
  BY <1>1 DEF Backed
<1>2. CASE k # 0
  <2>1. PICK w \in Nat, a \in Nat : /\ w <= t /\ k <= a /\ Own(H, w, a) /\ Cert(K, w, a)
                                    /\ Agree(L, H[w], k) /\ (w = t => k <= c)
    BY <1>2 DEF Backed
  <2> DEFINE A == H[w]
  <2>2. A \in Seq(Entry)
    BY LogOf
  <2>3. Agree(L, A, k)
    BY <2>1
  <2> HIDE DEF A
  <2>4. Agree(M, A, k)
    BY <2>2, <2>3 DEF Agree
  <2> QED
    BY <2>1, <2>4 DEF Backed, A
<1> QED
  BY <1>1, <1>2

LEMMA CommandInv ==
    ASSUME ElectionInv, [Next]_vars, NEW H, NEW I, NEW K, LogInv(H, I, K),
           NEW n \in Server, NEW c \in Cmd, ClientCommand(n, c)
    PROVE  \E H2, K2 : LogInv(H2, I, K2)' /\ Onward(H, K, H2, K2)
<1> DEFINE L == state[n].log
           e == [term |-> state[n].term, cmd |-> c]
<1>t. PICK t : t = state[n].term
  OBVIOUS
<1>m. PICK M : M = Append(L, e)
  OBVIOUS
<1>h. PICK H2 : H2 = [H EXCEPT ![t] = M]
  OBVIOUS
<1>k. PICK K2 : K2 = [K EXCEPT ![n][t] = Len(M)]
  OBVIOUS
<1>1. /\ TypeInv /\ TypeInv' /\ ElectionSafety /\ ElectionSafety' /\ Ballots
      /\ state[n] \in NodeState /\ L \in Seq(Entry) /\ t \in Nat /\ state[n].commit_index \in Nat
      /\ Histories(H, I, K) /\ Logs(H) /\ Logs(I) /\ Acks(K) /\ NodeOK(H, K, n) /\ LeaderOK(H, K, n)
  BY <1>t, NextElection, NodeFacts DEF LogInv, Histories
<1>2. /\ state' = [state EXCEPT ![n] = [state[n] EXCEPT !.log = M]]
      /\ c \notin Reserved /\ state[n].role = "Leader"
      /\ elected' = elected /\ inbox' = inbox /\ pc' = pc /\ rnd' = rnd
  BY <1>m DEF ClientCommand, Commit
<1>3. e \in Entry /\ e.term = t /\ e.cmd = c /\ M \in Seq(Entry)
  <2>1. e \in Entry /\ e.term = t /\ e.cmd = c
    BY <1>1, <1>t, CommandAssumption DEF Entry
  <2> HIDE DEF e, L
  <2> QED
    BY <1>1, <1>m, <2>1
<1>4. /\ state'[n].log = M /\ state'[n].term = t /\ state'[n].role = "Leader"
      /\ state'[n].commit_index = state[n].commit_index /\ state'[n].applied = state[n].applied
      /\ \A q \in Server \ {n} : state'[q] = state[q]
  BY <1>1, <1>2, <1>3, <1>t DEF TypeInv, TypeOK, NodeState
<1>5. L = H[t] /\ K[n][t] = Len(L) /\ <<t, n>> \in elected
      /\ Lawful(H, L, t) /\ Keep(H, K, L, n, t + 1)
      /\ Backed(H, K, L, state[n].commit_index, t, Len(L))
      /\ state[n].applied = state[n].commit_index
      /\ \A x \in Nat : x > t => K[n][x] = 0
  BY <1>1, <1>2, <1>t DEF LeaderOK, NodeOK
<1>6. M = Append(L, e)
  BY <1>m
<1> HIDE DEF L, e
<1>7. Len(L) \in Nat /\ Len(M) = Len(L) + 1 /\ Len(M) \in Nat /\ Agree(L, M, Len(L))
  BY <1>1, <1>3, <1>6 DEF Agree
<1>a. /\ TypeInv /\ TypeInv' /\ Histories(H, I, K) /\ Logs(H) /\ Acks(K) /\ t \in Nat
      /\ L \in Seq(Entry)
  BY <1>1
<1>b. Logs(H2) /\ H2[t] = M /\ \A x \in Nat : x # t => H2[x] = H[x]
  BY <1>3, <1>a, <1>h DEF Logs
<1>c. /\ Acks(K2) /\ K2[n][t] = Len(M)
      /\ \A q \in Server, x \in Nat : q # n \/ x # t => K2[q][x] = K[q][x]
  BY <1>7, <1>a, <1>k DEF Acks
<1>8. /\ Logs(H2) /\ H2[t] = M /\ (\A x \in Nat : x # t => H2[x] = H[x])
      /\ Acks(K2) /\ K2[n][t] = Len(M)
      /\ \A q \in Server, x \in Nat : q # n \/ x # t => K2[q][x] = K[q][x]
  BY <1>b, <1>c
<1>9. Before(n, H, I, K, H2, I, K2)
  <2>1. K[n][t] <= K2[n][t]
    BY <1>5, <1>7, <1>8
  <2>2. Agree(H[t], H2[t], Len(H[t]))
    BY <1>5, <1>7, <1>8
  <2>3. state[n].term <= t
    BY <1>1, <1>t
  <2>4. Change(n, H, I, K, H2, I, K2)
    <3>1. /\ state'[n].term = t /\ elected' = elected /\ <<t, n>> \in elected
          /\ state[n].term = t /\ \A q \in Server \ {n} : state'[q] = state[q]
      BY <1>2, <1>4, <1>5, <1>t
    <3> QED
      BY <1>b, <1>c, <2>1, <2>2, <2>3, <3>1 DEF Change
  <2> QED
    BY <1>1, <1>8, <2>4 DEF Before
<1>10. Grown(H, H2)
  BY <1>9, Grows
<1>11. Lawful(H2, M, t)
  <2>1. t <= t
    BY <1>1
  <2>2. Lawful(H2, L, t)
    BY <1>1, <1>5, <1>8, <1>10, <2>1, LawfulStays
  <2> QED
    BY <1>1, <1>2, <1>3, <1>6, <1>8, <2>2, LawfulAppend
<1>12. Histories(H2, I, K2)'
  <2>1. Agree(I[t], H2[t], Len(I[t]))
    <3> DEFINE A == I[t]
    <3>1. A \in Seq(Entry) /\ Agree(A, H[t], Len(A))
      BY <1>1, LogOf DEF Histories
    <3> HIDE DEF A
    <3>2. Len(A) \in Nat
      BY <3>1
    <3>3. Agree(A, H2[t], Len(A))
      BY <1>1, <1>8, <1>10, <3>1, <3>2, AgreeStays
    <3> QED
      BY <3>3 DEF A
  <2>2. ASSUME NEW q \in Server PROVE K2[q][t] <= Len(H2[t])
    <3>1. CASE q = n
      BY <1>7, <1>8, <3>1
    <3>2. CASE q # n
      <4>1. K2[q][t] = K[q][t] /\ K[q][t] <= Len(L) /\ K[q][t] \in Nat
        BY <1>1, <1>5, <1>8, <3>2, AckOf DEF Histories
      <4> QED
        BY <1>7, <1>8, <4>1
    <3> QED
      BY <3>1, <3>2
  <2>3. <<t, n>> \in elected' /\ t = state'[n].term /\ Lawful(H2, H2[t], t)
    BY <1>2, <1>4, <1>5, <1>8, <1>11
  <2> QED
    BY <1>9, <2>1, <2>2, <2>3, HistoriesNext
<1>13. NodeOK(H2, K2, n)'
  <2>1. \A x \in Nat : x > t => K2[n][x] = 0
    BY <1>1, <1>5, <1>8
  <2>2. KeepNext(H2, K2, M, n, t + 1)
    <3>1. Keep(H, K, L, n, t)
      BY <1>1, <1>5 DEF Keep
    <3>2. \A x \in Nat : x < t => K2[n][x] = K[n][x]
      BY <1>1, <1>8
    <3>3. KeepNext(H2, K2, L, n, t)
      BY <1>9, <1>a, <3>1, <3>2, KeepStays
    <3> SUFFICES ASSUME NEW x \in Nat, NEW a \in Nat, x < t + 1, a <= K2[n][x], Own(H2, x, a),
                        Choosable(K2, x, a)'
                 PROVE  Agree(M, H2[x], a)
      BY DEF KeepNext
    <3> DEFINE A == H2[x]
    <3>4. A \in Seq(Entry)
      BY <1>8, LogOf
    <3>5. CASE x < t
      <4>1. Agree(L, A, a)
        BY <3>3, <3>5 DEF KeepNext
      <4> HIDE DEF A
      <4>2. Agree(M, A, a)
        BY <1>1, <1>3, <1>7, <3>4, <4>1 DEF Agree
      <4> QED
        BY <4>2 DEF A
    <3>6. CASE x = t
      <4>1. A = M /\ a <= Len(M)
        BY <1>8, <3>6
      <4> HIDE DEF A
      <4>2. Agree(M, A, a)
        BY <1>3, <4>1 DEF Agree
      <4> QED
        BY <4>2 DEF A
    <3> QED
      BY <1>1, <3>5, <3>6
  <2>3. Backed(H2, K2, M, state[n].commit_index, t, Len(M))
    <3>1. Len(L) <= Len(M)
      BY <1>7
    <3>2. Backed(H2, K2, L, state[n].commit_index, t, Len(M))
      BY <1>1, <1>5, <1>7, <1>9, <3>1, BackedStays
    <3> QED
      BY <1>1, <1>3, <1>7, <1>8, <3>2, BackedLonger
  <2>4. Keep(H2, K2, state[n].log, n, state[n].term + 1)'
    BY <1>4, <2>2 DEF Keep, KeepNext
  <2> QED
    BY <1>4, <1>5, <1>8, <1>11, <2>1, <2>3, <2>4 DEF NodeOK
<1>14. LeaderOK(H2, K2, n)'
  BY <1>1, <1>2, <1>4, <1>5, <1>8 DEF LeaderOK
<1>15. ASSUME NEW k \in Server
       PROVE  VoteRound(H2, K2, k)' /\ AppendRound(H2, I, K2, k)' /\ RoundOrder(K2, k)'
  <2>1. SameRound(k) /\ SameCandidate(n)
    BY <1>2, <1>4 DEF SameRound, SameCandidate
  <2>2. VoteRound(H, K, k) /\ AppendRound(H, I, K, k) /\ RoundOrder(K, k)
    BY DEF LogInv
  <2>3. ~(pc[k] = "append" /\ n \in rnd[k].todo /\ state'[n].term = rnd[k].term)
    <3> SUFFICES ASSUME pc[k] = "append", n \in rnd[k].todo, t = rnd[k].term PROVE FALSE
      BY <1>4
    <3>1. <<t, k>> \in elected /\ k # n
      BY <2>2 DEF AppendRound
    <3> QED
      BY <1>1, <1>5, <3>1 DEF ElectionSafety
  <2> QED
    BY <1>1, <1>2, <1>9, <2>1, <2>2, <2>3, QueuesServe, RoundsStay
<1>16. ASSUME NEW p \in Server PROVE Queue(H2, I, K2, p)'
  <2>1. Queue(H, I, K, p) /\ Serves(inbox[p], inbox'[p])
    BY <1>2, QueuesServe DEF LogInv
  <2>2. p = n => \A i \in 1 .. Len(inbox'[p]) :
                    AtLeast(inbox'[p][i], state'[n].term, K2[n][state'[n].term])
    BY <1>2, <1>4, <1>5, <2>1 DEF Queue, AtLeast, AppendOf
  <2>3. ElectionSafety'
    BY <1>1
  <2> QED
    BY <1>9, <2>1, <2>2, <2>3, QueueStays
<1>17. LogInv(H2, I, K2)'
  BY <1>2, <1>9, <1>12, <1>13, <1>14, <1>15, <1>16, StepInv
<1>18. Onward(H, K, H2, K2)
  BY <1>9, Grows DEF Onward
<1> QED
  BY <1>17, <1>18

LEMMA WonInv ==
    ASSUME ElectionInv, [Next]_vars, NEW H, NEW I, NEW K, LogInv(H, I, K), NEW n \in Server,
           ElectionWon(n)
    PROVE  \E H2, I2, K2 : LogInv(H2, I2, K2)' /\ Onward(H, K, H2, K2)
<1>u. PICK u : u = state[n].term
  OBVIOUS
<1>l. PICK L : L = state[n].log
  OBVIOUS
<1>h. PICK H2 : H2 = [H EXCEPT ![u] = L]
  OBVIOUS
<1>i. PICK I2 : I2 = [I EXCEPT ![u] = L]
  OBVIOUS
<1>k. PICK K2 : K2 = [K EXCEPT ![n][u] = Len(L)]
  OBVIOUS
<1>1. /\ TypeInv /\ TypeInv' /\ u \in Nat /\ L \in Seq(Entry) /\ state[n] \in NodeState
      /\ Histories(H, I, K) /\ Logs(H) /\ Logs(I) /\ Acks(K)
      /\ state[n].commit_index \in Nat
  BY <1>l, <1>u, NextElection, NodeFacts DEF LogInv, Histories
<1>2. ElectionSafety' /\ Ballots /\ Cover(H, I, K)
      /\ NodeOK(H, K, n) /\ LeaderOK(H, K, n) /\ VoteRound(H, K, n)
  BY NextElection DEF LogInv
<1>3. /\ state' = [state EXCEPT ![n].role = "Leader"] /\ elected' = elected \cup {<<u, n>>}
      /\ inbox' = inbox /\ EndRound(n) /\ pc[n] = "vote" /\ state[n].role = "Candidate"
      /\ u = rnd[n].term /\ Cardinality(rnd[n].votes) >= Majority
  BY <1>u DEF ElectionWon, MayWin
<1>4. /\ state'[n].log = L /\ state'[n].term = u /\ state'[n].role = "Leader"
      /\ state'[n].commit_index = state[n].commit_index /\ state'[n].applied = state[n].applied
      /\ \A q \in Server \ {n} : state'[q] = state[q]
  BY <1>1, <1>3, <1>l, <1>u DEF TypeInv, TypeOK, NodeState
<1>5. /\ L = rnd[n].log /\ Lawful(H, L, u) /\ Keep(H, K, L, n, u + 1)
      /\ Backed(H, K, L, state[n].commit_index, u, K[n][u])
      /\ state[n].applied = state[n].commit_index
      /\ \A t \in Nat : t > u => K[n][t] = 0
  BY <1>2, <1>3, <1>l, <1>u DEF NodeOK, VoteRound
<1>6. ~Won(u)
  <2> SUFFICES ASSUME NEW e \in elected, e[1] = u PROVE FALSE
    BY DEF Won
  <2>1. e \in elected' /\ <<u, n>> \in elected'
    BY <1>3
  <2>2. e[2] = n
    BY <1>2, <2>1 DEF ElectionSafety
  <2> QED
    BY <1>1, <1>2, <1>3, <1>u, <2>2 DEF LeaderOK
<1>7. H[u] = <<>> /\ \A q \in Server : K[q][u] = 0
  BY <1>1, <1>6, NoLog
<1>8. Len(L) \in Nat /\ Len(<<>>) = 0
  BY <1>1
<1>9. Logs(H2) /\ H2[u] = L /\ \A t \in Nat : t # u => H2[t] = H[t]
  BY <1>1, <1>h DEF Logs
<1>10. Logs(I2) /\ I2[u] = L /\ \A t \in Nat : t # u => I2[t] = I[t]
  BY <1>1, <1>i DEF Logs
<1>11. /\ Acks(K2) /\ K2[n][u] = Len(L)
       /\ \A q \in Server, t \in Nat : q # n \/ t # u => K2[q][t] = K[q][t]
  BY <1>1, <1>8, <1>k DEF Acks
<1>12. Before(n, H, I, K, H2, I2, K2)
  <2>1. K[n][u] <= K2[n][u]
    BY <1>7, <1>8, <1>11
  <2>2. Agree(H[u], H2[u], Len(H[u]))
    BY <1>7, <1>8, <1>9 DEF Agree
  <2>3. state[n].term <= u
    BY <1>1, <1>u
  <2>4. <<u, n>> \in elected' /\ elected \subseteq elected'
        /\ \A e \in elected' \ elected : e = <<u, n>> /\ ~Won(e[1])
    BY <1>3, <1>6
  <2>5. Change(n, H, I, K, H2, I2, K2)
    BY <1>4, <1>6, <1>9, <1>10, <1>11, <2>1, <2>2, <2>3, <2>4 DEF Change
  <2> QED
    BY <1>1, <1>9, <1>10, <1>11, <2>5 DEF Before
<1>13. Grown(H, H2)
  BY <1>12, Grows
<1>14. Lawful(H2, L, u)
  <2>1. u <= u
    BY <1>1
  <2> QED
    BY <1>1, <1>5, <1>9, <1>13, <2>1, LawfulStays
<1>15. Agree(L, L, Len(L))
  BY <1>1, AgreeSelf
<1>16. Histories(H2, I2, K2)'
  <2>1. Agree(I2[u], H2[u], Len(I2[u])) /\ Lawful(H2, H2[u], u)
    BY <1>9, <1>10, <1>14, <1>15
  <2>2. ASSUME NEW q \in Server PROVE K2[q][u] <= Len(H2[u])
    <3>1. CASE q = n
      BY <1>8, <1>9, <1>11, <3>1
    <3>2. CASE q # n
      BY <1>1, <1>7, <1>8, <1>9, <1>11, <3>2
    <3> QED
      BY <3>1, <3>2
  <2>3. <<u, n>> \in elected' /\ u = state'[n].term
    BY <1>3, <1>4
  <2> QED
    BY <1>12, <2>1, <2>2, <2>3, HistoriesNext
<1>17. ASSUME NEW e \in elected' \ elected, NEW t \in Nat, NEW a \in Nat, t < e[1],
              Own(H2, t, a), Choosable(K2, t, a)'
       PROVE  Agree(I2[e[1]], H2[t], a)
  <2>1. e[1] = u /\ t < u /\ t # u
    BY <1>1, <1>3, <1>17
  <2>2. Own(H, t, a)
    BY <1>9, <1>17, <2>1 DEF Own
  <2>3. Choosable(K, t, a)
    BY <1>12, <1>17, ChoosableBefore
  <2>4. PICK Q \in SUBSET Server :
           Cardinality(Q) >= Majority /\ \A q \in Q : K[q][t] >= a \/ state[q].term <= t
    BY <2>3 DEF Choosable
  <2>5. rnd[n].votes \in SUBSET Server
    BY <1>1, RoundFacts
  <2>6. PICK q \in Q : q \in rnd[n].votes
    BY <1>3, <2>4, <2>5, MajoritiesMeet
  <2>7. q \in Server /\ state[q].term \in Nat /\ K[q][t] \in Nat
    BY <1>1, <2>4, <2>6, NodeFacts, AckOf
  <2>8. state[q].term >= u
    BY <1>1, <1>2, <1>3, <2>6, <2>7 DEF Ballots, Bound
  <2>9. a <= K[q][t]
    BY <1>1, <2>1, <2>4, <2>6, <2>7, <2>8
  <2>10. Agree(L, H[t], a)
    BY <1>2, <1>3, <1>5, <2>1, <2>2, <2>3, <2>6, <2>9 DEF VoteRound, Keep
  <2> QED
    BY <1>9, <1>10, <2>1, <2>10
<1>18. NodeOK(H2, K2, n)'
  <2>1. \A t \in Nat : t > u => K2[n][t] = 0
    BY <1>1, <1>5, <1>11
  <2>2. KeepNext(H2, K2, L, n, u + 1)
    <3>1. Keep(H, K, L, n, u)
      BY <1>1, <1>5 DEF Keep
    <3>2. \A t \in Nat : t < u => K2[n][t] = K[n][t]
      BY <1>1, <1>11
    <3>3. KeepNext(H2, K2, L, n, u)
      BY <1>1, <1>12, <3>1, <3>2, KeepStays
    <3> SUFFICES ASSUME NEW t \in Nat, NEW a \in Nat, t < u + 1, a <= K2[n][t], Own(H2, t, a),
                        Choosable(K2, t, a)'
                 PROVE  Agree(L, H2[t], a)
      BY DEF KeepNext
    <3>4. CASE t < u
      BY <3>3, <3>4 DEF KeepNext
    <3>5. CASE t = u
      <4>1. H2[t] = L /\ a <= Len(L)
        BY <1>9, <1>11, <3>5
      <4>2. Agree(L, L, a)
        BY <1>1, <4>1 DEF Agree
      <4> QED
        BY <4>1, <4>2
    <3> QED
      BY <1>1, <3>4, <3>5
  <2>3. Backed(H2, K2, L, state[n].commit_index, u, Len(L))
    <3>1. K[n][u] = 0 /\ K[n][u] \in Nat /\ K[n][u] <= Len(L)
      BY <1>7, <1>8
    <3> QED
      BY <1>1, <1>5, <1>8, <1>12, <3>1, BackedStays
  <2>4. Keep(H2, K2, state[n].log, n, state[n].term + 1)'
    BY <1>4, <2>2 DEF Keep, KeepNext
  <2> QED
    BY <1>4, <1>5, <1>11, <1>14, <2>1, <2>3, <2>4 DEF NodeOK
<1>19. LeaderOK(H2, K2, n)'
  <2>1. ASSUME NEW e \in elected', e[2] = n PROVE e[1] < u \/ e[1] = u
    BY <1>2, <1>3, <1>u, <2>1 DEF LeaderOK
  <2>2. <<u, n>> \in elected'
    BY <1>3
  <2> QED
    BY <1>4, <1>9, <1>11, <2>1, <2>2 DEF LeaderOK
<1>20. ASSUME NEW k \in Server
       PROVE  VoteRound(H2, K2, k)' /\ AppendRound(H2, I2, K2, k)' /\ RoundOrder(K2, k)'
  <2>1. SameRound(k) /\ SameCandidate(n)
    BY <1>1, <1>3, <1>4, EndRoundSame DEF SameCandidate
  <2>2. VoteRound(H, K, k) /\ AppendRound(H, I, K, k) /\ RoundOrder(K, k)
    BY DEF LogInv
  <2>3. ~(pc[k] = "append" /\ n \in rnd[k].todo /\ state'[n].term = rnd[k].term)
    BY <1>4, <1>6, <2>2 DEF AppendRound, Won
  <2> QED
    BY <1>2, <1>3, <1>12, <2>1, <2>2, <2>3, QueuesServe, RoundsStay
<1>21. ASSUME NEW p \in Server PROVE Queue(H2, I2, K2, p)'
  <2>1. Queue(H, I, K, p) /\ Serves(inbox[p], inbox'[p])
    BY <1>3, QueuesServe DEF LogInv
  <2>2. p = n => \A i \in 1 .. Len(inbox'[p]) :
                    AtLeast(inbox'[p][i], state'[n].term, K2[n][state'[n].term])
    BY <1>3, <1>4, <1>6, <2>1 DEF Queue, AtLeast, AppendOf
  <2> QED
    BY <1>2, <1>12, <2>1, <2>2, QueueStays
<1>22. LogInv(H2, I2, K2)'
  BY <1>12, <1>16, <1>17, <1>18, <1>19, <1>20, <1>21, StepInv
<1>23. Onward(H, K, H2, K2)
  BY <1>12, Grows DEF Onward
<1> QED
  BY <1>22, <1>23

(***************************** every step **********************************)

\* The condition on the schedule: when the tick of a leader comes to read its
\* log, the node still leads in the term that it has read before.  (The code
\* takes the two under two locks and does not look again.)
SnapshotInTerm ==
    \A n \in Server :
        LeaderSnapshot(n) => state[n].role = "Leader" /\ state[n].term = rnd[n].term

LEMMA SavedCommit ==
    ASSUME TypeInv, Saved, NEW n \in Server, NEW s, Commit(n, s)
    PROVE  Saved'
  BY DEF Saved, Commit, TypeInv, TypeOK

LEMMA SavedSame ==
    ASSUME TypeInv, Saved, NEW n \in Server, NEW s, state' = [state EXCEPT ![n] = s], disk' = disk,
           s.term = state[n].term, s.voted_for = state[n].voted_for,
           s.commit_index = state[n].commit_index, s.log = state[n].log
    PROVE  Saved'
<1>1. state'[n] = s /\ \A k \in Server \ {n} : state'[k] = state[k]
  BY DEF TypeInv, TypeOK
<1>2. Persist(s) = Persist(state[n])
  BY DEF Persist
<1> QED
  BY <1>1, <1>2 DEF Saved

LEMMA SavedStep ==
    ASSUME ElectionInv, Saved, [Next]_vars, NEW H, NEW I, NEW K, LogInv(H, I, K)
    PROVE  Saved'
<1>1. TypeInv
  BY NextElection
<1>2. ASSUME disk' = disk, state' = state PROVE Saved'
  BY <1>2 DEF Saved
<1>3. ASSUME NEW n \in Server, NEW s, Commit(n, s) PROVE Saved'
  BY <1>1, <1>3, SavedCommit
<1>4. ASSUME NEW n \in Server, ElectionWon(n) PROVE Saved'
  <2> DEFINE s == [state[n] EXCEPT !.role = "Leader"]
  <2>1. /\ s.term = state[n].term /\ s.voted_for = state[n].voted_for
        /\ s.commit_index = state[n].commit_index /\ s.log = state[n].log
    BY <1>1, NodeFacts DEF NodeState
  <2>2. state' = [state EXCEPT ![n] = s] /\ disk' = disk
    BY <1>4 DEF ElectionWon
  <2> QED
    BY <1>1, <2>1, <2>2, SavedSame
<1>5. ASSUME NEW n \in Server, ClientGet(n) PROVE Saved'
  <2> DEFINE s == IF state[n].role = "Leader" THEN Apply(state[n]) ELSE state[n]
  <2>1. /\ s.term = state[n].term /\ s.voted_for = state[n].voted_for
        /\ s.commit_index = state[n].commit_index /\ s.log = state[n].log
    BY <1>1, NodeFacts, ApplyLog
  <2>2. state' = [state EXCEPT ![n] = s] /\ disk' = disk
    BY <1>1, <1>5 DEF ClientGet, TypeInv, TypeOK
  <2> HIDE DEF s
  <2> QED
    BY <1>1, <2>1, <2>2, SavedSame
<1>6. ASSUME NEW n \in Server, Restart(n) PROVE Saved'
  <2> DEFINE s == Recover(disk[n])
  <2>1. /\ s.term = state[n].term /\ s.voted_for = state[n].voted_for
        /\ s.commit_index = state[n].commit_index /\ s.log = state[n].log
    BY <1>1, RecoverLog DEF LogInv, NodeOK
  <2>2. state' = [state EXCEPT ![n] = s] /\ disk' = disk
    BY <1>6 DEF Restart
  <2> HIDE DEF s
  <2> QED
    BY <1>1, <2>1, <2>2, SavedSame
<1>7. ASSUME Next PROVE Saved'
  <2>1. PICK n \in Server :
        \/ LeaderWake(n) \/ LeaderSnapshot(n) \/ RoundStale(n) \/ ElectionLost(n)
        \/ \E p \in Server : CallRefused(n, p) \/ CallAbandoned(n, p)
        \/ ElectionTimeout(n) \/ RoundDeposed(n) \/ RoundCommit(n) \/ HandleLate(n)
        \/ \E p \in Server : AppendAnswered(n, p) \/ VoteAnswered(n, p)
        \/ \E c \in Cmd : ClientCommand(n, c)
        \/ ElectionWon(n) \/ ClientGet(n) \/ Restart(n)
    BY <1>7 DEF Next
  <2>2. CASE \/ LeaderWake(n) \/ LeaderSnapshot(n) \/ RoundStale(n) \/ ElectionLost(n)
             \/ \E p \in Server : CallRefused(n, p) \/ CallAbandoned(n, p)
    BY <1>2, <2>2 DEF LeaderWake, LeaderSnapshot, RoundStale, ElectionLost, CallRefused, CallAbandoned
  <2>3. CASE ElectionTimeout(n) \/ RoundDeposed(n) \/ RoundCommit(n) \/ HandleLate(n)
    BY <1>3, <2>3 DEF ElectionTimeout, RoundDeposed, RoundCommit, HandleLate
  <2>4. CASE \E p \in Server : AppendAnswered(n, p) \/ VoteAnswered(n, p)
    BY <1>3, <2>4 DEF AppendAnswered, VoteAnswered
  <2>5. CASE \E c \in Cmd : ClientCommand(n, c)
    BY <1>3, <2>5 DEF ClientCommand
  <2> QED
    BY <1>4, <1>5, <1>6, <2>1, <2>2, <2>3, <2>4, <2>5
<1>8. ASSUME UNCHANGED vars PROVE Saved'
  BY <1>2, <1>8 DEF vars
<1> QED
  BY <1>7, <1>8

LEMMA LogStep ==
    ASSUME ElectionInv, Saved, NEW H, NEW I, NEW K, LogInv(H, I, K), Next, SnapshotInTerm
    PROVE  \E H2, I2, K2 : LogInv(H2, I2, K2)' /\ Onward(H, K, H2, K2)
<1>a. [Next]_vars
  OBVIOUS
<1>b. Onward(H, K, H, K)
  BY OnwardSame DEF LogInv
<1>1. PICK n \in Server :
        \/ LeaderWake(n) \/ RoundStale(n) \/ ElectionLost(n)
        \/ \E p \in Server : CallRefused(n, p)
        \/ LeaderSnapshot(n) \/ ElectionTimeout(n)
        \/ \E p \in Server : AppendAnswered(n, p)
        \/ \E p \in Server : VoteAnswered(n, p)
        \/ \E p \in Server : CallAbandoned(n, p)
        \/ RoundDeposed(n) \/ RoundCommit(n) \/ ElectionWon(n) \/ HandleLate(n)
        \/ \E c \in Cmd : ClientCommand(n, c)
        \/ ClientGet(n) \/ Restart(n)
  BY DEF Next
<1>2. CASE LeaderWake(n) \/ RoundStale(n) \/ ElectionLost(n) \/ \E p \in Server : CallRefused(n, p)
  BY <1>a, <1>b, <1>2, StillInv
<1>3. CASE LeaderSnapshot(n)
  BY <1>a, <1>b, <1>3, SnapshotInv DEF SnapshotInTerm
<1>4. CASE ElectionTimeout(n)
  BY <1>a, <1>b, <1>4, TimeoutInv
<1>5. CASE \E p \in Server : AppendAnswered(n, p)
  BY <1>a, <1>5, AppendInv
<1>6. CASE \E p \in Server : VoteAnswered(n, p)
  BY <1>a, <1>b, <1>6, VoteInv
<1>7. CASE \E p \in Server : CallAbandoned(n, p)
  BY <1>a, <1>b, <1>7, AbandonedInv
<1>8. CASE RoundDeposed(n)
  BY <1>a, <1>b, <1>8, DeposedInv
<1>9. CASE RoundCommit(n)
  BY <1>a, <1>b, <1>9, CommitInv
<1>10. CASE ElectionWon(n)
  BY <1>a, <1>10, WonInv
<1>11. CASE HandleLate(n)
  <2>1. Head(inbox[n]).kind \in {"append", "requestvote"}
    <3>1. inbox[n] \in Seq(VoteRequest \cup AppendRequest) /\ inbox[n] # <<>>
      BY <1>11, <1>a, NextElection DEF HandleLate, TypeInv, TypeOK
    <3>2. Head(inbox[n]) \in VoteRequest \cup AppendRequest
      BY <3>1
    <3> QED
      BY <3>2, MessageFacts
  <2>2. CASE Head(inbox[n]).kind = "append"
    BY <1>a, <1>11, <2>2, LateAppendInv
  <2>3. CASE Head(inbox[n]).kind = "requestvote"
    BY <1>a, <1>b, <1>11, <2>3, LateVoteInv
  <2> QED
    BY <2>1, <2>2, <2>3
<1>12. CASE \E c \in Cmd : ClientCommand(n, c)
  BY <1>a, <1>12, CommandInv
<1>13. CASE ClientGet(n)
  BY <1>a, <1>b, <1>13, GetInv
<1>14. CASE Restart(n)
  BY <1>a, <1>b, <1>14, RestartInv
<1> QED
  BY <1>1, <1>2, <1>3, <1>4, <1>5, <1>6, <1>7, <1>8, <1>9, <1>10, <1>11, <1>12, <1>13, <1>14

LEMMA RaftStep == RaftInv /\ [Next]_vars /\ [SnapshotInTerm]_vars => RaftInv'
<1> SUFFICES ASSUME RaftInv, [Next]_vars, [SnapshotInTerm]_vars PROVE RaftInv'
  OBVIOUS
<1>1. PICK H, I, K : LogInv(H, I, K)
  BY DEF RaftInv
<1>2. ElectionInv /\ Saved /\ ElectionInv'
  BY NextElection DEF RaftInv
<1>3. Saved'
  BY <1>1, <1>2, SavedStep
<1>4. CASE UNCHANGED vars
  <2>1. state' = state /\ elected' = elected /\ inbox' = inbox /\ pc' = pc /\ rnd' = rnd
    BY <1>4 DEF vars
  <2>2. \A n \in Server : SameRound(n)
    BY <2>1 DEF SameRound
  <2>3. PICK m \in Server : TRUE
    BY ServerAssumption
  <2>4. LogInv(H, I, K)'
    BY <1>1, <1>2, <2>1, <2>2, StillNode, QueuesServe, IdleInv
  <2> QED
    BY <1>2, <1>3, <2>4 DEF RaftInv
<1>5. CASE Next /\ SnapshotInTerm
  <2>1. \E H2, I2, K2 : LogInv(H2, I2, K2)'
    BY <1>1, <1>2, <1>5, LogStep
  <2> QED
    BY <1>2, <1>3, <2>1 DEF RaftInv
<1> QED
  BY <1>4, <1>5

LEMMA NewNode ==
    LET s == Recover(NoFile)
    IN  /\ s.term = 0 /\ s.log = <<>> /\ s.commit_index = 0 /\ s.applied = 0
        /\ s.role = "Follower" /\ s.voted_for = None
<1> DEFINE a == [term |-> 0, role |-> "Follower", voted_for |-> None,
                 log |-> <<>>, commit_index |-> 0,
                 applied |-> 0, kv |-> [k \in Key |-> Nil]]
<1>1. Wire(<<>>) = <<>>
  BY DEF Wire
<1>2. Recover(NoFile) = Apply(a)
  BY <1>1 DEF Recover, NoFile
<1>3. /\ a \in NodeState /\ a.log = <<>> /\ a.commit_index = 0 /\ a.term = 0
      /\ a.applied = 0 /\ a.role = "Follower" /\ a.voted_for = None
  BY DEF NodeState
<1> HIDE DEF a
<1> QED
  BY <1>2, <1>3, ApplyLog

LEMMA RaftInit == Init => RaftInv
<1> SUFFICES ASSUME Init PROVE RaftInv
  OBVIOUS
<1> PICK H : H = [t \in Nat |-> <<>>]
  OBVIOUS
<1> PICK K : K = [q \in Server |-> [t \in Nat |-> 0]]
  OBVIOUS
<1>1. ElectionInv
  BY ElectionInit
<1>2. \A n \in Server :
         /\ state[n].term = 0 /\ state[n].log = <<>> /\ state[n].commit_index = 0
         /\ state[n].applied = 0 /\ state[n].role = "Follower" /\ state[n].voted_for = None
         /\ disk[n] = NoFile /\ pc[n] = "sleep" /\ inbox[n] = <<>>
  BY NewNode DEF Init
<1>3. elected = {}
  BY DEF Init
<1>4. Saved
  BY <1>2 DEF Saved, Persist, NoFile
<1>5. Logs(H) /\ Acks(K) /\ (\A t \in Nat : H[t] = <<>>) /\ \A q \in Server, t \in Nat : K[q][t] = 0
  BY DEF Logs, Acks
<1>6. \A t \in Nat : Lawful(H, <<>>, t)
  BY DEF Lawful, Matched
<1>7. Histories(H, H, K)
  <2>1. \A t \in Nat : Agree(H[t], H[t], Len(H[t])) /\ Lawful(H, H[t], t)
    BY <1>5, <1>6 DEF Agree
  <2>2. \A t \in Nat, q \in Server : K[q][t] <= Len(H[t])
    BY <1>5
  <2> QED
    BY <1>5, <2>1, <2>2 DEF Histories
<1>8. Cover(H, H, K)
  BY <1>3 DEF Cover
<1>9. ASSUME NEW n \in Server
      PROVE  /\ NodeOK(H, K, n) /\ LeaderOK(H, K, n) /\ VoteRound(H, K, n)
             /\ AppendRound(H, H, K, n) /\ RoundOrder(K, n) /\ Queue(H, H, K, n)
  <2>1. Keep(H, K, state[n].log, n, state[n].term + 1)
    <3>1. \A t \in Nat, a \in Nat : ~Own(H, t, a)
      BY <1>5 DEF Own
    <3> QED
      BY <3>1 DEF Keep
  <2>2. Backed(H, K, state[n].log, state[n].commit_index, state[n].term, K[n][state[n].term])
    BY <1>2 DEF Backed
  <2>3. NodeOK(H, K, n)
    BY <1>2, <1>5, <1>6, <2>1, <2>2 DEF NodeOK
  <2>4. LeaderOK(H, K, n)
    BY <1>2, <1>3 DEF LeaderOK
  <2>5. VoteRound(H, K, n) /\ AppendRound(H, H, K, n) /\ RoundOrder(K, n)
    BY <1>2 DEF VoteRound, AppendRound, RoundOrder
  <2>6. Queue(H, H, K, n)
    BY <1>2 DEF Queue
  <2> QED
    BY <2>3, <2>4, <2>5, <2>6
<1>10. LogInv(H, H, K)
  BY <1>7, <1>8, <1>9 DEF LogInv
<1> QED
  BY <1>1, <1>4, <1>10 DEF RaftInv

(****************************** what is committed **************************)

\* Two committed prefixes are prefixes of one leader's log.
LEMMA CommonLog ==
    ASSUME TypeInv, NEW H, NEW I, NEW K, Histories(H, I, K), Cover(H, I, K),
           NEW L \in Seq(Entry), NEW k \in Nat, NEW t, NEW c, Backed(H, K, L, k, t, c), k # 0,
           NEW M \in Seq(Entry), NEW l \in Nat, NEW u, NEW d, Backed(H, K, M, l, u, d), l # 0
    PROVE  \E w \in Nat : Agree(L, H[w], k) /\ Agree(M, H[w], l)
<1>1. ASSUME NEW P \in Seq(Entry), NEW i \in Nat, NEW v \in Nat, NEW a \in Nat,
             i <= a, Cert(K, v, a), Own(H, v, a), Agree(P, H[v], i),
             NEW w \in Nat, NEW b \in Nat, Own(H, w, b), v < w
      PROVE  Agree(P, H[w], i)
  <2> DEFINE A == H[v]
             B == H[w]
             C == I[w]
  <2>1. B # <<>>
    BY <1>1 DEF Own
  <2>2. PICK e \in elected : e[1] = w
    BY <1>1, <2>1 DEF Histories, Won
  <2>3. A \in Seq(Entry) /\ B \in Seq(Entry) /\ C \in Seq(Entry)
    BY LogOf DEF Histories
  <2>4. Agree(C, A, a) /\ Agree(C, B, Len(C)) /\ Agree(P, A, i)
    BY <1>1, <2>2, CertChoosable DEF Cover, Histories
  <2> HIDE DEF A, B, C
  <2>5. a \in Nat /\ i <= a /\ Len(C) \in Nat /\ a <= Len(C)
    BY <1>1, <2>3, <2>4 DEF Agree
  <2>6. Agree(A, C, i) /\ Agree(C, B, i)
    BY <1>1, <2>3, <2>4, <2>5, AgreeSome
  <2>7. Agree(P, B, i)
    BY <1>1, <2>3, <2>4, <2>6, AgreeAll
  <2> QED
    BY <2>7 DEF B
<1>2. PICK v \in Nat, a \in Nat : k <= a /\ Own(H, v, a) /\ Cert(K, v, a) /\ Agree(L, H[v], k)
  BY DEF Backed
<1>3. PICK w \in Nat, b \in Nat : l <= b /\ Own(H, w, b) /\ Cert(K, w, b) /\ Agree(M, H[w], l)
  BY DEF Backed
<1>4. CASE v < w
  BY <1>1, <1>2, <1>3, <1>4
<1>5. CASE w < v
  BY <1>1, <1>2, <1>3, <1>5
<1>6. CASE v = w
  BY <1>2, <1>3, <1>6
<1> QED
  BY <1>4, <1>5, <1>6

\* The committed prefix of a log as a sequence.
LEMMA PrefixOf ==
    ASSUME NEW L \in Seq(Entry), NEW k \in Nat, k <= Len(L)
    PROVE  /\ SubSeq(L, 1, Min({k, Len(L)})) = SubSeq(L, 1, k)
           /\ SubSeq(L, 1, k) \in Seq(Entry) /\ Len(SubSeq(L, 1, k)) = k
           /\ \A i \in 1 .. k : SubSeq(L, 1, k)[i] = L[i]
<1>1. Len(L) \in Nat
  OBVIOUS
<1>2. Min({k, Len(L)}) = k
  BY <1>1 DEF Min
<1>3. SubSeq(L, 1, k) = [i \in 1 .. k |-> L[i]]
  BY <1>1
<1> DEFINE P == SubSeq(L, 1, k)
<1>4. \A i \in 1 .. k : L[i] \in Entry
  BY <1>1
<1>5. P = [i \in 1 .. k |-> L[i]]
  BY <1>3
<1> HIDE DEF P
<1>6. P \in Seq(Entry) /\ Len(P) = k /\ \A i \in 1 .. k : P[i] = L[i]
  BY <1>4, <1>5
<1> QED
  BY <1>2, <1>6 DEF P

LEMMA AgreePrefix ==
    ASSUME NEW L \in Seq(Entry), NEW k \in Nat, NEW M \in Seq(Entry), NEW l \in Nat,
           k <= l, l <= Len(M), Agree(L, M, k)
    PROVE  IsPrefix(SubSeq(L, 1, k), SubSeq(M, 1, l))
<1>1. k <= Len(L) /\ Len(L) \in Nat /\ Len(M) \in Nat /\ k <= Len(M)
  BY DEF Agree
<1>2. /\ Len(SubSeq(L, 1, k)) = k /\ Len(SubSeq(M, 1, l)) = l
      /\ SubSeq(L, 1, k) \in Seq(Entry) /\ SubSeq(M, 1, l) \in Seq(Entry)
      /\ \A i \in 1 .. k : SubSeq(L, 1, k)[i] = SubSeq(M, 1, l)[i]
  <2>1. \A i \in 1 .. k : i \in 1 .. l
    BY <1>1
  <2> QED
    BY <1>1, <2>1, PrefixOf DEF Agree
<1> DEFINE P == SubSeq(L, 1, k)
           Q == SubSeq(M, 1, l)
<1>3. P \in Seq(Entry) /\ Q \in Seq(Entry) /\ Len(P) = k /\ Len(Q) = l
      /\ \A i \in 1 .. k : P[i] = Q[i]
  BY <1>2
<1> HIDE DEF P, Q
<1>4. SubSeq(P, 1, k) = SubSeq(Q, 1, k)
  BY <1>3
<1>5. IsPrefix(P, Q)
  BY <1>3, <1>4 DEF IsPrefix
<1> QED
  BY <1>5 DEF P, Q

LEMMA CommittedIs ==
    ASSUME TypeInv, NEW H, NEW K, NEW n \in Server, NodeOK(H, K, n)
    PROVE  /\ state[n].commit_index <= Len(state[n].log)
           /\ state[n].applied = state[n].commit_index
           /\ Committed(n) = SubSeq(state[n].log, 1, state[n].commit_index)
           /\ Backed(H, K, state[n].log, state[n].commit_index, state[n].term, K[n][state[n].term])
<1>1. /\ Backed(H, K, state[n].log, state[n].commit_index, state[n].term, K[n][state[n].term])
      /\ state[n].applied = state[n].commit_index
  BY DEF NodeOK
<1>2. state[n].log \in Seq(Entry) /\ state[n].commit_index \in Nat
  BY NodeFacts
<1>3. state[n].commit_index <= Len(state[n].log)
  BY <1>1, <1>2, BackedLen
<1>4. Committed(n) = SubSeq(state[n].log, 1, state[n].commit_index)
  BY <1>2, <1>3, PrefixOf DEF Committed
<1> QED
  BY <1>1, <1>3, <1>4

\* The empty prefix is a prefix of every log.
LEMMA NothingCommitted ==
    ASSUME NEW L \in Seq(Entry), NEW M \in Seq(Entry)
    PROVE  IsPrefix(SubSeq(L, 1, 0), M)
<1>1. SubSeq(L, 1, 0) = <<>> /\ Len(<<>>) = 0 /\ Len(M) \in Nat
  OBVIOUS
<1>2. SubSeq(<<>>, 1, 0) = SubSeq(M, 1, 0)
  OBVIOUS
<1> QED
  BY <1>1, <1>2 DEF IsPrefix

LEMMA AgreeImplied ==
    ASSUME TypeInv, NEW H, NEW I, NEW K, LogInv(H, I, K), NEW n \in Server, NEW p \in Server,
           state[n].commit_index <= state[p].commit_index
    PROVE  IsPrefix(Committed(n), Committed(p))
<1> DEFINE L == state[n].log
           k == state[n].commit_index
           M == state[p].log
           l == state[p].commit_index
<1>1. /\ L \in Seq(Entry) /\ k \in Nat /\ M \in Seq(Entry) /\ l \in Nat
      /\ Committed(n) = SubSeq(L, 1, k) /\ Committed(p) = SubSeq(M, 1, l) /\ l <= Len(M)
      /\ Backed(H, K, L, k, state[n].term, K[n][state[n].term])
      /\ Backed(H, K, M, l, state[p].term, K[p][state[p].term])
      /\ Histories(H, I, K) /\ Cover(H, I, K)
  BY NodeFacts, CommittedIs DEF LogInv
<1> HIDE DEF L, k, M, l
<1>2. k <= l
  BY DEF k, l
<1>3. CASE k = 0
  <2>1. SubSeq(M, 1, l) \in Seq(Entry)
    BY <1>1, PrefixOf
  <2> QED
    BY <1>1, <1>3, <2>1, NothingCommitted
<1>4. CASE k # 0
  <2>1. l # 0
    BY <1>1, <1>2, <1>4
  <2>2. PICK w \in Nat : Agree(L, H[w], k) /\ Agree(M, H[w], l)
    BY <1>1, <1>4, <2>1, CommonLog
  <2> DEFINE A == H[w]
  <2>3. A \in Seq(Entry) /\ Agree(L, A, k) /\ Agree(M, A, l)
    BY <1>1, <2>2, LogOf DEF Histories
  <2> HIDE DEF A
  <2>4. Agree(A, M, k)
    BY <1>1, <1>2, <2>3, AgreeSome
  <2>5. Agree(L, M, k)
    BY <1>1, <2>3, <2>4, AgreeAll
  <2> QED
    BY <1>1, <1>2, <2>5, AgreePrefix
<1> QED
  BY <1>3, <1>4

LEMMA CompleteImplied ==
    ASSUME ElectionInv, NEW H, NEW I, NEW K, LogInv(H, I, K), NEW n \in Server, NEW p \in Server,
           state[n].role = "Leader", \A q \in Server : state[q].term <= state[n].term
    PROVE  IsPrefix(Committed(p), state[n].log)
<1> DEFINE M == state[n].log
           t == state[n].term
           L == state[p].log
           k == state[p].commit_index
           u == state[p].term
<1>1. /\ TypeInv /\ L \in Seq(Entry) /\ k \in Nat /\ M \in Seq(Entry) /\ t \in Nat /\ u \in Nat
      /\ Committed(p) = SubSeq(L, 1, k)
      /\ Backed(H, K, L, k, u, K[p][u])
      /\ Histories(H, I, K) /\ Cover(H, I, K) /\ u <= t
  BY NodeFacts, CommittedIs DEF LogInv, ElectionInv
<1>2. M = H[t] /\ <<t, n>> \in elected
  BY DEF LogInv, LeaderOK
<1> HIDE DEF M, t, L, k, u
<1>3. CASE k = 0
  BY <1>1, <1>3, NothingCommitted DEF M
<1>4. CASE k # 0
  <2>1. PICK w \in Nat, a \in Nat : /\ w <= u /\ k <= a /\ Own(H, w, a) /\ Cert(K, w, a)
                                    /\ Agree(L, H[w], k)
    BY <1>1, <1>4 DEF Backed
  <2> DEFINE A == H[w]
  <2>2. A \in Seq(Entry) /\ Agree(L, A, k)
    BY <1>1, <2>1, LogOf DEF Histories
  <2>3. Agree(A, M, k)
    <3>1. CASE w = t
      <4>1. A = M /\ k <= Len(A)
        BY <1>2, <2>2, <3>1 DEF Agree
      <4> HIDE DEF A
      <4> QED
        BY <2>2, <4>1 DEF Agree
    <3>2. CASE w < t
      <4>1. Agree(M, H[t], Len(M)) /\ Agree(I[t], M, Len(I[t])) /\ Won(t)
        BY <1>1, <1>2, AgreeSelf DEF Histories, Won
      <4> DEFINE C == I[t]
      <4>2. Agree(C, A, a) /\ C \in Seq(Entry) /\ Agree(C, M, Len(C))
        BY <1>1, <1>2, <2>1, <3>2, <4>1, CertChoosable, LogOf DEF Cover, Histories
      <4> HIDE DEF A, C
      <4>3. k <= a /\ a <= Len(C) /\ Len(C) \in Nat /\ k <= Len(C)
        BY <1>1, <2>1, <4>2 DEF Agree
      <4>4. Agree(A, C, k) /\ Agree(C, M, k)
        BY <1>1, <2>1, <2>2, <4>2, <4>3, AgreeSome
      <4> QED
        BY <1>1, <2>2, <4>2, <4>4, AgreeAll
    <3> QED
      BY <1>1, <2>1, <3>1, <3>2
  <2> HIDE DEF A
  <2>4. Agree(L, M, k)
    BY <1>1, <2>2, <2>3, AgreeAll
  <2>5. Len(M) \in Nat /\ k <= Len(M) /\ SubSeq(M, 1, Len(M)) = M
    BY <1>1, <2>4 DEF Agree
  <2>6. Len(M) <= Len(M)
    BY <2>5
  <2>7. IsPrefix(SubSeq(L, 1, k), SubSeq(M, 1, Len(M)))
    BY <1>1, <2>4, <2>5, <2>6, AgreePrefix
  <2> QED
    BY <1>1, <2>5, <2>7 DEF M
<1> QED
  BY <1>3, <1>4 DEF M

LEMMA RaftSafe == RaftInv => CommitWithinLog /\ CommittedAgree /\ LeaderCompleteness
<1> SUFFICES ASSUME RaftInv PROVE CommitWithinLog /\ CommittedAgree /\ LeaderCompleteness
  OBVIOUS
<1>1. PICK H, I, K : LogInv(H, I, K)
  BY DEF RaftInv
<1>2. ElectionInv /\ TypeInv
  BY DEF RaftInv, ElectionInv
<1>3. CommitWithinLog
  BY <1>1, <1>2, CommittedIs DEF CommitWithinLog, LogInv
<1>4. CommittedAgree
  <2> SUFFICES ASSUME NEW n \in Server, NEW p \in Server
               PROVE  IsPrefix(Committed(n), Committed(p)) \/ IsPrefix(Committed(p), Committed(n))
    BY DEF CommittedAgree
  <2>1. \/ state[n].commit_index <= state[p].commit_index
        \/ state[p].commit_index <= state[n].commit_index
    BY <1>2, NodeFacts
  <2> QED
    BY <1>1, <1>2, <2>1, AgreeImplied
<1>5. LeaderCompleteness
  BY <1>1, <1>2, CompleteImplied DEF LeaderCompleteness
<1> QED
  BY <1>3, <1>4, <1>5

\* Every behaviour whose leaders' ticks read their log in term keeps the
\* invariant.
LEMMA RaftAlways == Spec /\ [][SnapshotInTerm]_vars => []RaftInv
  BY RaftInit, RaftStep, PTL DEF Spec

\* apply() never runs past the log, though every append replaces the log
\* (main.rs:247-260) and a restart replays it.
THEOREM CommitStaysWithinLog == Spec /\ [][SnapshotInTerm]_vars => []CommitWithinLog
  BY RaftAlways, RaftSafe, PTL

\* No two nodes ever disagree on a committed entry.
THEOREM CommittedNeverDiffers == Spec /\ [][SnapshotInTerm]_vars => []CommittedAgree
  BY RaftAlways, RaftSafe, PTL

\* The leader of the highest term has all that was ever committed.
THEOREM LeadersAreComplete == Spec /\ [][SnapshotInTerm]_vars => []LeaderCompleteness
  BY RaftAlways, RaftSafe, PTL

(************************** the committed log grows ************************)

\* A handler never takes a commit index back.
LEMMA AppendCommit ==
    ASSUME NEW s \in NodeState, NEW m \in AppendRequest, NEW t, t = OnAppend(s, m)
    PROVE  s.commit_index <= t.commit_index
<1>1. /\ s.commit_index \in Nat /\ s.term \in Nat /\ m.term \in Nat /\ m.commit \in Nat
      /\ m.entries \in Seq(Entry)
  BY DEF NodeState, AppendRequest
<1>2. CASE m.term < s.term
  BY <1>1, <1>2 DEF OnAppend
<1>3. CASE ~(m.term < s.term)
  <2> DEFINE log == Wire(m.entries)
             c == Max({s.commit_index, Min({m.commit, Len(log)})})
             v == IF m.term > s.term THEN None ELSE s.voted_for
             a == [s EXCEPT !.voted_for = v, !.term = m.term, !.role = "Follower",
                            !.log = log, !.commit_index = c]
  <2>1. log \in Seq(Entry) /\ Len(log) \in Nat
    BY <1>1, WireType
  <2>2. Min({m.commit, Len(log)}) \in Nat
    BY <1>1, <2>1, MinOfTwo
  <2>3. c \in Nat /\ c >= s.commit_index
    BY <1>1, <2>2, MaxOfTwo
  <2>4. v \in Server \cup {None}
    BY DEF NodeState
  <2>5. t = Apply(a)
    BY <1>3 DEF OnAppend
  <2> HIDE DEF log, c, v
  <2>6. a \in NodeState /\ a.commit_index = c
    BY <1>1, <2>1, <2>3, <2>4 DEF NodeState
  <2> HIDE DEF a
  <2> QED
    BY <1>1, <2>3, <2>5, <2>6, ApplyLog
<1> QED
  BY <1>2, <1>3

LEMMA CommitMoves ==
    ASSUME ElectionInv, Saved, NEW H, NEW I, NEW K, LogInv(H, I, K), [Next]_vars
    PROVE  \E m \in Server : /\ \A q \in Server \ {m} : state'[q] = state[q]
                             /\ state[m].commit_index <= state'[m].commit_index
<1>1. /\ TypeInv /\ TypeOK
      /\ \A q \in Server : state[q] \in NodeState /\ state[q].commit_index \in Nat
  BY NextElection, NodeFacts DEF TypeInv
<1>2. ASSUME NEW m \in Server, NEW s, state' = [state EXCEPT ![m] = s],
             state[m].commit_index <= s.commit_index
      PROVE  \E k \in Server : /\ \A q \in Server \ {k} : state'[q] = state[q]
                               /\ state[k].commit_index <= state'[k].commit_index
  BY <1>1, <1>2 DEF TypeOK
<1>3. ASSUME NEW m \in Server, NEW s, state' = [state EXCEPT ![m] = s],
             state[m].commit_index = s.commit_index
      PROVE  \E k \in Server : /\ \A q \in Server \ {k} : state'[q] = state[q]
                               /\ state[k].commit_index <= state'[k].commit_index
  <2>1. state[m].commit_index <= s.commit_index
    BY <1>1, <1>3
  <2> QED
    BY <1>2, <1>3, <2>1
<1>4. ASSUME state' = state
      PROVE  \E k \in Server : /\ \A q \in Server \ {k} : state'[q] = state[q]
                               /\ state[k].commit_index <= state'[k].commit_index
  <2>1. PICK m \in Server : TRUE
    BY ServerAssumption
  <2> QED
    BY <1>1, <1>4, <2>1
<1>5. CASE Next
  <2>1. PICK n \in Server :
        \/ LeaderWake(n) \/ LeaderSnapshot(n) \/ RoundStale(n) \/ ElectionLost(n)
        \/ \E p \in Server : CallRefused(n, p) \/ CallAbandoned(n, p)
        \/ ElectionTimeout(n) \/ RoundDeposed(n) \/ RoundCommit(n) \/ HandleLate(n)
        \/ \E p \in Server : AppendAnswered(n, p)
        \/ \E p \in Server : VoteAnswered(n, p)
        \/ \E c \in Cmd : ClientCommand(n, c)
        \/ ElectionWon(n) \/ ClientGet(n) \/ Restart(n)
    BY <1>5 DEF Next
  <2>2. CASE \/ LeaderWake(n) \/ LeaderSnapshot(n) \/ RoundStale(n) \/ ElectionLost(n)
             \/ \E p \in Server : CallRefused(n, p) \/ CallAbandoned(n, p)
    BY <1>4, <2>2 DEF LeaderWake, LeaderSnapshot, RoundStale, ElectionLost, CallRefused, CallAbandoned
  <2>3. CASE ElectionTimeout(n)
    <3> DEFINE s == [state[n] EXCEPT !.term = @ + 1, !.role = "Candidate", !.voted_for = n]
    <3>1. s.commit_index = state[n].commit_index
      BY <1>1 DEF NodeState
    <3>2. state' = [state EXCEPT ![n] = s]
      BY <2>3 DEF ElectionTimeout, Commit
    <3> HIDE DEF s
    <3> QED
      BY <1>3, <3>1, <3>2
  <2>4. CASE RoundDeposed(n)
    <3> DEFINE s == StepDown(state[n], rnd[n].seen)
    <3>1. s.commit_index = state[n].commit_index
      BY <1>1 DEF StepDown, NodeState
    <3>2. state' = [state EXCEPT ![n] = s]
      BY <2>4 DEF RoundDeposed, Commit
    <3> HIDE DEF s
    <3> QED
      BY <1>3, <3>1, <3>2
  <2>5. CASE RoundCommit(n)
    <3> DEFINE a == Advance(state[n], rnd[n])
               s == Apply(a)
    <3>1. rnd[n] \in Round
      BY <1>1, RoundFacts
    <3>2. a \in NodeState /\ state[n].commit_index <= a.commit_index
      <4>1. /\ a \in NodeState
            /\ \/ a.commit_index = state[n].commit_index
               \/ a.commit_index \in state[n].commit_index + 1 .. Len(state[n].log)
        BY <1>1, <3>1, AdvanceLog
      <4>2. Len(state[n].log) \in Nat
        BY <1>1, NodeFacts
      <4> HIDE DEF a
      <4> QED
        BY <1>1, <4>1, <4>2
    <3>3. s.commit_index = a.commit_index
      BY <3>2, ApplyLog
    <3>4. state' = [state EXCEPT ![n] = s]
      BY <2>5 DEF RoundCommit, Commit
    <3> HIDE DEF s, a
    <3> QED
      BY <1>2, <3>2, <3>3, <3>4
  <2>6. ASSUME NEW p \in Server, NEW m \in VoteRequest \cup AppendRequest,
               state' = [state EXCEPT ![p] = Handle(state[p], m)]
        PROVE  \E k \in Server : /\ \A q \in Server \ {k} : state'[q] = state[q]
                                 /\ state[k].commit_index <= state'[k].commit_index
    <3> DEFINE s == Handle(state[p], m)
    <3>1. state[p].commit_index <= s.commit_index
      <4>1. CASE m.kind = "requestvote"
        <5>1. s.commit_index = state[p].commit_index
          BY <1>1, <4>1, MessageFacts, RequestVoteLog DEF Handle
        <5> QED
          BY <1>1, <5>1
      <4>2. CASE m.kind = "append"
        BY <1>1, <4>2, MessageFacts, AppendCommit DEF Handle
      <4> QED
        BY <4>1, <4>2, MessageFacts
    <3> HIDE DEF s
    <3> QED
      BY <1>2, <2>6, <3>1 DEF s
  <2>7. CASE HandleLate(n)
    <3>1. Head(inbox[n]) \in VoteRequest \cup AppendRequest
      BY <1>1, <2>7 DEF HandleLate, TypeOK
    <3> QED
      BY <2>6, <2>7, <3>1 DEF HandleLate, Commit
  <2>8. ASSUME NEW p \in Server, AppendAnswered(n, p)
        PROVE  \E k \in Server : /\ \A q \in Server \ {k} : state'[q] = state[q]
                                 /\ state[k].commit_index <= state'[k].commit_index
    <3>1. pc[n] = "append" /\ state' = [state EXCEPT ![p] = OnAppend(state[p], Request(n))]
      BY <2>8 DEF AppendAnswered, Commit
    <3>2. Request(n) \in AppendRequest
      BY <1>1, <3>1, RequestType
    <3>3. Handle(state[p], Request(n)) = OnAppend(state[p], Request(n))
      BY <3>2 DEF Handle, AppendRequest
    <3> QED
      BY <2>6, <3>1, <3>2, <3>3
  <2>9. ASSUME NEW p \in Server, VoteAnswered(n, p)
        PROVE  \E k \in Server : /\ \A q \in Server \ {k} : state'[q] = state[q]
                                 /\ state[k].commit_index <= state'[k].commit_index
    <3>1. pc[n] = "vote" /\ state' = [state EXCEPT ![p] = OnRequestVote(state[p], Request(n))]
      BY <2>9 DEF VoteAnswered, Commit
    <3>2. Request(n) \in VoteRequest
      BY <1>1, <3>1, RequestType
    <3>3. Handle(state[p], Request(n)) = OnRequestVote(state[p], Request(n))
      BY <3>2 DEF Handle, VoteRequest
    <3> QED
      BY <2>6, <3>1, <3>2, <3>3
  <2>10. ASSUME NEW c \in Cmd, ClientCommand(n, c)
         PROVE  \E k \in Server : /\ \A q \in Server \ {k} : state'[q] = state[q]
                                  /\ state[k].commit_index <= state'[k].commit_index
    <3> DEFINE M == Append(state[n].log, [term |-> state[n].term, cmd |-> c])
               s == [state[n] EXCEPT !.log = M]
    <3>1. state' = [state EXCEPT ![n] = s]
      BY <2>10 DEF ClientCommand, Commit
    <3> HIDE DEF M
    <3>2. s.commit_index = state[n].commit_index
      BY <1>1 DEF NodeState
    <3> HIDE DEF s
    <3> QED
      BY <1>3, <3>1, <3>2
  <2>11. CASE ElectionWon(n)
    <3> DEFINE s == [state[n] EXCEPT !.role = "Leader"]
    <3>1. s.commit_index = state[n].commit_index
      BY <1>1 DEF NodeState
    <3>2. state' = [state EXCEPT ![n] = s]
      BY <2>11 DEF ElectionWon
    <3> HIDE DEF s
    <3> QED
      BY <1>3, <3>1, <3>2
  <2>12. CASE ClientGet(n)
    <3> DEFINE s == IF state[n].role = "Leader" THEN Apply(state[n]) ELSE state[n]
    <3>1. s.commit_index = state[n].commit_index
      BY <1>1, ApplyLog
    <3>2. state' = [state EXCEPT ![n] = s]
      BY <1>1, <2>12 DEF ClientGet, TypeOK
    <3> HIDE DEF s
    <3> QED
      BY <1>3, <3>1, <3>2
  <2>13. CASE Restart(n)
    <3> DEFINE s == Recover(disk[n])
    <3>1. s.commit_index = state[n].commit_index
      BY <1>1, RecoverLog DEF LogInv, NodeOK
    <3>2. state' = [state EXCEPT ![n] = s]
      BY <2>13 DEF Restart
    <3> HIDE DEF s
    <3> QED
      BY <1>3, <3>1, <3>2
  <2> QED
    BY <2>1, <2>2, <2>3, <2>4, <2>5, <2>7, <2>8, <2>9, <2>10, <2>11, <2>12, <2>13
<1>6. CASE UNCHANGED vars
  BY <1>4, <1>6 DEF vars
<1> QED
  BY <1>5, <1>6

\* The first k entries of L are a majority's for good, in whatever term.
Kept(H, K, L, k) ==
    k = 0 \/ \E w \in Nat, a \in Nat :
                k <= a /\ Own(H, w, a) /\ Cert(K, w, a) /\ Agree(L, H[w], k)

LEMMA KeptOnward ==
    ASSUME NEW H, Logs(H), NEW K, Acks(K), NEW H2, Logs(H2), NEW K2, Acks(K2),
           Onward(H, K, H2, K2),
           NEW L \in Seq(Entry), NEW k \in Nat, Kept(H, K, L, k)
    PROVE  Kept(H2, K2, L, k)
<1>1. CASE k = 0
  BY <1>1 DEF Kept
<1>2. CASE k # 0
  <2>1. PICK w \in Nat, a \in Nat : /\ k <= a /\ Own(H, w, a) /\ Cert(K, w, a)
                                    /\ Agree(L, H[w], k)
    BY <1>2 DEF Kept
  <2>2. Grown(H, H2)
    BY DEF Onward
  <2>3. Own(H2, w, a) /\ Agree(L, H2[w], k)
    BY <2>1, <2>2, OwnBefore, AgreeStays
  <2>4. Cert(K2, w, a)
    <3>1. PICK Q \in SUBSET Server : Cardinality(Q) >= Majority /\ \A q \in Q : K[q][w] >= a
      BY <2>1 DEF Cert
    <3>2. ASSUME NEW q \in Q PROVE K2[q][w] >= a
      <4>1. q \in Server /\ K[q][w] \in Nat /\ K2[q][w] \in Nat
        BY AckOf
      <4>2. K[q][w] <= K2[q][w]
        BY <4>1 DEF Onward
      <4> QED
        BY <3>1, <4>1, <4>2
    <3> QED
      BY <3>1, <3>2 DEF Cert
  <2> QED
    BY <2>1, <2>3, <2>4 DEF Kept
<1> QED
  BY <1>1, <1>2

\* Two prefixes that are kept are one prefix of the other.
KeptTogether(H, I, K) ==
    TypeInv /\ Histories(H, I, K) /\ Cover(H, I, K) =>
        \A L \in Seq(Entry), M \in Seq(Entry), k \in Nat, l \in Nat :
            k <= l /\ l <= Len(M) /\ Kept(H, K, L, k) /\ Kept(H, K, M, l) => Agree(L, M, k)

AllTogether == \A H, I, K : KeptTogether(H, I, K)

LEMMA KeptAgree == AllTogether
<1> SUFFICES ASSUME NEW H, NEW I, NEW K, TypeInv, Histories(H, I, K), Cover(H, I, K),
                    NEW L \in Seq(Entry), NEW M \in Seq(Entry), NEW k \in Nat, NEW l \in Nat,
                    k <= l, l <= Len(M), Kept(H, K, L, k), Kept(H, K, M, l)
             PROVE  Agree(L, M, k)
  BY DEF AllTogether, KeptTogether
<1>1. CASE k = 0
  BY <1>1 DEF Agree
<1>2. CASE k # 0
  <2>1. l # 0
    BY <1>2
  <2>2. PICK v \in Nat, a \in Nat : k <= a /\ Own(H, v, a) /\ Cert(K, v, a) /\ Agree(L, H[v], k)
    BY <1>2 DEF Kept
  <2>3. PICK u \in Nat, b \in Nat : l <= b /\ Own(H, u, b) /\ Cert(K, u, b) /\ Agree(M, H[u], l)
    BY <2>1 DEF Kept
  <2>4. Backed(H, K, L, k, v, k) /\ Backed(H, K, M, l, u, l)
    BY <2>2, <2>3 DEF Backed
  <2>5. PICK w \in Nat : Agree(L, H[w], k) /\ Agree(M, H[w], l)
    BY <1>2, <2>1, <2>4, CommonLog
  <2> DEFINE A == H[w]
  <2>6. A \in Seq(Entry) /\ Agree(L, A, k) /\ Agree(M, A, l)
    BY <2>5, LogOf DEF Histories
  <2> HIDE DEF A
  <2>7. Agree(A, M, k)
    BY <2>6, AgreeSome
  <2> QED
    BY <2>6, <2>7, AgreeAll
<1> QED
  BY <1>1, <1>2

\* What a node has committed is kept.
KeptFacts(H, I, K) ==
    LogInv(H, I, K) /\ TypeInv =>
        /\ Histories(H, I, K) /\ Cover(H, I, K)
        /\ \A n \in Server :
              /\ state[n].log \in Seq(Entry) /\ state[n].commit_index \in Nat
              /\ state[n].commit_index <= Len(state[n].log)
              /\ state[n].applied = state[n].commit_index
              /\ Kept(H, K, state[n].log, state[n].commit_index)

AllKept == \A H, I, K : KeptFacts(H, I, K)

LEMMA CommittedKept == AllKept
<1> SUFFICES ASSUME NEW H, NEW I, NEW K, LogInv(H, I, K), TypeInv, NEW n \in Server
             PROVE  /\ Histories(H, I, K) /\ Cover(H, I, K)
                    /\ state[n].log \in Seq(Entry) /\ state[n].commit_index \in Nat
                    /\ state[n].commit_index <= Len(state[n].log)
                    /\ state[n].applied = state[n].commit_index
                    /\ Kept(H, K, state[n].log, state[n].commit_index)
  BY ServerAssumption DEF AllKept, KeptFacts
<1>1. NodeOK(H, K, n)
  BY DEF LogInv
<1>2. Kept(H, K, state[n].log, state[n].commit_index)
  BY <1>1, CommittedIs DEF Backed, Kept
<1> QED
  BY <1>1, <1>2, NodeFacts, CommittedIs DEF LogInv

\* In the current state and in the next one a node's committed entries are in
\* its log, and all are applied.
CommitFacts(n) ==
    /\ state[n].log \in Seq(Entry) /\ state[n].commit_index \in Nat
    /\ state[n].commit_index <= Len(state[n].log)
    /\ state[n].applied = state[n].commit_index

\* A step leaves the committed prefix of every node in the log of every node
\* that has committed as much after it.
LEMMA PrefixStays ==
    ASSUME RaftInv, [Next]_vars, [SnapshotInTerm]_vars
    PROVE  /\ \A n \in Server : CommitFacts(n) /\ CommitFacts(n)'
           /\ \A n \in Server, p \in Server :
                 state[n].commit_index <= state'[p].commit_index
                    => Agree(state[n].log, state'[p].log, state[n].commit_index)
           /\ \A n \in Server, p \in Server :
                 state'[n].commit_index <= state'[p].commit_index
                    => Agree(state'[n].log, state'[p].log, state'[n].commit_index)
           /\ \E m \in Server : /\ \A q \in Server \ {m} : state'[q] = state[q]
                                /\ state[m].commit_index <= state'[m].commit_index
<1>1. PICK H, I, K : LogInv(H, I, K)
  BY DEF RaftInv
<1>2. ElectionInv /\ Saved /\ ElectionInv' /\ TypeInv /\ TypeInv'
  BY NextElection DEF RaftInv
<1>3. PICK H2, I2, K2 : LogInv(H2, I2, K2)' /\ Onward(H, K, H2, K2)
  <2>1. CASE UNCHANGED vars
    <3>1. state' = state /\ elected' = elected /\ inbox' = inbox /\ pc' = pc /\ rnd' = rnd
      BY <2>1 DEF vars
    <3>2. \A n \in Server : SameRound(n)
      BY <3>1 DEF SameRound
    <3>3. PICK m \in Server : TRUE
      BY ServerAssumption
    <3>4. LogInv(H, I, K)'
      BY <1>1, <1>2, <3>1, <3>2, StillNode, QueuesServe, IdleInv
    <3>5. Onward(H, K, H, K)
      BY <1>1, OnwardSame DEF LogInv
    <3> QED
      BY <3>4, <3>5
  <2>2. CASE Next /\ SnapshotInTerm
    BY <1>1, <1>2, <2>2, LogStep
  <2> QED
    BY <2>1, <2>2
<1>4. AllTogether' /\ AllKept'
  BY KeptAgree, CommittedKept, PTL
<1>5. KeptFacts(H2, I2, K2)' /\ KeptTogether(H2, I2, K2)'
  BY <1>4 DEF AllTogether, AllKept
<1>6. /\ Histories(H, I, K)
      /\ \A n \in Server : CommitFacts(n) /\ Kept(H, K, state[n].log, state[n].commit_index)
  BY <1>1, <1>2, CommittedKept DEF AllKept, KeptFacts, CommitFacts
<1>7. /\ Histories(H2, I2, K2)' /\ Cover(H2, I2, K2)'
      /\ \A n \in Server : CommitFacts(n)' /\ Kept(H2, K2, state'[n].log, state'[n].commit_index)
  BY <1>2, <1>3, <1>5 DEF KeptFacts, CommitFacts
<1>8. Logs(H) /\ Acks(K) /\ Logs(H2) /\ Acks(K2)
  BY <1>6, <1>7 DEF Histories
<1>9. \A n \in Server : Kept(H2, K2, state[n].log, state[n].commit_index)
  BY <1>3, <1>6, <1>8, KeptOnward DEF CommitFacts
<1>10. \A L \in Seq(Entry), M \in Seq(Entry), k \in Nat, l \in Nat :
          k <= l /\ l <= Len(M) /\ Kept(H2, K2, L, k) /\ Kept(H2, K2, M, l) => Agree(L, M, k)
  BY <1>2, <1>5, <1>7 DEF KeptTogether
<1>11. ASSUME NEW n \in Server, NEW p \in Server, state[n].commit_index <= state'[p].commit_index
       PROVE  Agree(state[n].log, state'[p].log, state[n].commit_index)
  BY <1>6, <1>7, <1>9, <1>10, <1>11 DEF CommitFacts
<1>12. ASSUME NEW n \in Server, NEW p \in Server, state'[n].commit_index <= state'[p].commit_index
       PROVE  Agree(state'[n].log, state'[p].log, state'[n].commit_index)
  BY <1>7, <1>10, <1>12 DEF CommitFacts
<1>13. \E m \in Server : /\ \A q \in Server \ {m} : state'[q] = state[q]
                         /\ state[m].commit_index <= state'[m].commit_index
  BY <1>1, <1>2, CommitMoves
<1> QED
  BY <1>6, <1>7, <1>11, <1>12, <1>13

\* Two agreeing prefixes of one length are one sequence.
LEMMA SamePrefix ==
    ASSUME NEW L \in Seq(Entry), NEW M \in Seq(Entry), NEW k \in Nat, Agree(L, M, k)
    PROVE  SubSeq(L, 1, k) = SubSeq(M, 1, k)
<1>1. k <= Len(L) /\ k <= Len(M) /\ \A i \in 1 .. k : L[i] = M[i]
  BY DEF Agree
<1> QED
  BY <1>1

\* A server whose commit index no other exceeds exists.
HasLongest ==
    TypeInv => /\ longest \in Server
               /\ \A p \in Server : state[p].commit_index <= state[longest].commit_index

LEMMA LongestIs == HasLongest
<1> SUFFICES ASSUME TypeInv
             PROVE  \E n \in Server : \A p \in Server : state[p].commit_index <= state[n].commit_index
  BY DEF HasLongest, longest
<1> DEFINE S == {state[n].commit_index : n \in Server}
<1>1. \A n \in Server : state[n].commit_index \in Nat
  BY NodeFacts
<1>2. IsFiniteSet(S)
  <2> DEFINE f == [n \in Server |-> state[n].commit_index]
  <2>1. f \in [Server -> S] /\ \A y \in S : \E x \in Server : f[x] = y
    OBVIOUS
  <2>2. f \in Surjection(Server, S)
    BY <2>1 DEF Surjection
  <2> HIDE DEF f, S
  <2> QED
    BY <2>2, ServerAssumption, FS_Surjection
<1>3. S \in SUBSET Nat /\ S # {}
  BY <1>1, ServerAssumption
<1>4. Max(S) \in S /\ \A y \in S : y <= Max(S)
  <2> HIDE DEF S
  <2> QED
    BY <1>2, <1>3, MaxOfFinite
<1>5. PICK n \in Server : state[n].commit_index = Max(S)
  BY <1>4
<1> QED
  BY <1>4, <1>5

\* Every step of the servers is one of the log they implement, or none.
LEMMA LogRefines ==
    ASSUME RaftInv, [Next]_vars, [SnapshotInTerm]_vars
    PROVE  [Abstract!Next]_<<Committed(longest), [n \in Server |-> state[n].commit_index]>>
<1> DEFINE d == [n \in Server |-> state[n].commit_index]
<1>1. TypeInv /\ TypeInv'
  BY NextElection DEF RaftInv
<1>2. HasLongest /\ HasLongest'
  BY LongestIs, PTL
<1>3. PICK a \in Server : a = longest /\ \A p \in Server : state[p].commit_index <= state[a].commit_index
  BY <1>1, <1>2 DEF HasLongest
<1>4. PICK b \in Server : /\ b = longest'
                          /\ \A p \in Server : state'[p].commit_index <= state'[b].commit_index
  BY <1>1, <1>2 DEF HasLongest
<1>5. PICK m \in Server : /\ \A q \in Server \ {m} : state'[q] = state[q]
                          /\ state[m].commit_index <= state'[m].commit_index
  BY PrefixStays
<1>6. \A n \in Server : CommitFacts(n) /\ CommitFacts(n)'
  BY PrefixStays
<1>7. PICK L \in Seq(Entry), k \in Nat :
         L = state[a].log /\ k = state[a].commit_index /\ k <= Len(L)
  BY <1>6 DEF CommitFacts
<1>8. PICK M \in Seq(Entry), l \in Nat :
         M = state'[b].log /\ l = state'[b].commit_index /\ l <= Len(M)
  BY <1>6 DEF CommitFacts
<1>9. PICK x \in Nat, y \in Nat :
         x = state[m].commit_index /\ y = state'[m].commit_index /\ x <= y /\ x <= k /\ y <= l
  BY <1>3, <1>4, <1>5, <1>6, <1>7, <1>8 DEF CommitFacts
<1>10. k <= l
  <2>1. CASE a = m
    BY <1>7, <1>9, <2>1
  <2>2. CASE a # m
    <3>1. state'[a] = state[a]
      BY <1>5, <2>2
    <3> QED
      BY <1>4, <1>7, <1>8, <3>1
  <2> QED
    BY <2>1, <2>2
<1>11. Agree(L, M, k)
  BY <1>7, <1>8, <1>10, PrefixStays
<1>12. /\ Committed(longest) = SubSeq(L, 1, k)
       /\ SubSeq(L, 1, k) \in Seq(Entry) /\ Len(SubSeq(L, 1, k)) = k
  BY <1>3, <1>7, PrefixOf DEF Committed
<1>13. /\ Committed(longest)' = SubSeq(M, 1, l)
       /\ SubSeq(M, 1, l) \in Seq(Entry) /\ Len(SubSeq(M, 1, l)) = l
  BY <1>4, <1>8, PrefixOf DEF Committed
<1>14. IsPrefix(SubSeq(L, 1, k), SubSeq(M, 1, l))
  BY <1>8, <1>10, <1>11, AgreePrefix
<1>15. k = l => SubSeq(L, 1, k) = SubSeq(M, 1, l)
  BY <1>11, SamePrefix
<1>16. /\ d' = [n \in Server |-> state'[n].commit_index]
       /\ d[m] = x /\ d'[m] = y
       /\ d' = [d EXCEPT ![m] = y]
  BY <1>5, <1>9
<1>17. CASE x = y
  <2>1. d' = d
    BY <1>5, <1>9, <1>17
  <2>2. l = k
    <3>1. state'[b].commit_index = state[b].commit_index
      BY <1>5, <1>9, <1>17
    <3> QED
      BY <1>3, <1>7, <1>8, <1>10, <3>1
  <2>3. Committed(longest)' = Committed(longest)
    BY <1>12, <1>13, <1>15, <2>2
  <2> QED
    BY <2>1, <2>3
<1>18. CASE x < y /\ k = l
  <2>1. Committed(longest)' = Committed(longest)
    BY <1>12, <1>13, <1>15, <1>18
  <2>2. y \in d[m] + 1 .. Len(Committed(longest))
    BY <1>9, <1>12, <1>16, <1>18
  <2>3. Abstract!Learn(m)
    BY <1>16, <2>1, <2>2 DEF Abstract!Learn
  <2>4. d'[m] > d[m]
    BY <1>16, <1>18
  <2> QED
    BY <2>3, <2>4 DEF Abstract!Next
<1>19. CASE x < y /\ k < l
  <2>1. y = l
    <3>1. CASE b = m
      BY <1>8, <1>9, <3>1
    <3>2. CASE b # m
      <4>1. state'[b] = state[b]
        BY <1>5, <3>2
      <4>2. l <= k
        BY <1>3, <1>7, <1>8, <4>1
      <4> QED
        BY <1>19, <4>2
    <3> QED
      BY <3>1, <3>2
  <2>2. SubSeq(L, 1, k) # SubSeq(M, 1, l)
    BY <1>12, <1>13, <1>19
  <2>3. Abstract!IsStrictPrefix(Committed(longest), Committed(longest)')
    BY <1>12, <1>13, <1>14, <2>2 DEF Abstract!IsStrictPrefix, Abstract!IsPrefix, IsPrefix
  <2>4. Committed(longest)' \in Seq(Entry) /\ Len(Committed(longest)') = y
    BY <1>13, <2>1
  <2>5. Abstract!Choose(m)
    BY <1>16, <2>3, <2>4 DEF Abstract!Choose
  <2>6. d'[m] > d[m]
    BY <1>16, <1>19
  <2> QED
    BY <2>5, <2>6 DEF Abstract!Next
<1>20. x = y \/ (x < y /\ k = l) \/ (x < y /\ k < l)
  BY <1>9, <1>10
<1> QED
  BY <1>17, <1>18, <1>19, <1>20

\* Uniform agreement (07 README 1): the commit indices and the entries below
\* them implement one log that only grows, at one server a step, and that no
\* crash and no late request takes back.
THEOREM CommittedLogImplemented ==
    Spec /\ [][SnapshotInTerm]_vars => ImplementsCommittedLog
<1>1. Init => Abstract!Init
  <2> SUFFICES ASSUME Init PROVE Abstract!Init
    OBVIOUS
  <2>1. \A n \in Server : state[n].commit_index = 0 /\ state[n].log = <<>>
    BY NewNode DEF Init
  <2>2. TypeInv
    BY InitType
  <2>3. longest \in Server
    BY <2>2, LongestIs DEF HasLongest
  <2>4. Committed(longest) = <<>>
    <3>1. Min({0, Len(<<>>)}) = 0
      BY DEF Min
    <3> QED
      BY <2>1, <2>3, <3>1 DEF Committed
  <2> QED
    BY <2>1, <2>4 DEF Abstract!Init
<1>2. RaftInv /\ [Next]_vars /\ [SnapshotInTerm]_vars =>
         [Abstract!Next]_<<Committed(longest), [n \in Server |-> state[n].commit_index]>>
  BY LogRefines
<1> QED
  BY <1>1, <1>2, RaftAlways, PTL DEF Spec, ImplementsCommittedLog, Abstract!Spec

(****************************** the key-value map **************************)

\* What a command leaves at its key, and the places of s whose command touches
\* a key; the map after the commands at the places of s.
Effect(c) == IF c.op = "set" THEN c.val ELSE Nil
Touch(L, s, key) == {i \in s : L[i].cmd.op # "noop" /\ L[i].cmd.key = key}
KvOf(L, s) ==
    [key \in Key |-> IF Touch(L, s, key) = {} THEN Nil ELSE Effect(L[Max(Touch(L, s, key))].cmd)]

\* it is the recursive function behind the replay of L, as KvIsReplay folds.
Replay(kv, e) == CASE e.cmd.op = "set"    -> [kv EXCEPT ![e.cmd.key] = e.cmd.val]
                   [] e.cmd.op = "remove" -> [kv EXCEPT ![e.cmd.key] = Nil]
                   [] OTHER               -> kv
IsReplay(it, L, S) ==
    it = [s \in SUBSET S |-> IF s = {} THEN [k \in Key |-> Nil]
                             ELSE Replay(it[s \ {Max(s)}], L[Max(s)])]

\* Max is the only member that none exceeds.
LEMMA MaxIs ==
    ASSUME NEW b \in Nat, NEW S \in SUBSET (0 .. b), NEW x \in S, \A y \in S : y <= x
    PROVE  Max(S) = x
<1>1. Max(S) \in S /\ x <= Max(S)
  BY MaxOfBounded
<1>2. Max(S) <= x
  BY <1>1
<1>3. \A y \in S : y \in Nat
  OBVIOUS
<1>4. Max(S) \in Nat /\ x \in Nat
  BY <1>1, <1>3
<1> QED
  BY <1>1, <1>2, <1>4

\* One more command, after all the others.
LEMMA KvMore ==
    ASSUME NEW L \in Seq(Entry), NEW s \in SUBSET (1 .. Len(L)), s # {}
    PROVE  /\ Max(s) \in s
           /\ KvOf(L, s) = Replay(KvOf(L, s \ {Max(s)}), L[Max(s)])
<1> DEFINE x == Max(s)
           t == s \ {x}
           e == L[x]
<1>1. PICK b \in Nat : b = Len(L) /\ s \in SUBSET (0 .. b)
  OBVIOUS
<1>2. x \in s /\ \A y \in s : y <= x
  BY <1>1, MaxOfBounded
<1> HIDE DEF x
<1>3. e.cmd.op \in {"set", "remove", "noop"} /\ e.cmd.key \in Key
  <2>1. x \in 1 .. Len(L)
    BY <1>2
  <2>2. e \in Entry
    BY <2>1, EntryTerm
  <2> HIDE DEF e
  <2>3. e.cmd \in Command
    BY <2>2 DEF Entry
  <2> QED
    BY <2>3 DEF Command
<1>4. ASSUME NEW key \in Key, e.cmd.op = "noop" \/ e.cmd.key # key
      PROVE  Touch(L, s, key) = Touch(L, t, key)
  BY <1>2, <1>4 DEF Touch
<1>5. ASSUME e.cmd.op # "noop"
      PROVE  x \in Touch(L, s, e.cmd.key) /\ Max(Touch(L, s, e.cmd.key)) = x
  <2>1. x \in Touch(L, s, e.cmd.key) /\ Touch(L, s, e.cmd.key) \subseteq s
    BY <1>2, <1>5 DEF Touch
  <2> QED
    BY <1>1, <1>2, <2>1, MaxIs
<1>6. ASSUME NEW key \in Key, e.cmd.op = "noop" \/ e.cmd.key # key
      PROVE  KvOf(L, s)[key] = KvOf(L, t)[key]
  BY <1>4, <1>6 DEF KvOf
<1>7. ASSUME e.cmd.op # "noop"
      PROVE  KvOf(L, s)[e.cmd.key] = Effect(e.cmd)
  BY <1>3, <1>5, <1>7 DEF KvOf
<1>8. KvOf(L, s) = [key \in Key |-> KvOf(L, s)[key]] /\ KvOf(L, t) = [key \in Key |-> KvOf(L, t)[key]]
  BY DEF KvOf
<1> DEFINE kv == KvOf(L, s)
           kt == KvOf(L, t)
<1>9. /\ kv = [key \in Key |-> kv[key]] /\ kt = [key \in Key |-> kt[key]]
      /\ \A key \in Key : e.cmd.op = "noop" \/ e.cmd.key # key => kv[key] = kt[key]
      /\ e.cmd.op # "noop" => kv[e.cmd.key] = Effect(e.cmd)
  BY <1>6, <1>7, <1>8
<1> HIDE DEF kv, kt, e
<1>10. kv = Replay(kt, e)
  <2>1. CASE e.cmd.op = "noop"
    <3>1. kv = kt
      BY <1>9, <2>1
    <3> QED
      BY <2>1, <3>1 DEF Replay
  <2>2. CASE e.cmd.op = "set"
    <3>1. kv = [kt EXCEPT ![e.cmd.key] = e.cmd.val]
      BY <1>3, <1>9, <2>2 DEF Effect
    <3> QED
      BY <2>2, <3>1 DEF Replay
  <2>3. CASE e.cmd.op = "remove"
    <3>1. kv = [kt EXCEPT ![e.cmd.key] = Nil]
      BY <1>3, <1>9, <2>3 DEF Effect
    <3> QED
      BY <2>3, <3>1 DEF Replay
  <2> QED
    BY <1>3, <2>1, <2>2, <2>3
<1> QED
  BY <1>2, <1>10 DEF x, kv, kt, e

\* The replay is the map above, and it is the only one.
LEMMA ReplayExists ==
    ASSUME NEW L \in Seq(Entry)
    PROVE  IsReplay([s \in SUBSET (1 .. Len(L)) |-> KvOf(L, s)], L, 1 .. Len(L))
<1> DEFINE S == 1 .. Len(L)
           it == [s \in SUBSET S |-> KvOf(L, s)]
<1>1. ASSUME NEW s \in SUBSET S
      PROVE  it[s] = IF s = {} THEN [k \in Key |-> Nil]
                     ELSE Replay(it[s \ {Max(s)}], L[Max(s)])
  <2>1. CASE s = {}
    <3>1. \A key \in Key : Touch(L, {}, key) = {}
      BY DEF Touch
    <3> QED
      BY <2>1, <3>1 DEF KvOf
  <2>2. CASE s # {}
    <3>1. KvOf(L, s) = Replay(KvOf(L, s \ {Max(s)}), L[Max(s)])
      BY <2>2, KvMore
    <3>2. s \ {Max(s)} \in SUBSET S
      OBVIOUS
    <3> QED
      BY <2>2, <3>1, <3>2
  <2> QED
    BY <2>1, <2>2
<1> QED
  BY <1>1 DEF IsReplay

LEMMA ReplayUnique ==
    ASSUME NEW L \in Seq(Entry), NEW it, NEW jt, IsReplay(it, L, 1 .. Len(L)), IsReplay(jt, L, 1 .. Len(L))
    PROVE  it[1 .. Len(L)] = jt[1 .. Len(L)]
<1> DEFINE S == 1 .. Len(L)
           Bad == {s \in SUBSET S : it[s] # jt[s]}
<1>1. IsFiniteSet(S)
  BY FS_Interval
<1>2. ASSUME Bad # {} PROVE FALSE
  <2>1. PICK s \in Bad : \A t \in Bad : t \subseteq s => t = s
    <3>1. Bad \in SUBSET SUBSET S
      OBVIOUS
    <3> HIDE DEF Bad, S
    <3> QED
      BY <1>1, <1>2, <3>1, Smallest
  <2>2. /\ it[s] = IF s = {} THEN [k \in Key |-> Nil] ELSE Replay(it[s \ {Max(s)}], L[Max(s)])
        /\ jt[s] = IF s = {} THEN [k \in Key |-> Nil] ELSE Replay(jt[s \ {Max(s)}], L[Max(s)])
    BY DEF IsReplay
  <2>3. s # {}
    BY <2>2
  <2>4. Max(s) \in s
    BY <2>3, KvMore
  <2>5. s \ {Max(s)} \in SUBSET S /\ s \ {Max(s)} # s
    BY <2>4
  <2>6. it[s \ {Max(s)}] = jt[s \ {Max(s)}]
    BY <2>1, <2>5
  <2>7. it[s] = jt[s]
    BY <2>2, <2>3, <2>6, Zenon
  <2> QED
    BY <2>7
<1> QED
  BY <1>2

LEMMA FoldIsKv ==
    ASSUME NEW L \in Seq(Entry)
    PROVE  FoldLeft(LAMBDA kv, e : CASE e.cmd.op = "set"    -> [kv EXCEPT ![e.cmd.key] = e.cmd.val]
                                     [] e.cmd.op = "remove" -> [kv EXCEPT ![e.cmd.key] = Nil]
                                     [] OTHER               -> kv,
                    [k \in Key |-> Nil], L) = KvOf(L, 1 .. Len(L))
<1> DEFINE S == 1 .. Len(L)
           fold == CHOOSE it : IsReplay(it, L, S)
<1>1. DOMAIN L = S
  OBVIOUS
<1>2. FoldLeft(LAMBDA kv, e : CASE e.cmd.op = "set"    -> [kv EXCEPT ![e.cmd.key] = e.cmd.val]
                                [] e.cmd.op = "remove" -> [kv EXCEPT ![e.cmd.key] = Nil]
                                [] OTHER               -> kv,
               [k \in Key |-> Nil], L) = fold[S]
  BY <1>1, Zenon DEF FoldLeft, MapThenFoldSet, IsReplay, Replay
<1>3. IsReplay(fold, L, S)
  BY ReplayExists
<1>4. fold[S] = [s \in SUBSET S |-> KvOf(L, s)][S]
  BY <1>3, ReplayExists, ReplayUnique
<1> HIDE DEF fold
<1> QED
  BY <1>2, <1>4

\* The map of a node is the replay of what its log holds up to applied.
KvOK(s) == s.kv = KvOf(s.log, 1 .. s.applied)

LEMMA KvSame ==
    ASSUME NEW L \in Seq(Entry), NEW M \in Seq(Entry), NEW k \in Nat, Agree(L, M, k)
    PROVE  KvOf(L, 1 .. k) = KvOf(M, 1 .. k)
<1>1. \A i \in 1 .. k : L[i] = M[i]
  BY DEF Agree
<1>2. ASSUME NEW key \in Key
      PROVE  /\ Touch(L, 1 .. k, key) = Touch(M, 1 .. k, key)
             /\ Touch(L, 1 .. k, key) # {} =>
                   L[Max(Touch(L, 1 .. k, key))] = M[Max(Touch(L, 1 .. k, key))]
  <2>1. Touch(L, 1 .. k, key) = Touch(M, 1 .. k, key)
    BY <1>1 DEF Touch
  <2>2. Touch(L, 1 .. k, key) \in SUBSET (0 .. k) /\ Touch(L, 1 .. k, key) \in SUBSET (1 .. k)
    BY DEF Touch
  <2>3. Touch(L, 1 .. k, key) # {} => Max(Touch(L, 1 .. k, key)) \in 1 .. k
    BY <2>2, MaxOfBounded
  <2> QED
    BY <1>1, <2>1, <2>3
<1> QED
  BY <1>2 DEF KvOf

\* apply() replays what is new.
LEMMA ApplyKv ==
    ASSUME NEW s \in NodeState, s.applied <= s.commit_index, s.commit_index <= Len(s.log), KvOK(s)
    PROVE  KvOK(Apply(s))
<1> DEFINE L == s.log
           k == s.applied
           c == s.commit_index
           new == k + 1 .. Min({c, Len(L)})
           touches(key) == {i \in new : L[i].cmd.op # "noop" /\ L[i].cmd.key = key}
           effect(d) == IF d.op = "set" THEN d.val ELSE Nil
           kv == [key \in Key |-> IF touches(key) = {} THEN s.kv[key]
                                  ELSE effect(L[Max(touches(key))].cmd)]
<1>1. /\ k \in Nat /\ c \in Nat /\ L \in Seq(Entry) /\ k <= c /\ c <= Len(L)
      /\ s.kv = KvOf(L, 1 .. k)
  BY DEF NodeState, KvOK
<1>2. Min({c, Len(L)}) = c
  BY <1>1 DEF Min
<1>3. Apply(s).kv = kv /\ Apply(s).log = L /\ Apply(s).applied = c
  <2>1. Apply(s).kv = kv
    BY Zenon DEF Apply, NodeState
  <2> QED
    BY <1>1, <2>1, ApplyLog
<1> HIDE DEF L, k, c
<1>4. new = k + 1 .. c
  BY <1>2
<1>5. ASSUME NEW key \in Key
      PROVE  kv[key] = KvOf(L, 1 .. c)[key]
  <2> DEFINE T == Touch(L, 1 .. c, key)
             U == Touch(L, k + 1 .. c, key)
             V == Touch(L, 1 .. k, key)
  <2>1. touches(key) = U
    BY <1>4 DEF Touch
  <2>2. T = U \cup V
    <3>1. 1 .. c = (k + 1 .. c) \cup (1 .. k)
      BY <1>1
    <3> QED
      BY <3>1 DEF Touch
  <2>3. /\ KvOf(L, 1 .. c)[key] = IF T = {} THEN Nil ELSE Effect(L[Max(T)].cmd)
        /\ s.kv[key] = IF V = {} THEN Nil ELSE Effect(L[Max(V)].cmd)
    BY <1>1 DEF KvOf
  <2>4. kv[key] = IF U = {} THEN s.kv[key] ELSE Effect(L[Max(U)].cmd)
    BY <2>1 DEF Effect
  <2>5. /\ U \in SUBSET (k + 1 .. c) /\ V \in SUBSET (1 .. k)
        /\ U \in SUBSET (0 .. c) /\ T \in SUBSET (0 .. c)
    BY <1>1 DEF Touch
  <2> HIDE DEF T, U, V, kv
  <2>6. CASE U = {}
    BY <2>2, <2>3, <2>4, <2>6
  <2>7. CASE U # {}
    <3>1. Max(U) \in U /\ \A y \in U : y <= Max(U)
      BY <1>1, <2>5, <2>7, MaxOfBounded
    <3>2. \A y \in V : y <= Max(U)
      <4>1. Max(U) \in k + 1 .. c
        BY <2>5, <3>1
      <4>2. \A y \in V : y \in 1 .. k
        BY <2>5
      <4> QED
        BY <1>1, <4>1, <4>2
    <3>3. Max(U) \in T /\ \A y \in T : y <= Max(U)
      BY <2>2, <3>1, <3>2
    <3>4. Max(T) = Max(U)
      BY <1>1, <2>5, <3>3, MaxIs
    <3> QED
      BY <2>3, <2>4, <2>7, <3>3, <3>4
  <2> QED
    BY <2>6, <2>7
<1>6. kv = KvOf(L, 1 .. c)
  <2>1. kv = [key \in Key |-> kv[key]]
    OBVIOUS
  <2>2. KvOf(L, 1 .. c) = [key \in Key |-> KvOf(L, 1 .. c)[key]]
    BY DEF KvOf
  <2> HIDE DEF kv
  <2>3. [key \in Key |-> kv[key]] = [key \in Key |-> KvOf(L, 1 .. c)[key]]
    BY <1>5
  <2> QED
    BY <2>1, <2>2, <2>3
<1> HIDE DEF kv
<1> QED
  BY <1>3, <1>6 DEF KvOK

\* What a step does to the map of a node: nothing, or what apply() does, from
\* where it was or from the start.
KvStep(s, t) ==
    \/ t.kv = s.kv /\ t.applied = s.applied
    \/ \E a \in NodeState :
          /\ t = Apply(a) /\ a.applied <= a.commit_index
          /\ \/ a.kv = s.kv /\ a.applied = s.applied
             \/ a.kv = [k \in Key |-> Nil] /\ a.applied = 0

LEMMA KvMoves ==
    ASSUME NEW s \in NodeState, NEW t \in NodeState, KvOK(s), KvStep(s, t),
           s.applied = s.commit_index, Agree(s.log, t.log, s.commit_index),
           t.commit_index <= Len(t.log)
    PROVE  KvOK(t)
<1>1. s.log \in Seq(Entry) /\ t.log \in Seq(Entry) /\ s.applied \in Nat
  BY DEF NodeState
<1>2. KvOf(s.log, 1 .. s.applied) = KvOf(t.log, 1 .. s.applied)
  BY <1>1, KvSame
<1>3. CASE t.kv = s.kv /\ t.applied = s.applied
  BY <1>2, <1>3 DEF KvOK
<1>4. ASSUME NEW a \in NodeState, t = Apply(a), a.applied <= a.commit_index,
             \/ a.kv = s.kv /\ a.applied = s.applied
             \/ a.kv = [k \in Key |-> Nil] /\ a.applied = 0
      PROVE  KvOK(t)
  <2>1. t.log = a.log /\ t.commit_index = a.commit_index
    BY <1>4, ApplyLog
  <2>2. KvOf(a.log, 1 .. 0) = [k \in Key |-> Nil]
    <3>1. \A key \in Key : Touch(a.log, 1 .. 0, key) = {}
      BY DEF Touch
    <3> QED
      BY <3>1 DEF KvOf
  <2>3. KvOK(a)
    BY <1>2, <1>4, <2>1, <2>2 DEF KvOK
  <2> QED
    BY <1>4, <2>1, <2>3, ApplyKv
<1> QED
  BY <1>3, <1>4 DEF KvStep

LEMMA KvOfVote ==
    ASSUME NEW s \in NodeState, NEW m \in VoteRequest, NEW t, t = OnRequestVote(s, m)
    PROVE  KvStep(s, t)
<1> DEFINE a == IF m.term > s.term THEN StepDown(s, m.term) ELSE s
<1>1. a \in NodeState /\ a.kv = s.kv /\ a.applied = s.applied
  BY DEF StepDown, NodeState, VoteRequest
<1>2. t = IF MayGrant(a, m) THEN [a EXCEPT !.voted_for = m.from] ELSE a
  BY DEF OnRequestVote
<1> HIDE DEF a
<1>3. t.kv = a.kv /\ t.applied = a.applied
  BY <1>1, <1>2 DEF NodeState
<1> QED
  BY <1>1, <1>3 DEF KvStep

LEMMA KvOfAppend ==
    ASSUME NEW s \in NodeState, NEW m \in AppendRequest, s.applied = s.commit_index,
           NEW t, t = OnAppend(s, m)
    PROVE  KvStep(s, t)
<1>1. /\ s.commit_index \in Nat /\ s.applied \in Nat /\ m.term \in Nat /\ m.commit \in Nat
      /\ m.entries \in Seq(Entry)
  BY DEF NodeState, AppendRequest
<1>2. CASE m.term < s.term
  BY <1>2 DEF OnAppend, KvStep
<1>3. CASE ~(m.term < s.term)
  <2> DEFINE log == Wire(m.entries)
             c == Max({s.commit_index, Min({m.commit, Len(log)})})
             v == IF m.term > s.term THEN None ELSE s.voted_for
             a == [s EXCEPT !.voted_for = v, !.term = m.term, !.role = "Follower",
                            !.log = log, !.commit_index = c]
  <2>1. log \in Seq(Entry) /\ Len(log) \in Nat
    BY <1>1, WireType
  <2>2. Min({m.commit, Len(log)}) \in Nat
    BY <1>1, <2>1, MinOfTwo
  <2>3. c \in Nat /\ c >= s.commit_index
    BY <1>1, <2>2, MaxOfTwo
  <2>4. v \in Server \cup {None}
    BY DEF NodeState
  <2>5. t = Apply(a)
    BY <1>3 DEF OnAppend
  <2> HIDE DEF log, c, v
  <2>6. a \in NodeState /\ a.commit_index = c /\ a.kv = s.kv /\ a.applied = s.applied
    BY <1>1, <2>1, <2>3, <2>4 DEF NodeState
  <2> HIDE DEF a
  <2>7. a.applied <= a.commit_index
    BY <1>1, <2>3, <2>6
  <2> QED
    BY <2>5, <2>6, <2>7 DEF KvStep
<1> QED
  BY <1>2, <1>3

LEMMA KvOfRecover ==
    ASSUME NEW d \in Durable, NEW s
    PROVE  KvStep(s, Recover(d))
<1> DEFINE a == [term |-> d.term, role |-> "Follower", voted_for |-> d.voted_for,
                 log |-> Wire(d.log), commit_index |-> d.commit_index,
                 applied |-> 0, kv |-> [k \in Key |-> Nil]]
<1>1. Wire(d.log) \in Seq(Entry) /\ d.commit_index \in Nat
  BY WireType DEF Durable
<1>2. /\ a \in NodeState /\ a.kv = [k \in Key |-> Nil] /\ a.applied = 0
      /\ a.commit_index = d.commit_index
  BY <1>1 DEF NodeState, Durable
<1>3. Recover(d) = Apply(a)
  BY DEF Recover
<1> HIDE DEF a
<1>4. a.applied <= a.commit_index
  BY <1>1, <1>2
<1> QED
  BY <1>2, <1>3, <1>4 DEF KvStep

LEMMA KvSteps ==
    ASSUME RaftInv, [Next]_vars
    PROVE  \A q \in Server : KvStep(state[q], state'[q])
<1>1. /\ TypeInv /\ TypeOK
      /\ \A q \in Server : state[q] \in NodeState /\ state[q].commit_index \in Nat
                           /\ state[q].applied = state[q].commit_index
  <2>1. PICK H, I, K : LogInv(H, I, K)
    BY DEF RaftInv
  <2>2. TypeInv
    BY NextElection DEF RaftInv
  <2>3. \A q \in Server : state[q].applied = state[q].commit_index
    BY <2>1, <2>2, CommittedKept DEF AllKept, KeptFacts
  <2> QED
    BY <2>2, <2>3, NodeFacts DEF TypeInv
<1>2. ASSUME NEW m \in Server, NEW s, state' = [state EXCEPT ![m] = s], KvStep(state[m], s)
      PROVE  \A q \in Server : KvStep(state[q], state'[q])
  <2>1. state'[m] = s /\ \A q \in Server \ {m} : state'[q] = state[q]
    BY <1>1, <1>2 DEF TypeOK
  <2>2. \A q \in Server \ {m} : KvStep(state[q], state'[q])
    BY <2>1 DEF KvStep
  <2> QED
    BY <1>2, <2>1, <2>2
<1>3. ASSUME NEW m \in Server, NEW s, state' = [state EXCEPT ![m] = s],
             s.kv = state[m].kv, s.applied = state[m].applied
      PROVE  \A q \in Server : KvStep(state[q], state'[q])
  BY <1>2, <1>3 DEF KvStep
<1>4. ASSUME state' = state
      PROVE  \A q \in Server : KvStep(state[q], state'[q])
  BY <1>4 DEF KvStep
<1>5. CASE Next
  <2>1. PICK n \in Server :
        \/ LeaderWake(n) \/ LeaderSnapshot(n) \/ RoundStale(n) \/ ElectionLost(n)
        \/ \E p \in Server : CallRefused(n, p) \/ CallAbandoned(n, p)
        \/ ElectionTimeout(n) \/ RoundDeposed(n) \/ RoundCommit(n) \/ HandleLate(n)
        \/ \E p \in Server : AppendAnswered(n, p)
        \/ \E p \in Server : VoteAnswered(n, p)
        \/ \E c \in Cmd : ClientCommand(n, c)
        \/ ElectionWon(n) \/ ClientGet(n) \/ Restart(n)
    BY <1>5 DEF Next
  <2>2. CASE \/ LeaderWake(n) \/ LeaderSnapshot(n) \/ RoundStale(n) \/ ElectionLost(n)
             \/ \E p \in Server : CallRefused(n, p) \/ CallAbandoned(n, p)
    BY <1>4, <2>2 DEF LeaderWake, LeaderSnapshot, RoundStale, ElectionLost, CallRefused, CallAbandoned
  <2>3. CASE ElectionTimeout(n)
    <3> DEFINE s == [state[n] EXCEPT !.term = @ + 1, !.role = "Candidate", !.voted_for = n]
    <3>1. s.kv = state[n].kv /\ s.applied = state[n].applied
      BY <1>1 DEF NodeState
    <3>2. state' = [state EXCEPT ![n] = s]
      BY <2>3 DEF ElectionTimeout, Commit
    <3> HIDE DEF s
    <3> QED
      BY <1>3, <3>1, <3>2
  <2>4. CASE RoundDeposed(n)
    <3> DEFINE s == StepDown(state[n], rnd[n].seen)
    <3>1. s.kv = state[n].kv /\ s.applied = state[n].applied
      BY <1>1 DEF StepDown, NodeState
    <3>2. state' = [state EXCEPT ![n] = s]
      BY <2>4 DEF RoundDeposed, Commit
    <3> HIDE DEF s
    <3> QED
      BY <1>3, <3>1, <3>2
  <2>5. CASE RoundCommit(n)
    <3> DEFINE a == Advance(state[n], rnd[n])
    <3>1. rnd[n] \in Round
      BY <1>1, RoundFacts
    <3>2. a \in NodeState /\ state[n].commit_index <= a.commit_index
      <4>1. /\ a \in NodeState
            /\ \/ a.commit_index = state[n].commit_index
               \/ a.commit_index \in state[n].commit_index + 1 .. Len(state[n].log)
        BY <1>1, <3>1, AdvanceLog
      <4>2. Len(state[n].log) \in Nat
        BY <1>1, NodeFacts
      <4> HIDE DEF a
      <4> QED
        BY <1>1, <4>1, <4>2
    <3>3. a.kv = state[n].kv /\ a.applied = state[n].applied
      BY <1>1 DEF Advance, NodeState
    <3>4. state' = [state EXCEPT ![n] = Apply(a)]
      BY <2>5 DEF RoundCommit, Commit
    <3> HIDE DEF a
    <3>5. a.applied <= a.commit_index
      BY <1>1, <3>2, <3>3
    <3>6. KvStep(state[n], Apply(a))
      BY <3>2, <3>3, <3>5 DEF KvStep
    <3> QED
      BY <1>2, <3>4, <3>6
  <2>6. ASSUME NEW p \in Server, NEW m \in VoteRequest \cup AppendRequest,
               state' = [state EXCEPT ![p] = Handle(state[p], m)]
        PROVE  \A q \in Server : KvStep(state[q], state'[q])
    <3>1. KvStep(state[p], Handle(state[p], m))
      <4>1. CASE m.kind = "requestvote"
        BY <1>1, <4>1, MessageFacts, KvOfVote DEF Handle
      <4>2. CASE m.kind = "append"
        BY <1>1, <4>2, MessageFacts, KvOfAppend DEF Handle
      <4> QED
        BY <4>1, <4>2, MessageFacts
    <3> QED
      BY <1>2, <2>6, <3>1
  <2>7. CASE HandleLate(n)
    <3>1. Head(inbox[n]) \in VoteRequest \cup AppendRequest
      BY <1>1, <2>7 DEF HandleLate, TypeOK
    <3> QED
      BY <2>6, <2>7, <3>1 DEF HandleLate, Commit
  <2>8. ASSUME NEW p \in Server, AppendAnswered(n, p)
        PROVE  \A q \in Server : KvStep(state[q], state'[q])
    <3>1. pc[n] = "append" /\ state' = [state EXCEPT ![p] = OnAppend(state[p], Request(n))]
      BY <2>8 DEF AppendAnswered, Commit
    <3>2. Request(n) \in AppendRequest
      BY <1>1, <3>1, RequestType
    <3>3. Handle(state[p], Request(n)) = OnAppend(state[p], Request(n))
      BY <3>2 DEF Handle, AppendRequest
    <3> QED
      BY <2>6, <3>1, <3>2, <3>3
  <2>9. ASSUME NEW p \in Server, VoteAnswered(n, p)
        PROVE  \A q \in Server : KvStep(state[q], state'[q])
    <3>1. pc[n] = "vote" /\ state' = [state EXCEPT ![p] = OnRequestVote(state[p], Request(n))]
      BY <2>9 DEF VoteAnswered, Commit
    <3>2. Request(n) \in VoteRequest
      BY <1>1, <3>1, RequestType
    <3>3. Handle(state[p], Request(n)) = OnRequestVote(state[p], Request(n))
      BY <3>2 DEF Handle, VoteRequest
    <3> QED
      BY <2>6, <3>1, <3>2, <3>3
  <2>10. ASSUME NEW c \in Cmd, ClientCommand(n, c)
         PROVE  \A q \in Server : KvStep(state[q], state'[q])
    <3> DEFINE M == Append(state[n].log, [term |-> state[n].term, cmd |-> c])
               s == [state[n] EXCEPT !.log = M]
    <3>1. state' = [state EXCEPT ![n] = s]
      BY <2>10 DEF ClientCommand, Commit
    <3> HIDE DEF M
    <3>2. s.kv = state[n].kv /\ s.applied = state[n].applied
      BY <1>1 DEF NodeState
    <3> HIDE DEF s
    <3> QED
      BY <1>3, <3>1, <3>2
  <2>11. CASE ElectionWon(n)
    <3> DEFINE s == [state[n] EXCEPT !.role = "Leader"]
    <3>1. s.kv = state[n].kv /\ s.applied = state[n].applied
      BY <1>1 DEF NodeState
    <3>2. state' = [state EXCEPT ![n] = s]
      BY <2>11 DEF ElectionWon
    <3> HIDE DEF s
    <3> QED
      BY <1>3, <3>1, <3>2
  <2>12. CASE ClientGet(n)
    <3> DEFINE s == IF state[n].role = "Leader" THEN Apply(state[n]) ELSE state[n]
    <3>1. KvStep(state[n], s)
      <4>1. state[n].applied <= state[n].commit_index
        BY <1>1
      <4> QED
        BY <1>1, <4>1 DEF KvStep
    <3>2. state' = [state EXCEPT ![n] = s]
      BY <1>1, <2>12 DEF ClientGet, TypeOK
    <3> HIDE DEF s
    <3> QED
      BY <1>2, <3>1, <3>2
  <2>13. CASE Restart(n)
    <3>1. disk[n] \in Durable
      BY <1>1 DEF TypeOK
    <3>2. state' = [state EXCEPT ![n] = Recover(disk[n])]
      BY <2>13 DEF Restart
    <3> QED
      BY <1>2, <3>1, <3>2, KvOfRecover
  <2> QED
    BY <2>1, <2>2, <2>3, <2>4, <2>5, <2>7, <2>8, <2>9, <2>10, <2>11, <2>12, <2>13
<1>6. CASE UNCHANGED vars
  BY <1>4, <1>6 DEF vars
<1> QED
  BY <1>5, <1>6

KvInv == RaftInv /\ \A n \in Server : KvOK(state[n])

LEMMA KvInit == Init => KvInv
<1> SUFFICES ASSUME Init PROVE \A n \in Server : KvOK(state[n])
  BY RaftInit DEF KvInv
<1> TAKE n \in Server
<1> DEFINE s == [term |-> 0, role |-> "Follower", voted_for |-> None, log |-> <<>>,
                 commit_index |-> 0, applied |-> 0, kv |-> [k \in Key |-> Nil]]
<1>1. Wire(<<>>) = <<>>
  BY DEF Wire
<1>2. state[n] = Apply(s)
  BY <1>1 DEF Init, Recover, NoFile
<1>3. /\ s \in NodeState /\ s.applied = 0 /\ s.commit_index = 0 /\ s.log = <<>>
      /\ s.kv = [k \in Key |-> Nil]
  BY DEF NodeState
<1> HIDE DEF s
<1>4. KvOK(s)
  <2>1. \A key \in Key : Touch(<<>>, 1 .. 0, key) = {}
    BY DEF Touch
  <2> QED
    BY <1>3, <2>1 DEF KvOK, KvOf
<1>5. s.applied <= s.commit_index /\ s.commit_index <= Len(s.log)
  BY <1>3
<1> QED
  BY <1>2, <1>3, <1>4, <1>5, ApplyKv

LEMMA KvNext == KvInv /\ [Next]_vars /\ [SnapshotInTerm]_vars => KvInv'
<1> SUFFICES ASSUME KvInv, [Next]_vars, [SnapshotInTerm]_vars PROVE KvInv'
  OBVIOUS
<1>1. RaftInv /\ RaftInv' /\ TypeInv /\ TypeInv'
  BY RaftStep, NextElection DEF KvInv, RaftInv
<1>2. ASSUME NEW n \in Server PROVE KvOK(state'[n])
  <2>1. state[n] \in NodeState /\ state'[n] \in NodeState
    BY <1>1, NodeFacts, NextNodeFacts
  <2>2. CommitFacts(n) /\ CommitFacts(n)'
    BY <1>1, PrefixStays
  <2>3. state[n].commit_index <= state'[n].commit_index
    <3>1. PICK m \in Server : /\ \A q \in Server \ {m} : state'[q] = state[q]
                              /\ state[m].commit_index <= state'[m].commit_index
      BY <1>1, PrefixStays
    <3>2. CASE n = m
      BY <3>1, <3>2
    <3>3. CASE n # m
      BY <2>2, <3>1, <3>3 DEF CommitFacts
    <3> QED
      BY <3>2, <3>3
  <2>4. Agree(state[n].log, state'[n].log, state[n].commit_index)
    BY <1>1, <2>3, PrefixStays
  <2>5. KvStep(state[n], state'[n]) /\ KvOK(state[n])
    BY <1>1, KvSteps DEF KvInv
  <2> QED
    BY <2>1, <2>2, <2>4, <2>5, KvMoves DEF CommitFacts
<1> QED
  BY <1>1, <1>2 DEF KvInv

LEMMA KvImplied == KvInv => KvIsReplay
<1> SUFFICES ASSUME KvInv, NEW n \in Server
             PROVE  state[n].kv =
                       FoldLeft(LAMBDA kv, e : CASE e.cmd.op = "set"    -> [kv EXCEPT ![e.cmd.key] = e.cmd.val]
                                                 [] e.cmd.op = "remove" -> [kv EXCEPT ![e.cmd.key] = Nil]
                                                 [] OTHER               -> kv,
                                [k \in Key |-> Nil], SubSeq(state[n].log, 1, state[n].applied))
  BY Zenon DEF KvIsReplay
<1>1. TypeInv /\ KvOK(state[n])
  BY DEF KvInv, RaftInv, ElectionInv
<1>2. PICK L \in Seq(Entry), k \in Nat : L = state[n].log /\ k = state[n].applied /\ k <= Len(L)
  <2>1. PICK H, I, K : LogInv(H, I, K)
    BY DEF KvInv, RaftInv
  <2>2. /\ state[n].log \in Seq(Entry) /\ state[n].applied \in Nat
        /\ state[n].applied <= Len(state[n].log)
    BY <1>1, <2>1, CommittedKept DEF AllKept, KeptFacts
  <2> QED
    BY <2>2
<1> DEFINE P == SubSeq(L, 1, k)
<1>3. /\ P \in Seq(Entry) /\ Len(P) = k /\ Agree(P, L, k)
  BY <1>2, PrefixOf DEF Agree
<1> HIDE DEF P
<1>4. KvOf(P, 1 .. k) = KvOf(L, 1 .. k)
  BY <1>3, KvSame
<1>5. state[n].kv = KvOf(P, 1 .. Len(P))
  BY <1>1, <1>2, <1>3, <1>4 DEF KvOK
<1>6. P = SubSeq(state[n].log, 1, state[n].applied)
  BY <1>2 DEF P
<1> QED
  BY <1>3, <1>5, <1>6, FoldIsKv, Zenon

\* The map a node answers from is the replay of the log it holds now, though
\* it is built command by command and the log is replaced under it.
THEOREM MapIsReplay == Spec /\ [][SnapshotInTerm]_vars => []KvIsReplay
  BY KvInit, KvNext, KvImplied, PTL DEF Spec
=============================================================================
