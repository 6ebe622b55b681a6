----------------------------- MODULE PbftProofs -----------------------------
(***************************************************************************)
(* Proofs about Pbft, for any 3f+1 nodes with at most f Byzantine ones,    *)
(* any values, views and crashes.                                          *)
(*                                                                         *)
(* A correct node votes once in a view (Once), what it locks and what it   *)
(* complains with is certified (Locked, Complained), so there is one       *)
(* certificate per view, whatever crashes.  Across views, LockIn is not    *)
(* inductive: a quorum of COMMITs may complete long after later views have *)
(* begun.  Choosable is what remains true from the start: m can still get  *)
(* a quorum in v, if those that have complained past v have sent COMMIT    *)
(* before.  It is lost but never regained, and what 2f+1 complaints force  *)
(* is safe: it is what is choosable earlier (ForcedIsSafe).  So is every   *)
(* vote, but those of nodes that forgot in a crash what they were bound to *)
(* (Loose), as many as there were half entries.  While these are at most   *)
(* f, a quorum of PREPAREs has a vote that is safe, and LockIn and         *)
(* Agreement follow.  With f+1 they fail (MCPbftHalf).                     *)
(***************************************************************************)
EXTENDS Pbft, FiniteSetTheorems, TLAPS

Voted(kind, q, v, m) == [kind |-> kind, from |-> q, view |-> v, m |-> m] \in votes

\* What a node has signed or locked is of its view or an earlier one.
NotAhead(s) ==
    /\ s.my_prepare # None => s.my_prepare.view <= s.view
    /\ s.prepared # None => s.prepared.view <= s.view

TypeInv == TypeOK /\ \A q \in Correct : NotAhead(state[q])

\* The one vote of a node in a view is the one it has written down.
Once ==
    \A q \in Correct, v \in View, m \in Value : Voted("PREPARE", q, v, m) =>
        /\ v <= state[q].view
        /\ v = state[q].view => state[q].my_prepare = [view |-> v, value |-> m]
        /\ \A m2 \in Value : Voted("PREPARE", q, v, m2) => m2 = m

\* A lock is certified, and no older than any COMMIT sent.
Locked ==
    \A q \in Correct :
        /\ state[q].prepared # None =>
              state[q].prepared \in Certified
        /\ \A v \in View, m \in Value : Voted("COMMIT", q, v, m) =>
              /\ [view |-> v, value |-> m] \in Certified
              /\ state[q].prepared # None /\ v <= state[q].prepared.view

\* A complaint shows a lock as old as what its sender had committed to before.
Complained ==
    \A c \in complaints :
        /\ c.from \in Correct /\ c.newview <= state[c.from].highest_vc_sent
        /\ c.prepared # None => c.prepared \in Certified
        /\ \A v \in View, m \in Value : Voted("COMMIT", c.from, v, m) /\ v < c.newview =>
              c.prepared # None /\ v <= c.prepared.view

Decided ==
    \A q \in Correct : state[q].decided # None =>
        \E v \in View : Quorum(Saying("COMMIT", v, state[q].decided))

MayCommit(q, v, m) ==
    \/ q \in Byzantine
    \/ Voted("COMMIT", q, v, m)
    \/ state[q].view <= v /\ state[q].highest_vc_sent <= v

Choosable(v, m) == Quorum({q \in Node : MayCommit(q, v, m)})

\* Nothing but m can have been, or still be, decided before view w.
SafeAt(w, m) == \A v \in View, m2 \in Value : v < w /\ Choosable(v, m2) => m2 = m

FreeAt(w) == \A m \in Value : SafeAt(w, m)

\* The nodes that have voted in w unsafely, or may still do so.
Loose(w) ==
    {q \in Correct :
        \/ \E m \in Value : Voted("PREPARE", q, w, m) /\ ~SafeAt(w, m)
        \/ state[q].view = w /\ ~state[q].preprepared /\ ~FreeAt(w)}

FewLoose == \A w \in View : Cardinality(Loose(w)) <= half_entries

VoteInv == TypeInv /\ Once /\ Locked /\ Complained /\ Decided

LockInv == VoteInv /\ (half_entries <= f => FewLoose)

(******************************* cardinality *******************************)

LEMMA Sizes == /\ IsFiniteSet(Node) /\ Cardinality(Node) = n
               /\ n \in Nat /\ f \in Nat /\ n = 3 * f + 1
<1>1. n \in Nat /\ n > 0
  BY NodeAssumption DEF n
<1>2. IsFiniteSet(Node)
  <2>1. nodes \in [1 .. n -> Node] /\ Node = {nodes[i] : i \in 1 .. n}
    BY NodeAssumption DEF Node, ToSet, n
  <2>2. nodes \in Surjection(1 .. n, Node)
    BY <2>1 DEF Surjection
  <2>3. IsFiniteSet(1 .. n)
    BY <1>1, FS_Interval
  <2> QED
    BY <2>2, <2>3, FS_Surjection
<1> QED
  BY <1>1, <1>2, NodeAssumption, FaultAssumption DEF f

LEMMA Sizeable ==
    ASSUME NEW Q \in SUBSET Node
    PROVE  IsFiniteSet(Q) /\ Cardinality(Q) \in Nat /\ Cardinality(Q) <= n
BY Sizes, FS_Subset, FS_CardinalityType

\* Sets of together more than n+f nodes share a correct one.
LEMMA Meet ==
    ASSUME NEW Q \in SUBSET Node, NEW R \in SUBSET Node,
           Cardinality(Q) + Cardinality(R) > n + f
    PROVE  \E q \in Q \cap R : q \in Correct
<1>1. /\ Cardinality(Q) \in Nat /\ Cardinality(R) \in Nat /\ IsFiniteSet(Q) /\ IsFiniteSet(R)
      /\ Cardinality(Q \cup R) \in Nat /\ Cardinality(Q \cup R) <= n
      /\ Cardinality(Q \cap R) \in Nat
  <2>1. Q \cup R \in SUBSET Node /\ Q \cap R \in SUBSET Node
    OBVIOUS
  <2> QED
    BY <2>1, Sizeable
<1>2. Cardinality(Q \cup R) = Cardinality(Q) + Cardinality(R) - Cardinality(Q \cap R)
  BY <1>1, FS_Union
<1>3. Cardinality(Q \cap R) > f
  BY <1>1, <1>2, Sizes
<1>4. IsFiniteSet(Byzantine) /\ Cardinality(Byzantine) \in Nat /\ Cardinality(Byzantine) <= f
  BY Sizeable, FaultAssumption
<1>5. Q \cap R \subseteq Byzantine => Cardinality(Q \cap R) <= Cardinality(Byzantine)
  BY <1>4, FS_Subset
<1> QED
  BY <1>1, <1>3, <1>4, <1>5, Sizes DEF Correct

LEMMA QuorumsMeet ==
    ASSUME NEW Q \in SUBSET Node, NEW R \in SUBSET Node, Quorum(Q), Quorum(R)
    PROVE  \E q \in Q \cap R : q \in Correct
<1>1. Cardinality(Q) + Cardinality(R) > n + f
  BY Sizeable, Sizes DEF Quorum
<1> QED
  BY <1>1, Meet

LEMMA QuorumGrows ==
    ASSUME NEW Q \in SUBSET Node, NEW R \in SUBSET Node, Q \subseteq R, Quorum(Q)
    PROVE  Quorum(R)
<1>1. Cardinality(Q) <= Cardinality(R) /\ Cardinality(Q) \in Nat /\ Cardinality(R) \in Nat
  BY Sizeable, FS_Subset
<1> QED
  BY <1>1, Sizes DEF Quorum

LEMMA Leader == ASSUME NEW v \in Nat PROVE leader_of(v) \in Node
<1>1. v % n \in 0 .. n - 1
  BY Sizes
<1>2. (v % n) + 1 \in 1 .. n
  BY <1>1, Sizes
<1> QED
  BY <1>2, NodeAssumption DEF leader_of, Node, ToSet, n

(********************************* typing **********************************)

LEMMA Bounds ==
    /\ MaxView \in Nat /\ MaxCrashes \in Nat /\ MaxHalfEntries \in Nat
    /\ View = 0 .. MaxView /\ None \notin Value /\ None \notin Cert
    /\ Correct \subseteq Node /\ Byzantine \subseteq Node
BY BoundAssumption, ValueAssumption, FaultAssumption DEF View, Correct

LEMMA Certificates == Certified \subseteq Cert /\ Byzantine \cap Correct = {}
BY DEF Certified, Correct

LEMMA Target ==
    ASSUME NEW a \in Nat, NEW b \in Nat
    PROVE  Max({a, b}) \in Nat /\ Max({a, b}) >= a /\ Max({a, b}) >= b
BY DEF Max

\* Complaints as tallied are complaints.
LEMMA RecordsTyped ==
    ASSUME TypeOK, NEW v \in View
    PROVE  Records(v) \subseteq Complaint
BY Certificates, Bounds DEF Records, TypeOK, Complaint

LEMMA ForcedTyped ==
    ASSUME TypeOK, NEW v \in View
    PROVE  Forced(v) \subseteq Value \cup {None}
<1> SUFFICES ASSUME NEW vcs \in SUBSET Records(v) PROVE select_value(vcs) \subseteq Value \cup {None}
  BY DEF Forced
<1>1. \A c \in vcs : c.prepared \in Cert \cup {None}
  BY RecordsTyped DEF Complaint
<1> QED
  BY <1>1 DEF select_value, Cert

LEMMA AcceptableForced ==
    ASSUME NEW p \in Correct, NEW v \in View, NEW x \in Acceptable(p, v)
    PROVE  ~(v <= state[p].view) /\ x \in Forced(v)
BY DEF Acceptable

\* What a step makes of the node that takes it is a state.
LEMMA Kept ==
    ASSUME TypeInv, NEW p \in Correct, NEW s \in State, FlagsAgree(s), NotAhead(s),
           state' = [state EXCEPT ![p] = s]
    PROVE  /\ state' \in [Correct -> State]
           /\ \A q \in Correct : FlagsAgree(state'[q]) /\ NotAhead(state'[q])
BY DEF TypeInv, TypeOK

LEMMA CastTyped ==
    ASSUME TypeInv, NEW p \in Correct, NEW v \in View, NEW m \in Value,
           NEW kind \in {"PREPREPARE", "PREPARE", "COMMIT"}, Cast(kind, p, v, m)
    PROVE  votes' \subseteq Vote
BY DEF TypeInv, TypeOK, Cast, Vote

LEMMA Recovered ==
    ASSUME NEW s \in State, s.sentcommit \in BOOLEAN
    PROVE  /\ Recover(s) \in State /\ FlagsAgree(Recover(s))
           /\ (NotAhead(s) => NotAhead(Recover(s)))
BY DEF Recover, State, FlagsAgree, NotAhead

LEMMA Types ==
    ASSUME TypeInv, NEW p \in Correct
    PROVE  /\ state[p] \in State /\ FlagsAgree(state[p]) /\ NotAhead(state[p])
           /\ state[p].view \in View /\ state[p].highest_vc_sent \in View
           /\ state[p].prepared \in Cert \cup {None} /\ state[p].decided \in Value \cup {None}
           /\ state[p].my_prepare \in Cert \cup {None} /\ state[p].expected \in Value \cup {None}
           /\ state[p].preprepared \in BOOLEAN /\ state[p].sentcommit \in BOOLEAN
BY DEF TypeInv, TypeOK, State

\* A vote, or a lock, for the present view.
LEMMA VoteNoted ==
    ASSUME NEW s \in State, FlagsAgree(s), NotAhead(s), NEW c \in Cert, c.view = s.view
    PROVE  LET t == [s EXCEPT !.preprepared = TRUE, !.my_prepare = c]
           IN  t \in State /\ FlagsAgree(t) /\ NotAhead(t)
<1> DEFINE t == [s EXCEPT !.preprepared = TRUE, !.my_prepare = c]
<1>1. t \in State
  BY DEF State
<1>2. /\ t.preprepared = TRUE /\ t.my_prepare = c /\ t.view = s.view
      /\ t.expected = s.expected /\ t.sentcommit = s.sentcommit /\ t.prepared = s.prepared
  BY DEF State
<1>3. c # None /\ s.view \in Nat
  BY Bounds DEF State
<1> HIDE DEF t
<1>4. FlagsAgree(t) /\ NotAhead(t)
  BY <1>2, <1>3 DEF FlagsAgree, NotAhead
<1> QED
  BY <1>1, <1>4 DEF t

LEMMA LockNoted ==
    ASSUME NEW s \in State, FlagsAgree(s), NotAhead(s), NEW c \in Cert, c.view = s.view
    PROVE  LET t == [s EXCEPT !.sentcommit = TRUE, !.prepared = c]
           IN  t \in State /\ FlagsAgree(t) /\ NotAhead(t)
<1> DEFINE t == [s EXCEPT !.sentcommit = TRUE, !.prepared = c]
<1>1. t \in State
  BY DEF State
<1>2. /\ t.sentcommit = TRUE /\ t.prepared = c /\ t.view = s.view
      /\ t.expected = s.expected /\ t.preprepared = s.preprepared
      /\ t.my_prepare = s.my_prepare
  BY DEF State
<1>3. c # None /\ s.view \in Nat
  BY Bounds DEF State
<1> HIDE DEF t
<1>4. FlagsAgree(t) /\ NotAhead(t)
  BY <1>2, <1>3 DEF FlagsAgree, NotAhead
<1> QED
  BY <1>1, <1>4 DEF t

\* A node that enters a view; one that is bound has yet to vote.
LEMMA EnteredTyped ==
    ASSUME TypeInv, NEW p \in Correct, NEW v \in View, state[p].view < v,
           NEW x \in Value \cup {None}
    PROVE  LET t == Entered(state[p], v, x)
           IN  /\ t \in State /\ t.view = v /\ NotAhead(t)
               /\ ~t.preprepared /\ t.my_prepare = state[p].my_prepare
               /\ t.my_prepare # None => t.my_prepare.view # v
               /\ t.expected = x /\ ~t.sentcommit /\ t.prepared = state[p].prepared
<1> DEFINE s == state[p]
           t == Entered(s, v, x)
<1>1. s \in State /\ NotAhead(s) /\ s.view \in Nat /\ v \in Nat /\ s.view < v
  BY Types, Bounds
<1> HIDE DEF s
<1>2. t \in State
  BY <1>1 DEF Entered, State
<1>3. /\ t.view = v /\ t.preprepared = FALSE /\ t.my_prepare = s.my_prepare
      /\ t.expected = x /\ t.sentcommit = FALSE /\ t.prepared = s.prepared
  BY <1>1 DEF Entered, State
<1>4. /\ s.my_prepare # None => s.my_prepare.view \in Nat
      /\ s.prepared # None => s.prepared.view \in Nat
  BY <1>1, Bounds DEF State, Cert
<1> HIDE DEF t
<1>5. NotAhead(t) /\ (t.my_prepare # None => t.my_prepare.view # v)
  BY <1>1, <1>3, <1>4 DEF NotAhead
<1> QED
  BY <1>2, <1>3, <1>5 DEF s, t

LEMMA TypeStep == ASSUME TypeInv, [Next]_vars PROVE TypeInv'
<1>1. CASE UNCHANGED vars
  BY <1>1 DEF vars, TypeInv, TypeOK
<1>2. ASSUME NEW p \in Correct, NEW m \in Value, Propose(p, m) PROVE TypeInv'
  <2>1. votes' \subseteq Vote
    BY <1>2, Types, CastTyped DEF Propose
  <2> QED
    BY <1>2, <2>1 DEF Propose, TypeInv, TypeOK
<1>3. ASSUME NEW p \in Correct, NEW m \in Value, OnPrePrepare(p, m) PROVE TypeInv'
  <2> DEFINE s == [state[p] EXCEPT !.preprepared = TRUE,
                                   !.my_prepare = [view |-> state[p].view, value |-> m]]
  <2>1. state' = [state EXCEPT ![p] = s]
    BY <1>3, Types DEF OnPrePrepare, TypeInv, TypeOK
  <2>2. [view |-> state[p].view, value |-> m] \in Cert
    BY Types DEF Cert
  <2>3. s \in State /\ FlagsAgree(s) /\ NotAhead(s)
    BY <2>2, Types, VoteNoted
  <2>4. votes' \subseteq Vote
    BY <1>3, Types, CastTyped DEF OnPrePrepare
  <2> QED
    BY <1>3, <2>1, <2>3, <2>4, Kept DEF OnPrePrepare, TypeInv, TypeOK
<1>4. ASSUME NEW p \in Correct, NEW m \in Value, OnPrepare(p, m) PROVE TypeInv'
  <2> DEFINE s == [state[p] EXCEPT !.sentcommit = TRUE,
                                   !.prepared = [view |-> state[p].view, value |-> m]]
  <2>1. state' = [state EXCEPT ![p] = s]
    BY <1>4, Types DEF OnPrepare, TypeInv, TypeOK
  <2>2. [view |-> state[p].view, value |-> m] \in Cert
    BY Types DEF Cert
  <2>3. s \in State /\ FlagsAgree(s) /\ NotAhead(s)
    BY <2>2, Types, LockNoted
  <2>4. votes' \subseteq Vote
    BY <1>4, Types, CastTyped DEF OnPrepare
  <2> QED
    BY <1>4, <2>1, <2>3, <2>4, Kept DEF OnPrepare, TypeInv, TypeOK
<1>5. ASSUME NEW p \in Correct, NEW m \in Value, OnCommit(p, m) PROVE TypeInv'
  <2> DEFINE s == [state[p] EXCEPT !.decided = m]
  <2>1. state' = [state EXCEPT ![p] = s]
    BY <1>5, Types DEF OnCommit, TypeInv, TypeOK
  <2>2. s \in State /\ FlagsAgree(s) /\ NotAhead(s)
    BY Types DEF State, FlagsAgree, NotAhead
  <2> QED
    BY <1>5, <2>1, <2>2, Kept DEF OnCommit, TypeInv, TypeOK
<1>6. ASSUME NEW p \in Correct, NEW nv \in Nat, Complain(p, nv) PROVE TypeInv'
  <2> DEFINE s == [state[p] EXCEPT !.highest_vc_sent = nv]
  <2>1. state' = [state EXCEPT ![p] = s] /\ nv \in View
    BY <1>6, Types, Bounds DEF Complain, TypeInv, TypeOK
  <2>2. s \in State /\ FlagsAgree(s) /\ NotAhead(s)
    BY <2>1, Types DEF State, FlagsAgree, NotAhead
  <2>3. complaints' \subseteq Complaint
    BY <1>6, <2>1, Types, Bounds DEF Complain, Complaint, TypeInv, TypeOK
  <2> QED
    BY <1>6, <2>1, <2>2, <2>3, Kept DEF Complain, TypeInv, TypeOK
<1>7. ASSUME NEW p \in Correct, NEW v \in View, LeadNewView(p, v) PROVE TypeInv'
  <2>1. newviews' \subseteq NewView
    BY <1>7, ForcedTyped DEF LeadNewView, NewView, TypeInv, TypeOK
  <2> QED
    BY <1>7, <2>1 DEF LeadNewView, TypeInv, TypeOK
<1>8. ASSUME NEW p \in Correct, NEW v \in View, OnNewView(p, v) PROVE TypeInv'
  <2>1. PICK x \in Acceptable(p, v) :
            LET s == Entered(state[p], v, x)
            IN  IF x = None
                THEN state' = [state EXCEPT ![p] = s] /\ UNCHANGED votes
                ELSE /\ state' = [state EXCEPT ![p] =
                            [s EXCEPT !.preprepared = TRUE,
                                      !.my_prepare = [view |-> v, value |-> x]]]
                     /\ Cast("PREPARE", p, v, x)
    BY <1>8 DEF OnNewView
  <2>2. x \in Value \cup {None} /\ state[p].view \in Nat /\ v \in Nat /\ state[p].view < v
    BY AcceptableForced, ForcedTyped, Types, Bounds DEF TypeInv
  <2>3. UNCHANGED <<complaints, newviews, crashes, half_entries>>
    BY <1>8 DEF OnNewView
  <2> DEFINE s == Entered(state[p], v, x)
  <2>4. /\ s \in State /\ s.view = v /\ NotAhead(s) /\ ~s.preprepared
        /\ s.my_prepare # None => s.my_prepare.view # v
        /\ s.expected = x /\ ~s.sentcommit
    BY <2>2, EnteredTyped
  <2> HIDE DEF s
  <2>5. CASE x = None
    <3>1. FlagsAgree(s)
      BY <2>4, <2>5 DEF FlagsAgree
    <3>2. state' = [state EXCEPT ![p] = s] /\ UNCHANGED votes
      BY <2>1, <2>5 DEF s
    <3> QED
      BY <2>3, <2>4, <3>1, <3>2, Kept DEF TypeInv, TypeOK
  <2>6. CASE x \in Value
    <3> DEFINE c == [view |-> v, value |-> x]
               t == [s EXCEPT !.preprepared = TRUE, !.my_prepare = c]
    <3>1. c \in Cert /\ c # None
      BY <2>6, Bounds DEF Cert
    <3>2. t \in State
      BY <2>4, <3>1 DEF State
    <3>3. /\ t.preprepared = TRUE /\ t.my_prepare = c /\ t.view = v
          /\ t.sentcommit = s.sentcommit /\ t.prepared = s.prepared
      BY <2>4 DEF State
    <3>4. FlagsAgree(t) /\ NotAhead(t)
      BY <2>2, <2>4, <3>1, <3>3 DEF FlagsAgree, NotAhead
    <3>5. state' = [state EXCEPT ![p] = t] /\ Cast("PREPARE", p, v, x)
      BY <2>1, <2>6, Bounds DEF s
    <3> HIDE DEF t
    <3>6. votes' \subseteq Vote
      BY <2>6, <3>5, CastTyped
    <3> QED
      BY <2>3, <3>2, <3>4, <3>5, <3>6, Kept DEF TypeInv, TypeOK
  <2> QED
    BY <2>2, <2>5, <2>6
<1>9. ASSUME NEW p \in Correct, Crash(p) PROVE TypeInv'
  <2>1. state' = [state EXCEPT ![p] = Recover(state[p])]
    BY <1>9 DEF Crash
  <2>2. crashes' \in 0 .. MaxCrashes
    BY <1>9, Bounds DEF Crash, TypeInv, TypeOK
  <2> QED
    BY <1>9, <2>1, <2>2, Kept, Recovered, Types DEF Crash, TypeInv, TypeOK
<1>10. ASSUME NEW p \in Correct, NEW v \in View, HalfEntry(p, v) PROVE TypeInv'
  <2>1. PICK x \in Acceptable(p, v) : state' = [state EXCEPT ![p] = Recover(Entered(@, v, x))]
    BY <1>10 DEF HalfEntry
  <2>2. x \in Value \cup {None} /\ state[p].view \in Nat /\ v \in Nat /\ state[p].view < v
    BY AcceptableForced, ForcedTyped, Types, Bounds DEF TypeInv
  <2>3. Entered(state[p], v, x) \in State
    BY <2>2, Types DEF Entered, State
  <2>4. crashes' \in 0 .. MaxCrashes /\ half_entries' \in 0 .. MaxHalfEntries
    BY <1>10, Bounds DEF HalfEntry, TypeInv, TypeOK
  <2>5. Entered(state[p], v, x).sentcommit \in BOOLEAN
    BY <2>3 DEF State
  <2>6. NotAhead(Entered(state[p], v, x))
    BY <2>2, Types, Bounds DEF Entered, State, NotAhead, Cert
  <2> QED
    BY <1>10, <2>1, <2>3, <2>4, <2>5, <2>6, Kept, Recovered DEF HalfEntry, TypeInv, TypeOK
<1>11. ASSUME NEW p \in Correct, Timeout(p) PROVE TypeInv'
  BY <1>11, <1>6, Target, Types, Bounds DEF Timeout
<1>12. ASSUME NEW p \in Correct, NEW v \in View, OnViewChange(p, v) PROVE TypeInv'
  BY <1>12, <1>6, Bounds DEF OnViewChange
<1> QED
  BY <1>1, <1>2, <1>3, <1>4, <1>5, <1>7, <1>8, <1>9, <1>10, <1>11, <1>12 DEF Next

LEMMA TypeInit == Init => TypeInv
<1> SUFFICES ASSUME Init PROVE TypeInv
  OBVIOUS
<1>1. Fresh \in State /\ FlagsAgree(Fresh) /\ NotAhead(Fresh)
  BY Bounds DEF Fresh, State, FlagsAgree, NotAhead
<1> QED
  BY <1>1, Bounds DEF Init, TypeInv, TypeOK

\* Every variable of Pbft keeps its type, and the flags of each node agree with
\* what it has persisted, crashes in the middle of a NEWVIEW included.
THEOREM TypeCorrect == Spec => []TypeOK
<1>1. TypeInv /\ [Next]_vars => TypeInv'
  BY TypeStep
<1>2. TypeInv => TypeOK
  BY DEF TypeInv
<1> QED
  BY <1>1, <1>2, TypeInit, PTL DEF Spec

(********************************** steps **********************************)

\* What a step does, as far as the invariants are concerned.
Grows == votes \subseteq votes' /\ complaints \subseteq complaints'

KeepsBack(s, t) ==
    /\ s.view <= t.view /\ s.highest_vc_sent <= t.highest_vc_sent
    /\ s.prepared # None => t.prepared # None /\ s.prepared.view <= t.prepared.view
    /\ s.decided # None => t.decided = s.decided

NoReturn == \A q \in Correct : KeepsBack(state[q], state'[q])

\* A vote is written down, replaces none of its view, and is free or forced.
NewPrepares ==
    \A q \in Correct, v \in View, m \in Value :
        Voted("PREPARE", q, v, m)' /\ ~Voted("PREPARE", q, v, m) =>
            /\ v = state'[q].view /\ state'[q].my_prepare = [view |-> v, value |-> m]
            /\ \/ state[q].view = v /\ ~state[q].preprepared
               \/ state[q].view < v /\ m \in Forced(v)

KeepsVotes ==
    \A q \in Correct : state'[q].view = state[q].view /\ state[q].preprepared =>
        state'[q].my_prepare = state[q].my_prepare

NewCommits ==
    \A q \in Correct, v \in View, m \in Value :
        Voted("COMMIT", q, v, m)' /\ ~Voted("COMMIT", q, v, m) =>
            /\ v = state[q].view /\ state[q].highest_vc_sent <= v
            /\ [view |-> v, value |-> m] \in Certified
            /\ state'[q].prepared = [view |-> v, value |-> m]
            /\ complaints' = complaints

NewLocks == \A q \in Correct : state'[q].prepared \in {state[q].prepared} \cup Certified

NewComplaints ==
    \A c \in complaints' : c \notin complaints =>
        /\ c.from \in Correct /\ c.newview <= state'[c.from].highest_vc_sent
        /\ c.prepared = state[c.from].prepared
        /\ votes' = votes

NewDecisions ==
    \A q \in Correct : state'[q].decided # state[q].decided =>
        Quorum(Saying("COMMIT", state[q].view, state'[q].decided))

\* Who has not voted in its view has not done so before, or is free in it, but
\* for the one node of a half entry.
Unbound(q) ==
    ~state'[q].preprepared =>
        \/ state'[q].view = state[q].view /\ ~state[q].preprepared
        \/ None \in Forced(state'[q].view)

Entries ==
    \/ half_entries' = half_entries /\ \A q \in Correct : Unbound(q)
    \/ /\ half_entries' = half_entries + 1 /\ votes' = votes
       /\ \E p \in Correct : \A q \in Correct : q # p => Unbound(q)

Effects ==
    /\ Grows /\ NoReturn /\ NewPrepares /\ KeepsVotes /\ NewCommits
    /\ NewLocks /\ NewComplaints /\ NewDecisions /\ Entries

LEMMA SameKept == ASSUME TypeInv, NEW q \in Correct PROVE KeepsBack(state[q], state[q])
<1>1. state[q].view \in Nat /\ state[q].highest_vc_sent \in Nat
  BY Types, Bounds
<1>2. state[q].prepared # None => state[q].prepared.view \in Nat
  BY Types, Bounds DEF Cert
<1> QED
  BY <1>1, <1>2 DEF KeepsBack

\* A step of p leaves the others alone; so it is enough to look at p.
LEMMA OneNode ==
    ASSUME TypeInv, NEW p \in Correct, NEW t, state' = [state EXCEPT ![p] = t]
    PROVE  /\ state'[p] = t
           /\ \A q \in Correct : q # p => state'[q] = state[q]
BY DEF TypeInv, TypeOK

\* A step in which nothing is sent and nothing entered.
LEMMA Quiet ==
    ASSUME TypeInv, NEW p \in Correct, NEW t \in State, state' = [state EXCEPT ![p] = t],
           KeepsBack(state[p], t), t.view = state[p].view, t.my_prepare = state[p].my_prepare,
           t.preprepared = state[p].preprepared, t.prepared = state[p].prepared,
           t.decided # state[p].decided => Quorum(Saying("COMMIT", state[p].view, t.decided)),
           votes' = votes, complaints' = complaints, half_entries' = half_entries
    PROVE  Effects
<1>1. state'[p] = t /\ \A q \in Correct : q # p => state'[q] = state[q]
  BY OneNode
<1>2. NoReturn
  BY <1>1, SameKept DEF NoReturn
<1>3. NewPrepares /\ NewCommits
  BY DEF NewPrepares, NewCommits, Voted
<1>4. KeepsVotes /\ NewLocks /\ NewComplaints /\ NewDecisions
  BY <1>1 DEF KeepsVotes, NewLocks, NewComplaints, NewDecisions
<1>5. Entries
  BY <1>1 DEF Entries, Unbound
<1> QED
  BY <1>2, <1>3, <1>4, <1>5 DEF Effects, Grows

\* The fields that a PREPARE changes, and what it means.
LEMMA PrepareEffects ==
    ASSUME TypeInv, NEW p \in Correct, NEW v \in View, NEW m \in Value, NEW t \in State,
           state' = [state EXCEPT ![p] = t], Cast("PREPARE", p, v, m),
           t.view = v, t.my_prepare = [view |-> v, value |-> m], t.preprepared = TRUE,
           t.prepared = state[p].prepared, t.decided = state[p].decided,
           t.highest_vc_sent = state[p].highest_vc_sent,
           \/ state[p].view = v /\ ~state[p].preprepared
           \/ state[p].view < v /\ m \in Forced(v),
           complaints' = complaints, half_entries' = half_entries
    PROVE  Effects
<1>1. state'[p] = t /\ \A q \in Correct : q # p => state'[q] = state[q]
  BY OneNode
<1>2. state[p].view \in Nat /\ v \in Nat /\ state[p].highest_vc_sent \in Nat
  BY Types, Bounds
<1>3. KeepsBack(state[p], t)
  BY <1>2, SameKept DEF KeepsBack
<1>4. NoReturn
  BY <1>1, <1>3, SameKept DEF NoReturn
<1>5. NewPrepares
  <2> SUFFICES ASSUME NEW q \in Correct, NEW w \in View, NEW x \in Value,
                      Voted("PREPARE", q, w, x)', ~Voted("PREPARE", q, w, x)
               PROVE  q = p /\ w = v /\ x = m
    BY <1>1 DEF NewPrepares
  <2> QED
    BY DEF Voted, Cast
<1>6. NewCommits
  BY DEF NewCommits, Voted, Cast
<1>7. KeepsVotes
  BY <1>1, <1>2 DEF KeepsVotes
<1>8. NewLocks /\ NewComplaints /\ NewDecisions
  BY <1>1 DEF NewLocks, NewComplaints, NewDecisions
<1>9. Entries
  BY <1>1 DEF Entries, Unbound
<1>10. Grows
  BY DEF Grows, Cast
<1> QED
  BY <1>4, <1>5, <1>6, <1>7, <1>8, <1>9, <1>10 DEF Effects

\* A node that enters a view without a vote, or loses the vote in a crash.
LEMMA EntryEffects ==
    ASSUME TypeInv, NEW p \in Correct, NEW v \in View, NEW t \in State, state[p].view < v,
           state' = [state EXCEPT ![p] = t], t.view = v,
           t.prepared = state[p].prepared, t.decided = state[p].decided,
           t.highest_vc_sent = state[p].highest_vc_sent,
           \/ half_entries' = half_entries /\ None \in Forced(v)
           \/ half_entries' = half_entries + 1,
           votes' = votes, complaints' = complaints
    PROVE  Effects
<1>1. state'[p] = t /\ \A q \in Correct : q # p => state'[q] = state[q]
  BY OneNode
<1>2. state[p].view \in Nat /\ v \in Nat /\ half_entries \in Nat
  BY Types, Bounds DEF TypeInv, TypeOK
<1>3. NoReturn
  BY <1>1, <1>2, SameKept DEF NoReturn, KeepsBack
<1>4. NewPrepares /\ NewCommits
  BY DEF NewPrepares, NewCommits, Voted
<1>5. KeepsVotes /\ NewLocks /\ NewComplaints /\ NewDecisions
  BY <1>1, <1>2 DEF KeepsVotes, NewLocks, NewComplaints, NewDecisions
<1>6. Entries
  <2>1. \A q \in Correct : q # p => Unbound(q)
    BY <1>1 DEF Unbound
  <2>2. CASE half_entries' = half_entries /\ None \in Forced(v)
    BY <1>1, <2>1, <2>2 DEF Entries, Unbound
  <2>3. CASE half_entries' = half_entries + 1
    BY <2>1, <2>3 DEF Entries
  <2> QED
    BY <2>2, <2>3
<1> QED
  BY <1>3, <1>4, <1>5, <1>6 DEF Effects, Grows

LEMMA Effect == ASSUME TypeInv, [Next]_vars PROVE Effects
<1>1. CASE UNCHANGED vars
  <2>1. NoReturn
    BY <1>1, SameKept DEF vars, NoReturn
  <2> QED
    BY <1>1, <2>1 DEF vars, Effects, Grows, NewPrepares, KeepsVotes, NewCommits, NewLocks,
                      NewComplaints, NewDecisions, Entries, Unbound, Voted
<1>2. ASSUME NEW p \in Correct, NEW m \in Value, Propose(p, m) PROVE Effects
  <2>1. NoReturn
    BY <1>2, SameKept DEF Propose, NoReturn
  <2>2. NewPrepares /\ NewCommits
    BY <1>2 DEF Propose, Cast, NewPrepares, NewCommits, Voted
  <2>3. Grows
    BY <1>2 DEF Propose, Cast, Grows
  <2> QED
    BY <1>2, <2>1, <2>2, <2>3 DEF Propose, Effects, KeepsVotes, NewLocks, NewComplaints,
                                  NewDecisions, Entries, Unbound
<1>3. ASSUME NEW p \in Correct, NEW m \in Value, OnPrePrepare(p, m) PROVE Effects
  <2> DEFINE c == [view |-> state[p].view, value |-> m]
             t == [state[p] EXCEPT !.preprepared = TRUE, !.my_prepare = c]
  <2>1. state' = [state EXCEPT ![p] = t] /\ state[p].view \in View
    BY <1>3, Types DEF OnPrePrepare, TypeInv, TypeOK
  <2>2. c \in Cert
    BY <2>1 DEF Cert
  <2>3. t \in State
    BY <2>2, Types, VoteNoted
  <2>4. /\ t.view = state[p].view /\ t.my_prepare = c /\ t.preprepared = TRUE
        /\ t.prepared = state[p].prepared /\ t.decided = state[p].decided
        /\ t.highest_vc_sent = state[p].highest_vc_sent
    BY Types DEF State
  <2> HIDE DEF t
  <2> QED
    BY <1>3, <2>1, <2>3, <2>4, PrepareEffects DEF OnPrePrepare
<1>4. ASSUME NEW p \in Correct, NEW m \in Value, OnPrepare(p, m) PROVE Effects
  <2> DEFINE c == [view |-> state[p].view, value |-> m]
             t == [state[p] EXCEPT !.sentcommit = TRUE, !.prepared = c]
  <2>1. state' = [state EXCEPT ![p] = t] /\ state[p].view \in View
    BY <1>4, Types DEF OnPrepare, TypeInv, TypeOK
  <2>2. c \in Certified /\ c # None
    BY <1>4, <2>1, Bounds DEF OnPrepare, Certified, verify_cert, Cert
  <2>3. /\ t.view = state[p].view /\ t.my_prepare = state[p].my_prepare
        /\ t.preprepared = state[p].preprepared
        /\ t.prepared = c /\ t.decided = state[p].decided
        /\ t.highest_vc_sent = state[p].highest_vc_sent
    BY Types DEF State
  <2> HIDE DEF t
  <2>4. state'[p] = t /\ \A q \in Correct : q # p => state'[q] = state[q]
    BY <2>1, OneNode
  <2>5. KeepsBack(state[p], t)
    BY <2>2, <2>3, SameKept, Types, Bounds DEF KeepsBack, NotAhead
  <2>6. NoReturn
    BY <2>4, <2>5, SameKept DEF NoReturn
  <2>7. NewPrepares
    BY <1>4 DEF OnPrepare, Cast, NewPrepares, Voted
  <2>8. NewCommits
    <3> SUFFICES ASSUME NEW q \in Correct, NEW w \in View, NEW x \in Value,
                        Voted("COMMIT", q, w, x)', ~Voted("COMMIT", q, w, x)
                 PROVE  q = p /\ w = state[p].view /\ x = m
      BY <1>4, <2>1, <2>2, <2>3, <2>4 DEF NewCommits, OnPrepare, Participates
    <3> QED
      BY <1>4 DEF OnPrepare, Voted, Cast
  <2>9. KeepsVotes /\ NewLocks /\ NewDecisions /\ Entries
    BY <1>4, <2>2, <2>3, <2>4 DEF OnPrepare, KeepsVotes, NewLocks, NewDecisions, Entries, Unbound
  <2>10. Grows /\ NewComplaints
    BY <1>4 DEF OnPrepare, Cast, Grows, NewComplaints
  <2> QED
    BY <2>6, <2>7, <2>8, <2>9, <2>10 DEF Effects
<1>5. ASSUME NEW p \in Correct, NEW m \in Value, OnCommit(p, m) PROVE Effects
  <2> DEFINE t == [state[p] EXCEPT !.decided = m]
  <2>1. state' = [state EXCEPT ![p] = t]
    BY <1>5, Types DEF OnCommit, TypeInv, TypeOK
  <2>2. t \in State
    BY Types DEF State
  <2>3. /\ t.view = state[p].view /\ t.my_prepare = state[p].my_prepare
        /\ t.preprepared = state[p].preprepared /\ t.prepared = state[p].prepared
        /\ t.decided = m /\ t.highest_vc_sent = state[p].highest_vc_sent
    BY Types DEF State
  <2> HIDE DEF t
  <2>4. KeepsBack(state[p], t)
    BY <1>5, <2>3, SameKept DEF KeepsBack, OnCommit
  <2> QED
    BY <1>5, <2>1, <2>2, <2>3, <2>4, Quiet DEF OnCommit
<1>6. ASSUME NEW p \in Correct, NEW nv \in Nat, state[p].highest_vc_sent <= nv, Complain(p, nv)
      PROVE  Effects
  <2> DEFINE t == [state[p] EXCEPT !.highest_vc_sent = nv]
  <2>1. state' = [state EXCEPT ![p] = t]
    BY <1>6, Types DEF Complain, TypeInv, TypeOK
  <2>2. /\ t.view = state[p].view /\ t.my_prepare = state[p].my_prepare
        /\ t.preprepared = state[p].preprepared /\ t.prepared = state[p].prepared
        /\ t.decided = state[p].decided /\ t.highest_vc_sent = nv
    BY Types DEF State
  <2> HIDE DEF t
  <2>3. state'[p] = t /\ \A q \in Correct : q # p => state'[q] = state[q]
    BY <2>1, OneNode
  <2>4. KeepsBack(state[p], t)
    BY <1>6, <2>2, SameKept DEF KeepsBack
  <2>5. NoReturn
    BY <2>3, <2>4, SameKept DEF NoReturn
  <2>6. NewPrepares /\ NewCommits
    BY <1>6 DEF Complain, NewPrepares, NewCommits, Voted
  <2>7. KeepsVotes /\ NewLocks /\ NewDecisions /\ Entries
    BY <1>6, <2>2, <2>3 DEF Complain, KeepsVotes, NewLocks, NewDecisions, Entries, Unbound
  <2>8. Grows
    BY <1>6 DEF Complain, Grows
  <2>9. NewComplaints
    BY <1>6, <2>2, <2>3 DEF Complain, NewComplaints
  <2> QED
    BY <2>5, <2>6, <2>7, <2>8, <2>9 DEF Effects
<1>7. ASSUME NEW p \in Correct, NEW v \in View, LeadNewView(p, v) PROVE Effects
  <2>1. NoReturn
    BY <1>7, SameKept DEF LeadNewView, NoReturn
  <2> QED
    BY <1>7, <2>1 DEF LeadNewView, Effects, Grows, NewPrepares, KeepsVotes, NewCommits,
                      NewLocks, NewComplaints, NewDecisions, Entries, Unbound,
                      Voted
<1>8. ASSUME NEW p \in Correct, NEW v \in View, OnNewView(p, v) PROVE Effects
  <2>1. PICK x \in Acceptable(p, v) :
            LET s == Entered(state[p], v, x)
            IN  IF x = None
                THEN state' = [state EXCEPT ![p] = s] /\ UNCHANGED votes
                ELSE /\ state' = [state EXCEPT ![p] =
                            [s EXCEPT !.preprepared = TRUE,
                                      !.my_prepare = [view |-> v, value |-> x]]]
                     /\ Cast("PREPARE", p, v, x)
    BY <1>8 DEF OnNewView
  <2>2. /\ x \in Value \cup {None} /\ x \in Forced(v)
        /\ state[p].view \in Nat /\ v \in Nat /\ state[p].view < v
    BY AcceptableForced, ForcedTyped, Types, Bounds DEF TypeInv
  <2>3. UNCHANGED <<complaints, newviews, crashes, half_entries>>
    BY <1>8 DEF OnNewView
  <2> DEFINE s == Entered(state[p], v, x)
  <2>4. s \in State /\ s.view = v
    BY <2>2, EnteredTyped
  <2>5. /\ s.prepared = state[p].prepared /\ s.decided = state[p].decided
        /\ s.highest_vc_sent = state[p].highest_vc_sent
    BY Types DEF State, Entered
  <2> HIDE DEF s
  <2>6. CASE x = None
    <3>1. state' = [state EXCEPT ![p] = s] /\ votes' = votes
      BY <2>1, <2>6 DEF s
    <3> QED
      BY <2>2, <2>3, <2>4, <2>5, <2>6, <3>1, EntryEffects
  <2>7. CASE x \in Value
    <3> DEFINE t == [s EXCEPT !.preprepared = TRUE, !.my_prepare = [view |-> v, value |-> x]]
    <3>1. [view |-> v, value |-> x] \in Cert
      BY <2>7 DEF Cert
    <3>2. t \in State
      BY <2>4, <3>1 DEF State
    <3>3. /\ t.view = v /\ t.my_prepare = [view |-> v, value |-> x] /\ t.preprepared = TRUE
          /\ t.prepared = state[p].prepared /\ t.decided = state[p].decided
          /\ t.highest_vc_sent = state[p].highest_vc_sent
      BY <2>4, <2>5 DEF State
    <3>4. state' = [state EXCEPT ![p] = t] /\ Cast("PREPARE", p, v, x)
      BY <2>1, <2>7, Bounds DEF s
    <3> HIDE DEF t
    <3> QED
      BY <2>2, <2>3, <2>7, <3>2, <3>3, <3>4, PrepareEffects
  <2> QED
    BY <2>2, <2>6, <2>7
<1>9. ASSUME NEW p \in Correct, Crash(p) PROVE Effects
  <2> DEFINE t == Recover(state[p])
  <2>1. state' = [state EXCEPT ![p] = t] /\ t \in State
    BY <1>9, Recovered, Types DEF Crash
  <2>2. /\ t.view = state[p].view /\ t.my_prepare = state[p].my_prepare
        /\ t.prepared = state[p].prepared /\ t.decided = state[p].decided
        /\ t.highest_vc_sent = state[p].highest_vc_sent
        /\ t.preprepared = (state[p].my_prepare # None /\ state[p].my_prepare.view = state[p].view)
    BY Types DEF State, Recover
  <2>3. t.preprepared = state[p].preprepared
    BY <2>2, Types DEF FlagsAgree
  <2> HIDE DEF t
  <2>4. KeepsBack(state[p], t)
    BY <2>2, SameKept DEF KeepsBack
  <2> QED
    BY <1>9, <2>1, <2>2, <2>3, <2>4, Quiet DEF Crash
<1>10. ASSUME NEW p \in Correct, NEW v \in View, HalfEntry(p, v) PROVE Effects
  <2>1. PICK x \in Acceptable(p, v) : state' = [state EXCEPT ![p] = Recover(Entered(@, v, x))]
    BY <1>10 DEF HalfEntry
  <2>2. x \in Value \cup {None} /\ state[p].view \in Nat /\ v \in Nat /\ state[p].view < v
    BY AcceptableForced, ForcedTyped, Types, Bounds DEF TypeInv
  <2> DEFINE s == Entered(state[p], v, x)
             t == Recover(s)
  <2>3. s \in State /\ s.view = v /\ ~s.sentcommit
    BY <2>2, EnteredTyped
  <2>4. /\ s.prepared = state[p].prepared /\ s.decided = state[p].decided
        /\ s.highest_vc_sent = state[p].highest_vc_sent
    BY Types DEF State, Entered
  <2>5. state' = [state EXCEPT ![p] = t]
    BY <2>1
  <2> HIDE DEF s
  <2>6. /\ t \in State /\ t.view = v /\ t.prepared = s.prepared
        /\ t.decided = s.decided /\ t.highest_vc_sent = s.highest_vc_sent
    <3>1. s.sentcommit \in BOOLEAN
      BY <2>3 DEF State
    <3> QED
      BY <2>3, <3>1, Recovered DEF State, Recover
  <2> HIDE DEF t
  <2> QED
    BY <1>10, <2>2, <2>4, <2>5, <2>6, EntryEffects DEF HalfEntry
<1>11. ASSUME NEW p \in Correct, Timeout(p) PROVE Effects
  BY <1>11, <1>6, Target, Types, Bounds DEF Timeout
<1>12. ASSUME NEW p \in Correct, NEW v \in View, OnViewChange(p, v) PROVE Effects
  BY <1>12, <1>6, Types, Bounds DEF OnViewChange
<1> QED
  BY <1>1, <1>2, <1>3, <1>4, <1>5, <1>7, <1>8, <1>9, <1>10, <1>11, <1>12 DEF Next

\* Neither a step nor a crash turns back a view, a complaint counter or the
\* view of a certificate, nor changes a decision.
THEOREM NothingReturns == Spec => NothingTurnsBack
<1>1. TypeInv /\ [Next]_vars => TypeInv'
  BY TypeStep
<1>2. TypeInv /\ [Next]_vars =>
        [\A p \in Correct :
            LET s == state[p]
                t == state'[p]
            IN  /\ s.view <= t.view /\ s.highest_vc_sent <= t.highest_vc_sent
                /\ s.prepared # None => t.prepared # None /\ s.prepared.view <= t.prepared.view
                /\ s.decided # None => t.decided = s.decided]_vars
  BY Effect DEF Effects, NoReturn, KeepsBack
<1> QED
  BY <1>1, <1>2, TypeInit, PTL DEF Spec, NothingTurnsBack

(****************************** one certificate ****************************)

\* Signatures only become more, so what a quorum has said it has said for good.
LEMMA SaidForGood ==
    ASSUME Grows, NEW kind, NEW v, NEW m, Quorum(Saying(kind, v, m))
    PROVE  Quorum(Saying(kind, v, m))'
<1>1. Saying(kind, v, m) \subseteq Saying(kind, v, m)'
  BY DEF Grows, Saying, Said
<1>2. Saying(kind, v, m) \in SUBSET Node /\ Saying(kind, v, m)' \in SUBSET Node
  BY DEF Saying
<1>3. Quorum(Saying(kind, v, m)')
  BY <1>1, <1>2, QuorumGrows
<1> QED
  BY <1>3 DEF Quorum

LEMMA CertifiedForGood == ASSUME Grows PROVE Certified \subseteq Certified'
BY SaidForGood DEF Certified, verify_cert

\* A quorum of signatures has that of a correct node among them.
LEMMA CorrectSaid ==
    ASSUME NEW kind, NEW v, NEW m, Quorum(Saying(kind, v, m))
    PROVE  \E q \in Correct : Voted(kind, q, v, m)
<1>1. Saying(kind, v, m) \in SUBSET Node
  BY DEF Saying
<1>2. PICK q \in Correct : q \in Saying(kind, v, m)
  BY <1>1, QuorumsMeet
<1> QED
  BY <1>2, Certificates DEF Saying, Said, Voted

LEMMA VoteInit == Init => VoteInv
BY TypeInit, Bounds DEF Init, VoteInv, Once, Locked, Complained, Decided, Voted, Fresh

LEMMA VoteStep == ASSUME VoteInv, [Next]_vars PROVE VoteInv'
<1> USE DEF VoteInv
<1>1. TypeInv' /\ Effects
  BY TypeStep, Effect
<1>2. /\ Grows /\ NoReturn /\ NewPrepares /\ KeepsVotes /\ NewCommits
      /\ NewLocks /\ NewComplaints /\ NewDecisions
  BY <1>1 DEF Effects
<1>3. \A q \in Correct : /\ state[q].view \in Nat /\ state'[q].view \in Nat
                         /\ state[q].view <= state'[q].view
                         /\ state[q].highest_vc_sent \in Nat /\ state'[q].highest_vc_sent \in Nat
                         /\ state[q].highest_vc_sent <= state'[q].highest_vc_sent
  <2>1. \A q \in Correct : state'[q] \in State
    BY <1>1 DEF TypeInv, TypeOK
  <2> QED
    BY <1>2, <2>1, Types, Bounds DEF NoReturn, KeepsBack, State
<1>4. View \subseteq Nat
  BY Bounds
<1>5. Once'
  <2> SUFFICES ASSUME NEW q \in Correct, NEW v \in View, NEW m \in Value,
                      Voted("PREPARE", q, v, m)'
               PROVE  /\ v <= state'[q].view
                      /\ v = state'[q].view => state'[q].my_prepare = [view |-> v, value |-> m]
                      /\ \A m2 \in Value : Voted("PREPARE", q, v, m2)' => m2 = m
    BY DEF Once
  <2>1. ASSUME NEW x \in Value, Voted("PREPARE", q, v, x)
        PROVE  /\ v <= state[q].view
               /\ state[q].view = v =>
                    state[q].preprepared /\ state[q].my_prepare = [view |-> v, value |-> x]
    <3>1. /\ v <= state[q].view
          /\ v = state[q].view => state[q].my_prepare = [view |-> v, value |-> x]
      BY <2>1 DEF Once
    <3>2. [view |-> v, value |-> x] # None
      BY Bounds DEF Cert
    <3> QED
      BY <3>1, <3>2, Types DEF FlagsAgree
  <2>2. ASSUME NEW x \in Value, Voted("PREPARE", q, v, x)
        PROVE  /\ v <= state'[q].view
               /\ v = state'[q].view => state'[q].my_prepare = [view |-> v, value |-> x]
    BY <1>2, <1>3, <1>4, <2>1, <2>2 DEF KeepsVotes
  <2>3. ASSUME NEW x \in Value, Voted("PREPARE", q, v, x)', ~Voted("PREPARE", q, v, x)
        PROVE  /\ v = state'[q].view /\ state'[q].my_prepare = [view |-> v, value |-> x]
               /\ \A y \in Value : ~Voted("PREPARE", q, v, y)
    <3>1. /\ v = state'[q].view /\ state'[q].my_prepare = [view |-> v, value |-> x]
          /\ \/ state[q].view = v /\ ~state[q].preprepared
             \/ state[q].view < v
      BY <1>2, <2>3 DEF NewPrepares
    <3>2. state[q].view \in Nat /\ v \in Nat
      BY <1>3, <1>4
    <3>3. ASSUME NEW y \in Value, Voted("PREPARE", q, v, y) PROVE FALSE
      <4>1. v <= state[q].view /\ (state[q].view = v => state[q].preprepared)
        BY <2>1, <3>3
      <4> QED
        BY <3>1, <3>2, <4>1
    <3> QED
      BY <3>1, <3>3
  <2>4. \A m2 \in Value : Voted("PREPARE", q, v, m2)' => m2 = m
    <3> SUFFICES ASSUME NEW m2 \in Value, Voted("PREPARE", q, v, m2)' PROVE m2 = m
      OBVIOUS
    <3>1. CASE Voted("PREPARE", q, v, m) /\ Voted("PREPARE", q, v, m2)
      BY <3>1 DEF Once
    <3>2. CASE ~Voted("PREPARE", q, v, m) /\ ~Voted("PREPARE", q, v, m2)
      <4>1. [view |-> v, value |-> m] = [view |-> v, value |-> m2]
        BY <2>3, <3>2
      <4> QED
        BY <4>1
    <3> QED
      BY <2>3, <3>1, <3>2
  <2> QED
    BY <1>3, <1>4, <2>2, <2>3, <2>4
<1>6. Locked'
  <2> SUFFICES ASSUME NEW q \in Correct
               PROVE  /\ state'[q].prepared # None => state'[q].prepared \in Certified'
                      /\ \A v \in View, m \in Value : Voted("COMMIT", q, v, m)' =>
                            /\ [view |-> v, value |-> m] \in Certified'
                            /\ state'[q].prepared # None /\ v <= state'[q].prepared.view
    BY DEF Locked
  <2>1. state'[q].prepared # None => state'[q].prepared \in Certified'
    BY <1>2, CertifiedForGood DEF NewLocks, Locked
  <2>2. ASSUME NEW v \in View, NEW m \in Value, Voted("COMMIT", q, v, m)
        PROVE  /\ [view |-> v, value |-> m] \in Certified'
               /\ state'[q].prepared # None /\ v <= state'[q].prepared.view
    <3>1. /\ [view |-> v, value |-> m] \in Certified
          /\ state[q].prepared # None /\ v <= state[q].prepared.view
      BY <2>2 DEF Locked
    <3>2. state'[q].prepared # None /\ state[q].prepared.view <= state'[q].prepared.view
      BY <1>2, <3>1 DEF NoReturn, KeepsBack
    <3>3. state[q].prepared.view \in Nat /\ state'[q].prepared.view \in Nat /\ v \in Nat
      BY <1>1, <1>4, <3>1, <3>2 DEF TypeInv, TypeOK, State, Cert
    <3> QED
      BY <1>2, <3>1, <3>2, <3>3, CertifiedForGood
  <2>3. ASSUME NEW v \in View, NEW m \in Value, Voted("COMMIT", q, v, m)',
               ~Voted("COMMIT", q, v, m)
        PROVE  /\ [view |-> v, value |-> m] \in Certified'
               /\ state'[q].prepared # None /\ v <= state'[q].prepared.view
    <3>1. /\ [view |-> v, value |-> m] \in Certified
          /\ state'[q].prepared = [view |-> v, value |-> m]
      BY <1>2, <2>3 DEF NewCommits
    <3> QED
      BY <1>2, <1>4, <3>1, CertifiedForGood, Bounds DEF Cert
  <2> QED
    BY <2>1, <2>2, <2>3
<1>7. Complained'
  <2> SUFFICES ASSUME NEW c \in complaints'
               PROVE  /\ c.from \in Correct /\ c.newview <= state'[c.from].highest_vc_sent
                      /\ c.prepared # None => c.prepared \in Certified'
                      /\ \A v \in View, m \in Value :
                            Voted("COMMIT", c.from, v, m)' /\ v < c.newview =>
                               c.prepared # None /\ v <= c.prepared.view
    BY DEF Complained
  <2>1. CASE c \in complaints
    <3>1. /\ c.from \in Correct /\ c.newview <= state[c.from].highest_vc_sent
          /\ c.prepared # None => c.prepared \in Certified
      BY <2>1 DEF Complained
    <3>2. c.newview \in Nat
      BY <1>4, <2>1 DEF TypeInv, TypeOK, Complaint
    <3>3. ASSUME NEW v \in View, NEW m \in Value, Voted("COMMIT", c.from, v, m)', v < c.newview
          PROVE  c.prepared # None /\ v <= c.prepared.view
      <4>1. ~Voted("COMMIT", c.from, v, m) => state[c.from].highest_vc_sent <= v
        BY <1>2, <3>1, <3>3 DEF NewCommits
      <4>2. Voted("COMMIT", c.from, v, m)
        BY <1>3, <1>4, <3>1, <3>2, <3>3, <4>1
      <4> QED
        BY <2>1, <3>3, <4>2 DEF Complained
    <3> QED
      BY <1>2, <1>3, <3>1, <3>2, <3>3, CertifiedForGood
  <2>2. CASE c \notin complaints
    <3>1. /\ c.from \in Correct /\ c.newview <= state'[c.from].highest_vc_sent
          /\ c.prepared = state[c.from].prepared /\ votes' = votes
      BY <1>2, <2>2 DEF NewComplaints
    <3>2. c.prepared # None => c.prepared \in Certified'
      BY <1>2, <3>1, CertifiedForGood DEF Locked
    <3> QED
      BY <3>1, <3>2 DEF Locked, Voted
  <2> QED
    BY <2>1, <2>2
<1>8. Decided'
  <2>1. \A q \in Correct : state'[q].decided \in Value \cup {None}
    BY <1>1 DEF TypeInv, TypeOK, State
  <2>2. ASSUME NEW q \in Correct, NEW d \in Value, state'[q].decided = d
        PROVE  \E v \in View : Quorum(Saying("COMMIT", v, d))'
    <3>1. PICK v \in View : Quorum(Saying("COMMIT", v, d))
      BY <1>2, <2>2, Types, Bounds DEF Decided, NewDecisions
    <3> QED
      BY <1>2, <3>1, SaidForGood
  <2> QED
    BY <2>1, <2>2 DEF Decided, Quorum, Saying, Said
<1> QED
  BY <1>1, <1>5, <1>6, <1>7, <1>8

\* A correct node of the quorums of both certificates has voted for one value.
LEMMA VotesCertifyOne == VoteInv => OneCertificate
<1> SUFFICES ASSUME VoteInv, NEW c \in Certified, NEW d \in Certified, c.view = d.view
             PROVE  c.value = d.value
  BY DEF OneCertificate
<1>1. PICK q \in Saying("PREPARE", c.view, c.value) \cap Saying("PREPARE", d.view, d.value) :
          q \in Correct
  BY QuorumsMeet DEF Certified, verify_cert, Saying
<1>2. Voted("PREPARE", q, c.view, c.value) /\ Voted("PREPARE", q, c.view, d.value)
  BY <1>1, Certificates DEF Saying, Said, Voted
<1> QED
  BY <1>1, <1>2 DEF VoteInv, Once, Certified, Cert

\* Of one view there are never certificates for two values, whoever has crashed
\* in it and however often.
THEOREM OneCertificatePerView == Spec => []OneCertificate
<1>1. VoteInv /\ [Next]_vars => VoteInv'
  BY VoteStep
<1> QED
  BY <1>1, VotesCertifyOne, VoteInit, PTL DEF Spec

(********************************* lock-in *********************************)

\* A value that can still be committed in v could always be.
LEMMA NeverRegained ==
    ASSUME VoteInv, [Next]_vars, NEW v \in View, NEW m \in Value, Choosable(v, m)'
    PROVE  Choosable(v, m)
<1>1. NoReturn /\ NewCommits /\ TypeInv /\ TypeInv'
  BY Effect, TypeStep DEF Effects, VoteInv
<1> DEFINE Q == {q \in Node : MayCommit(q, v, m)}
           R == {q \in Node : MayCommit(q, v, m)'}
<1>2. ASSUME NEW q \in Node, MayCommit(q, v, m)' PROVE MayCommit(q, v, m)
  <2>1. CASE q \in Byzantine
    BY <2>1 DEF MayCommit
  <2>2. CASE q \in Correct
    <3>1. /\ state[q].view \in Nat /\ state'[q].view \in Nat /\ v \in Nat
          /\ state[q].highest_vc_sent \in Nat /\ state'[q].highest_vc_sent \in Nat
          /\ state[q].view <= state'[q].view
          /\ state[q].highest_vc_sent <= state'[q].highest_vc_sent
      BY <1>1, <2>2, Bounds DEF TypeInv, TypeOK, State, NoReturn, KeepsBack
    <3>2. CASE Voted("COMMIT", q, v, m)'
      <4>1. Voted("COMMIT", q, v, m) \/ (v = state[q].view /\ state[q].highest_vc_sent <= v)
        BY <1>1, <2>2, <3>2 DEF NewCommits
      <4> QED
        BY <3>1, <4>1 DEF MayCommit
    <3>3. CASE state'[q].view <= v /\ state'[q].highest_vc_sent <= v
      BY <3>1, <3>3 DEF MayCommit
    <3> QED
      BY <1>2, <2>2, <3>2, <3>3, Certificates DEF MayCommit
  <2> QED
    BY <2>1, <2>2 DEF Correct
<1>3. R \subseteq Q
  BY <1>2
<1>4. Quorum(R)
  BY DEF Choosable, Quorum
<1> HIDE DEF Q, R
<1>5. Q \in SUBSET Node /\ R \in SUBSET Node
  BY DEF Q, R
<1> QED
  BY <1>3, <1>4, <1>5, QuorumGrows DEF Choosable, Q

LEMMA SafeForGood ==
    ASSUME VoteInv, [Next]_vars, NEW w \in View
    PROVE  /\ \A m \in Value : SafeAt(w, m) => SafeAt(w, m)'
           /\ FreeAt(w) => FreeAt(w)'
BY NeverRegained DEF SafeAt, FreeAt

\* While half entries are few, a quorum has voted for no value but a safe one.
LEMMA CertifiedIsSafe ==
    ASSUME TypeInv, FewLoose, half_entries <= f, NEW c \in Certified
    PROVE  SafeAt(c.view, c.value)
<1> DEFINE v == c.view
           m == c.value
           Q == Saying("PREPARE", v, m)
           L == Byzantine \cup Loose(v)
<1>1. v \in View /\ m \in Value /\ Quorum(Q) /\ Q \in SUBSET Node
  BY DEF Certified, verify_cert, Saying, Cert
<1>2. Loose(v) \in SUBSET Node /\ Byzantine \in SUBSET Node /\ L \in SUBSET Node
  BY Bounds DEF Loose
<1>3. Cardinality(Loose(v)) <= f /\ Cardinality(Byzantine) <= f
  BY <1>1, <1>2, Sizeable, Sizes, Bounds, FaultAssumption DEF FewLoose, TypeInv, TypeOK
<1>4. Cardinality(L) <= 2 * f
  <2>1. Cardinality(L) <= Cardinality(Byzantine) + Cardinality(Loose(v))
    <3>1. IsFiniteSet(Byzantine) /\ IsFiniteSet(Loose(v))
      BY <1>2, Sizeable
    <3>2. Cardinality(L) = Cardinality(Byzantine) + Cardinality(Loose(v))
                             - Cardinality(Byzantine \cap Loose(v))
      BY <3>1, FS_Union
    <3>3. Cardinality(Byzantine \cap Loose(v)) \in Nat
      BY <1>2, Sizeable
    <3> QED
      BY <1>2, <3>2, <3>3, Sizeable
  <2> QED
    BY <1>2, <1>3, <2>1, Sizeable, Sizes
<1>5. PICK q \in Q : q \notin L
  <2>1. Q \subseteq L => Cardinality(Q) <= Cardinality(L)
    BY <1>2, Sizeable, FS_Subset
  <2>2. Cardinality(Q) > 2 * f /\ Cardinality(Q) \in Nat /\ Cardinality(L) \in Nat
    BY <1>1, <1>2, Sizeable, Sizes DEF Quorum
  <2> QED
    BY <1>4, <2>1, <2>2, Sizes
<1>6. q \in Correct /\ Voted("PREPARE", q, v, m)
  BY <1>5 DEF Saying, Said, Voted, Correct
<1> QED
  BY <1>1, <1>5, <1>6 DEF Loose

\* What 2f+1 complaints for w force is safe in w; if they force nothing, all is.
LEMMA ForcedIsSafe ==
    ASSUME VoteInv, FewLoose, half_entries <= f, NEW w \in View, NEW x \in Forced(w)
    PROVE  IF x = None THEN FreeAt(w) ELSE SafeAt(w, x)
<1>1. PICK vcs \in SUBSET Records(w) :
          /\ Cardinality(Senders(vcs)) > 2 * f
          /\ x \in select_value(vcs)
  BY DEF Forced
<1>2. Senders(vcs) \in SUBSET Node
  BY RecordsTyped DEF Senders, Complaint, VoteInv, TypeInv
<1> SUFFICES ASSUME NEW v \in View, NEW m2 \in Value, v < w, Choosable(v, m2)
             PROVE  x = m2
  BY Bounds DEF SafeAt, FreeAt
<1> DEFINE Q == {q \in Node : MayCommit(q, v, m2)}
<1>3. PICK q \in Q \cap Senders(vcs) : q \in Correct
  <2>1. Q \in SUBSET Node /\ Quorum(Q)
    BY DEF Choosable
  <2>2. Cardinality(Q) + Cardinality(Senders(vcs)) > n + f
    BY <1>1, <1>2, <2>1, Sizeable, Sizes DEF Quorum
  <2> HIDE DEF Q
  <2> QED
    BY <1>2, <2>1, <2>2, Meet
<1>4. PICK c \in vcs : c.from = q
  BY <1>3 DEF Senders
<1>5. c \in complaints /\ c.newview = w
  BY <1>3, <1>4, Certificates DEF Records
<1>6. Voted("COMMIT", q, v, m2)
  <2>1. w <= state[q].highest_vc_sent
    BY <1>4, <1>5 DEF VoteInv, Complained
  <2>2. ~(state[q].highest_vc_sent <= v)
    BY <1>3, <2>1, Types, Bounds DEF VoteInv
  <2> QED
    BY <1>3, <2>2, Certificates DEF MayCommit
<1>7. c.prepared # None /\ v <= c.prepared.view
  BY <1>4, <1>5, <1>6 DEF VoteInv, Complained
<1>8. \A e \in vcs : e.prepared # None => e.prepared \in Certified
  BY DEF Records, VoteInv, Complained
<1>9. PICK d \in Certified : x = d.value /\ c.prepared.view <= d.view
  <2> DEFINE certs == {e.prepared : e \in vcs} \ {None}
  <2>1. certs # {} /\ c.prepared \in certs /\ certs \subseteq Certified
    BY <1>7, <1>8
  <2>2. x \in {e.value : e \in {d \in certs : \A e \in certs : e.view <= d.view}}
    BY <1>1, <2>1 DEF select_value
  <2> QED
    BY <2>1, <2>2
<1>10. /\ v \in Nat /\ d.view \in View /\ d.view \in Nat /\ d.value \in Value
       /\ c.prepared.view \in Nat /\ v <= d.view
  BY <1>4, <1>7, <1>8, <1>9, Bounds DEF Certified, Cert
<1>11. CASE v < d.view
  <2>1. SafeAt(d.view, d.value)
    BY CertifiedIsSafe DEF VoteInv
  <2> QED
    BY <1>9, <1>11, <2>1 DEF SafeAt
<1>12. CASE v = d.view
  <2>1. [view |-> v, value |-> m2] \in Certified
    BY <1>3, <1>6 DEF VoteInv, Locked
  <2> QED
    BY <1>9, <1>12, <2>1, VotesCertifyOne DEF OneCertificate
<1> QED
  BY <1>10, <1>11, <1>12

\* A vote joins those that are loose only if its node was loose before; only a
\* half entry adds a node.
LEMMA LooseStep ==
    ASSUME LockInv, [Next]_vars, half_entries' <= f
    PROVE  FewLoose'
<1>1. VoteInv /\ TypeInv /\ TypeInv' /\ NewPrepares /\ Entries /\ NoReturn
  BY TypeStep, Effect DEF LockInv, VoteInv, Effects
<1>2. /\ half_entries \in Nat /\ half_entries' \in Nat /\ half_entries <= half_entries'
      /\ half_entries <= f /\ FewLoose
  BY <1>1, Sizes, Bounds DEF TypeInv, TypeOK, Entries, LockInv
<1>3. ASSUME NEW w \in View, NEW q \in Correct, q \in Loose(w)', q \notin Loose(w)
      PROVE  ~Unbound(q)
  <2>1. (\A m \in Value : SafeAt(w, m) => SafeAt(w, m)') /\ (FreeAt(w) => FreeAt(w)')
    BY <1>1, SafeForGood
  <2>2. None \in Forced(w) => FreeAt(w)
    BY <1>1, <1>2, ForcedIsSafe
  <2>3. \A m \in Value : m \in Forced(w) => SafeAt(w, m)
    BY <1>1, <1>2, ForcedIsSafe, Bounds
  <2>4. CASE \E m \in Value : Voted("PREPARE", q, w, m)' /\ ~SafeAt(w, m)'
    <3>1. PICK m \in Value : Voted("PREPARE", q, w, m)' /\ ~SafeAt(w, m)
      BY <2>1, <2>4
    <3>2. ~Voted("PREPARE", q, w, m)
      BY <1>3, <3>1 DEF Loose
    <3>3. \/ state[q].view = w /\ ~state[q].preprepared
          \/ m \in Forced(w)
      BY <1>1, <3>1, <3>2 DEF NewPrepares
    <3>4. state[q].view = w /\ ~state[q].preprepared /\ ~FreeAt(w)
      BY <2>3, <3>1, <3>3 DEF FreeAt
    <3> QED
      BY <1>3, <3>4 DEF Loose
  <2>5. CASE state'[q].view = w /\ ~state'[q].preprepared /\ ~FreeAt(w)'
    <3>1. ~FreeAt(w)
      BY <2>1, <2>5
    <3>2. ~(state[q].view = w /\ ~state[q].preprepared)
      BY <1>3, <3>1 DEF Loose
    <3> QED
      BY <2>2, <2>5, <3>1, <3>2 DEF Unbound
  <2> QED
    BY <1>3, <2>4, <2>5 DEF Loose
<1>4. SUFFICES ASSUME NEW w \in View
               PROVE  Cardinality(Loose(w)') <= half_entries'
  BY DEF FewLoose
<1>5. /\ Loose(w) \in SUBSET Node /\ Loose(w)' \in SUBSET Node
      /\ Cardinality(Loose(w)) <= half_entries
      /\ Loose(w)' \subseteq Correct
  BY <1>2, Bounds DEF Loose, FewLoose
<1>6. CASE half_entries' = half_entries /\ \A q \in Correct : Unbound(q)
  <2>1. Loose(w)' \subseteq Loose(w)
    BY <1>3, <1>5, <1>6
  <2>2. Cardinality(Loose(w)') <= Cardinality(Loose(w))
    BY <1>5, <2>1, Sizeable, FS_Subset
  <2> QED
    BY <1>2, <1>5, <1>6, <2>2, Sizeable
<1>7. CASE /\ half_entries' = half_entries + 1
           /\ \E p \in Correct : \A q \in Correct : q # p => Unbound(q)
  <2>1. PICK p \in Correct : \A q \in Correct : q # p => Unbound(q)
    BY <1>7
  <2>2. Loose(w)' \subseteq Loose(w) \cup {p}
    BY <1>3, <1>5, <2>1
  <2>3. /\ IsFiniteSet(Loose(w) \cup {p})
        /\ Cardinality(Loose(w) \cup {p}) <= Cardinality(Loose(w)) + 1
    BY <1>5, Sizeable, FS_AddElement
  <2>4. Cardinality(Loose(w)') <= Cardinality(Loose(w) \cup {p})
    BY <2>2, <2>3, FS_Subset
  <2>5. Cardinality(Loose(w) \cup {p}) \in Nat
    BY <2>3, FS_CardinalityType
  <2> QED
    BY <1>2, <1>5, <1>7, <2>3, <2>4, <2>5, Sizeable
<1> QED
  BY <1>1, <1>6, <1>7 DEF Entries

LEMMA LockStep == ASSUME LockInv, [Next]_vars PROVE LockInv'
BY VoteStep, LooseStep, Sizes DEF LockInv, FewLoose

LEMMA LockInit == Init => LockInv
<1> SUFFICES ASSUME Init PROVE LockInv
  OBVIOUS
<1>1. VoteInv /\ TypeInv
  BY VoteInit, TypeInit
<1>2. ASSUME NEW w \in View PROVE Loose(w) = {}
  <2>1. \A q \in Correct, m \in Value : ~Voted("PREPARE", q, w, m)
    BY DEF Init, Voted
  <2>2. ASSUME NEW q \in Correct, state[q].view = w PROVE FreeAt(w)
    <3>1. w = 0
      BY <2>2 DEF Init, Fresh
    <3>2. \A v \in View : ~(v < w)
      BY <3>1, Bounds
    <3> QED
      BY <3>2 DEF FreeAt, SafeAt
  <2> QED
    BY <2>1, <2>2 DEF Loose
<1>3. FewLoose
  <2>1. half_entries = 0 /\ Cardinality({}) = 0
    BY FS_EmptySet DEF Init
  <2> QED
    BY <1>2, <2>1 DEF FewLoose
<1> QED
  BY <1>1, <1>3 DEF LockInv

LEMMA LockedIn == LockInv /\ half_entries <= f => LockIn
<1> SUFFICES ASSUME LockInv, half_entries <= f, NEW c \in Certified,
                    NEW v \in 0 .. c.view, NEW m \in Value, Quorum(Saying("COMMIT", v, m))
             PROVE  c.value = m
  BY DEF LockIn
<1>1. v \in View /\ c.view \in View /\ c.view \in Nat /\ v \in Nat /\ v <= c.view
  BY Bounds DEF Certified, Cert
<1>2. CASE v < c.view
  <2>1. Choosable(v, m)
    <3> DEFINE Q == {q \in Node : MayCommit(q, v, m)}
    <3>1. Saying("COMMIT", v, m) \subseteq Q
      BY DEF Saying, Said, MayCommit, Voted
    <3>2. Saying("COMMIT", v, m) \in SUBSET Node /\ Q \in SUBSET Node
      BY DEF Saying
    <3> HIDE DEF Q
    <3>3. Quorum(Q)
      BY <3>1, <3>2, QuorumGrows
    <3> QED
      BY <3>3 DEF Choosable, Q
  <2>2. SafeAt(c.view, c.value)
    BY CertifiedIsSafe DEF LockInv, VoteInv
  <2> QED
    BY <1>1, <1>2, <2>1, <2>2 DEF SafeAt
<1>3. CASE v = c.view
  <2>1. [view |-> v, value |-> m] \in Certified
    BY <1>1, CorrectSaid DEF LockInv, VoteInv, Locked
  <2> QED
    BY <1>3, <2>1, VotesCertifyOne DEF LockInv, OneCertificate
<1> QED
  BY <1>1, <1>2, <1>3

\* Once a quorum of COMMITs in v makes m decidable, no certificate of a later
\* view is for another value, as long as at most f crashes have made a node
\* forget, between the two persists of a NEWVIEW, what it was bound to.
THEOREM LockedInWhileFewForget == Spec => [](half_entries <= f => LockIn)
<1>1. LockInv /\ [Next]_vars => LockInv'
  BY LockStep
<1> QED
  BY <1>1, LockInit, LockedIn, PTL DEF Spec

LEMMA OneDecision == LockInv /\ LockIn => Agreement
<1> SUFFICES ASSUME LockInv, LockIn, NEW p \in Correct, NEW q \in Correct,
                    NEW m \in Value, NEW m2 \in Value,
                    state[p].decided = m, state[q].decided = m2
             PROVE  m = m2
  BY DEF Agreement
<1>1. PICK v \in View : Quorum(Saying("COMMIT", v, m))
  BY Bounds DEF LockInv, VoteInv, Decided
<1>2. PICK w \in View : Quorum(Saying("COMMIT", w, m2))
  BY Bounds DEF LockInv, VoteInv, Decided
<1>3. [view |-> v, value |-> m] \in Certified /\ [view |-> w, value |-> m2] \in Certified
  BY <1>1, <1>2, CorrectSaid DEF LockInv, VoteInv, Locked
<1>4. v \in 0 .. w \/ w \in 0 .. v
  BY Bounds
<1>5. CASE v \in 0 .. w
  BY <1>1, <1>3, <1>5 DEF LockIn
<1>6. CASE w \in 0 .. v
  BY <1>2, <1>3, <1>6 DEF LockIn
<1> QED
  BY <1>4, <1>5, <1>6

\* WBC4: no two correct nodes decide differently, in whatever views and however
\* often they crash, as long as at most f crashes were in the middle of a NEWVIEW.
THEOREM AgreementWhileFewForget == Spec => [](half_entries <= f => Agreement)
<1>1. LockInv /\ [Next]_vars => LockInv'
  BY LockStep
<1>2. LockInv => (half_entries <= f => Agreement)
  BY LockedIn, OneDecision
<1> QED
  BY <1>1, <1>2, LockInit, PTL DEF Spec

\* The same of every behaviour, when no more such crashes can happen: nothing
\* else that a Byzantine node or a crash does endangers a decision.
COROLLARY LockInAndAgreement == MaxHalfEntries <= f => (Spec => [](LockIn /\ Agreement))
<1> SUFFICES ASSUME MaxHalfEntries <= f PROVE Spec => [](LockIn /\ Agreement)
  OBVIOUS
<1>1. LockInv /\ [Next]_vars => LockInv'
  BY LockStep
<1>2. LockInv => LockIn /\ Agreement
  <2>1. LockInv => half_entries <= f
    BY Bounds, Sizes DEF LockInv, VoteInv, TypeInv, TypeOK
  <2> QED
    BY <2>1, LockedIn, OneDecision
<1> QED
  BY <1>1, <1>2, LockInit, PTL DEF Spec
=============================================================================
