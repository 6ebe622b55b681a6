---------------------------- MODULE EnsembleProofs ----------------------------
(***************************************************************************)
(* Proofs about programs of the ensemble, for any nodes, replicas, calls,  *)
(* accounts, jobs and threads: causal broadcast, the observed-remove set,  *)
(* the counter, the lock-free stack, and the three engines of 09, whose own *)
(* proofs are in TransactionProofs.                                        *)
(***************************************************************************)
EXTENDS Ensemble, Sums, SequenceTheorems

-----------------------------------------------------------------------------
(* Causal broadcast.  The code never stores which messages precede a       *)
(* message; it compares two vectors of counts.  That is enough because both *)
(* count prefixes: v[n] the messages n has handed over (Counted), a stamp   *)
(* those of the message's past (Stamped).  A message can pass the test of   *)
(* the waiting room only when its number is exactly v[n] of its origin,     *)
(* since what has a smaller number was handed over before and is not        *)
(* pending any more.                                                        *)

\* What is on its way, held back or handed over was broadcast; a message is
\* held back or handed over, not both.
Handled ==
    /\ \A c \in wire : c[2] \in Sent
    /\ \A n \in Node : /\ delivered[n] \subseteq Sent
                       /\ pending[n] \union done[n] = delivered[n]
                       /\ pending[n] \intersect done[n] = {}

\* A stamp counts what its message's author knew; its own slot, the number.
Stamped ==
    \A m \in Sent : /\ stamp[m][m[1]] = m[2]
                    /\ past[m] = {x \in Message : x[2] < stamp[m][x[1]]}

\* The vector counts what was handed over, never more than was broadcast.
Counted ==
    \A n \in Node :
        /\ done[n] = {m \in Message : m[2] < v[n][m[1]]}
        /\ \A r \in Node : v[n][r] <= lsn[r]
        /\ \A m \in done[n] : Ready(n, m)

CausalInv == TypeOK /\ Handled /\ Stamped /\ Counted

LEMMA Messages ==
    /\ Message \in SUBSET (Node \X Nat)
    /\ \A m \in Message : /\ m = <<m[1], m[2]>> /\ m[1] \in Node /\ m[2] \in Nat
                          /\ m[2] < Casts[m[1]]
    /\ \A n \in Node, i \in Nat : i < Casts[n] => <<n, i>> \in Message
<1>1. \A n \in Node : Casts[n] \in Nat
  BY BoundAssumption
<1>2. \A n \in Node : \A i \in 0 .. Casts[n] - 1 : i \in Nat /\ i < Casts[n]
  BY <1>1
<1>3. \A n \in Node : \A i \in Nat : i < Casts[n] => i \in 0 .. Casts[n] - 1
  BY <1>1
<1> QED
  BY <1>2, <1>3 DEF Message

LEMMA CausalInit == Init => CausalInv
<1> SUFFICES ASSUME Init PROVE CausalInv
  OBVIOUS
<1>1. Sent = {}
  BY Messages DEF Init, Sent
<1>2. TypeOK
  BY DEF Init, TypeOK
<1>3. Handled
  BY DEF Init, Handled
<1>4. Stamped
  BY <1>1 DEF Stamped
<1>5. Counted
  BY Messages DEF Init, Counted
<1> QED
  BY <1>2, <1>3, <1>4, <1>5 DEF CausalInv

\* The next message of n is one more than it has sent, and nobody has it.
LEMMA BcastInv ==
    ASSUME CausalInv, NEW n \in Node, Bcast(n)
    PROVE  CausalInv'
<1> DEFINE m == <<n, lsn[n]>>
<1>1. /\ lsn[n] < Casts[n] /\ lsn' = [lsn EXCEPT ![n] = @ + 1]
      /\ stamp' = [stamp EXCEPT ![m] = Stamp(n)]
      /\ wire' = wire \union Copies(m)
      /\ past' = [past EXCEPT ![m] = done[n] \union {x \in Sent : x[1] = n}]
      /\ UNCHANGED <<v, pending, delivered, up, done>>
  BY DEF Bcast
<1>2. /\ v \in [Node -> [Node -> Nat]] /\ lsn \in [Node -> Nat]
      /\ stamp \in [Message -> [Node -> Nat]] /\ past \in [Message -> SUBSET Message]
      /\ wire \subseteq Node \X Message /\ done \in [Node -> SUBSET Message]
      /\ pending \in [Node -> SUBSET Message] /\ delivered \in [Node -> SUBSET Message]
      /\ up \subseteq Node
  BY DEF CausalInv, TypeOK
<1>3. m \in Message /\ m \notin Sent /\ m[1] = n /\ m[2] = lsn[n]
  BY <1>1, <1>2, Messages DEF Sent
<1>4. Stamp(n) \in [Node -> Nat] /\ Stamp(n)[n] = lsn[n]
      /\ \A r \in Node \ {n} : Stamp(n)[r] = v[n][r]
  BY <1>2 DEF Stamp
<1>5. Sent' = Sent \union {m}
  <2>1. lsn'[n] = lsn[n] + 1 /\ \A r \in Node \ {n} : lsn'[r] = lsn[r]
    BY <1>1, <1>2
  <2>2. ASSUME NEW x \in Message PROVE x[2] < lsn'[x[1]] <=> x[2] < lsn[x[1]] \/ x = m
    <3>1. x = <<x[1], x[2]>> /\ x[1] \in Node /\ x[2] \in Nat /\ lsn[n] \in Nat
      BY <1>2, Messages
    <3>2. CASE x[1] = n
      <4>1. x = m <=> x[2] = lsn[n]
        BY <3>1, <3>2
      <4> HIDE DEF m
      <4> QED
        BY <2>1, <3>1, <3>2, <4>1
    <3>3. CASE x[1] # n
      BY <2>1, <3>1, <3>3, <1>3
    <3> QED
      BY <3>2, <3>3
  <2> HIDE DEF m
  <2> QED
    BY <1>3, <2>2 DEF Sent
<1>6. /\ stamp'[m] = Stamp(n) /\ past'[m] = done[n] \union {x \in Sent : x[1] = n}
      /\ \A x \in Sent : stamp'[x] = stamp[x] /\ past'[x] = past[x]
  <2>1. \A x \in Sent : x \in Message /\ x # m
    BY <1>3 DEF Sent
  <2>2. m \in Message
    BY <1>3
  <2> HIDE DEF m
  <2>3. stamp'[m] = Stamp(n) /\ \A x \in Sent : stamp'[x] = stamp[x]
    BY <1>1, <1>2, <2>1, <2>2
  <2> DEFINE known == done[n] \union {x \in Sent : x[1] = n}
  <2>4. past' = [past EXCEPT ![m] = known] /\ past \in [Message -> SUBSET Message]
    BY <1>1, <1>2
  <2> HIDE DEF known
  <2>5. past'[m] = known /\ \A x \in Sent : past'[x] = past[x]
    BY <2>1, <2>2, <2>4
  <2> QED
    BY <2>3, <2>5 DEF known
<1>7. TypeOK'
  <2>1. lsn' \in [Node -> Nat]
    BY <1>1, <1>2
  <2>2. Sent \subseteq Message
    BY DEF Sent
  <2> HIDE DEF m
  <2>3. stamp' \in [Message -> [Node -> Nat]] /\ past' \in [Message -> SUBSET Message]
    BY <1>1, <1>2, <1>4, <2>2
  <2>4. wire' \subseteq Node \X Message
    BY <1>1, <1>2, <1>3 DEF Copies
  <2> QED
    BY <1>1, <1>2, <2>1, <2>3, <2>4 DEF TypeOK
<1>8. Handled'
  <2> HIDE DEF m
  <2>1. \A c \in wire' : c[2] \in Sent'
    BY <1>1, <1>5 DEF CausalInv, Handled, Copies
  <2> QED
    BY <1>1, <1>5, <2>1 DEF CausalInv, Handled
<1>9. Stamped'
  <2>1. past'[m] = {x \in Message : x[2] < stamp'[m][x[1]]}
    <3>1. done[n] = {x \in Message : x[2] < v[n][x[1]]} /\ v[n][n] <= lsn[n]
      BY DEF CausalInv, Counted
    <3>2. ASSUME NEW x \in Message
          PROVE  x \in done[n] \union {y \in Sent : y[1] = n} <=> x[2] < Stamp(n)[x[1]]
      <4>1. x[1] \in Node /\ x[2] \in Nat /\ lsn[n] \in Nat /\ v[n][n] \in Nat
        BY <1>2, Messages
      <4>2. CASE x[1] = n
        BY <1>4, <3>1, <4>1, <4>2 DEF Sent
      <4>3. CASE x[1] # n
        BY <1>4, <3>1, <4>1, <4>3
      <4> QED
        BY <4>2, <4>3
    <3>3. done[n] \union {y \in Sent : y[1] = n} \subseteq Message
      BY <1>2 DEF Sent
    <3> HIDE DEF m
    <3> QED
      BY <1>6, <3>2, <3>3
  <2>2. stamp'[m][m[1]] = m[2]
    BY <1>3, <1>4, <1>6
  <2> HIDE DEF m
  <2> QED
    BY <1>5, <1>6, <2>1, <2>2 DEF CausalInv, Stamped
<1>10. Counted'
  <2>1. ASSUME NEW p \in Node, NEW r \in Node PROVE v[p][r] <= lsn'[r]
    <3>1. v[p][r] \in Nat /\ lsn[r] \in Nat /\ v[p][r] <= lsn[r]
      BY <1>2 DEF CausalInv, Counted
    <3>2. lsn'[r] = lsn[r] \/ lsn'[r] = lsn[r] + 1
      BY <1>1, <1>2
    <3> QED
      BY <3>1, <3>2
  <2>2. \A p \in Node : \A x \in done[p] : x \in Sent
    BY DEF CausalInv, Handled
  <2> HIDE DEF m
  <2> QED
    BY <1>1, <1>6, <2>1, <2>2, ZenonT(40) DEF CausalInv, Counted, Ready
<1> QED
  BY <1>7, <1>8, <1>9, <1>10 DEF CausalInv

LEMMA ReceiveInv ==
    ASSUME CausalInv, NEW n \in Node, NEW m \in Message, Receive(n, m)
    PROVE  CausalInv'
<1>1. /\ <<n, m>> \in wire /\ m \notin delivered[n]
      /\ delivered' = [delivered EXCEPT ![n] = @ \union {m}]
      /\ pending' = [pending EXCEPT ![n] = @ \union {m}]
      /\ wire' = wire \union Copies(m)
      /\ UNCHANGED <<v, lsn, stamp, up, done, past>>
  BY DEF Receive
<1>2. TypeOK'
  BY <1>1 DEF CausalInv, TypeOK, Copies
<1>3. Sent' = Sent /\ m \in Sent
  BY <1>1 DEF CausalInv, Handled, Sent
<1>4. Handled'
  <2>1. \A c \in wire' : c[2] \in Sent'
    BY <1>1, <1>3 DEF CausalInv, Handled, Copies
  <2>2. ASSUME NEW p \in Node
        PROVE  /\ delivered'[p] \subseteq Sent'
               /\ pending'[p] \union done'[p] = delivered'[p]
               /\ pending'[p] \intersect done'[p] = {}
    <3>1. /\ delivered[p] \subseteq Sent
          /\ pending[p] \union done[p] = delivered[p] /\ pending[p] \intersect done[p] = {}
      BY DEF CausalInv, Handled
    <3>2. CASE p = n
      BY <1>1, <1>3, <3>1, <3>2 DEF CausalInv, TypeOK
    <3>3. CASE p # n
      BY <1>1, <1>3, <3>1, <3>3 DEF CausalInv, TypeOK
    <3> QED
      BY <3>2, <3>3
  <2> QED
    BY <2>1, <2>2 DEF Handled
<1>5. Stamped' /\ Counted'
  BY <1>1, <1>3 DEF CausalInv, Stamped, Counted, Ready
<1> QED
  BY <1>2, <1>4, <1>5 DEF CausalInv

\* What passes the test is the next message of its origin at n.
LEMMA DeliverInv ==
    ASSUME CausalInv, NEW n \in Node, NEW m \in Message, Deliver(n, m)
    PROVE  CausalInv'
<1>1. /\ m \in pending[n] /\ Ready(n, m)
      /\ pending' = [pending EXCEPT ![n] = @ \ {m}]
      /\ v' = [v EXCEPT ![n][m[1]] = @ + 1]
      /\ done' = [done EXCEPT ![n] = @ \union {m}]
      /\ UNCHANGED <<lsn, delivered, stamp, wire, up, past>>
  BY DEF Deliver
<1>2. /\ v \in [Node -> [Node -> Nat]] /\ lsn \in [Node -> Nat]
      /\ stamp \in [Message -> [Node -> Nat]]
      /\ pending \in [Node -> SUBSET Message] /\ done \in [Node -> SUBSET Message]
  BY DEF CausalInv, TypeOK
<1>3. m[1] \in Node /\ m[2] \in Nat /\ m = <<m[1], m[2]>>
  BY Messages
<1>4. m \in Sent /\ m \notin done[n] /\ m \in delivered[n]
  BY <1>1 DEF CausalInv, Handled
<1>5. v[n][m[1]] = m[2]
  <2>1. m[2] <= v[n][m[1]]
    BY <1>1, <1>3, <1>4 DEF Ready, CausalInv, Stamped
  <2>2. ~ (m[2] < v[n][m[1]])
    BY <1>4 DEF CausalInv, Counted
  <2>3. m[2] \in Nat /\ v[n][m[1]] \in Nat
    BY <1>2, <1>3
  <2> QED
    BY <2>1, <2>2, <2>3
<1>6. /\ v' \in [Node -> [Node -> Nat]]
      /\ v'[n][m[1]] = m[2] + 1
      /\ \A p, r \in Node : p # n \/ r # m[1] => v'[p][r] = v[p][r]
  BY <1>1, <1>2, <1>3, <1>5
<1>7. \A p, r \in Node : v[p][r] \in Nat /\ v'[p][r] \in Nat /\ v[p][r] <= v'[p][r]
  <2>1. \A p, r \in Node : v[p][r] \in Nat /\ v'[p][r] \in Nat
    BY <1>2, <1>6
  <2> QED
    BY <1>3, <1>5, <1>6, <2>1
<1>8. TypeOK'
  BY <1>1, <1>2, <1>6 DEF CausalInv, TypeOK
<1>9. Sent' = Sent
  BY <1>1 DEF Sent
<1>10. Handled'
  <2>1. ASSUME NEW p \in Node
        PROVE  /\ pending'[p] \union done'[p] = delivered[p]
               /\ pending'[p] \intersect done'[p] = {}
    <3>1. pending[p] \union done[p] = delivered[p] /\ pending[p] \intersect done[p] = {}
      BY DEF CausalInv, Handled
    <3>2. CASE p = n
      BY <1>1, <1>2, <1>4, <3>1, <3>2
    <3>3. CASE p # n
      BY <1>1, <1>2, <3>1, <3>3
    <3> QED
      BY <3>2, <3>3
  <2> QED
    BY <1>1, <1>9, <2>1 DEF CausalInv, Handled
<1>11. Stamped'
  BY <1>1, <1>9 DEF CausalInv, Stamped
<1>12. Counted'
  <2>1. ASSUME NEW p \in Node PROVE done'[p] = {x \in Message : x[2] < v'[p][x[1]]}
    <3>1. done[p] = {x \in Message : x[2] < v[p][x[1]]}
      BY DEF CausalInv, Counted
    <3>2. CASE p # n
      BY <1>1, <1>2, <1>6, <3>1, <3>2, Messages
    <3>3. CASE p = n
      <4>1. ASSUME NEW x \in Message PROVE x[2] < v'[n][x[1]] <=> x \in done[n] \/ x = m
        <5>1. x = <<x[1], x[2]>> /\ x[1] \in Node /\ x[2] \in Nat
          BY Messages
        <5>2. CASE x[1] = m[1]
          <6>1. x = m <=> x[2] = m[2]
            BY <1>3, <5>1, <5>2
          <6>2. x \in done[n] <=> x[2] < m[2]
            BY <1>5, <3>1, <3>3, <5>2
          <6>3. v'[n][x[1]] = m[2] + 1 /\ x[2] \in Nat /\ m[2] \in Nat
            BY <1>3, <1>6, <5>1, <5>2
          <6> QED
            BY <6>1, <6>2, <6>3
        <5>3. CASE x[1] # m[1]
          BY <1>6, <3>1, <3>3, <5>1, <5>3
        <5> QED
          BY <5>2, <5>3
      <4> QED
        BY <1>1, <1>2, <3>3, <4>1
    <3> QED
      BY <3>2, <3>3
  <2>2. ASSUME NEW p \in Node, NEW r \in Node PROVE v'[p][r] <= lsn[r]
    <3>1. v[p][r] <= lsn[r]
      BY DEF CausalInv, Counted
    <3>2. m[2] < lsn[m[1]] /\ lsn[m[1]] \in Nat
      BY <1>2, <1>3, <1>4 DEF Sent
    <3> QED
      BY <1>3, <1>6, <3>1, <3>2
  <2>3. ASSUME NEW p \in Node, NEW x \in done'[p], NEW r \in Node PROVE stamp[x][r] <= v'[p][r]
    <3>1. x \in Message /\ (x \in done[p] \/ (p = n /\ x = m))
      BY <1>1, <1>2
    <3>2. stamp[x][r] \in Nat /\ stamp[x][r] <= v[p][r]
      BY <1>1, <1>2, <3>1 DEF CausalInv, Counted, Ready
    <3> QED
      BY <1>7, <3>2
  <2> QED
    BY <1>1, <2>1, <2>2, <2>3 DEF Counted, Ready
<1> QED
  BY <1>8, <1>10, <1>11, <1>12 DEF CausalInv

LEMMA CausalStep == CausalInv /\ [Next]_vars => CausalInv'
<1> SUFFICES ASSUME CausalInv, [Next]_vars PROVE CausalInv'
  OBVIOUS
<1>1. ASSUME NEW n \in Node, Bcast(n) PROVE CausalInv'
  BY <1>1, BcastInv
<1>2. ASSUME NEW n \in Node, NEW m \in Message, Receive(n, m) PROVE CausalInv'
  BY <1>2, ReceiveInv
<1>3. ASSUME NEW n \in Node, NEW m \in Message, Deliver(n, m) PROVE CausalInv'
  BY <1>3, DeliverInv
<1>4. ASSUME NEW n \in Node, Crash(n) PROVE CausalInv'
  <2>1. /\ up' = up \ {n} /\ wire' \subseteq wire
        /\ UNCHANGED <<v, lsn, pending, delivered, stamp, done, past>>
    BY <1>4 DEF Crash
  <2> QED
    BY <2>1 DEF CausalInv, TypeOK, Handled, Stamped, Counted, Ready, Sent
<1>5. CASE UNCHANGED vars
  BY <1>5 DEF vars, CausalInv, TypeOK, Handled, Stamped, Counted, Ready, Sent
<1> QED
  BY <1>1, <1>2, <1>3, <1>4, <1>5 DEF Next

\* Whatever a node hands over, it has handed over all its author had before it
\* (CRB5 of the README of 06), for any nodes and any order of arrival.
THEOREM CausalOrderHolds == Spec => []CausalOrder
<1>1. CausalInv => CausalOrder
  <2> SUFFICES ASSUME CausalInv, NEW n \in Node, NEW m \in done[n], NEW x \in past[m]
               PROVE  x \in done[n]
    BY DEF CausalOrder
  <2>1. m \in Sent /\ m \in Message
    BY DEF CausalInv, Handled, Sent
  <2>2. x \in Message /\ x[2] < stamp[m][x[1]]
    BY <2>1 DEF CausalInv, Stamped
  <2>3. x[1] \in Node /\ x[2] \in Nat
    BY <2>2, Messages
  <2>4. stamp[m][x[1]] <= v[n][x[1]] /\ stamp[m][x[1]] \in Nat /\ v[n][x[1]] \in Nat
    BY <2>1, <2>3 DEF CausalInv, Counted, Ready, TypeOK
  <2> QED
    BY <2>2, <2>3, <2>4 DEF CausalInv, Counted
<1> QED
  BY <1>1, CausalInit, CausalStep, PTL DEF Spec

\* The vector of a node counts exactly the prefix of each origin's messages
\* that the node has handed over.
THEOREM PrefixHolds == Spec => []DeliveredPrefix
<1>1. CausalInv => DeliveredPrefix
  BY DEF CausalInv, Counted, DeliveredPrefix
<1> QED
  BY <1>1, CausalInit, CausalStep, PTL DEF Spec

-----------------------------------------------------------------------------
(* The observed-remove set.  A call is told by its id, an addition by its  *)
(* tag; the code only ever sees tags, the promise speaks of calls.  What   *)
(* connects them: which tag an addition got (tagOf), and that whoever has   *)
(* heard of a removal has heard of all that the removal had seen.           *)

CallId == Shelf \X Nat

Call == [op : {"add", "remove"}, element : Fruit, id : CallId, after : SUBSET CallId]

\* What a replica holds, in the form in which it sends it.
SetState(r) == [adds |-> adds[r], tombs |-> tombs[r], heard |-> heard[r]]

SetStates == {SetState(r) : r \in Shelf} \union sets

History == UNION {s.heard : s \in SetStates}

Additions(h) == {c \in h : c.op = "add"}

\* Among the calls of h is a removal that saw the addition c.
Gone(h, c) == \E d \in h : d.op = "remove" /\ d.element = c.element /\ c.id \in d.after

\* A state stands for the calls it has heard of.
Faithful(s, tagOf) ==
    /\ s.heard \in SUBSET Call
    /\ s.adds = {<<c.element, tagOf[c.id]>> : c \in Additions(s.heard)}
    /\ s.tombs = {tagOf[c.id] : c \in {x \in Additions(s.heard) : Gone(s.heard, x)}}
    /\ \A d \in s.heard : \A i \in d.after : \E c \in s.heard : c.id = i

SetTypes ==
    /\ seq \in [Shelf -> Nat] /\ calls \in [Shelf -> Nat]
    /\ adds \in [Shelf -> SUBSET (Fruit \X CallId)]
    /\ tombs \in [Shelf -> SUBSET CallId]
    /\ heard \in [Shelf -> SUBSET Call]
    /\ sets \in SUBSET [adds : SUBSET (Fruit \X CallId), tombs : SUBSET CallId,
                        heard : SUBSET Call]

\* No two calls share an id, no two additions a tag.
Told(tagOf) ==
    /\ \A s \in SetStates : Faithful(s, tagOf)
    /\ \A c \in History : c.id[2] < calls[c.id[1]]
    /\ \A c, d \in History : c.id = d.id => c = d
    /\ \A c \in Additions(History) :
         tagOf[c.id][1] = c.id[1] /\ tagOf[c.id][2] < seq[c.id[1]]
    /\ \A c, d \in Additions(History) : tagOf[c.id] = tagOf[d.id] => c = d

SetInv == SetTypes /\ \E tagOf \in [CallId -> CallId] : Told(tagOf)

LEMMA SetInit == OR!Init => SetInv
<1> SUFFICES ASSUME OR!Init PROVE SetInv
  OBVIOUS
<1>1. SetTypes
  BY DEF OR!Init, SetTypes
<1>2. \A s \in SetStates : s.heard = {} /\ s.adds = {} /\ s.tombs = {}
  BY DEF OR!Init, SetStates, SetState
<1>3. History = {}
  BY <1>2 DEF History
<1>4. [i \in CallId |-> i] \in [CallId -> CallId]
  OBVIOUS
<1>5. \A tagOf : Told(tagOf)
  BY <1>2, <1>3 DEF Told, Faithful, Additions
<1> QED
  BY <1>1, <1>4, <1>5 DEF SetInv

\* What two states know together is again a state that stands for its calls.
LEMMA TogetherFaithful ==
    ASSUME NEW tagOf, NEW s, NEW t, NEW u, Faithful(s, tagOf), Faithful(t, tagOf),
           u.heard = s.heard \union t.heard, u.adds = s.adds \union t.adds,
           u.tombs = s.tombs \union t.tombs,
           \A c, d \in s.heard \union t.heard : c.id = d.id => c = d
    PROVE  Faithful(u, tagOf)
<1>1. u.heard \in SUBSET Call
  BY DEF Faithful
<1>2. u.adds = {<<c.element, tagOf[c.id]>> : c \in Additions(u.heard)}
  BY DEF Faithful, Additions
<1>3. \A d \in u.heard : \A i \in d.after : \E c \in u.heard : c.id = i
  BY DEF Faithful
<1>4. ASSUME NEW c \in Additions(u.heard), NEW d \in s.heard, c.id \in d.after PROVE c \in s.heard
  BY <1>4 DEF Faithful, Additions
<1>5. ASSUME NEW c \in Additions(u.heard), NEW d \in t.heard, c.id \in d.after PROVE c \in t.heard
  BY <1>5 DEF Faithful, Additions
<1>6. \A c \in Additions(u.heard) :
        Gone(u.heard, c) <=> \/ c \in Additions(s.heard) /\ Gone(s.heard, c)
                             \/ c \in Additions(t.heard) /\ Gone(t.heard, c)
  BY <1>4, <1>5 DEF Gone, Additions
<1>7. Additions(s.heard) \subseteq Additions(u.heard) /\ Additions(t.heard) \subseteq Additions(u.heard)
  BY DEF Additions
<1>8. u.tombs = {tagOf[c.id] : c \in {x \in Additions(u.heard) : Gone(u.heard, x)}}
  <2> DEFINE D(h) == {x \in Additions(h) : Gone(h, x)}
  <2>1. D(u.heard) = D(s.heard) \union D(t.heard)
    BY <1>6, <1>7
  <2>2. s.tombs = {tagOf[c.id] : c \in D(s.heard)} /\ t.tombs = {tagOf[c.id] : c \in D(t.heard)}
    BY DEF Faithful
  <2> HIDE DEF D
  <2>3. u.tombs = {tagOf[c.id] : c \in D(u.heard)}
    BY <2>1, <2>2
  <2> QED
    BY <2>3 DEF D
<1> QED
  BY <1>1, <1>2, <1>3, <1>8 DEF Faithful

\* Two faithful states, the same states seen through another map of tags.
LEMMA FaithfulSame ==
    ASSUME NEW f, NEW g, NEW s, Faithful(s, f), \A c \in Additions(s.heard) : f[c.id] = g[c.id]
    PROVE  Faithful(s, g)
BY DEF Faithful, Additions


\* The call c is recorded: its replica knows one call more, with an id of its own.
Recorded(r, op, e, c) ==
    /\ c = [op |-> op, element |-> e, id |-> <<r, calls[r]>>, after |-> {d.id : d \in heard[r]}]
    /\ heard' = [heard EXCEPT ![r] = @ \union {c}]
    /\ heard' \in [Shelf -> SUBSET Call] /\ calls' \in [Shelf -> Nat]
    /\ calls' = [calls EXCEPT ![r] = @ + 1] /\ sets' = sets
    /\ \A d \in History : d \in Call /\ d.id # c.id
    /\ History' = History \union {c}
    /\ \A d \in History' : d.id[2] < calls'[d.id[1]]
    /\ \A d, x \in History' : d.id = x.id => d = x

LEMMA CalledKnown ==
    ASSUME SetTypes, NEW tagOf \in [CallId -> CallId], Told(tagOf),
           NEW r \in Shelf, NEW e \in Fruit, NEW op \in {"add", "remove"}, OR!Called(r, op, e)
    PROVE  \E c \in Call : Recorded(r, op, e, c)
<1> DEFINE c == [op |-> op, element |-> e, id |-> <<r, calls[r]>>,
                 after |-> {d.id : d \in heard[r]}]
<1>0. /\ heard \in [Shelf -> SUBSET Call] /\ calls \in [Shelf -> Nat]
      /\ heard' = [heard EXCEPT ![r] = @ \union {c}]
      /\ calls' = [calls EXCEPT ![r] = @ + 1] /\ sets' = sets
  BY DEF SetTypes, OR!Called
<1>1. c \in Call
  <2>1. heard[r] \in SUBSET Call
    BY <1>0
  <2>2. {d.id : d \in heard[r]} \in SUBSET CallId /\ <<r, calls[r]>> \in CallId
    BY <2>1, <1>0 DEF Call, CallId
  <2> HIDE DEF c
  <2>3. c = [op |-> op, element |-> e, id |-> <<r, calls[r]>>, after |-> {d.id : d \in heard[r]}]
    BY DEF c
  <2> QED
    BY <2>2, <2>3 DEF Call
<1>2. /\ c.id = <<r, calls[r]>> /\ c.id[1] = r /\ c.id[2] = calls[r]
      /\ c.op = op /\ c.element = e
  OBVIOUS
<1> HIDE DEF c
<1>3. heard' \in [Shelf -> SUBSET Call] /\ calls' \in [Shelf -> Nat]
  BY <1>0, <1>1
<1>4. History' = History \union {c}
  <2>1. \A q \in Shelf : SetState(q).heard = heard[q] /\ SetState(q)'.heard = heard'[q]
    BY DEF SetState
  <2>2. heard'[r] = heard[r] \union {c} /\ \A q \in Shelf \ {r} : heard'[q] = heard[q]
    BY <1>0
  <2>3. \A x : x \in History <=> (\E q \in Shelf : x \in heard[q]) \/ \E s \in sets : x \in s.heard
    BY <2>1 DEF History, SetStates
  <2>4. \A x : x \in History' <=> (\E q \in Shelf : x \in heard'[q]) \/ \E s \in sets' : x \in s.heard
    BY <2>1 DEF History, SetStates
  <2>5. \A x : x \in History' <=> x \in History \/ x = c
    BY <2>2, <2>3, <2>4, <1>0
  <2> QED
    BY <2>5
<1>5. ASSUME NEW d \in History PROVE d \in Call /\ d.id # c.id
  <2>1. d.id[2] < calls[d.id[1]]
    BY DEF Told
  <2>2. d \in Call
    BY DEF History, Told, Faithful
  <2>3. d.id[1] \in Shelf /\ d.id[2] \in Nat
    BY <2>2 DEF Call, CallId
  <2> QED
    BY <2>1, <2>2, <2>3, <1>0, <1>2
<1>6. ASSUME NEW d \in History' PROVE d.id[2] < calls'[d.id[1]]
  <2>1. CASE d = c
    BY <1>0, <1>2, <2>1
  <2>2. CASE d \in History
    <3>1. d.id[2] < calls[d.id[1]] /\ d.id[1] \in Shelf /\ d.id[2] \in Nat
      BY <2>2, <1>5 DEF Told, Call, CallId
    <3>2. calls'[d.id[1]] >= calls[d.id[1]] /\ calls[d.id[1]] \in Nat /\ calls'[d.id[1]] \in Nat
      BY <3>1, <1>0
    <3> QED
      BY <3>1, <3>2
  <2> QED
    BY <1>4, <2>1, <2>2
<1>7. \A d, x \in History' : d.id = x.id => d = x
  BY <1>4, <1>5 DEF Told
<1> QED
  BY <1>0, <1>1, <1>3, <1>4, <1>5, <1>6, <1>7 DEF c, Recorded

LEMMA AddInv ==
    ASSUME SetInv, NEW r \in Shelf, NEW e \in Fruit, OR!Add(r, e)
    PROVE  SetInv'
<1>1. PICK tagOf \in [CallId -> CallId] : Told(tagOf)
  BY DEF SetInv
<1>2. /\ OR!Called(r, "add", e)
      /\ adds' = [adds EXCEPT ![r] = @ \union {<<e, <<r, seq[r]>> >>}]
      /\ seq' = [seq EXCEPT ![r] = @ + 1] /\ tombs' = tombs
  BY DEF OR!Add, OR!Mint
<1>3. SetTypes
  BY DEF SetInv
<1>c. PICK c \in Call : Recorded(r, "add", e, c)
  BY <1>1, <1>2, <1>3, CalledKnown
<1>4. /\ c = [op |-> "add", element |-> e, id |-> <<r, calls[r]>>,
              after |-> {d.id : d \in heard[r]}]
      /\ heard' = [heard EXCEPT ![r] = @ \union {c}]
      /\ heard' \in [Shelf -> SUBSET Call] /\ calls' \in [Shelf -> Nat]
      /\ calls' = [calls EXCEPT ![r] = @ + 1] /\ sets' = sets
      /\ \A d \in History : d \in Call /\ d.id # c.id
      /\ History' = History \union {c}
      /\ \A d \in History' : d.id[2] < calls'[d.id[1]]
      /\ \A d, x \in History' : d.id = x.id => d = x
  BY <1>c DEF Recorded
<1>5. /\ c.op = "add" /\ c.element = e /\ c.id = <<r, calls[r]>> /\ c.id[1] = r
      /\ c.after = {d.id : d \in heard[r]}
  BY <1>4
<1>6. seq \in [Shelf -> Nat] /\ seq' \in [Shelf -> Nat] /\ seq'[r] = seq[r] + 1
      /\ <<r, seq[r]>> \in CallId /\ \A q \in Shelf \ {r} : seq'[q] = seq[q]
  BY <1>2, <1>3 DEF SetTypes, CallId
<1>7. PICK g \in [CallId -> CallId] :
         g[c.id] = <<r, seq[r]>> /\ \A d \in History : g[d.id] = tagOf[d.id]
  <2> DEFINE f == [tagOf EXCEPT ![c.id] = <<r, seq[r]>>]
  <2>1. c.id \in CallId /\ \A d \in History : d.id \in CallId
    BY <1>4 DEF Call
  <2>2. f \in [CallId -> CallId] /\ f[c.id] = <<r, seq[r]>> /\ \A d \in History : f[d.id] = tagOf[d.id]
    BY <1>4, <1>6, <2>1
  <2> QED
    BY <2>2
<1>8. SetTypes'
  <2>1. adds' \in [Shelf -> SUBSET (Fruit \X CallId)]
    BY <1>2, <1>3, <1>6 DEF SetTypes
  <2> QED
    BY <1>2, <1>3, <1>4, <1>6, <2>1 DEF SetTypes
<1>9. \A s \in SetStates : Faithful(s, g)
  <2>1. ASSUME NEW s \in SetStates PROVE Faithful(s, g)
    <3>1. \A d \in Additions(s.heard) : d \in History
      BY DEF Additions, History
    <3> QED
      BY <1>1, <1>7, <3>1, FaithfulSame DEF Told
  <2> QED
    BY <2>1
<1>10. Faithful(SetState(r)', g)
  <2> DEFINE s == SetState(r)
             u == SetState(r)'
  <2>1. Faithful(s, g) /\ s.heard = heard[r] /\ s.adds = adds[r] /\ s.tombs = tombs[r]
    BY <1>9 DEF SetStates, SetState
  <2>2. /\ u.heard = s.heard \union {c} /\ u.adds = s.adds \union {<<e, g[c.id]>>}
        /\ u.tombs = s.tombs
    BY <1>2, <1>3, <1>4, <1>7, <2>1 DEF SetState, SetTypes
  <2>3. s.heard \subseteq History
    BY DEF History, SetStates
  <2> HIDE DEF s, u
  <2>4. u.heard \in SUBSET Call
    BY <2>1, <2>2 DEF Faithful
  <2>5. Additions(u.heard) = Additions(s.heard) \union {c}
    BY <2>2, <1>5 DEF Additions
  <2>6. u.adds = {<<d.element, g[d.id]>> : d \in Additions(u.heard)}
    <3>1. s.adds = {<<d.element, g[d.id]>> : d \in Additions(s.heard)}
      BY <2>1 DEF Faithful
    <3>2. e = c.element
      BY <1>5
    <3> QED
      BY <2>2, <2>5, <3>1, <3>2
  <2>7. \A d \in u.heard : \A i \in d.after : \E x \in u.heard : x.id = i
    BY <2>1, <2>2, <1>5 DEF Faithful
  <2>8. \A x \in Additions(s.heard) : Gone(u.heard, x) <=> Gone(s.heard, x)
    BY <2>2, <1>5 DEF Gone
  <2>9. ~ Gone(u.heard, c)
    <3>1. ASSUME NEW d \in u.heard, d.op = "remove", c.id \in d.after PROVE FALSE
      <4>1. d \in s.heard
        BY <3>1, <2>2, <1>5
      <4>2. PICK x \in s.heard : x.id = c.id
        BY <2>1, <3>1, <4>1 DEF Faithful
      <4> QED
        BY <4>2, <2>3, <1>4
    <3> QED
      BY <3>1 DEF Gone
  <2>10. {x \in Additions(u.heard) : Gone(u.heard, x)} = {x \in Additions(s.heard) : Gone(s.heard, x)}
    BY <2>5, <2>8, <2>9
  <2>11. u.tombs = {g[d.id] : d \in {x \in Additions(u.heard) : Gone(u.heard, x)}}
    BY <2>1, <2>2, <2>10 DEF Faithful
  <2>12. Faithful(u, g)
    BY <2>4, <2>6, <2>7, <2>11 DEF Faithful
  <2> QED
    BY <2>12 DEF u
<1>11. \A s \in SetStates' : Faithful(s, g)
  <2>1. \A q \in Shelf \ {r} : SetState(q)' = SetState(q)
    BY <1>2, <1>3, <1>4 DEF SetState, SetTypes
  <2>2. ASSUME NEW s \in SetStates' PROVE s \in SetStates \/ s = SetState(r)'
    BY <1>4, <2>1, <2>2 DEF SetStates
  <2> QED
    BY <1>9, <1>10, <2>2
<1>12. Additions(History)' = Additions(History) \union {c} /\ Additions(History) \subseteq History
  BY <1>4, <1>5 DEF Additions
<1>13. \A d \in Additions(History)' : g[d.id][1] = d.id[1] /\ g[d.id][2] < seq'[d.id[1]]
  <2>1. g[c.id][1] = c.id[1] /\ g[c.id][2] < seq'[c.id[1]]
    BY <1>5, <1>6, <1>7
  <2>2. ASSUME NEW d \in Additions(History) PROVE g[d.id][1] = d.id[1] /\ g[d.id][2] < seq'[d.id[1]]
    <3>1. tagOf[d.id][1] = d.id[1] /\ tagOf[d.id][2] < seq[d.id[1]] /\ g[d.id] = tagOf[d.id]
      BY <1>1, <1>7, <1>12 DEF Told
    <3>2. d.id[1] \in Shelf /\ tagOf[d.id][2] \in Nat
      BY <1>1, <1>4, <1>12 DEF Call, CallId
    <3>3. seq[d.id[1]] <= seq'[d.id[1]] /\ seq[d.id[1]] \in Nat /\ seq'[d.id[1]] \in Nat
      BY <1>6, <3>2
    <3> QED
      BY <3>1, <3>2, <3>3
  <2> QED
    BY <1>12, <2>1, <2>2
<1>14. ASSUME NEW d \in Additions(History) PROVE g[d.id] # g[c.id]
  <2>1. g[d.id][1] = d.id[1] /\ g[d.id][2] < seq[d.id[1]] /\ d.id[1] \in Shelf
    BY <1>1, <1>4, <1>7, <1>12 DEF Told, Call, CallId
  <2> QED
    BY <1>6, <1>7, <2>1
<1>15. \A d, x \in Additions(History)' : g[d.id] = g[x.id] => d = x
  <2>1. ASSUME NEW d \in Additions(History), NEW x \in Additions(History), g[d.id] = g[x.id]
        PROVE  d = x
    BY <1>1, <1>7, <1>12, <2>1 DEF Told
  <2> QED
    BY <1>12, <1>14, <2>1
<1>16. Told(g)'
  <2>1. Additions(History)' = Additions(History')
    BY DEF Additions
  <2> QED
    BY <1>4, <1>11, <1>13, <1>15, <2>1 DEF Told
<1> QED
  BY <1>7, <1>8, <1>16 DEF SetInv


LEMMA RemoveInv ==
    ASSUME SetInv, NEW r \in Shelf, NEW e \in Fruit, OR!Remove(r, e)
    PROVE  SetInv'
<1>1. PICK tagOf \in [CallId -> CallId] : Told(tagOf)
  BY DEF SetInv
<1>2. /\ OR!Called(r, "remove", e)
      /\ tombs' = [tombs EXCEPT ![r] = @ \union OR!Tags(r, e)]
      /\ UNCHANGED <<seq, adds>>
  BY DEF OR!Remove
<1>3. SetTypes
  BY DEF SetInv
<1>c. PICK c \in Call : Recorded(r, "remove", e, c)
  BY <1>1, <1>2, <1>3, CalledKnown
<1>4. /\ c = [op |-> "remove", element |-> e, id |-> <<r, calls[r]>>,
              after |-> {d.id : d \in heard[r]}]
      /\ heard' = [heard EXCEPT ![r] = @ \union {c}]
      /\ heard' \in [Shelf -> SUBSET Call] /\ calls' \in [Shelf -> Nat]
      /\ calls' = [calls EXCEPT ![r] = @ + 1] /\ sets' = sets
      /\ \A d \in History : d \in Call /\ d.id # c.id
      /\ History' = History \union {c}
      /\ \A d \in History' : d.id[2] < calls'[d.id[1]]
      /\ \A d, x \in History' : d.id = x.id => d = x
  BY <1>c DEF Recorded
<1>5. c.op = "remove" /\ c.element = e /\ c.after = {d.id : d \in heard[r]}
  BY <1>4
<1> DEFINE s == SetState(r)
           u == SetState(r)'
<1>6. Faithful(s, tagOf) /\ s.heard = heard[r] /\ s.adds = adds[r] /\ s.tombs = tombs[r]
  BY <1>1 DEF Told, SetStates, SetState
<1>7. /\ u.heard = s.heard \union {c} /\ u.adds = s.adds
      /\ u.tombs = s.tombs \union {a[2] : a \in {x \in s.adds : x[1] = e}}
  BY <1>2, <1>3, <1>4, <1>6 DEF SetState, SetTypes, OR!Tags
<1>8. s.heard \subseteq History
  BY DEF History, SetStates
<1> HIDE DEF s, u
<1>9. Faithful(u, tagOf)
  <2>1. u.heard \in SUBSET Call
    BY <1>6, <1>7 DEF Faithful
  <2>2. Additions(u.heard) = Additions(s.heard)
    BY <1>5, <1>7 DEF Additions
  <2>3. u.adds = {<<d.element, tagOf[d.id]>> : d \in Additions(u.heard)}
    BY <1>6, <1>7, <2>2 DEF Faithful
  <2>4. \A d \in u.heard : \A i \in d.after : \E x \in u.heard : x.id = i
    BY <1>5, <1>6, <1>7 DEF Faithful
  <2>5. \A x \in Additions(s.heard) : x.id \in c.after
    BY <1>5, <1>6 DEF Additions
  <2>6. \A x \in Additions(s.heard) : Gone(u.heard, x) <=> Gone(s.heard, x) \/ x.element = e
    BY <1>5, <1>7, <2>5 DEF Gone
  <2> DEFINE E == {x \in Additions(s.heard) : x.element = e}
             D(h) == {x \in Additions(h) : Gone(h, x)}
  <2>7. D(u.heard) = D(s.heard) \union E
    BY <2>2, <2>6
  <2>8. {a[2] : a \in {x \in s.adds : x[1] = e}} = {tagOf[d.id] : d \in E}
    <3>1. s.adds = {<<d.element, tagOf[d.id]>> : d \in Additions(s.heard)}
      BY <1>6 DEF Faithful
    <3>2. ASSUME NEW a \in s.adds, a[1] = e PROVE \E d \in E : a[2] = tagOf[d.id]
      BY <3>1, <3>2
    <3>3. ASSUME NEW d \in E PROVE <<d.element, tagOf[d.id]>> \in s.adds /\ d.element = e
      BY <3>1
    <3> HIDE DEF E
    <3> QED
      BY <3>2, <3>3
  <2>9. s.tombs = {tagOf[d.id] : d \in D(s.heard)}
    BY <1>6 DEF Faithful
  <2> HIDE DEF D, E
  <2>10. u.tombs = {tagOf[d.id] : d \in D(u.heard)}
    BY <1>7, <2>7, <2>8, <2>9
  <2> QED
    BY <2>1, <2>3, <2>4, <2>10 DEF Faithful, D
<1>10. \A t \in SetStates' : Faithful(t, tagOf)
  <2>1. \A q \in Shelf \ {r} : SetState(q)' = SetState(q)
    BY <1>2, <1>3, <1>4 DEF SetState, SetTypes
  <2>2. ASSUME NEW t \in SetStates' PROVE t \in SetStates \/ t = SetState(r)'
    BY <1>4, <2>1, <2>2 DEF SetStates
  <2> QED
    BY <1>1, <1>9, <2>2 DEF Told, u
<1>11. Additions(History)' = Additions(History)
  BY <1>4, <1>5 DEF Additions
<1>12. Told(tagOf)'
  <2>1. Additions(History)' = Additions(History')
    BY DEF Additions
  <2> QED
    BY <1>1, <1>2, <1>4, <1>10, <1>11, <2>1 DEF Told
<1>13. SetTypes'
  <2>1. OR!Tags(r, e) \in SUBSET CallId
    BY <1>3 DEF SetTypes, OR!Tags
  <2> QED
    BY <1>2, <1>3, <1>4, <2>1 DEF SetTypes
<1> QED
  BY <1>12, <1>13 DEF SetInv

LEMMA SendInv ==
    ASSUME SetInv, NEW r \in Shelf, OR!Send(r)
    PROVE  SetInv'
<1>1. PICK tagOf \in [CallId -> CallId] : Told(tagOf)
  BY DEF SetInv
<1>2. sets' = sets \union {SetState(r)} /\ UNCHANGED <<seq, adds, tombs, calls, heard>>
  BY DEF OR!Send, SetState
<1>3. SetStates' = SetStates
  BY <1>2 DEF SetStates, SetState
<1>4. History' = History
  BY <1>3 DEF History
<1>5. Told(tagOf)'
  BY <1>1, <1>2, <1>3, <1>4 DEF Told
<1>6. SetTypes'
  <2>1. SetTypes
    BY DEF SetInv
  <2>2. SetState(r) \in [adds : SUBSET (Fruit \X CallId), tombs : SUBSET CallId,
                         heard : SUBSET Call]
    BY <2>1 DEF SetTypes, SetState
  <2> QED
    BY <1>2, <2>1, <2>2 DEF SetTypes
<1> QED
  BY <1>5, <1>6 DEF SetInv

LEMMA MergeInv ==
    ASSUME SetInv, NEW r \in Shelf, NEW c \in sets, OR!Merge(r, c)
    PROVE  SetInv'
<1>1. PICK tagOf \in [CallId -> CallId] : Told(tagOf)
  BY DEF SetInv
<1>2. /\ adds' = [adds EXCEPT ![r] = @ \union c.adds]
      /\ tombs' = [tombs EXCEPT ![r] = @ \union c.tombs]
      /\ heard' = [heard EXCEPT ![r] = @ \union c.heard]
      /\ UNCHANGED <<seq, sets, calls>>
  BY DEF OR!Merge
<1>3. SetTypes
  BY DEF SetInv
<1> DEFINE s == SetState(r)
           u == SetState(r)'
<1>4. /\ u.heard = s.heard \union c.heard /\ u.adds = s.adds \union c.adds
      /\ u.tombs = s.tombs \union c.tombs
  BY <1>2, <1>3 DEF SetState, SetTypes
<1>5. s \in SetStates /\ c \in SetStates
  BY DEF SetStates
<1> HIDE DEF s, u
<1>6. s.heard \subseteq History /\ c.heard \subseteq History
  BY <1>5 DEF History
<1>7. Faithful(u, tagOf)
  <2>1. Faithful(s, tagOf) /\ Faithful(c, tagOf)
    BY <1>1, <1>5 DEF Told
  <2>2. \A d, x \in s.heard \union c.heard : d.id = x.id => d = x
    BY <1>1, <1>6 DEF Told
  <2> QED
    BY <1>4, <2>1, <2>2, TogetherFaithful
<1>8. \A q \in Shelf \ {r} : SetState(q)' = SetState(q)
  BY <1>2, <1>3 DEF SetState, SetTypes
<1>9. ASSUME NEW t \in SetStates' PROVE t \in SetStates \/ t = u
  BY <1>2, <1>8, <1>9 DEF SetStates, u
<1>10. \A t \in SetStates' : Faithful(t, tagOf)
  BY <1>1, <1>7, <1>9 DEF Told
<1>11. History' \subseteq History
  <2>1. ASSUME NEW x \in History' PROVE x \in History
    <3>1. PICK t \in SetStates' : x \in t.heard
      BY DEF History
    <3> QED
      BY <1>4, <1>6, <1>9, <3>1 DEF History
  <2> QED
    BY <2>1
<1>12. Additions(History') \subseteq Additions(History)
  BY <1>11 DEF Additions
<1>13. Told(tagOf)'
  BY <1>1, <1>2, <1>10, <1>11, <1>12 DEF Told
<1>14. SetTypes'
  <2>1. c.adds \in SUBSET (Fruit \X CallId) /\ c.tombs \in SUBSET CallId /\ c.heard \in SUBSET Call
    BY <1>3 DEF SetTypes
  <2> QED
    BY <1>2, <1>3, <2>1 DEF SetTypes
<1> QED
  BY <1>13, <1>14 DEF SetInv

LEMMA SetStep == SetInv /\ [OR!Next]_setVars => SetInv'
<1> SUFFICES ASSUME SetInv, [OR!Next]_setVars PROVE SetInv'
  OBVIOUS
<1>1. CASE UNCHANGED setVars
  <2>1. UNCHANGED <<seq, adds, tombs, sets, calls, heard>>
    BY <1>1 DEF setVars
  <2>2. SetStates' = SetStates
    BY <2>1 DEF SetStates, SetState
  <2>3. History' = History
    BY <2>2 DEF History
  <2> QED
    BY <2>1, <2>2, <2>3 DEF SetInv, SetTypes, Told
<1>2. CASE OR!Next
  BY <1>2, AddInv, RemoveInv, SendInv, MergeInv DEF OR!Next
<1> QED
  BY <1>1, <1>2

LEMMA SetHolds == SetInv => HoldsWhatIsLeft
<1> SUFFICES ASSUME SetInv, NEW r \in Shelf, NEW e \in Fruit
             PROVE  OR!Contains(r, e) <=>
                      \E a \in heard[r] :
                        /\ a.op = "add" /\ a.element = e
                        /\ \A d \in heard[r] :
                             d.op = "remove" /\ d.element = e => a.id \notin d.after
  BY DEF HoldsWhatIsLeft, OR!AddWins
<1>1. PICK tagOf \in [CallId -> CallId] : Told(tagOf)
  BY DEF SetInv
<1> DEFINE h == heard[r]
<1>2. /\ adds[r] = {<<c.element, tagOf[c.id]>> : c \in Additions(h)}
      /\ tombs[r] = {tagOf[c.id] : c \in {x \in Additions(h) : Gone(h, x)}}
      /\ h \subseteq History
  <2>1. Faithful(SetState(r), tagOf) /\ SetState(r) \in SetStates
    BY <1>1 DEF Told, SetStates
  <2> QED
    BY <2>1 DEF Faithful, SetState, History
<1>3. \A c, d \in Additions(h) : tagOf[c.id] = tagOf[d.id] => c = d
  BY <1>1, <1>2 DEF Told, Additions
<1> HIDE DEF h
<1>4. OR!Tags(r, e) = {tagOf[c.id] : c \in {x \in Additions(h) : x.element = e}}
  <2>1. ASSUME NEW a \in adds[r], a[1] = e PROVE \E c \in Additions(h) : c.element = e /\ a[2] = tagOf[c.id]
    BY <1>2, <2>1
  <2>2. ASSUME NEW c \in Additions(h), c.element = e PROVE \E a \in adds[r] : a[1] = e /\ a[2] = tagOf[c.id]
    <3>1. <<c.element, tagOf[c.id]>> \in adds[r]
      BY <1>2
    <3> QED
      BY <2>2, <3>1
  <2> QED
    BY <2>1, <2>2 DEF OR!Tags
<1>5. \A c \in Additions(h) : tagOf[c.id] \in tombs[r] <=> Gone(h, c)
  BY <1>2, <1>3
<1>6. OR!Contains(r, e) <=> \E c \in Additions(h) : c.element = e /\ ~ Gone(h, c)
  BY <1>4, <1>5 DEF OR!Contains
<1> QED
  BY <1>6 DEF Additions, Gone, h

LEMMA EnsembleSetInit == EnsembleInit => SetInv
BY SetInit DEF EnsembleInit

LEMMA EnsembleSetStep == [EnsembleNext]_allVars => [OR!Next]_setVars
<1>1. EnsembleNext => [OR!Next]_setVars
  BY DEF EnsembleNext, AtRest
<1>2. UNCHANGED allVars => UNCHANGED setVars
  BY DEF allVars
<1> QED
  BY <1>1, <1>2

\* 12: what a replica of the set holds is what it has heard was added and not
\* removed since: for any replicas, elements, and gossip, however late and often.
THEOREM AddWinsHolds == EnsembleSpec => []HoldsWhatIsLeft
<1>1. EnsembleInit => SetInv
  BY EnsembleSetInit
<1>2. SetInv /\ [EnsembleNext]_allVars => SetInv'
  BY SetStep, EnsembleSetStep
<1>3. SetInv => HoldsWhatIsLeft
  BY SetHolds
<1> QED
  BY <1>1, <1>2, <1>3, PTL DEF EnsembleSpec


-----------------------------------------------------------------------------
(* The counter that goes up and down.  A slot of a pile is the number of    *)
(* the counts of one replica that were heard of; of every replica a state   *)
(* knows the counts up to one of them, so that of two states one knows all  *)
(* that the other does, and the larger slot is the slot of both together.   *)

Count == [at : Counting, seq : Nat, by : {1, -1}]

CountState(r) == [pos |-> pos[r], neg |-> neg[r], heard |-> counted[r]]

CountStates == {CountState(r) : r \in Counting} \union counters

AllCounts == UNION {s.heard : s \in CountStates}

CountsOf(h, q, by) == {c \in h : c.at = q /\ c.by = by}

Tally(h, by) == [q \in Counting |-> Cardinality(CountsOf(h, q, by))]

\* The slots count what was heard; of a replica the first counts were heard.
Exact(s) ==
    /\ s.heard \in SUBSET Count /\ IsFiniteSet(s.heard)
    /\ s.pos = Tally(s.heard, 1) /\ s.neg = Tally(s.heard, -1)
    /\ \A c \in s.heard : \A i \in 0 .. c.seq - 1 : \E d \in s.heard : d.at = c.at /\ d.seq = i

CounterTypes ==
    /\ pos \in [Counting -> [Counting -> Nat]] /\ neg \in [Counting -> [Counting -> Nat]]
    /\ counted \in [Counting -> SUBSET Count]

CounterInv ==
    /\ CounterTypes
    /\ \A s \in CountStates : Exact(s)
    /\ \A c, d \in AllCounts : c.at = d.at /\ c.seq = d.seq => c = d
    /\ \A c \in AllCounts : c \in counted[c.at]
    /\ \A r \in Counting : {c.seq : c \in Counter!Own(r)} = 0 .. Cardinality(Counter!Own(r)) - 1

LEMMA CountsFinite ==
    ASSUME NEW h, IsFiniteSet(h), NEW q, NEW by
    PROVE  IsFiniteSet(CountsOf(h, q, by)) /\ Cardinality(CountsOf(h, q, by)) \in Nat
<1>1. CountsOf(h, q, by) \subseteq h
  BY DEF CountsOf
<1>2. IsFiniteSet(CountsOf(h, q, by))
  BY <1>1, FS_Subset
<1> QED
  BY <1>2, FS_CardinalityType

\* One count more.
LEMMA TallyOneMore ==
    ASSUME NEW h \in SUBSET Count, IsFiniteSet(h), NEW c \in Count, c \notin h
    PROVE  /\ IsFiniteSet(h \union {c})
           /\ \A by \in {1, -1} :
                /\ Tally(h, by) \in [Counting -> Nat]
                /\ Tally(h \union {c}, by)
                     = IF by = c.by THEN [Tally(h, by) EXCEPT ![c.at] = @ + 1] ELSE Tally(h, by)
<1>1. IsFiniteSet(h \union {c})
  BY FS_AddElement
<1>2. ASSUME NEW by \in {1, -1}, NEW q \in Counting
      PROVE  Cardinality(CountsOf(h \union {c}, q, by))
               = Cardinality(CountsOf(h, q, by)) + (IF by = c.by /\ q = c.at THEN 1 ELSE 0)
  <2>0. IsFiniteSet(CountsOf(h, q, by)) /\ Cardinality(CountsOf(h, q, by)) \in Nat
    BY CountsFinite
  <2>1. CASE by = c.by /\ q = c.at
    <3>1. CountsOf(h \union {c}, q, by) = CountsOf(h, q, by) \union {c} /\ c \notin CountsOf(h, q, by)
      <4>1. \A x : x \in CountsOf(h \union {c}, q, by) <=> x \in CountsOf(h, q, by) \/ x = c
        BY <2>1 DEF CountsOf
      <4>2. c \notin CountsOf(h, q, by)
        BY DEF CountsOf
      <4> QED
        BY <4>1, <4>2
    <3>2. Cardinality(CountsOf(h, q, by) \union {c}) = Cardinality(CountsOf(h, q, by)) + 1
      BY <2>0, <3>1, FS_AddElement
    <3> QED
      BY <2>0, <2>1, <3>1, <3>2
  <2>2. CASE ~ (by = c.by /\ q = c.at)
    <3>1. CountsOf(h \union {c}, q, by) = CountsOf(h, q, by)
      BY <2>2 DEF CountsOf
    <3> QED
      BY <2>0, <2>2, <3>1
  <2> QED
    BY <2>1, <2>2
<1>3. \A by \in {1, -1} : Tally(h, by) \in [Counting -> Nat]
  BY CountsFinite DEF Tally
<1>4. ASSUME NEW by \in {1, -1}
      PROVE  Tally(h \union {c}, by)
               = IF by = c.by THEN [Tally(h, by) EXCEPT ![c.at] = @ + 1] ELSE Tally(h, by)
  <2> DEFINE f == Tally(h \union {c}, by)
             g == Tally(h, by)
             k == IF by = c.by THEN [g EXCEPT ![c.at] = @ + 1] ELSE g
  <2>1. DOMAIN f = Counting /\ DOMAIN k = Counting /\ c.at \in Counting
    BY DEF Tally, Count
  <2>2. g \in [Counting -> Nat]
    BY <1>3
  <2>3. \A q \in Counting : f[q] = g[q] + (IF by = c.by /\ q = c.at THEN 1 ELSE 0)
    BY <1>2 DEF Tally
  <2>4. f = [q \in Counting |-> f[q]] /\ k = [q \in Counting |-> k[q]]
    BY <2>1 DEF Tally
  <2> HIDE DEF f, g
  <2>5. \A q \in Counting : f[q] = k[q]
    BY <2>2, <2>3
  <2> QED
    BY <2>4, <2>5 DEF f, g
<1> QED
  BY <1>1, <1>3, <1>4

\* Of two states, one knows all the counts of q that the other knows.
LEMMA OneKnowsAll ==
    ASSUME NEW s, NEW t, Exact(s), Exact(t), NEW q,
           \A c, d \in s.heard \union t.heard : c.at = d.at /\ c.seq = d.seq => c = d
    PROVE  \/ \A c \in s.heard : c.at = q => c \in t.heard
           \/ \A c \in t.heard : c.at = q => c \in s.heard
<1> SUFFICES ASSUME NEW a \in s.heard, a.at = q, a \notin t.heard,
                    NEW b \in t.heard, b.at = q
             PROVE  b \in s.heard
  OBVIOUS
<1>1. a.seq \in Nat /\ b.seq \in Nat
  BY DEF Exact, Count
<1>2. CASE b.seq < a.seq
  <2>1. PICK d \in s.heard : d.at = a.at /\ d.seq = b.seq
    BY <1>1, <1>2 DEF Exact
  <2> QED
    BY <2>1
<1>3. CASE a.seq < b.seq
  <2>1. PICK d \in t.heard : d.at = b.at /\ d.seq = a.seq
    BY <1>1, <1>3 DEF Exact
  <2>2. d = a
    BY <2>1
  <2> QED
    BY <2>1, <2>2
<1>4. CASE a.seq = b.seq
  BY <1>4
<1> QED
  BY <1>1, <1>2, <1>3, <1>4

LEMMA MergedTally ==
    ASSUME NEW s, NEW t, Exact(s), Exact(t), NEW by \in {1, -1},
           \A c, d \in s.heard \union t.heard : c.at = d.at /\ c.seq = d.seq => c = d
    PROVE  Tally(s.heard \union t.heard, by) = Counter!Merge(Tally(s.heard, by), Tally(t.heard, by))
<1> DEFINE u == s.heard \union t.heard
<1>1. ASSUME NEW q \in Counting
      PROVE  Tally(u, by)[q] = Counter!Max({Tally(s.heard, by)[q], Tally(t.heard, by)[q]})
  <2> DEFINE A == CountsOf(s.heard, q, by)
             B == CountsOf(t.heard, q, by)
             m == Cardinality(A)
             n == Cardinality(B)
  <2>1. IsFiniteSet(A) /\ IsFiniteSet(B) /\ m \in Nat /\ n \in Nat
    BY CountsFinite DEF Exact
  <2>2. A \subseteq B \/ B \subseteq A
    BY OneKnowsAll DEF CountsOf
  <2>3. CountsOf(u, q, by) = A \union B
    BY DEF CountsOf
  <2>4. Tally(u, by)[q] = Cardinality(A \union B) /\ Tally(s.heard, by)[q] = m /\ Tally(t.heard, by)[q] = n
    BY <2>3 DEF Tally
  <2> HIDE DEF A, B
  <2>5. CASE A \subseteq B
    <3>1. A \union B = B /\ m <= n
      BY <2>1, <2>5, FS_Subset
    <3>2. Counter!Max({m, n}) = n
      BY <2>1, <3>1 DEF Counter!Max
    <3> QED
      BY <2>4, <3>1, <3>2
  <2>6. CASE B \subseteq A
    <3>1. A \union B = A /\ n <= m
      BY <2>1, <2>6, FS_Subset
    <3>2. Counter!Max({m, n}) = m
      BY <2>1, <3>1 DEF Counter!Max
    <3> QED
      BY <2>4, <3>1, <3>2
  <2> QED
    BY <2>2, <2>5, <2>6
<1>2. DOMAIN Tally(u, by) = Counting /\ Tally(u, by) = [q \in Counting |-> Tally(u, by)[q]]
  BY DEF Tally
<1>3. Tally(u, by) = [q \in Counting |-> Counter!Max({Tally(s.heard, by)[q], Tally(t.heard, by)[q]})]
  <2> HIDE DEF u
  <2> QED
    BY <1>1, <1>2
<1> QED
  BY <1>3 DEF Counter!Merge


LEMMA CounterInit == Counter!Init => CounterInv
<1> SUFFICES ASSUME Counter!Init PROVE CounterInv
  OBVIOUS
<1>1. CounterTypes
  BY DEF Counter!Init, Counter!New, CounterTypes
<1>2. \A r \in Counting : counted[r] = {} /\ CountState(r).heard = {}
                          /\ CountState(r).pos = Counter!New /\ CountState(r).neg = Counter!New
  BY DEF Counter!Init, CountState
<1>3. AllCounts = {}
  BY <1>2 DEF AllCounts, CountStates, Counter!Init
<1>4. \A by : Tally({}, by) = Counter!New
  <2>1. \A q, by : CountsOf({}, q, by) = {}
    BY DEF CountsOf
  <2> QED
    BY <2>1, FS_EmptySet DEF Tally, Counter!New
<1>5. IsFiniteSet({})
  BY FS_EmptySet
<1>6. \A s \in CountStates : Exact(s)
  BY <1>2, <1>4, <1>5 DEF CountStates, Counter!Init, Exact
<1>7. ASSUME NEW r \in Counting
      PROVE  {c.seq : c \in Counter!Own(r)} = 0 .. Cardinality(Counter!Own(r)) - 1
  <2>1. Counter!Own(r) = {}
    BY <1>2 DEF Counter!Own
  <2> QED
    BY <2>1, FS_EmptySet
<1> QED
  BY <1>1, <1>3, <1>6, <1>7 DEF CounterInv

\* A count: its replica knows one count more, the next of its own.
Noted(r, by, c) ==
    /\ c = [at |-> r, seq |-> Cardinality(Counter!Own(r)), by |-> by]
    /\ counted' = [counted EXCEPT ![r] = @ \union {c}] /\ counters' = counters
    /\ c \notin AllCounts /\ AllCounts' = AllCounts \union {c}
    /\ \A d, x \in AllCounts' : d.at = x.at /\ d.seq = x.seq => d = x
    /\ \A d \in AllCounts' : d \in counted'[d.at]
    /\ \A q \in Counting :
         {d.seq : d \in Counter!Own(q)'} = 0 .. Cardinality(Counter!Own(q)') - 1
    /\ \A i \in 0 .. c.seq - 1 : \E d \in counted[r] : d.at = r /\ d.seq = i

LEMMA SameCardinality == \A S : Counter!Cardinality(S) = Cardinality(S)
BY DEF Counter!Cardinality, Cardinality

LEMMA CountNoted ==
    ASSUME CounterInv, NEW r \in Counting, NEW by \in {1, -1}, Counter!Counts(r, by)
    PROVE  \E c \in Count : Noted(r, by, c)
<1> DEFINE n == Cardinality(Counter!Own(r))
           c == [at |-> r, seq |-> n, by |-> by]
<1>1. counted' = [counted EXCEPT ![r] = @ \union {c}] /\ counters' = counters
  BY SameCardinality DEF Counter!Counts
<1>2. counted \in [Counting -> SUBSET Count] /\ CountState(r).heard = counted[r]
  BY DEF CounterInv, CounterTypes, CountState
<1>3. IsFiniteSet(counted[r]) /\ counted[r] \subseteq AllCounts
  BY <1>2 DEF CounterInv, CountStates, Exact, AllCounts
<1>4. Counter!Own(r) \subseteq counted[r] /\ IsFiniteSet(Counter!Own(r)) /\ n \in Nat
  <2>1. Counter!Own(r) \subseteq counted[r]
    BY DEF Counter!Own
  <2> QED
    BY <1>3, <2>1, FS_Subset, FS_CardinalityType
<1>5. c \in Count /\ c.at = r /\ c.seq = n /\ c.by = by
  BY <1>4 DEF Count
<1>6. {d.seq : d \in Counter!Own(r)} = 0 .. n - 1
  BY DEF CounterInv
<1> HIDE DEF c, n
<1>7. ASSUME NEW d \in AllCounts, d.at = r PROVE d \in Counter!Own(r) /\ d.seq \in 0 .. n - 1
  BY <1>6, <1>7 DEF CounterInv, Counter!Own
<1>8. c \notin AllCounts /\ \A d \in AllCounts : ~ (d.at = c.at /\ d.seq = c.seq)
  BY <1>4, <1>5, <1>7
<1>9. AllCounts' = AllCounts \union {c}
  <2>1. \A q \in Counting : CountState(q).heard = counted[q] /\ CountState(q)'.heard = counted'[q]
    BY DEF CountState
  <2>2. counted'[r] = counted[r] \union {c} /\ \A q \in Counting \ {r} : counted'[q] = counted[q]
    BY <1>1, <1>2
  <2>3. \A x : x \in AllCounts <=> (\E q \in Counting : x \in counted[q]) \/ \E s \in counters : x \in s.heard
    BY <2>1 DEF AllCounts, CountStates
  <2>4. \A x : x \in AllCounts' <=> (\E q \in Counting : x \in counted'[q]) \/ \E s \in counters' : x \in s.heard
    BY <2>1 DEF AllCounts, CountStates
  <2>5. \A x : x \in AllCounts' <=> x \in AllCounts \/ x = c
    BY <2>2, <2>3, <2>4, <1>1
  <2> QED
    BY <2>5
<1>10. \A d, x \in AllCounts' : d.at = x.at /\ d.seq = x.seq => d = x
  BY <1>8, <1>9 DEF CounterInv
<1>11. \A d \in AllCounts' : d \in counted'[d.at]
  <2>1. c \in counted'[c.at]
    BY <1>1, <1>2, <1>5
  <2>2. ASSUME NEW d \in AllCounts PROVE d \in counted'[d.at]
    <3>1. d \in counted[d.at] /\ d.at \in Counting
      <4>1. d \in counted[d.at] /\ \E s \in CountStates : d \in s.heard /\ s.heard \in SUBSET Count
        BY DEF CounterInv, AllCounts, Exact
      <4> QED
        BY <4>1 DEF Count
    <3>2. counted[d.at] \subseteq counted'[d.at]
      BY <1>1, <1>2, <3>1
    <3> QED
      BY <3>1, <3>2
  <2> QED
    BY <1>9, <2>1, <2>2
<1>12. ASSUME NEW q \in Counting
       PROVE  {d.seq : d \in Counter!Own(q)'} = 0 .. Cardinality(Counter!Own(q)') - 1
  <2>1. CASE q = r
    <3>1. Counter!Own(r)' = Counter!Own(r) \union {c} /\ c \notin Counter!Own(r)
      <4>1. \A x : x \in Counter!Own(r)' <=> x \in Counter!Own(r) \/ x = c
        BY <1>1, <1>2, <1>5 DEF Counter!Own
      <4>2. c \notin Counter!Own(r)
        BY <1>3, <1>4, <1>8
      <4> QED
        BY <4>1, <4>2
    <3>2. Cardinality(Counter!Own(r)') = n + 1
      BY <1>4, <3>1, FS_AddElement DEF n
    <3>3. \A i : i \in {d.seq : d \in Counter!Own(r)'} <=> i \in {d.seq : d \in Counter!Own(r)} \/ i = n
      BY <1>5, <3>1
    <3>4. 0 .. (n + 1) - 1 = 0 .. n - 1 \union {n}
      BY <1>4
    <3> HIDE DEF n
    <3> QED
      BY <1>6, <2>1, <3>2, <3>3, <3>4
  <2>2. CASE q # r
    <3>1. Counter!Own(q)' = Counter!Own(q)
      BY <1>1, <1>2, <2>2 DEF Counter!Own
    <3> QED
      BY <3>1 DEF CounterInv
  <2> QED
    BY <2>1, <2>2
<1>13. \A i \in 0 .. c.seq - 1 : \E d \in counted[r] : d.at = r /\ d.seq = i
  BY <1>5, <1>6 DEF Counter!Own
<1>14. Noted(r, by, c)
  BY <1>1, <1>8, <1>9, <1>10, <1>11, <1>12, <1>13 DEF Noted, c, n
<1> QED
  BY <1>5, <1>14

LEMMA CountInv ==
    ASSUME CounterInv, NEW r \in Counting,
           Counter!CountUp(r) \/ Counter!CountDown(r)
    PROVE  CounterInv'
<1>1. PICK by \in {1, -1} :
         /\ Counter!Counts(r, by)
         /\ pos' = IF by = 1 THEN [pos EXCEPT ![r] = Counter!Increment(@, r)] ELSE pos
         /\ neg' = IF by = -1 THEN [neg EXCEPT ![r] = Counter!Increment(@, r)] ELSE neg
  BY DEF Counter!CountUp, Counter!CountDown
<1>2. PICK c \in Count : Noted(r, by, c)
  BY <1>1, CountNoted
<1>3. /\ c.at = r /\ c.by = by /\ c \notin AllCounts /\ AllCounts' = AllCounts \union {c}
      /\ counted' = [counted EXCEPT ![r] = @ \union {c}] /\ counters' = counters
  BY <1>2 DEF Noted
<1>4. CounterTypes
  BY DEF CounterInv
<1> DEFINE s == CountState(r)
           u == CountState(r)'
<1>5. /\ Exact(s) /\ s.heard = counted[r] /\ s.pos = pos[r] /\ s.neg = neg[r]
      /\ s.heard \subseteq AllCounts
  BY DEF CounterInv, CountStates, CountState, AllCounts
<1>6. /\ u.heard = s.heard \union {c}
      /\ u.pos = IF by = 1 THEN [s.pos EXCEPT ![r] = @ + 1] ELSE s.pos
      /\ u.neg = IF by = -1 THEN [s.neg EXCEPT ![r] = @ + 1] ELSE s.neg
  <2>1. u.heard = counted'[r] /\ u.pos = pos'[r] /\ u.neg = neg'[r]
    BY DEF CountState
  <2> QED
    BY <1>1, <1>3, <1>4, <1>5, <2>1 DEF CounterTypes, Counter!Increment
<1> HIDE DEF s, u
<1>7. Exact(u)
  <2>1. s.heard \in SUBSET Count /\ IsFiniteSet(s.heard) /\ c \notin s.heard
    BY <1>3, <1>5 DEF Exact
  <2>2. /\ IsFiniteSet(s.heard \union {c})
        /\ \A b \in {1, -1} :
             Tally(s.heard \union {c}, b)
               = IF b = c.by THEN [Tally(s.heard, b) EXCEPT ![c.at] = @ + 1] ELSE Tally(s.heard, b)
    BY <2>1, TallyOneMore
  <2>3. u.pos = Tally(u.heard, 1)
    BY <1>3, <1>5, <1>6, <2>2 DEF Exact
  <2>4. u.neg = Tally(u.heard, -1)
    BY <1>3, <1>5, <1>6, <2>2 DEF Exact
  <2>5. \A i \in 0 .. c.seq - 1 : \E d \in u.heard : d.at = c.at /\ d.seq = i
    BY <1>2, <1>3, <1>5, <1>6 DEF Noted
  <2>6. \A x \in s.heard : \A i \in 0 .. x.seq - 1 : \E d \in u.heard : d.at = x.at /\ d.seq = i
    BY <1>5, <1>6 DEF Exact
  <2>7. u.heard \in SUBSET Count
    BY <1>6, <2>1
  <2> QED
    BY <1>6, <2>2, <2>3, <2>4, <2>5, <2>6, <2>7 DEF Exact
<1>8. \A t \in CountStates' : Exact(t)
  <2>1. \A q \in Counting \ {r} : CountState(q)' = CountState(q)
    <3>1. \A q \in Counting \ {r} : pos'[q] = pos[q] /\ neg'[q] = neg[q] /\ counted'[q] = counted[q]
      BY <1>1, <1>3, <1>4 DEF CounterTypes
    <3> QED
      BY <3>1 DEF CountState
  <2>2. ASSUME NEW t \in CountStates' PROVE t \in CountStates \/ t = u
    BY <1>3, <2>1, <2>2 DEF CountStates, u
  <2> QED
    BY <1>7, <2>2 DEF CounterInv
<1>9. CounterTypes'
  <2>1. pos' \in [Counting -> [Counting -> Nat]] /\ neg' \in [Counting -> [Counting -> Nat]]
    BY <1>1, <1>4 DEF CounterTypes, Counter!Increment
  <2> QED
    BY <1>3, <1>4, <2>1 DEF CounterTypes
<1> QED
  BY <1>2, <1>8, <1>9 DEF CounterInv, Noted

LEMMA CountSendInv ==
    ASSUME CounterInv, NEW r \in Counting, Counter!Send(r)
    PROVE  CounterInv'
<1>1. counters' = counters \union {CountState(r)} /\ UNCHANGED <<pos, neg, counted>>
  BY DEF Counter!Send, CountState
<1>2. CountStates' = CountStates
  BY <1>1 DEF CountStates, CountState
<1>3. AllCounts' = AllCounts
  BY <1>2 DEF AllCounts
<1>4. \A q \in Counting : Counter!Own(q)' = Counter!Own(q)
  BY <1>1 DEF Counter!Own
<1> QED
  BY <1>1, <1>2, <1>3, <1>4 DEF CounterInv, CounterTypes

LEMMA CountMergeInv ==
    ASSUME CounterInv, NEW r \in Counting, NEW c \in counters, Counter!MergeClone(r, c)
    PROVE  CounterInv'
<1>1. /\ pos' = [pos EXCEPT ![r] = Counter!Merge(@, c.pos)]
      /\ neg' = [neg EXCEPT ![r] = Counter!Merge(@, c.neg)]
      /\ counted' = [counted EXCEPT ![r] = @ \union c.heard]
      /\ counters' = counters
  BY DEF Counter!MergeClone
<1>2. CounterTypes
  BY DEF CounterInv
<1> DEFINE s == CountState(r)
           u == CountState(r)'
<1>3. s \in CountStates /\ c \in CountStates
  BY DEF CountStates
<1>4. s.heard = counted[r] /\ s.pos = pos[r] /\ s.neg = neg[r]
  BY DEF CountState
<1>5. /\ u.heard = s.heard \union c.heard /\ u.pos = Counter!Merge(s.pos, c.pos)
      /\ u.neg = Counter!Merge(s.neg, c.neg)
      /\ u.heard = counted'[r] /\ u.pos = pos'[r] /\ u.neg = neg'[r]
  BY <1>1, <1>2, <1>4 DEF CounterTypes, CountState
<1> HIDE DEF s, u
<1>6. Exact(s) /\ Exact(c) /\ s.heard \subseteq AllCounts /\ c.heard \subseteq AllCounts
  BY <1>3 DEF CounterInv, AllCounts
<1>7. \A d, x \in s.heard \union c.heard : d.at = x.at /\ d.seq = x.seq => d = x
  BY <1>6 DEF CounterInv
<1>8. Exact(u)
  <2>1. u.heard \in SUBSET Count /\ IsFiniteSet(u.heard)
    <3>1. /\ s.heard \in SUBSET Count /\ c.heard \in SUBSET Count
          /\ IsFiniteSet(s.heard) /\ IsFiniteSet(c.heard)
      BY <1>6 DEF Exact
    <3>2. IsFiniteSet(s.heard \union c.heard)
      BY <3>1, FS_Union
    <3> QED
      BY <1>5, <3>1, <3>2
  <2>2. \A by \in {1, -1} :
          Tally(s.heard \union c.heard, by) = Counter!Merge(Tally(s.heard, by), Tally(c.heard, by))
    BY <1>6, <1>7, MergedTally
  <2>3. u.pos = Tally(u.heard, 1)
    BY <1>5, <1>6, <2>2 DEF Exact
  <2>4. u.neg = Tally(u.heard, -1)
    BY <1>5, <1>6, <2>2 DEF Exact
  <2>5. \A x \in u.heard : \A i \in 0 .. x.seq - 1 : \E d \in u.heard : d.at = x.at /\ d.seq = i
    BY <1>5, <1>6 DEF Exact
  <2> QED
    BY <2>1, <2>3, <2>4, <2>5 DEF Exact
<1>9. ASSUME NEW t \in CountStates' PROVE t \in CountStates \/ t = u
  <2>1. \A q \in Counting \ {r} : CountState(q)' = CountState(q)
    <3>1. \A q \in Counting \ {r} : pos'[q] = pos[q] /\ neg'[q] = neg[q] /\ counted'[q] = counted[q]
      BY <1>1, <1>2 DEF CounterTypes
    <3> QED
      BY <3>1 DEF CountState
  <2> QED
    BY <1>1, <1>9, <2>1 DEF CountStates, u
<1>10. \A t \in CountStates' : Exact(t)
  BY <1>8, <1>9 DEF CounterInv
<1>11. AllCounts' = AllCounts
  <2>1. ASSUME NEW x \in AllCounts' PROVE x \in AllCounts
    <3>1. PICK t \in CountStates' : x \in t.heard
      BY DEF AllCounts
    <3> QED
      BY <1>5, <1>6, <1>9, <3>1 DEF AllCounts
  <2>2. ASSUME NEW x \in AllCounts PROVE x \in AllCounts'
    <3>1. x.at \in Counting /\ x \in counted[x.at]
      <4>1. x \in counted[x.at] /\ \E t \in CountStates : x \in t.heard /\ t.heard \in SUBSET Count
        BY DEF CounterInv, AllCounts, Exact
      <4> QED
        BY <4>1 DEF Count
    <3>2. x \in counted'[x.at]
      BY <1>1, <1>2, <3>1 DEF CounterTypes
    <3>3. CountState(x.at)' \in CountStates' /\ CountState(x.at)'.heard = counted'[x.at]
      BY <3>1 DEF CountStates, CountState
    <3> QED
      BY <3>2, <3>3 DEF AllCounts
  <2> QED
    BY <2>1, <2>2
<1>12. \A q \in Counting : counted[q] \subseteq counted'[q] /\ (q # r => counted'[q] = counted[q])
  BY <1>1, <1>2 DEF CounterTypes
<1>13. \A d \in AllCounts : d.at \in Counting
  <2>1. \A t \in CountStates : t.heard \in SUBSET Count
    BY DEF CounterInv, Exact
  <2> QED
    BY <2>1 DEF AllCounts, Count
<1>14. \A d \in AllCounts : d \in counted'[d.at]
  BY <1>12, <1>13 DEF CounterInv
<1>15. \A q \in Counting : Counter!Own(q)' = Counter!Own(q)
  <2>1. \A x \in c.heard : x.at = r => x \in counted[r]
    BY <1>6 DEF CounterInv
  <2>2. Counter!Own(r)' = Counter!Own(r)
    BY <1>4, <1>5, <2>1 DEF Counter!Own
  <2>3. \A q \in Counting \ {r} : Counter!Own(q)' = Counter!Own(q)
    BY <1>12 DEF Counter!Own
  <2> QED
    BY <2>2, <2>3
<1>16. CounterTypes'
  <2>1. counted' \in [Counting -> SUBSET Count]
    BY <1>1, <1>2, <1>6 DEF CounterTypes, Exact
  <2>2. \A h, by : IsFiniteSet(h) => Tally(h, by) \in [Counting -> Nat]
    BY CountsFinite DEF Tally
  <2>3. u.pos \in [Counting -> Nat] /\ u.neg \in [Counting -> Nat]
    BY <1>8, <2>2 DEF Exact
  <2>4. pos' \in [Counting -> [Counting -> Nat]] /\ neg' \in [Counting -> [Counting -> Nat]]
    BY <1>1, <1>2, <1>4, <1>5, <2>3 DEF CounterTypes
  <2> QED
    BY <2>1, <2>4 DEF CounterTypes
<1> QED
  BY <1>10, <1>11, <1>14, <1>15, <1>16 DEF CounterInv


LEMMA CounterStep == CounterInv /\ [Counter!Next]_counterVars => CounterInv'
<1> SUFFICES ASSUME CounterInv, [Counter!Next]_counterVars PROVE CounterInv'
  OBVIOUS
<1>1. CASE UNCHANGED counterVars
  <2>1. UNCHANGED <<pos, neg, counters, counted>>
    BY <1>1 DEF counterVars
  <2>2. CountStates' = CountStates
    BY <2>1 DEF CountStates, CountState
  <2>3. AllCounts' = AllCounts /\ \A q \in Counting : Counter!Own(q)' = Counter!Own(q)
    BY <2>1, <2>2 DEF AllCounts, Counter!Own
  <2> QED
    BY <2>1, <2>2, <2>3 DEF CounterInv, CounterTypes
<1>2. CASE Counter!Next
  BY <1>2, CountInv, CountSendInv, CountMergeInv DEF Counter!Next
<1> QED
  BY <1>1, <1>2

LEMMA ValueIsSum ==
    ASSUME NEW pile \in [Counting -> Nat]
    PROVE  Counter!Value(pile) = SumOver(pile, Counting)
BY DEF Counter!Value, Counter!MapThenSumSet, Counter!MapThenFoldSet, SumOver, IsIter, Pick

\* The sum of what was heard is, replica by replica, the ups less the downs.
LEMMA HeardIsSum ==
    ASSUME NEW h \in SUBSET Count, IsFiniteSet(h)
    PROVE  Counter!MapThenSumSet(LAMBDA c : c.by, h) = SumOver([c \in h |-> c.by], h)
<1> DEFINE f == [c \in h |-> c.by]
<1>1. f \in [h -> Int]
  BY DEF Count
<1>2. \A i : (i = [s \in SUBSET h |-> IF s = {} THEN 0 ELSE Pick(s).by + i[s \ {Pick(s)}]])
               <=> IsIter(i, f, h)
  <2>1. \A s \in SUBSET h : s # {} => f[Pick(s)] = Pick(s).by
    BY Picked
  <2>2. ASSUME NEW i
        PROVE  [s \in SUBSET h |-> IF s = {} THEN 0 ELSE Pick(s).by + i[s \ {Pick(s)}]]
                 = [s \in SUBSET h |-> IF s = {} THEN 0 ELSE f[Pick(s)] + i[s \ {Pick(s)}]]
    <3> HIDE DEF f
    <3> QED
      BY <2>1
  <2> HIDE DEF f
  <2> QED
    BY <2>2 DEF IsIter
<1> DEFINE P(i) == i = [s \in SUBSET h |-> IF s = {} THEN 0 ELSE Pick(s).by + i[s \ {Pick(s)}]]
<1>3. Counter!MapThenSumSet(LAMBDA c : c.by, h) = (CHOOSE i : P(i))[h]
  BY DEF Counter!MapThenSumSet, Counter!MapThenFoldSet, Pick
<1>4. (CHOOSE i : P(i)) = CHOOSE i : IsIter(i, f, h)
  <2>1. \A i : P(i) <=> IsIter(i, f, h)
    BY <1>2
  <2> HIDE DEF P, f
  <2> QED
    BY <2>1
<1> HIDE DEF P
<1> QED
  BY <1>3, <1>4 DEF SumOver


LEMMA UpsLessDowns ==
    ASSUME NEW h \in SUBSET Count, IsFiniteSet(h), IsFiniteSet(Counting)
    PROVE  SumOver([c \in h |-> c.by], h)
             = SumOver(Tally(h, 1), Counting) - SumOver(Tally(h, -1), Counting)
<1> DEFINE f == [c \in h |-> c.by]
           U(s) == SumOver(Tally(s, 1), Counting)
           D(s) == SumOver(Tally(s, -1), Counting)
<1>1. f \in [h -> Int]
  BY DEF Count
<1>2. PICK i \in [SUBSET h -> Int] : IsIter(i, f, h)
  BY <1>1, IterExists
<1>3. ASSUME NEW s \in SUBSET h, NEW by \in {1, -1}
      PROVE  Tally(s, by) \in [Counting -> Nat] /\ SumOver(Tally(s, by), Counting) \in Int
  <2>1. IsFiniteSet(s)
    BY FS_Subset
  <2>2. Tally(s, by) \in [Counting -> Nat]
    BY <2>1, CountsFinite DEF Tally
  <2>3. Tally(s, by) \in [Counting -> Int]
    BY <2>2
  <2> QED
    BY <2>2, <2>3, SumType
<1> DEFINE Good == {s \in SUBSET h : i[s] = U(s) - D(s)}
<1>4. {} \in Good
  <2>1. \A q, by : CountsOf({}, q, by) = {}
    BY DEF CountsOf
  <2>2. Tally({}, 1) = Tally({}, -1)
    BY <2>1 DEF Tally
  <2>3. U({}) = D({}) /\ U({}) \in Int
    BY <1>3, <2>2
  <2>4. i[{}] = 0
    BY <1>2, IterStep
  <2> HIDE DEF U, D
  <2> QED
    BY <2>3, <2>4
<1>5. ASSUME NEW s \in SUBSET h, s # {}, s \ {Pick(s)} \in Good PROVE s \in Good
  <2> DEFINE t == s \ {Pick(s)}
             c == Pick(s)
  <2>1. c \in s /\ t \in SUBSET h /\ s = t \union {c} /\ c \notin t
    BY <1>5, Picked
  <2>2. i[s] = f[c] + i[t] /\ f[c] = c.by
    BY <1>2, <1>5, <2>1, IterStep
  <2>3. i[t] = U(t) - D(t)
    BY <1>5
  <2> HIDE DEF t, c, f
  <2>4. t \in SUBSET Count /\ IsFiniteSet(t) /\ c \in Count
    BY <2>1, FS_Subset
  <2>5. c.at \in Counting /\ c.by \in {1, -1}
    BY <2>4 DEF Count
  <2>6. \A by \in {1, -1} :
          Tally(s, by) = IF by = c.by THEN [Tally(t, by) EXCEPT ![c.at] = @ + 1] ELSE Tally(t, by)
    <3>1. \A by \in {1, -1} :
            Tally(t \union {c}, by)
              = IF by = c.by THEN [Tally(t, by) EXCEPT ![c.at] = @ + 1] ELSE Tally(t, by)
      <4>1. c \notin t
        BY <2>1
      <4>2. /\ IsFiniteSet(t \union {c})
            /\ \A by \in {1, -1} :
                 /\ Tally(t, by) \in [Counting -> Nat]
                 /\ Tally(t \union {c}, by)
                      = IF by = c.by THEN [Tally(t, by) EXCEPT ![c.at] = @ + 1] ELSE Tally(t, by)
        BY <2>4, <4>1, TallyOneMore, Zenon
      <4> QED
        BY <4>2
    <3> QED
      BY <2>1, <3>1
  <2>7. SumOver(Tally(s, c.by), Counting) = SumOver(Tally(t, c.by), Counting) + 1
    <3> DEFINE g == Tally(t, c.by)
               k == Tally(s, c.by)
    <3>1. g \in [Counting -> Nat] /\ k \in [Counting -> Nat]
      BY <1>3, <2>1, <2>5
    <3>2. k = [g EXCEPT ![c.at] = @ + 1]
      BY <2>5, <2>6
    <3> HIDE DEF g, k
    <3>3. /\ g \in [Counting -> Int] /\ k \in [Counting -> Int]
          /\ k[c.at] - g[c.at] = 1 /\ \A x \in Counting : x # c.at => k[x] = g[x]
      BY <2>5, <3>1, <3>2
    <3>4. SumOver(k, Counting) = SumOver(g, Counting) + (k[c.at] - g[c.at])
      BY <2>5, <3>3, SumUpdate
    <3>5. SumOver(k, Counting) = SumOver(g, Counting) + 1
      BY <3>3, <3>4
    <3> QED
      BY <3>5 DEF g, k
  <2>8. /\ U(s) \in Int /\ D(s) \in Int /\ U(t) \in Int /\ D(t) \in Int
    BY <1>3, <2>1
  <2>9. U(s) - D(s) = (U(t) - D(t)) + c.by
    <3>1. CASE c.by = 1
      <4>1. U(s) = U(t) + 1
        BY <2>7, <3>1
      <4>2. D(s) = D(t)
        BY <2>6, <3>1
      <4> HIDE DEF U, D
      <4> QED
        BY <2>8, <3>1, <4>1, <4>2
    <3>2. CASE c.by = -1
      <4>1. D(s) = D(t) + 1
        BY <2>7, <3>2
      <4>2. U(s) = U(t)
        BY <2>6, <3>2
      <4> HIDE DEF U, D
      <4> QED
        BY <2>8, <3>2, <4>1, <4>2
    <3> QED
      BY <2>5, <3>1, <3>2
  <2> HIDE DEF U, D
  <2>10. i[s] = U(s) - D(s)
    BY <2>2, <2>3, <2>5, <2>8, <2>9
  <2> QED
    BY <2>10
<1>6. Good \in SUBSET SUBSET h
  OBVIOUS
<1> HIDE DEF Good, f
<1>7. h \in Good
  BY <1>4, <1>5, <1>6, Induct
<1>8. i[h] = U(h) - D(h)
  BY <1>7 DEF Good
<1>9. SumOver(f, h) = i[h]
  BY <1>1, <1>2, SumIs
<1> QED
  BY <1>8, <1>9 DEF f

LEMMA CounterHolds == CounterInv => ShowsWhatItHeard
<1> SUFFICES ASSUME CounterInv, NEW r \in Counting
             PROVE  /\ Counter!Value(pos[r]) - Counter!Value(neg[r])
                         = Counter!MapThenSumSet(LAMBDA c : c.by, counted[r])
                    /\ \A q \in Counting :
                         counted[r] = counted[q] => pos[r] = pos[q] /\ neg[r] = neg[q]
  BY DEF ShowsWhatItHeard, Counter!CountedOnce
<1>1. ASSUME NEW q \in Counting
      PROVE  /\ counted[q] \in SUBSET Count /\ IsFiniteSet(counted[q])
             /\ pos[q] = Tally(counted[q], 1) /\ neg[q] = Tally(counted[q], -1)
             /\ pos[q] \in [Counting -> Nat] /\ neg[q] \in [Counting -> Nat]
  <2>1. Exact(CountState(q))
    BY DEF CounterInv, CountStates
  <2> QED
    BY <2>1 DEF Exact, CountState, CounterInv, CounterTypes
<1>2. IsFiniteSet(Counting)
  BY ReplicasAssumption
<1>3. /\ Counter!Value(pos[r]) = SumOver(pos[r], Counting)
      /\ Counter!Value(neg[r]) = SumOver(neg[r], Counting)
  BY <1>1, ValueIsSum
<1>4. Counter!MapThenSumSet(LAMBDA c : c.by, counted[r]) = SumOver([c \in counted[r] |-> c.by], counted[r])
  BY <1>1, HeardIsSum
<1>5. SumOver([c \in counted[r] |-> c.by], counted[r]) = SumOver(pos[r], Counting) - SumOver(neg[r], Counting)
  BY <1>1, <1>2, UpsLessDowns
<1>6. \A q \in Counting : counted[r] = counted[q] => pos[r] = pos[q] /\ neg[r] = neg[q]
  BY <1>1
<1> QED
  BY <1>3, <1>4, <1>5, <1>6

\* 12: a counter shows the sum of the counts its replica has heard of, each
\* once, and replicas that heard of the same hold the same: for any replicas
\* and gossip, however late and often it comes.
THEOREM CountedOnceHolds == EnsembleSpec => []ShowsWhatItHeard
<1>1. EnsembleInit => CounterInv
  BY CounterInit DEF EnsembleInit
<1>2. [EnsembleNext]_allVars => [Counter!Next]_counterVars
  <2>1. EnsembleNext => [Counter!Next]_counterVars
    BY DEF EnsembleNext, AtRest
  <2>2. UNCHANGED allVars => UNCHANGED counterVars
    BY DEF allVars
  <2> QED
    BY <2>1, <2>2
<1>3. CounterInv /\ [EnsembleNext]_allVars => CounterInv'
  BY <1>2, CounterStep
<1>4. CounterInv => ShowsWhatItHeard
  BY CounterHolds
<1> QED
  BY <1>1, <1>3, <1>4, PTL DEF EnsembleSpec

-----------------------------------------------------------------------------
(* The lock-free stack.  What is on the stack is a chain of nodes.  A node  *)
(* is shared from the exchange that puts it there, for good, and from then  *)
(* on nobody writes it: so what a pop has read of a node is still true when *)
(* its exchange finds that very node on top, whatever came and went in      *)
(* between.                                                                 *)

Pointer == Treiber!Address \union {Null}
Result == Treiber!Address \union {None}

Locals == [pc : {"call", "load", "next", "swap", "won"}, node : Pointer,
           seen : Pointer, next : Pointer]

\* The nodes that are on the stack or were.
Shared == boxed \ {at[t].node : t \in Popper}

StackTypes ==
    /\ boxed \subseteq Treiber!Address
    /\ cell \in [Treiber!Address -> [value : Result, next : Pointer]]
    /\ at \in [Popper -> Locals]
    /\ returned \in [Popper -> Seq(Result)]

\* Where a thread is in its push, or in its pop.
Pushing(t) ==
    /\ at[t].pc \in {"load", "swap"} /\ at[t].node \in boxed
    /\ cell[at[t].node].value = <<t, Len(returned[t]) + 1>>
    /\ at[t].pc = "swap" => cell[at[t].node].next = at[t].seen

Popping(t) ==
    /\ at[t].pc \in {"next", "swap", "won"} => at[t].seen # Null
    /\ at[t].pc = "swap" => at[t].next = cell[at[t].seen].next

Doing(t) ==
    /\ at[t].seen \in Shared \union {Null}
    /\ IF at[t].node = Null THEN Popping(t) ELSE Pushing(t)

\* Every node is of a push of its own, and is linked to what is shared.
Made(a) ==
    /\ cell[a].value \in Treiber!Address
    /\ \/ cell[a].value[2] <= Len(returned[cell[a].value[1]])
       \/ at[cell[a].value[1]].node = a
    /\ cell[a].next \in Shared \union {Null}

\* The i-th node of a chain, the null pointer below the last.
Nth(chain, i) == IF i <= Len(chain) THEN chain[i] ELSE Null

Chained(chain) ==
    /\ chain \in Seq(Shared)
    /\ \A i, k \in 1 .. Len(chain) : chain[i] = chain[k] => i = k
    /\ top = Nth(chain, 1)
    /\ \A i \in 1 .. Len(chain) : cell[chain[i]].next = Nth(chain, i + 1)

StackInv ==
    /\ StackTypes
    /\ \A t \in Popper : Doing(t)
    /\ \A a \in boxed : Made(a)
    /\ \A a, b \in boxed : cell[a].value = cell[b].value => a = b
    /\ \E chain : Chained(chain)

\* What Treiber!Abstract is told the stack is, and the chain says it is.
Stacked == Treiber!From(top, Treiber!Cardinality(Treiber!Address))
Values(chain) == [i \in 1 .. Len(chain) |-> cell[chain[i]].value]

\* What a thread is in the middle of is what its program says.
CalledInv ==
    \A t \in Popper : at[t].pc # "call" =>
        /\ Len(returned[t]) < Len(Script[t])
        /\ Script[t][Len(returned[t]) + 1] = IF at[t].node = Null THEN "pop" ELSE "push"

Got(t) ==
    IF at[t].pc = "won" THEN Append(returned[t], cell[at[t].seen].value) ELSE returned[t]
Outcome == [t \in Popper |-> Got(t)]

LEMMA Addresses ==
    /\ Null \notin Treiber!Address
    /\ IsFiniteSet(Treiber!Address) /\ Cardinality(Treiber!Address) \in Nat
    /\ \A a \in Treiber!Address : a = <<a[1], a[2]>> /\ a[1] \in Popper /\ a[2] \in Nat
    /\ \A t \in Popper : Len(Script[t]) \in Nat /\ DOMAIN Script[t] = 1 .. Len(Script[t])
    /\ \A t \in Popper : \A i \in 1 .. Len(Script[t]) :
         Script[t][i] = "push" => <<t, i>> \in Treiber!Address
<1>1. /\ Script \in [Popper -> Seq({"push", "pop"})] /\ Null \notin Treiber!Address
      /\ IsFiniteSet(Treiber!Address)
  BY StackAssumption DEF Treiber!ProgramsFit, Treiber!IsFiniteSet, IsFiniteSet
<1>2. \A t \in Popper : Script[t] \in Seq({"push", "pop"})
  BY <1>1
<1>3. \A t \in Popper : Len(Script[t]) \in Nat /\ DOMAIN Script[t] = 1 .. Len(Script[t])
  BY <1>2
<1>4. \A a \in Treiber!Address : a = <<a[1], a[2]>> /\ a[1] \in Popper /\ a[2] \in Nat
  BY <1>3 DEF Treiber!Address
<1>5. \A t \in Popper : \A i \in 1 .. Len(Script[t]) :
         Script[t][i] = "push" => <<t, i>> \in Treiber!Address
  BY <1>3 DEF Treiber!Address
<1> QED
  BY <1>1, <1>3, <1>4, <1>5, FS_CardinalityType

\* A chain is no longer than there are addresses.
LEMMA ChainShort ==
    ASSUME StackTypes, NEW chain, Chained(chain)
    PROVE  /\ Len(chain) \in 0 .. Cardinality(Treiber!Address)
           /\ DOMAIN chain = 1 .. Len(chain)
           /\ \A i \in 1 .. Len(chain) : chain[i] \in Shared
<1> DEFINE n == Len(chain)
<1>1. chain \in Seq(Shared) /\ n \in Nat /\ DOMAIN chain = 1 .. n
      /\ \A i \in 1 .. n : chain[i] \in Shared
  BY DEF Chained
<1>2. Shared \subseteq Treiber!Address
  BY DEF StackTypes, Shared
<1>3. chain \in Injection(1 .. n, Treiber!Address)
  <2>1. chain \in [1 .. n -> Treiber!Address]
    BY <1>1, <1>2
  <2>2. \A i, k \in 1 .. n : chain[i] = chain[k] => i = k
    BY DEF Chained
  <2> QED
    BY <2>1, <2>2 DEF Injection, IsInjective
<1>4. Cardinality(1 .. n) <= Cardinality(Treiber!Address)
  BY <1>3, Addresses, FS_Injection
<1>5. Cardinality(1 .. n) = n
  <2>1. Cardinality(1 .. n) = IF 1 > n THEN 0 ELSE n - 1 + 1
    BY <1>1, FS_Interval
  <2> QED
    BY <1>1, <2>1
<1> QED
  BY <1>1, <1>4, <1>5, Addresses

LEMMA SameCardinality2 == \A S : Treiber!Cardinality(S) = Cardinality(S)
BY DEF Treiber!Cardinality, Cardinality

\* The values from the top downwards are those of the chain.
LEMMA StackedIs == StackInv => \A chain : Chained(chain) => Stacked = Values(chain)
<1> SUFFICES ASSUME StackInv, NEW chain, Chained(chain) PROVE Stacked = Values(chain)
  OBVIOUS
<1> DEFINE n == Treiber!Cardinality(Treiber!Address)
           m == Len(chain)
           B(f, k) == IF k = 0 THEN top
                      ELSE IF f[k - 1] = Null THEN Null ELSE cell[f[k - 1]].next
           Is(f) == f = [k \in 0 .. n |-> B(f, k)]
           walk == [k \in 0 .. n |-> Nth(chain, k + 1)]
           below == CHOOSE f : Is(f)
<1>1. m \in Nat /\ n \in Nat /\ m <= n /\ \A i \in 1 .. m : chain[i] \in Shared
  BY ChainShort, Addresses, SameCardinality2 DEF StackInv
<1>2. \A i \in 1 .. m : chain[i] # Null
  BY <1>1, Addresses DEF StackInv, StackTypes, Shared
<1>3. Is(walk)
  <2>1. ASSUME NEW k \in 0 .. n PROVE Nth(chain, k + 1) = B(walk, k)
    <3>1. CASE k = 0
      BY <3>1 DEF Chained
    <3>2. CASE k # 0
      <4>1. k - 1 \in 0 .. n /\ (k - 1) + 1 = k
        BY <1>1, <3>2
      <4>2. walk[k - 1] = Nth(chain, k)
        BY <4>1
      <4>3. CASE k <= m
        <5>1. k \in 1 .. m /\ walk[k - 1] = chain[k]
          BY <1>1, <3>2, <4>2, <4>3 DEF Nth
        <5>2. cell[chain[k]].next = Nth(chain, k + 1)
          BY <5>1 DEF Chained
        <5> QED
          BY <1>2, <3>2, <5>1, <5>2
      <4>4. CASE k > m
        <5>1. walk[k - 1] = Null /\ Nth(chain, k + 1) = Null
          BY <1>1, <3>2, <4>2, <4>4 DEF Nth
        <5> QED
          BY <3>2, <5>1
      <4> QED
        BY <1>1, <4>3, <4>4
    <3> QED
      BY <3>1, <3>2
  <2> HIDE DEF B
  <2> QED
    BY <2>1
<1>4. ASSUME NEW f, Is(f) PROVE f = walk
  <2>1. \A k \in 0 .. n : f[k] = B(f, k) /\ walk[k] = B(walk, k)
    <3> HIDE DEF B, walk
    <3> QED
      BY <1>3, <1>4
  <2> DEFINE G == {k \in 0 .. n : f[k] = walk[k]}
  <2> HIDE DEF walk
  <2>2. 0 \in G
    BY <1>1, <2>1
  <2>3. ASSUME NEW k \in 0 .. n, k < n, k \in G PROVE k + 1 \in G
    <3>1. k + 1 \in 0 .. n /\ k + 1 # 0 /\ (k + 1) - 1 = k /\ f[k] = walk[k]
      BY <1>1, <2>3
    <3>2. f[k + 1] = IF f[k] = Null THEN Null ELSE cell[f[k]].next
      BY <2>1, <3>1
    <3>3. walk[k + 1] = IF walk[k] = Null THEN Null ELSE cell[walk[k]].next
      BY <2>1, <3>1
    <3> QED
      BY <3>1, <3>2, <3>3
  <2>4. \A k \in 0 .. n : k \in G
    <3> HIDE DEF G, B, Is, n
    <3> QED
      BY <1>1, <2>2, <2>3, UpTo
  <2>5. f = [k \in 0 .. n |-> f[k]]
    BY <1>4
  <2>6. walk = [k \in 0 .. n |-> walk[k]]
    BY <1>3
  <2> HIDE DEF Is, B
  <2> QED
    BY <2>4, <2>5, <2>6
<1>5. below = walk
  <2> HIDE DEF Is, walk
  <2> QED
    BY <1>3, <1>4
<1>6. {k \in 0 .. n : walk[k] # Null} = 0 .. m - 1
  BY <1>1, <1>2 DEF Nth
<1>7. Cardinality(0 .. m - 1) = m
  <2>1. Cardinality(0 .. m - 1) = IF 0 > m - 1 THEN 0 ELSE (m - 1) - 0 + 1
    <3>1. 0 \in Int /\ m - 1 \in Int
      BY <1>1
    <3> HIDE DEF m, walk, below, n
    <3> QED
      BY <3>1, FS_Interval
  <2> QED
    BY <1>1, <2>1
<1>8. Stacked = [k \in 1 .. Treiber!Cardinality({i \in 0 .. n : below[i] # Null}) |->
                     cell[below[k - 1]].value]
  BY DEF Stacked, Treiber!From
<1>9. \A k \in 1 .. m : walk[k - 1] = chain[k]
  BY <1>1 DEF Nth
<1> HIDE DEF below, walk
<1> QED
  BY <1>5, <1>6, <1>7, <1>8, <1>9, SameCardinality2 DEF Values

LEMMA StackedNext == (StackInv => \A chain : Chained(chain) => Stacked = Values(chain))'
BY StackedIs, PTL

-----------------------------------------------------------------------------
\* The other threads and the nodes, when t takes a step.

LEMMA Mine ==
    ASSUME StackInv, NEW t \in Popper, NEW u \in Popper, at[t].node # Null,
           at[u].node = at[t].node
    PROVE  u = t
<1>1. Doing(t) /\ Doing(u)
  BY DEF StackInv
<1>2. cell[at[t].node].value = <<t, Len(returned[t]) + 1>>
      /\ cell[at[u].node].value = <<u, Len(returned[u]) + 1>>
  BY <1>1 DEF Doing, Pushing
<1> QED
  BY <1>2

LEMMA OtherThread ==
    ASSUME StackInv, NEW t \in Popper, NEW u \in Popper, u # t,
           at'[u] = at[u], returned'[u] = returned[u],
           Shared \subseteq Shared', boxed \subseteq boxed',
           \A a \in boxed : a # at[t].node => cell'[a] = cell[a]
    PROVE  Doing(u)' /\ Got(u)' = Got(u)
<1>1. Doing(u)
  BY DEF StackInv
<1>2. at[u].seen # Null => at[u].seen \in Shared /\ cell'[at[u].seen] = cell[at[u].seen]
  <2>1. \A a \in Shared : a \in boxed /\ a # at[t].node
    BY DEF Shared
  <2> QED
    BY <1>1, <2>1 DEF Doing
<1>3. at[u].seen \in Shared' \union {Null}
  BY <1>1 DEF Doing
<1>4. CASE at[u].node = Null
  <2>1. Popping(u)
    BY <1>1, <1>4 DEF Doing
  <2>2. Popping(u)'
    BY <1>2, <2>1 DEF Popping
  <2>3. Got(u)' = Got(u)
    BY <1>2, <2>1 DEF Got, Popping
  <2> QED
    BY <1>3, <1>4, <2>2, <2>3 DEF Doing
<1>5. CASE at[u].node # Null
  <2>1. Pushing(u) /\ at[u].node # at[t].node
    BY <1>1, <1>5, Mine DEF Doing
  <2>2. cell'[at[u].node] = cell[at[u].node]
    BY <2>1 DEF Pushing
  <2>3. Pushing(u)'
    BY <2>1, <2>2 DEF Pushing
  <2>4. Got(u)' = Got(u)
    BY <2>1 DEF Got, Pushing
  <2> QED
    BY <1>3, <1>5, <2>3, <2>4 DEF Doing
<1> QED
  BY <1>4, <1>5

LEMMA OtherNode ==
    ASSUME StackInv, NEW t \in Popper, NEW a \in boxed,
           \A u \in Popper : u # t => at'[u] = at[u] /\ returned'[u] = returned[u],
           Len(returned'[t]) \in Nat, Len(returned'[t]) >= Len(returned[t]),
           at[t].node = a => at'[t].node = a \/ Len(returned'[t]) > Len(returned[t]),
           cell'[a].value = cell[a].value, cell'[a].next \in Shared' \union {Null}
    PROVE  Made(a)'
<1> DEFINE u == cell[a].value[1]
<1>1. Made(a) /\ u \in Popper /\ cell[a].value[2] \in Nat /\ Len(returned[u]) \in Nat
      /\ Len(returned[t]) \in Nat
  <2>1. Made(a)
    BY DEF StackInv
  <2>2. u \in Popper /\ cell[a].value[2] \in Nat
    BY <2>1, Addresses DEF Made
  <2>3. \A q \in Popper : returned[q] \in Seq(Result)
    BY DEF StackInv, StackTypes
  <2> QED
    BY <2>1, <2>2, <2>3
<1>2. \/ cell[a].value[2] <= Len(returned'[u])
      \/ at'[u].node = a
  <2>1. CASE u # t
    BY <1>1, <2>1 DEF Made
  <2>2. CASE u = t /\ at[t].node # a
    BY <1>1, <2>2 DEF Made
  <2>3. CASE u = t /\ at[t].node = a
    <3>1. a # Null
      BY Addresses DEF StackInv, StackTypes
    <3>2. Pushing(t)
      BY <2>3, <3>1 DEF StackInv, Doing
    <3>3. cell[a].value[2] = Len(returned[t]) + 1
      BY <2>3, <3>2 DEF Pushing
    <3> QED
      BY <1>1, <2>3, <3>3
  <2> QED
    BY <2>1, <2>2, <2>3
<1> QED
  BY <1>1, <1>2 DEF Made

LEMMA ChainStays ==
    ASSUME StackInv, NEW chain, Chained(chain), top' = top, Shared \subseteq Shared',
           \A a \in Shared : cell'[a] = cell[a]
    PROVE  Chained(chain)' /\ Values(chain)' = Values(chain)
<1>1. /\ chain \in Seq(Shared) /\ top = Nth(chain, 1) /\ Len(chain) \in Nat
      /\ \A i, k \in 1 .. Len(chain) : chain[i] = chain[k] => i = k
      /\ \A i \in 1 .. Len(chain) : chain[i] \in Shared /\ cell[chain[i]].next = Nth(chain, i + 1)
  BY DEF Chained
<1>2. chain \in Seq(Shared')
  <2>1. \A i \in 1 .. Len(chain) : chain[i] \in Shared'
    BY <1>1
  <2>2. chain = [i \in 1 .. Len(chain) |-> chain[i]]
    BY <1>1
  <2> HIDE DEF Shared
  <2> QED
    BY <1>1, <2>1, <2>2
<1>3. \A i \in 1 .. Len(chain) : cell'[chain[i]] = cell[chain[i]]
  BY <1>1
<1>4. Chained(chain)'
  BY <1>1, <1>2, <1>3 DEF Chained, Nth
<1> QED
  BY <1>3, <1>4 DEF Values

-----------------------------------------------------------------------------
\* The steps of the abstract stack.

LEMMA AbstractStays ==
    ASSUME Stacked' = Stacked, Outcome' = Outcome
    PROVE  Treiber!AbstractStep
BY DEF Treiber!AbstractStep, Treiber!Abstract!vars, Stacked, Outcome, Got

LEMMA AbstractPush ==
    ASSUME NEW t \in Popper, Len(Outcome[t]) < Len(Script[t]),
           Script[t][Len(Outcome[t]) + 1] = "push",
           Stacked' = <<<<t, Len(Outcome[t]) + 1>>>> \o Stacked,
           Outcome' = [Outcome EXCEPT ![t] = Append(@, None)]
    PROVE  Treiber!AbstractStep
BY DEF Treiber!AbstractStep, Treiber!Abstract!vars, Treiber!Abstract!Next, Treiber!Abstract!Push,
       Treiber!Abstract!Calls, Treiber!Abstract!Returns, Treiber!Abstract!Value, Stacked, Outcome, Got

LEMMA AbstractPop ==
    ASSUME NEW t \in Popper, Len(Outcome[t]) < Len(Script[t]),
           Script[t][Len(Outcome[t]) + 1] = "pop",
           Stacked # <<>>, Stacked' = Tail(Stacked),
           Outcome' = [Outcome EXCEPT ![t] = Append(@, Head(Stacked))]
    PROVE  Treiber!AbstractStep
BY DEF Treiber!AbstractStep, Treiber!Abstract!vars, Treiber!Abstract!Next, Treiber!Abstract!Pop,
       Treiber!Abstract!Calls, Treiber!Abstract!Returns, Stacked, Outcome, Got

LEMMA AbstractPopNothing ==
    ASSUME NEW t \in Popper, Len(Outcome[t]) < Len(Script[t]),
           Script[t][Len(Outcome[t]) + 1] = "pop",
           Stacked = <<>>, Stacked' = Stacked,
           Outcome' = [Outcome EXCEPT ![t] = Append(@, None)]
    PROVE  Treiber!AbstractStep
BY DEF Treiber!AbstractStep, Treiber!Abstract!vars, Treiber!Abstract!Next,
       Treiber!Abstract!PopNothing, Treiber!Abstract!Calls, Treiber!Abstract!Returns, Stacked, Outcome, Got

-----------------------------------------------------------------------------
\* Steps that change no node: those of a pop, and a push that tries again.

LEMMA OutcomeSame ==
    ASSUME \A u \in Popper : Got(u)' = Got(u)
    PROVE  Outcome' = Outcome
BY DEF Outcome

LEMMA LightStep ==
    ASSUME StackInv, NEW t \in Popper, cell' = cell, boxed' = boxed,
           NEW l \in Locals, at' = [at EXCEPT ![t] = l], l.node = at[t].node,
           l.seen \in Shared \union {Null},
           returned' \in [Popper -> Seq(Result)],
           \A u \in Popper : u # t => returned'[u] = returned[u],
           Len(returned'[t]) >= Len(returned[t]),
           IF l.node = Null
           THEN /\ l.pc \in {"next", "swap", "won"} => l.seen # Null
                /\ l.pc = "swap" => l.next = cell[l.seen].next
           ELSE l.pc = "load" /\ returned'[t] = returned[t]
    PROVE  /\ Shared' = Shared /\ StackTypes'
           /\ \A u \in Popper : Doing(u)'
           /\ \A u \in Popper : u # t => Got(u)' = Got(u)
           /\ \A a \in boxed' : Made(a)'
           /\ \A a, b \in boxed' : cell'[a].value = cell'[b].value => a = b
<1>0. at \in [Popper -> Locals] /\ \A u \in Popper : returned'[u] \in Seq(Result)
  BY DEF StackInv, StackTypes
<1>1. at'[t] = l /\ \A u \in Popper : u # t => at'[u] = at[u]
  BY <1>0
<1>2. StackTypes'
  BY <1>0 DEF StackInv, StackTypes, Pointer, Result, Locals
<1>3. Shared' = Shared
  <2>1. \A u \in Popper : at'[u].node = at[u].node
    BY <1>1
  <2> QED
    BY <2>1 DEF Shared
<1>4. Doing(t)'
  <2>1. CASE l.node = Null
    BY <1>1, <1>3, <2>1 DEF Doing, Popping
  <2>2. CASE l.node # Null
    <3>1. Pushing(t)
      BY <2>2 DEF StackInv, Doing
    <3> QED
      BY <1>1, <1>3, <2>2, <3>1 DEF Doing, Pushing
  <2> QED
    BY <2>1, <2>2
<1>5. \A u \in Popper : u # t => Doing(u)' /\ Got(u)' = Got(u)
  <2> SUFFICES ASSUME NEW u \in Popper, u # t PROVE Doing(u)' /\ Got(u)' = Got(u)
    OBVIOUS
  <2>1. at'[u] = at[u]
    BY <1>1
  <2> QED
    BY <1>3, <2>1, OtherThread
<1>6. ASSUME NEW a \in boxed PROVE Made(a)'
  <2>1. cell[a].next \in Shared \union {Null}
    BY DEF StackInv, Made
  <2>2. Len(returned'[t]) \in Nat
    BY <1>0
  <2> QED
    BY <1>1, <1>3, <2>1, <2>2, OtherNode
<1>7. \A a, b \in boxed : cell[a].value = cell[b].value => a = b
  BY DEF StackInv
<1> QED
  BY <1>2, <1>3, <1>4, <1>5, <1>6, <1>7

\* If the stack is the same too.
LEMMA LightStays ==
    ASSUME StackInv, cell' = cell, boxed' = boxed, top' = top, Shared' = Shared, StackTypes',
           \A u \in Popper : Doing(u)', \A a \in boxed' : Made(a)',
           \A a, b \in boxed' : cell'[a].value = cell'[b].value => a = b
    PROVE  StackInv' /\ Stacked' = Stacked
<1>1. PICK chain : Chained(chain)
  BY DEF StackInv
<1>2. Chained(chain)' /\ Values(chain)' = Values(chain)
  BY <1>1, ChainStays
<1>3. StackInv'
  BY <1>2 DEF StackInv
<1> QED
  BY <1>1, <1>2, <1>3, StackedIs, StackedNext

\* Then nothing happens to the abstract stack, but for what t returns.
LEMMA QuietStep ==
    ASSUME StackInv, NEW t \in Popper, cell' = cell, boxed' = boxed, top' = top,
           NEW l \in Locals, at' = [at EXCEPT ![t] = l], l.node = at[t].node,
           l.seen \in Shared \union {Null},
           returned' \in [Popper -> Seq(Result)],
           \A u \in Popper : u # t => returned'[u] = returned[u],
           Len(returned'[t]) >= Len(returned[t]),
           IF l.node = Null
           THEN /\ l.pc \in {"next", "swap", "won"} => l.seen # Null
                /\ l.pc = "swap" => l.next = cell[l.seen].next
           ELSE l.pc = "load" /\ returned'[t] = returned[t]
    PROVE  /\ StackInv' /\ Stacked' = Stacked
           /\ \A u \in Popper : u # t => Got(u)' = Got(u)
<1>1. /\ Shared' = Shared /\ StackTypes'
      /\ \A u \in Popper : Doing(u)'
      /\ \A u \in Popper : u # t => Got(u)' = Got(u)
      /\ \A a \in boxed' : Made(a)'
      /\ \A a, b \in boxed' : cell'[a].value = cell'[b].value => a = b
  BY LightStep
<1> QED
  BY <1>1, LightStays

\* What the invariant says of one thread.
LEMMA LocalsOf ==
    ASSUME StackInv, NEW t \in Popper
    PROVE  /\ at \in [Popper -> Locals]
           /\ at[t] \in Locals /\ at[t].pc \in {"call", "load", "next", "swap", "won"}
           /\ at[t].node \in Pointer /\ at[t].seen \in Pointer /\ at[t].next \in Pointer
<1>1. at \in [Popper -> Locals]
  BY DEF StackInv, StackTypes
<1>2. at[t] \in Locals
  BY <1>1
<1> QED
  BY <1>1, <1>2 DEF Locals

LEMMA PlaceOf ==
    ASSUME StackInv, NEW t \in Popper
    PROVE  /\ at[t].seen \in Shared \union {Null}
           /\ at[t].pc \notin {"load", "swap"} => at[t].node = Null
           /\ at[t].node = Null => Popping(t)
           /\ at[t].node # Null => Pushing(t)
<1>1. Doing(t)
  BY DEF StackInv
<1> QED
  BY <1>1 DEF Doing, Pushing

LEMMA ResultsOf ==
    ASSUME StackInv, NEW t \in Popper
    PROVE  /\ returned \in [Popper -> Seq(Result)]
           /\ returned[t] \in Seq(Result) /\ Len(returned[t]) \in Nat
           /\ \A x \in Result : LET r == [returned EXCEPT ![t] = Append(@, x)] IN
                /\ r \in [Popper -> Seq(Result)] /\ r[t] = Append(returned[t], x)
                /\ Len(r[t]) = Len(returned[t]) + 1
                /\ \A u \in Popper : u # t => r[u] = returned[u]
<1>1. returned \in [Popper -> Seq(Result)]
  BY DEF StackInv, StackTypes
<1>2. returned[t] \in Seq(Result) /\ Len(returned[t]) \in Nat
  BY <1>1
<1>3. \A x \in Result : /\ Append(returned[t], x) \in Seq(Result)
                        /\ Len(Append(returned[t], x)) = Len(returned[t]) + 1
  BY <1>2
<1> QED
  BY <1>1, <1>2, <1>3

LEMMA NodesOf ==
    ASSUME StackInv
    PROVE  /\ Shared \subseteq boxed /\ boxed \subseteq Treiber!Address
           /\ Null \notin boxed /\ Null \in Pointer
           /\ \A a \in boxed : cell[a].value \in Result /\ cell[a].next \in Pointer
           /\ cell \in [Treiber!Address -> [value : Result, next : Pointer]]
<1>1. boxed \subseteq Treiber!Address /\ Shared \subseteq boxed
      /\ cell \in [Treiber!Address -> [value : Result, next : Pointer]]
  BY DEF StackInv, StackTypes, Shared
<1>2. \A a \in boxed : cell[a].value \in Result /\ cell[a].next \in Pointer
  BY <1>1
<1> QED
  BY <1>1, <1>2, Addresses DEF Pointer

LEMMA PopNextStep ==
    ASSUME StackInv, NEW t \in Popper, Treiber!PopNext(t)
    PROVE  StackInv' /\ Treiber!AbstractStep
<1> DEFINE l == [at[t] EXCEPT !.pc = "swap", !.next = cell[at[t].seen].next]
<1>1. /\ at[t].pc = "next" /\ top' = top /\ cell' = cell /\ boxed' = boxed
      /\ returned' = returned
      /\ at' = [at EXCEPT ![t].pc = "swap", ![t].next = cell[at[t].seen].next]
  BY DEF Treiber!PopNext
<1>2. at[t].node = Null /\ at[t].seen \in Shared /\ at[t].seen # Null
  BY <1>1, PlaceOf DEF Popping
<1>3. at' = [at EXCEPT ![t] = l]
  BY <1>1, LocalsOf
<1>4. /\ l.pc = "swap" /\ l.node = Null /\ l.seen = at[t].seen /\ l.next = cell[at[t].seen].next
      /\ l \in Locals
  <2>1. at[t] \in Locals /\ cell[at[t].seen].next \in Pointer
    BY <1>2, LocalsOf, NodesOf
  <2> QED
    BY <1>2, <2>1 DEF Locals
<1>5. at'[t] = l
  BY <1>3, LocalsOf
<1>6. Got(t)' = Got(t)
  BY <1>1, <1>4, <1>5 DEF Got
<1>7. StackInv' /\ Stacked' = Stacked /\ \A u \in Popper : u # t => Got(u)' = Got(u)
  <2>1. l.node = at[t].node /\ l.seen \in Shared \union {Null} /\ l.node = Null
        /\ l.seen # Null /\ l.next = cell[l.seen].next
    BY <1>2, <1>4
  <2>2. returned' \in [Popper -> Seq(Result)] /\ Len(returned'[t]) >= Len(returned[t])
        /\ \A u \in Popper : u # t => returned'[u] = returned[u]
    BY <1>1, ResultsOf
  <2> HIDE DEF l
  <2> QED
    BY <1>1, <1>3, <1>4, <2>1, <2>2, QuietStep
<1> QED
  BY <1>6, <1>7, OutcomeSame, AbstractStays

\* The exchange fails, of a push or of a pop.
LEMMA TryAgain ==
    ASSUME StackInv, NEW t \in Popper, at[t].pc = "swap", at' = [at EXCEPT ![t].pc = "load"],
           top' = top, cell' = cell, boxed' = boxed, returned' = returned
    PROVE  StackInv' /\ Treiber!AbstractStep
<1> DEFINE l == [pc |-> "load", node |-> at[t].node, seen |-> at[t].seen, next |-> at[t].next]
<1>1. at' = [at EXCEPT ![t] = l]
  <2>1. at' = [at EXCEPT ![t] = [at[t] EXCEPT !.pc = "load"]]
    BY LocalsOf
  <2>2. [at[t] EXCEPT !.pc = "load"] = l
    <3>1. at[t] \in Locals
      BY LocalsOf
    <3> QED
      BY <3>1 DEF Locals
  <2> QED
    BY <2>1, <2>2
<1>2. l \in Locals
  BY LocalsOf DEF Locals
<1>3. at'[t] = l
  BY <1>1, LocalsOf
<1>4. Got(t)' = Got(t)
  BY <1>3 DEF Got
<1>5. StackInv' /\ Stacked' = Stacked /\ \A u \in Popper : u # t => Got(u)' = Got(u)
  <2>1. l.node = at[t].node /\ l.seen \in Shared \union {Null} /\ l.pc = "load"
    BY PlaceOf
  <2>2. returned' \in [Popper -> Seq(Result)] /\ Len(returned'[t]) >= Len(returned[t])
        /\ \A u \in Popper : u # t => returned'[u] = returned[u]
    BY ResultsOf
  <2> HIDE DEF l
  <2> QED
    BY <1>1, <1>2, <2>1, <2>2, QuietStep
<1> QED
  BY <1>4, <1>5, OutcomeSame, AbstractStays

LEMMA TopIs ==
    ASSUME StackInv
    PROVE  /\ top \in Shared \union {Null}
           /\ top = Null => Stacked = <<>>
<1>1. PICK chain : Chained(chain)
  BY DEF StackInv
<1>2. Len(chain) \in Nat /\ \A i \in 1 .. Len(chain) : chain[i] \in Shared
  BY <1>1, ChainShort DEF StackInv
<1>3. top = Nth(chain, 1) /\ Stacked = Values(chain)
  BY <1>1, StackedIs DEF Chained
<1>4. Null \notin Shared
  BY NodesOf
<1>5. top \in Shared \union {Null}
  BY <1>2, <1>3 DEF Nth
<1>6. ASSUME top = Null PROVE Stacked = <<>>
  <2>1. Len(chain) = 0
    BY <1>2, <1>3, <1>4, <1>6 DEF Nth
  <2> QED
    BY <1>3, <2>1 DEF Values
<1> QED
  BY <1>5, <1>6

LEMMA PopLoadStep ==
    ASSUME StackInv, CalledInv, NEW t \in Popper, Treiber!PopLoad(t)
    PROVE  StackInv' /\ Treiber!AbstractStep
<1>1. /\ at[t].pc \in {"call", "load"} /\ at[t].node = Null
      /\ top' = top /\ cell' = cell /\ boxed' = boxed
  BY PlaceOf DEF Treiber!PopLoad, Treiber!Calls
<1>2. CASE top = Null
  <2> DEFINE l == [pc |-> "call", node |-> Null, seen |-> Null, next |-> Null]
             r == [returned EXCEPT ![t] = Append(@, None)]
  <2>1. at' = [at EXCEPT ![t] = l] /\ returned' = r
    BY <1>2 DEF Treiber!PopLoad, Treiber!Return, Treiber!NoLocals
  <2>2. l \in Locals /\ None \in Result
    BY NodesOf DEF Locals, Result
  <2>3. /\ r \in [Popper -> Seq(Result)] /\ r[t] = Append(returned[t], None)
        /\ Len(r[t]) = Len(returned[t]) + 1 /\ Len(returned[t]) \in Nat
        /\ \A u \in Popper : u # t => r[u] = returned[u]
    BY <2>2, ResultsOf
  <2>4. at'[t] = l
    BY <2>1, LocalsOf
  <2>5. Got(t)' = Append(Got(t), None)
    BY <1>1, <2>1, <2>3, <2>4 DEF Got
  <2>6. StackInv' /\ Stacked' = Stacked /\ \A u \in Popper : u # t => Got(u)' = Got(u)
    <3>1. l.node = at[t].node /\ l.seen \in Shared \union {Null} /\ l.node = Null
          /\ l.pc = "call"
      BY <1>1
    <3>2. Len(returned'[t]) >= Len(returned[t])
      BY <2>1, <2>3
    <3> HIDE DEF l, r
    <3> QED
      BY <1>1, <2>1, <2>2, <2>3, <3>1, <3>2, QuietStep
  <2>7. Outcome' = [Outcome EXCEPT ![t] = Append(@, None)]
    BY <2>5, <2>6 DEF Outcome
  <2>8. Outcome[t] = returned[t]
    BY <1>1 DEF Outcome, Got
  <2>9. Len(Outcome[t]) < Len(Script[t]) /\ Script[t][Len(Outcome[t]) + 1] = "pop"
    BY <1>1, <2>8 DEF Treiber!PopLoad, Treiber!Calls, CalledInv
  <2> QED
    BY <1>2, <2>6, <2>7, <2>9, TopIs, AbstractPopNothing
<1>3. CASE top # Null
  <2> DEFINE l == [at[t] EXCEPT !.pc = "next", !.seen = top]
  <2>1. at' = [at EXCEPT ![t].pc = "next", ![t].seen = top] /\ returned' = returned
    BY <1>3 DEF Treiber!PopLoad
  <2>2. top \in Shared
    BY <1>3, TopIs
  <2>3. at' = [at EXCEPT ![t] = l]
    BY <2>1, LocalsOf
  <2>4. l.pc = "next" /\ l.node = Null /\ l.seen = top /\ l \in Locals
    <3>1. at[t] \in Locals /\ top \in Pointer
      BY <2>2, LocalsOf, NodesOf DEF Pointer
    <3> QED
      BY <1>1, <3>1 DEF Locals
  <2>5. at'[t] = l
    BY <2>3, LocalsOf
  <2>6. Got(t)' = Got(t)
    BY <1>1, <2>1, <2>4, <2>5 DEF Got
  <2>7. StackInv' /\ Stacked' = Stacked /\ \A u \in Popper : u # t => Got(u)' = Got(u)
    <3>1. l.node = at[t].node /\ l.seen \in Shared \union {Null} /\ l.node = Null
          /\ l.seen # Null /\ l.pc = "next"
      BY <1>1, <1>3, <2>2, <2>4
    <3>2. returned' \in [Popper -> Seq(Result)] /\ Len(returned'[t]) >= Len(returned[t])
          /\ \A u \in Popper : u # t => returned'[u] = returned[u]
      BY <2>1, ResultsOf
    <3> HIDE DEF l
    <3> QED
      BY <1>1, <2>3, <2>4, <3>1, <3>2, QuietStep
  <2> QED
    BY <2>6, <2>7, OutcomeSame, AbstractStays
<1> QED
  BY <1>2, <1>3

LEMMA PopValueStep ==
    ASSUME StackInv, NEW t \in Popper, Treiber!PopValue(t)
    PROVE  StackInv' /\ Treiber!AbstractStep
<1> DEFINE l == [pc |-> "call", node |-> Null, seen |-> Null, next |-> Null]
           x == cell[at[t].seen].value
           r == [returned EXCEPT ![t] = Append(@, x)]
<1>1. /\ at[t].pc = "won" /\ top' = top /\ cell' = cell /\ boxed' = boxed
      /\ at' = [at EXCEPT ![t] = l] /\ returned' = r
  BY DEF Treiber!PopValue, Treiber!Return, Treiber!NoLocals
<1>2. at[t].node = Null /\ at[t].seen \in Shared
  BY <1>1, PlaceOf DEF Popping
<1>3. l \in Locals /\ x \in Result
  BY <1>2, NodesOf DEF Locals
<1>4. at'[t] = l
  BY <1>1, LocalsOf
<1>5. /\ r \in [Popper -> Seq(Result)] /\ r[t] = Append(returned[t], x)
      /\ Len(r[t]) = Len(returned[t]) + 1 /\ Len(returned[t]) \in Nat
      /\ \A u \in Popper : u # t => r[u] = returned[u]
  <2> HIDE DEF x
  <2> QED
    BY <1>3, ResultsOf
<1>6. Got(t)' = Got(t)
  BY <1>1, <1>4, <1>5 DEF Got
<1>7. StackInv' /\ Stacked' = Stacked /\ \A u \in Popper : u # t => Got(u)' = Got(u)
  <2>1. l.node = at[t].node /\ l.seen \in Shared \union {Null} /\ l.node = Null
        /\ l.pc = "call"
    BY <1>2
  <2>2. Len(returned'[t]) >= Len(returned[t])
    BY <1>1, <1>5
  <2> HIDE DEF l, r
  <2> QED
    BY <1>1, <1>3, <1>5, <2>1, <2>2, QuietStep
<1> QED
  BY <1>6, <1>7, OutcomeSame, AbstractStays

\* The exchange of a pop: the node on top goes.
LEMMA ChainLoses ==
    ASSUME StackInv, NEW chain, Chained(chain), top # Null, cell' = cell, Shared' = Shared,
           top' = cell[top].next
    PROVE  /\ \E rest : Chained(rest)' /\ Values(rest)' = Tail(Stacked)
           /\ Stacked # <<>> /\ Head(Stacked) = cell[top].value
<1> DEFINE n == Len(chain)
           rest == [i \in 1 .. n - 1 |-> chain[i + 1]]
<1>1. /\ chain \in Seq(Shared) /\ n \in Nat /\ top = Nth(chain, 1)
      /\ \A i, k \in 1 .. n : chain[i] = chain[k] => i = k
      /\ \A i \in 1 .. n : chain[i] \in Shared /\ cell[chain[i]].next = Nth(chain, i + 1)
  BY DEF Chained
<1>2. n >= 1 /\ top = chain[1]
  BY <1>1 DEF Nth
<1>3. rest \in Seq(Shared) /\ Len(rest) = n - 1
      /\ \A i \in 1 .. n - 1 : rest[i] = chain[i + 1] /\ i + 1 \in 1 .. n
  BY <1>1, <1>2
<1>4. \A i, k \in 1 .. n - 1 : rest[i] = rest[k] => i = k
  BY <1>1, <1>3
<1> HIDE DEF rest
<1>5. top' = Nth(rest, 1)
  BY <1>1, <1>2, <1>3 DEF Nth
<1>6. \A i \in 1 .. n - 1 : cell[rest[i]].next = Nth(rest, i + 1)
  <2> SUFFICES ASSUME NEW i \in 1 .. n - 1 PROVE cell[rest[i]].next = Nth(rest, i + 1)
    OBVIOUS
  <2>1. rest[i] = chain[i + 1] /\ i + 1 \in 1 .. n
    BY <1>3
  <2>2. cell[rest[i]].next = Nth(chain, (i + 1) + 1)
    BY <1>1, <2>1
  <2>3. Nth(rest, i + 1) = Nth(chain, (i + 1) + 1)
    BY <1>1, <1>3, <2>1 DEF Nth
  <2> QED
    BY <2>2, <2>3
<1>7. Chained(rest)'
  BY <1>3, <1>4, <1>5, <1>6 DEF Chained, Nth
<1>8. Stacked = [i \in 1 .. n |-> cell[chain[i]].value]
  BY StackedIs DEF Values
<1>9. Len(Stacked) = n /\ Stacked # <<>> /\ Head(Stacked) = cell[top].value
  BY <1>1, <1>2, <1>8
<1>10. Values(rest)' = Tail(Stacked)
  <2>1. Values(rest)' = [i \in 1 .. n - 1 |-> cell[chain[i + 1]].value]
    BY <1>1, <1>2, <1>3 DEF Values
  <2>2. Tail(Stacked) = [i \in 1 .. n - 1 |-> cell[chain[i + 1]].value]
    BY <1>1, <1>2, <1>8, <1>9
  <2> QED
    BY <2>1, <2>2
<1> QED
  BY <1>7, <1>9, <1>10

LEMMA PopSwapStep ==
    ASSUME StackInv, CalledInv, NEW t \in Popper, Treiber!PopSwap(t)
    PROVE  StackInv' /\ Treiber!AbstractStep
<1> DEFINE l == [at[t] EXCEPT !.pc = "won"]
<1>1. /\ at[t].pc = "swap" /\ at[t].node = Null
      /\ cell' = cell /\ boxed' = boxed /\ returned' = returned
  BY DEF Treiber!PopSwap
<1>2. CASE top # at[t].seen
  BY <1>1, <1>2, TryAgain DEF Treiber!PopSwap
<1>3. CASE top = at[t].seen
  <2>1. top' = at[t].next /\ at' = [at EXCEPT ![t].pc = "won"]
    BY <1>3 DEF Treiber!PopSwap
  <2>2. top # Null /\ at[t].next = cell[top].next /\ top \in Shared
    BY <1>1, <1>3, PlaceOf DEF Popping
  <2>3. at' = [at EXCEPT ![t] = l]
    BY <2>1, LocalsOf
  <2>4. l.pc = "won" /\ l.node = Null /\ l.seen = top /\ l \in Locals
    <3>1. at[t] \in Locals
      BY LocalsOf
    <3> QED
      BY <1>1, <1>3, <3>1 DEF Locals
  <2>5. at'[t] = l
    BY <2>3, LocalsOf
  <2>6. Got(t)' = Append(Got(t), cell[top].value)
    BY <1>1, <2>4, <2>5 DEF Got
  <2>7. returned' \in [Popper -> Seq(Result)] /\ Len(returned'[t]) >= Len(returned[t])
        /\ \A u \in Popper : u # t => returned'[u] = returned[u]
    BY <1>1, ResultsOf
  <2> HIDE DEF l
  <2>8. /\ Shared' = Shared /\ StackTypes'
        /\ \A u \in Popper : Doing(u)'
        /\ \A u \in Popper : u # t => Got(u)' = Got(u)
        /\ \A a \in boxed' : Made(a)'
        /\ \A a, b \in boxed' : cell'[a].value = cell'[b].value => a = b
    BY <1>1, <2>2, <2>3, <2>4, <2>7, LightStep
  <2>9. PICK chain : Chained(chain)
    BY DEF StackInv
  <2>10. Stacked # <<>> /\ Head(Stacked) = cell[top].value
    BY <1>1, <2>1, <2>2, <2>8, <2>9, ChainLoses
  <2>11. PICK rest : Chained(rest)' /\ Values(rest)' = Tail(Stacked)
    BY <1>1, <2>1, <2>2, <2>8, <2>9, ChainLoses
  <2>12. StackInv'
    BY <2>8, <2>11 DEF StackInv
  <2>13. Stacked' = Tail(Stacked)
    BY <2>11, <2>12, StackedNext
  <2>14. Outcome' = [Outcome EXCEPT ![t] = Append(@, Head(Stacked))]
    BY <2>6, <2>8, <2>10 DEF Outcome
  <2>15. Outcome[t] = returned[t]
    BY <1>1 DEF Outcome, Got
  <2>16. Len(Outcome[t]) < Len(Script[t]) /\ Script[t][Len(Outcome[t]) + 1] = "pop"
    BY <1>1, <2>15 DEF CalledInv
  <2> QED
    BY <2>10, <2>12, <2>13, <2>14, <2>16, AbstractPop
<1> QED
  BY <1>2, <1>3

\* The exchange of a push: the new node is on top, and shared from here on.
LEMMA ChainGains ==
    ASSUME StackInv, NEW chain, Chained(chain), NEW a, a \notin Shared, cell' = cell,
           Shared' = Shared \union {a}, cell[a].next = top, top' = a
    PROVE  \E more : Chained(more)' /\ Values(more)' = <<cell[a].value>> \o Stacked
<1> DEFINE n == Len(chain)
           more == [i \in 1 .. n + 1 |-> IF i = 1 THEN a ELSE chain[i - 1]]
<1>1. /\ chain \in Seq(Shared) /\ n \in Nat /\ top = Nth(chain, 1)
      /\ \A i, k \in 1 .. n : chain[i] = chain[k] => i = k
      /\ \A i \in 1 .. n : chain[i] \in Shared /\ cell[chain[i]].next = Nth(chain, i + 1)
  BY DEF Chained
<1>2. more \in Seq(Shared') /\ Len(more) = n + 1 /\ more[1] = a
      /\ \A i \in 2 .. n + 1 : more[i] = chain[i - 1] /\ i - 1 \in 1 .. n
  <2>1. \A i \in 2 .. n + 1 : more[i] = chain[i - 1] /\ i - 1 \in 1 .. n
    BY <1>1
  <2>2. more[1] = a /\ \A i \in 1 .. n + 1 : i = 1 \/ i \in 2 .. n + 1
    BY <1>1
  <2>3. more = [i \in 1 .. n + 1 |-> more[i]] /\ n + 1 \in Nat
    BY <1>1
  <2> HIDE DEF more, n
  <2>4. \A i \in 1 .. n + 1 : more[i] \in Shared \union {a}
    BY <1>1, <2>1, <2>2
  <2>5. more \in [1 .. n + 1 -> Shared \union {a}]
    BY <2>3, <2>4
  <2>6. more \in Seq(Shared \union {a}) /\ Len(more) = n + 1
    <3> DEFINE S == Shared \union {a}
               k == n + 1
    <3>1. more \in [1 .. k -> S] /\ k \in Nat
      BY <2>3, <2>5
    <3> HIDE DEF S, k
    <3>2. more \in Seq(S)
      BY <3>1
    <3>3. Len(more) = k
      BY <3>1
    <3> QED
      BY <3>2, <3>3 DEF S, k
  <2> QED
    BY <2>1, <2>2, <2>6
<1> HIDE DEF more
<1>3. \A i, k \in 1 .. n + 1 : more[i] = more[k] => i = k
  <2> SUFFICES ASSUME NEW i \in 1 .. n + 1, NEW k \in 1 .. n + 1, more[i] = more[k] PROVE i = k
    OBVIOUS
  <2>1. \A j \in 1 .. n + 1 : j = 1 \/ j \in 2 .. n + 1
    BY <1>1
  <2>2. \A j \in 2 .. n + 1 : more[j] \in Shared
    BY <1>1, <1>2
  <2>3. CASE i = 1 \/ k = 1
    BY <1>2, <2>1, <2>2, <2>3
  <2>4. CASE i # 1 /\ k # 1
    <3>1. i \in 2 .. n + 1 /\ k \in 2 .. n + 1
      BY <2>1, <2>4
    <3>2. chain[i - 1] = chain[k - 1] /\ i - 1 \in 1 .. n /\ k - 1 \in 1 .. n
      BY <1>2, <3>1
    <3>3. i - 1 = k - 1
      BY <1>1, <3>2
    <3>4. n + 1 \in Nat
      BY <1>1
    <3> HIDE DEF n
    <3> QED
      BY <3>3, <3>4
  <2> QED
    BY <2>3, <2>4
<1>4. \A i \in 1 .. n + 1 : cell[more[i]].next = Nth(more, i + 1)
  <2> SUFFICES ASSUME NEW i \in 1 .. n + 1 PROVE cell[more[i]].next = Nth(more, i + 1)
    OBVIOUS
  <2>1. CASE i = 1
    <3>1. Nth(more, 2) = Nth(chain, 1)
      BY <1>1, <1>2 DEF Nth
    <3> QED
      BY <1>1, <1>2, <2>1, <3>1
  <2>2. CASE i # 1
    <3>1. i \in 2 .. n + 1 /\ more[i] = chain[i - 1] /\ i - 1 \in 1 .. n /\ (i - 1) + 1 = i
      BY <1>1, <1>2, <2>2
    <3>2. cell[more[i]].next = Nth(chain, i)
      BY <1>1, <3>1
    <3>3. Nth(more, i + 1) = Nth(chain, i)
      BY <1>1, <1>2, <3>1 DEF Nth
    <3> QED
      BY <3>2, <3>3
  <2> QED
    BY <2>1, <2>2
<1>5. top' = Nth(more, 1)
  BY <1>1, <1>2 DEF Nth
<1>6. Chained(more)'
  BY <1>2, <1>3, <1>4, <1>5 DEF Chained, Nth
<1>7. Stacked = [i \in 1 .. n |-> cell[chain[i]].value]
  BY StackedIs DEF Values
<1>8. Values(more)' = <<cell[a].value>> \o Stacked
  <2>1. Values(more)' = [i \in 1 .. n + 1 |-> IF i = 1 THEN cell[a].value
                                               ELSE cell[chain[i - 1]].value]
    <3>1. \A i \in 1 .. n + 1 : cell[more[i]].value = IF i = 1 THEN cell[a].value
                                                       ELSE cell[chain[i - 1]].value
      BY <1>1, <1>2
    <3> QED
      BY <1>2, <3>1 DEF Values
  <2>2. <<cell[a].value>> \o Stacked = [i \in 1 .. n + 1 |-> IF i = 1 THEN cell[a].value
                                                              ELSE cell[chain[i - 1]].value]
    BY <1>1, <1>7
  <2> QED
    BY <2>1, <2>2
<1> QED
  BY <1>6, <1>8

LEMMA PushSwapStep ==
    ASSUME StackInv, CalledInv, NEW t \in Popper, Treiber!PushSwap(t)
    PROVE  StackInv' /\ Treiber!AbstractStep
<1> DEFINE a == at[t].node
           l == [pc |-> "call", node |-> Null, seen |-> Null, next |-> Null]
           r == [returned EXCEPT ![t] = Append(@, None)]
<1>1. /\ at[t].pc = "swap" /\ a # Null /\ cell' = cell /\ boxed' = boxed
  BY DEF Treiber!PushSwap
<1>2. CASE top # at[t].seen
  BY <1>1, <1>2, TryAgain DEF Treiber!PushSwap
<1>3. CASE top = at[t].seen
  <2>1. top' = a /\ at' = [at EXCEPT ![t] = l] /\ returned' = r
    BY <1>3 DEF Treiber!PushSwap, Treiber!Return, Treiber!NoLocals
  <2>2. a \in boxed /\ cell[a].value = <<t, Len(returned[t]) + 1>> /\ cell[a].next = top
    BY <1>1, <1>3, PlaceOf DEF Pushing
  <2>3. at'[t] = l /\ \A u \in Popper : u # t => at'[u] = at[u]
    BY <2>1, LocalsOf
  <2>4. None \in Result
    BY DEF Result
  <2>5. /\ r \in [Popper -> Seq(Result)] /\ r[t] = Append(returned[t], None)
        /\ Len(r[t]) = Len(returned[t]) + 1 /\ Len(returned[t]) \in Nat
        /\ \A u \in Popper : u # t => r[u] = returned[u]
    BY <2>4, ResultsOf
  <2>6. Shared' = Shared \union {a} /\ a \notin Shared
    <3>1. \A u \in Popper : u # t => at[u].node # a
      BY <1>1, Mine
    <3>2. at'[t].node = Null /\ Null \notin boxed
      BY <2>3, NodesOf
    <3> HIDE DEF l
    <3>3. {at'[u].node : u \in Popper} = ({at[u].node : u \in Popper} \ {a}) \union {Null}
      BY <2>3, <3>1, <3>2
    <3> QED
      BY <1>1, <2>2, <3>2, <3>3 DEF Shared
  <2>7. StackTypes'
    <3>1. l \in Locals
      BY NodesOf DEF Locals
    <3>2. at' \in [Popper -> Locals]
      <4> HIDE DEF l
      <4> QED
        BY <2>1, <3>1, LocalsOf
    <3>3. StackTypes
      BY DEF StackInv
    <3> QED
      BY <1>1, <2>1, <2>5, <3>2, <3>3 DEF StackTypes, Pointer, Result, Locals
  <2>8. \A u \in Popper : u # t => Doing(u)' /\ Got(u)' = Got(u)
    <3> SUFFICES ASSUME NEW u \in Popper, u # t PROVE Doing(u)' /\ Got(u)' = Got(u)
      OBVIOUS
    <3>1. at'[u] = at[u] /\ returned'[u] = returned[u] /\ Shared \subseteq Shared'
      BY <2>1, <2>3, <2>5, <2>6
    <3> QED
      BY <1>1, <3>1, OtherThread
  <2>9. Doing(t)'
    BY <2>3 DEF Doing, Popping
  <2>10. ASSUME NEW b \in boxed PROVE Made(b)'
    <3>1. cell[b].next \in Shared' \union {Null}
      BY <2>6 DEF StackInv, Made
    <3>2. Len(returned'[t]) \in Nat /\ Len(returned'[t]) > Len(returned[t])
          /\ Len(returned'[t]) >= Len(returned[t])
      BY <2>1, <2>5
    <3>3. \A u \in Popper : u # t => at'[u] = at[u] /\ returned'[u] = returned[u]
      BY <2>1, <2>3, <2>5
    <3> HIDE DEF a, l, r
    <3> QED
      BY <1>1, <3>1, <3>2, <3>3, OtherNode
  <2>11. \A b, c \in boxed' : cell'[b].value = cell'[c].value => b = c
    BY <1>1 DEF StackInv
  <2>12. PICK chain : Chained(chain)
    BY DEF StackInv
  <2>13. PICK more : Chained(more)' /\ Values(more)' = <<cell[a].value>> \o Stacked
    <3> HIDE DEF a
    <3> QED
      BY <1>1, <2>1, <2>2, <2>6, <2>12, ChainGains
  <2>14. StackInv'
    BY <1>1, <2>7, <2>8, <2>9, <2>10, <2>11, <2>13 DEF StackInv
  <2>15. Stacked' = <<cell[a].value>> \o Stacked
    BY <2>13, <2>14, StackedNext
  <2>16. Got(t) = returned[t] /\ Got(t)' = Append(Got(t), None)
    BY <1>1, <2>1, <2>3, <2>5 DEF Got
  <2>17. Outcome' = [Outcome EXCEPT ![t] = Append(@, None)]
    BY <2>8, <2>16 DEF Outcome
  <2>18. cell[a].value = <<t, Len(Outcome[t]) + 1>>
    BY <2>2, <2>16 DEF Outcome
  <2>19. Len(Outcome[t]) < Len(Script[t]) /\ Script[t][Len(Outcome[t]) + 1] = "push"
    BY <1>1, <2>16 DEF CalledInv, Outcome
  <2> QED
    BY <2>14, <2>15, <2>17, <2>18, <2>19, AbstractPush
<1> QED
  BY <1>2, <1>3

\* There is an address left for every push: each node has a value of its own.
LEMMA FreshNode ==
    ASSUME StackInv, NEW t \in Popper, Treiber!Calls(t, "push")
    PROVE  /\ at[t].node = Null /\ <<t, Len(returned[t]) + 1>> \in Treiber!Address
           /\ \A b \in boxed : cell[b].value # <<t, Len(returned[t]) + 1>>
           /\ \E a \in Treiber!Address : a \notin boxed
<1> DEFINE x == <<t, Len(returned[t]) + 1>>
           m == Len(returned[t])
<1>1. at[t].pc = "call" /\ m < Len(Script[t]) /\ Script[t][m + 1] = "push"
  BY DEF Treiber!Calls
<1>2. m \in Nat /\ Len(Script[t]) \in Nat
  BY ResultsOf, Addresses
<1>3. at[t].node = Null
  BY <1>1, PlaceOf
<1>4. x \in Treiber!Address
  <2>1. m + 1 \in 1 .. Len(Script[t])
    <3> HIDE DEF m
    <3> QED
      BY <1>1, <1>2
  <2> QED
    BY <1>1, <2>1, Addresses
<1>5. ASSUME NEW b \in boxed, cell[b].value = x PROVE FALSE
  <2>1. Made(b) /\ b # Null
    BY NodesOf DEF StackInv
  <2>2. x[1] = t /\ x[2] = m + 1
    OBVIOUS
  <2>3. m + 1 <= m
    BY <1>3, <1>5, <2>1, <2>2 DEF Made
  <2> HIDE DEF m
  <2> QED
    BY <1>2, <2>3
<1>6. ASSUME Treiber!Address \subseteq boxed PROVE FALSE
  <2> DEFINE A == Treiber!Address
             f == [b \in A |-> cell[b].value]
  <2>1. \A b \in A : f[b] \in A \ {x}
    BY <1>5, <1>6 DEF StackInv, Made
  <2>2. \A b, c \in A : f[b] = f[c] => b = c
    BY <1>6 DEF StackInv
  <2>3. f \in Injection(A, A \ {x})
    <3> HIDE DEF A, x
    <3>1. f \in [A -> A \ {x}]
      BY <2>1
    <3> HIDE DEF f
    <3> QED
      BY <2>2, <3>1 DEF Injection, IsInjective
  <2>4. IsFiniteSet(A) /\ x \in A /\ Cardinality(A) \in Nat
    BY <1>4, Addresses
  <2>5. IsFiniteSet(A \ {x}) /\ Cardinality(A \ {x}) = Cardinality(A) - 1
    <3> HIDE DEF A, x
    <3> QED
      BY <2>4, FS_RemoveElement
  <2>6. Cardinality(A) <= Cardinality(A \ {x})
    <3> HIDE DEF A, x, f
    <3> QED
      BY <2>3, <2>5, FS_Injection
  <2> HIDE DEF A, x
  <2> QED
    BY <2>4, <2>5, <2>6
<1> QED
  BY <1>3, <1>4, <1>5, <1>6

LEMMA BoxStep ==
    ASSUME StackInv, NEW t \in Popper, Treiber!Box(t)
    PROVE  StackInv' /\ Treiber!AbstractStep
<1> DEFINE x == <<t, Len(returned[t]) + 1>>
<1>0. /\ at[t].node = Null /\ x \in Treiber!Address /\ at[t].pc = "call"
      /\ \A b \in boxed : cell[b].value # x
      /\ \E b \in Treiber!Address : b \notin boxed
  <2>1. Treiber!Calls(t, "push") /\ at[t].pc = "call"
    BY DEF Treiber!Box, Treiber!Calls
  <2> QED
    BY <2>1, FreshNode
<1>1. PICK a : a = CHOOSE b \in Treiber!Unused : TRUE
  OBVIOUS
<1> DEFINE l == [Treiber!NoLocals EXCEPT !.pc = "load", !.node = a]
<1>2. /\ cell' = [cell EXCEPT ![a] = [value |-> x, next |-> Null]]
      /\ boxed' = boxed \union {a} /\ at' = [at EXCEPT ![t] = l]
      /\ top' = top /\ returned' = returned
      /\ a \in Treiber!Address /\ a \notin boxed
  <2>1. /\ cell' = [cell EXCEPT ![a] = [value |-> x, next |-> Null]]
        /\ boxed' = boxed \union {a}
        /\ at' = [at EXCEPT ![t] = l]
        /\ top' = top /\ returned' = returned
    <3> DEFINE u == CHOOSE b \in Treiber!Unused : TRUE
    <3>1. /\ cell' = [cell EXCEPT ![u] = [value |-> x, next |-> Null]]
          /\ boxed' = boxed \union {u}
          /\ at' = [at EXCEPT ![t] = [Treiber!NoLocals EXCEPT !.pc = "load", !.node = u]]
          /\ top' = top /\ returned' = returned
      BY DEF Treiber!Box
    <3> HIDE DEF u
    <3>2. u = a
      BY <1>1 DEF u
    <3> QED
      BY <3>1, <3>2
  <2>2. a \in Treiber!Unused
    <3>1. Treiber!Unused # {}
      BY <1>0 DEF Treiber!Unused
    <3> QED
      BY <1>1, <3>1
  <2> QED
    BY <2>1, <2>2 DEF Treiber!Unused
<1>3. a # Null /\ Null \in Pointer /\ a \in Pointer /\ x \in Result
      /\ Shared \subseteq boxed /\ Null \notin boxed
      /\ cell \in [Treiber!Address -> [value : Result, next : Pointer]]
  BY <1>0, <1>2, NodesOf, Addresses DEF Pointer, Result
<1>4. /\ l \in Locals /\ at' \in [Popper -> Locals]
      /\ at'[t].pc = "load" /\ at'[t].node = a /\ at'[t].seen = Null
      /\ \A u \in Popper : u # t => at'[u] = at[u]
  <2>1. Treiber!NoLocals \in Locals /\ Treiber!NoLocals.seen = Null
    BY <1>3 DEF Treiber!NoLocals, Locals
  <2>2. l \in Locals /\ l.pc = "load" /\ l.node = a /\ l.seen = Null
    BY <1>3, <2>1 DEF Locals
  <2> HIDE DEF l
  <2> QED
    BY <1>2, <2>2, LocalsOf
<1> HIDE DEF l
<1>5. cell'[a] = [value |-> x, next |-> Null] /\ \A b \in boxed : cell'[b] = cell[b] /\ b # a
  <2>1. boxed \subseteq Treiber!Address
    BY NodesOf
  <2> QED
    BY <1>0, <1>2, <1>3, <2>1
<1>6. Shared' = Shared
  <2>1. {at'[u].node : u \in Popper} \ {a} = {at[u].node : u \in Popper} \ {a, Null}
        \/ {at'[u].node : u \in Popper} \ {a} = {at[u].node : u \in Popper} \ {a}
    <3>1. at'[t].node = a
      BY <1>4
    <3>2. \A n : n \in {at'[u].node : u \in Popper} \ {a}
                   => n \in {at[u].node : u \in Popper} \ {a}
      BY <1>4, <3>1
    <3>3. \A n : n \in {at[u].node : u \in Popper} \ {a, Null}
                   => n \in {at'[u].node : u \in Popper} \ {a}
      BY <1>0, <1>4, <3>1
    <3>4. CASE Null \in {at'[u].node : u \in Popper} \ {a}
      BY <3>2, <3>3, <3>4
    <3>5. CASE Null \notin {at'[u].node : u \in Popper} \ {a}
      BY <3>2, <3>3, <3>5
    <3> QED
      BY <3>4, <3>5
  <2>2. a \in {at'[u].node : u \in Popper}
    BY <1>4
  <2> QED
    BY <1>0, <1>2, <1>3, <2>1, <2>2 DEF Shared
<1>7. StackTypes'
  <2>1. cell' \in [Treiber!Address -> [value : Result, next : Pointer]]
    <3> HIDE DEF x
    <3> QED
      BY <1>2, <1>3
  <2>2. StackTypes
    BY DEF StackInv
  <2> QED
    BY <1>0, <1>2, <1>4, <2>1, <2>2 DEF StackTypes, Pointer, Result, Locals
<1>8. \A u \in Popper : u # t => Doing(u)' /\ Got(u)' = Got(u)
  <2> SUFFICES ASSUME NEW u \in Popper, u # t PROVE Doing(u)' /\ Got(u)' = Got(u)
    OBVIOUS
  <2>1. at'[u] = at[u] /\ returned'[u] = returned[u] /\ Shared \subseteq Shared'
        /\ boxed \subseteq boxed' /\ \A b \in boxed : cell'[b] = cell[b]
    BY <1>2, <1>4, <1>5, <1>6
  <2> QED
    BY <2>1, OtherThread
<1>9. Doing(t)' /\ Got(t)' = Got(t)
  BY <1>0, <1>2, <1>3, <1>4, <1>5 DEF Doing, Pushing, Got
<1>10. Made(a)'
  <2>1. x[1] = t
    OBVIOUS
  <2> HIDE DEF x
  <2> QED
    BY <1>0, <1>4, <1>5, <2>1 DEF Made
<1>11. ASSUME NEW b \in boxed PROVE Made(b)'
  <2>1. cell[b].next \in Shared \union {Null}
    BY DEF StackInv, Made
  <2>2. Len(returned[t]) \in Nat
    BY ResultsOf
  <2>3. cell'[b].value = cell[b].value /\ cell'[b].next \in Shared' \union {Null}
    BY <1>5, <1>6, <2>1
  <2>4. at[t].node = b => at'[t].node = b
    BY <1>0, <1>3
  <2>5. /\ \A u \in Popper : u # t => at'[u] = at[u] /\ returned'[u] = returned[u]
        /\ Len(returned'[t]) \in Nat /\ Len(returned'[t]) >= Len(returned[t])
    BY <1>2, <1>4, <2>2
  <2> HIDE DEF x
  <2> QED
    BY <2>3, <2>4, <2>5, OtherNode
<1>12. \A b, c \in boxed' : cell'[b].value = cell'[c].value => b = c
  <2>1. \A b, c \in boxed : cell[b].value = cell[c].value => b = c
    BY DEF StackInv
  <2>2. cell'[a].value = x
    BY <1>5
  <2> HIDE DEF x
  <2> QED
    BY <1>0, <1>2, <1>5, <2>1, <2>2
<1>13. PICK chain : Chained(chain)
  BY DEF StackInv
<1>14. Chained(chain)' /\ Values(chain)' = Values(chain)
  BY <1>2, <1>3, <1>5, <1>6, <1>13, ChainStays
<1>15. StackInv'
  BY <1>2, <1>7, <1>8, <1>9, <1>10, <1>11, <1>12, <1>14 DEF StackInv
<1>16. Stacked' = Stacked
  <2>1. Stacked = Values(chain)
    BY <1>13, StackedIs
  <2>2. Stacked' = Values(chain)'
    BY <1>14, <1>15, StackedNext
  <2> QED
    BY <1>14, <2>1, <2>2
<1> QED
  BY <1>8, <1>9, <1>15, <1>16, OutcomeSame, AbstractStays

LEMMA PushLoadStep ==
    ASSUME StackInv, NEW t \in Popper, Treiber!PushLoad(t)
    PROVE  StackInv' /\ Treiber!AbstractStep
<1> DEFINE a == at[t].node
           l == [at[t] EXCEPT !.pc = "swap", !.seen = top]
<1>1. /\ at[t].pc = "load" /\ a # Null
      /\ cell' = [cell EXCEPT ![a].next = top] /\ boxed' = boxed
      /\ at' = [at EXCEPT ![t].pc = "swap", ![t].seen = top]
      /\ top' = top /\ returned' = returned
  BY DEF Treiber!PushLoad
<1>2. a \in boxed /\ cell[a].value = <<t, Len(returned[t]) + 1>>
  BY <1>1, PlaceOf DEF Pushing
<1>3. top \in Shared \union {Null} /\ top \in Pointer
  BY TopIs, NodesOf DEF Pointer
<1>4. at' = [at EXCEPT ![t] = l]
  BY <1>1, LocalsOf
<1>5. l.pc = "swap" /\ l.node = a /\ l.seen = top /\ l \in Locals
  <2>1. at[t] \in Locals
    BY LocalsOf
  <2> QED
    BY <1>3, <2>1 DEF Locals
<1>6. at'[t] = l /\ \A u \in Popper : u # t => at'[u] = at[u]
  BY <1>4, LocalsOf
<1> HIDE DEF l
<1>7. /\ cell' \in [Treiber!Address -> [value : Result, next : Pointer]]
      /\ cell'[a].value = cell[a].value /\ cell'[a].next = top
      /\ \A b \in boxed : b # a => cell'[b] = cell[b]
  <2>1. boxed \subseteq Treiber!Address
        /\ cell \in [Treiber!Address -> [value : Result, next : Pointer]]
    BY NodesOf
  <2> HIDE DEF a
  <2> QED
    BY <1>1, <1>2, <1>3, <2>1
<1>8. Shared' = Shared /\ a \notin Shared
  <2>1. \A u \in Popper : at'[u].node = at[u].node
    BY <1>5, <1>6
  <2> QED
    <3>1. {at'[u].node : u \in Popper} = {at[u].node : u \in Popper}
      BY <2>1
    <3>2. a \in {at[u].node : u \in Popper}
      OBVIOUS
    <3> HIDE DEF a
    <3> QED
      BY <1>1, <3>1, <3>2 DEF Shared
<1>9. StackTypes'
  <2>1. at' \in [Popper -> Locals]
    BY <1>4, <1>5, LocalsOf
  <2>2. StackTypes
    BY DEF StackInv
  <2> QED
    BY <1>1, <1>7, <2>1, <2>2 DEF StackTypes, Pointer, Result, Locals
<1>10. \A u \in Popper : u # t => Doing(u)' /\ Got(u)' = Got(u)
  <2> SUFFICES ASSUME NEW u \in Popper, u # t PROVE Doing(u)' /\ Got(u)' = Got(u)
    OBVIOUS
  <2>1. at'[u] = at[u] /\ returned'[u] = returned[u] /\ Shared \subseteq Shared'
        /\ boxed \subseteq boxed'
    BY <1>1, <1>6, <1>8
  <2> QED
    BY <1>7, <2>1, OtherThread
<1>11. Doing(t)' /\ Got(t)' = Got(t)
  <2>1. at'[t].pc = "swap" /\ at'[t].node = a /\ at'[t].seen = top /\ returned' = returned
    BY <1>1, <1>5, <1>6
  <2>2. a \in boxed' /\ cell'[a].value = <<t, Len(returned[t]) + 1>> /\ cell'[a].next = top
        /\ top \in Shared' \union {Null}
    BY <1>1, <1>2, <1>3, <1>7, <1>8
  <2>3. at[t].pc = "load" /\ a # Null
    BY <1>1
  <2> HIDE DEF a
  <2> QED
    BY <2>1, <2>2, <2>3 DEF Doing, Pushing, Got
<1>12. ASSUME NEW b \in boxed PROVE Made(b)'
  <2>1. cell[b].next \in Shared \union {Null}
    BY DEF StackInv, Made
  <2>2. Len(returned[t]) \in Nat
    BY ResultsOf
  <2>3. cell'[b].value = cell[b].value /\ cell'[b].next \in Shared' \union {Null}
    BY <1>3, <1>7, <1>8, <2>1
  <2>4. at[t].node = b => at'[t].node = b
    BY <1>5, <1>6
  <2>5. /\ \A u \in Popper : u # t => at'[u] = at[u] /\ returned'[u] = returned[u]
        /\ Len(returned'[t]) \in Nat /\ Len(returned'[t]) >= Len(returned[t])
    <3>1. returned' = returned
      BY <1>1
    <3> QED
      BY <1>6, <2>2, <3>1
  <2> HIDE DEF a
  <2> QED
    BY <2>3, <2>4, <2>5, OtherNode
<1>13. \A b, c \in boxed' : cell'[b].value = cell'[c].value => b = c
  <2>1. \A b, c \in boxed : cell[b].value = cell[c].value => b = c
    BY DEF StackInv
  <2>2. \A b \in boxed : cell'[b].value = cell[b].value
    BY <1>7
  <2> QED
    BY <1>1, <2>1, <2>2
<1>14. PICK chain : Chained(chain)
  BY DEF StackInv
<1>15. Chained(chain)' /\ Values(chain)' = Values(chain)
  <2>1. \A b \in Shared : cell'[b] = cell[b]
    BY <1>7, <1>8, NodesOf
  <2> QED
    BY <1>1, <1>8, <1>14, <2>1, ChainStays
<1>16. StackInv'
  BY <1>1, <1>9, <1>10, <1>11, <1>12, <1>13, <1>15 DEF StackInv
<1>17. Stacked' = Stacked
  <2>1. Stacked = Values(chain)
    BY <1>14, StackedIs
  <2>2. Stacked' = Values(chain)'
    BY <1>15, <1>16, StackedNext
  <2> QED
    BY <1>15, <2>1, <2>2
<1> QED
  BY <1>10, <1>11, <1>16, <1>17, OutcomeSame, AbstractStays

-----------------------------------------------------------------------------

LEMMA StackInit == Treiber!Init => StackInv /\ CalledInv /\ Treiber!Abstract!Init
<1> SUFFICES ASSUME Treiber!Init PROVE StackInv /\ CalledInv /\ Treiber!Abstract!Init
  OBVIOUS
<1>1. /\ top = Null /\ boxed = {}
      /\ cell = [a \in Treiber!Address |-> [value |-> None, next |-> Null]]
      /\ at = [t \in Popper |-> Treiber!NoLocals]
      /\ returned = [t \in Popper |-> <<>>]
  BY DEF Treiber!Init
<1>2. Treiber!NoLocals \in Locals /\ Treiber!NoLocals.pc = "call"
      /\ Treiber!NoLocals.node = Null /\ Treiber!NoLocals.seen = Null
  BY DEF Treiber!NoLocals, Locals, Pointer
<1>3. StackTypes
  BY <1>1, <1>2 DEF StackTypes, Pointer, Result
<1>4. \A t \in Popper : Doing(t)
  BY <1>1, <1>2 DEF Doing, Popping
<1>5. Chained(<<>>)
  BY <1>1 DEF Chained, Nth
<1>6. StackInv
  BY <1>1, <1>3, <1>4, <1>5 DEF StackInv
<1>7. Stacked = <<>>
  BY <1>1, <1>6, TopIs
<1>8. Outcome = [t \in Popper |-> <<>>]
  BY <1>1, <1>2 DEF Outcome, Got
<1>9. CalledInv
  BY <1>1, <1>2 DEF CalledInv
<1> QED
  BY <1>6, <1>7, <1>8, <1>9 DEF Treiber!Abstract!Init, Stacked, Outcome, Got

\* An operation of t goes on as what it was called as.
LEMMA CalledStays ==
    ASSUME StackInv, CalledInv, NEW t \in Popper,
           \A u \in Popper : u # t => at'[u] = at[u] /\ returned'[u] = returned[u],
           \/ at'[t].pc = "call"
           \/ /\ returned' = returned /\ at[t].pc # "call"
              /\ at'[t].node = at[t].node
           \/ /\ returned' = returned /\ Len(returned[t]) < Len(Script[t])
              /\ Script[t][Len(returned[t]) + 1] =
                    IF at'[t].node = Null THEN "pop" ELSE "push"
    PROVE  CalledInv'
BY DEF CalledInv

LEMMA CalledStep ==
    ASSUME StackInv, CalledInv, [Treiber!Next]_treiberVars
    PROVE  CalledInv'
<1>1. ASSUME NEW t \in Popper, Treiber!Box(t) PROVE CalledInv'
  <2> DEFINE a == CHOOSE b \in Treiber!Unused : TRUE
             l == [Treiber!NoLocals EXCEPT !.pc = "load", !.node = a]
  <2>1. at' = [at EXCEPT ![t] = l] /\ returned' = returned /\ Treiber!Calls(t, "push")
    BY <1>1 DEF Treiber!Box
  <2>2. a # Null
    <3>1. \E b \in Treiber!Address : b \notin boxed
      BY <2>1, FreshNode
    <3>2. a \in Treiber!Address
      BY <3>1 DEF Treiber!Unused
    <3> QED
      BY <3>2, Addresses
  <2> HIDE DEF a
  <2>3. l.node = a
    BY DEF Treiber!NoLocals
  <2> HIDE DEF l
  <2>4. at'[t].node = a /\ \A u \in Popper : u # t => at'[u] = at[u]
    BY <2>1, <2>3, LocalsOf
  <2> QED
    BY <2>1, <2>2, <2>4, CalledStays DEF Treiber!Calls
<1>2. ASSUME NEW t \in Popper, Treiber!PushLoad(t) \/ Treiber!PopNext(t)
      PROVE  CalledInv'
  BY <1>2, LocalsOf, CalledStays DEF Treiber!PushLoad, Treiber!PopNext, Locals
<1>3. ASSUME NEW t \in Popper, Treiber!Return(t, cell[at[t].seen].value) \/ Treiber!Return(t, None)
      PROVE  CalledInv'
  <2>1. at'[t].pc = "call" /\ \A u \in Popper : u # t => at'[u] = at[u]
    BY <1>3, LocalsOf DEF Treiber!Return, Treiber!NoLocals
  <2>2. \A u \in Popper : u # t => returned'[u] = returned[u]
    BY <1>3, ResultsOf DEF Treiber!Return
  <2> QED
    BY <2>1, <2>2, CalledStays
<1>4. ASSUME NEW t \in Popper, Treiber!PushSwap(t) \/ Treiber!PopSwap(t)
      PROVE  CalledInv'
  <2>1. CASE Treiber!Return(t, None)
    BY <1>3, <2>1
  <2>2. CASE ~ Treiber!Return(t, None)
    <3>1. /\ at[t].pc = "swap" /\ returned' = returned
          /\ \/ at' = [at EXCEPT ![t].pc = "load"]
             \/ at' = [at EXCEPT ![t].pc = "won"]
      BY <1>4, <2>2 DEF Treiber!PushSwap, Treiber!PopSwap
    <3>2. at'[t].node = at[t].node /\ \A u \in Popper : u # t => at'[u] = at[u]
      BY <3>1, LocalsOf DEF Locals
    <3> QED
      BY <3>1, <3>2, CalledStays
  <2> QED
    BY <2>1, <2>2
<1>5. ASSUME NEW t \in Popper, Treiber!PopLoad(t) PROVE CalledInv'
  <2>1. CASE Treiber!Return(t, None)
    BY <1>3, <2>1
  <2>2. CASE ~ Treiber!Return(t, None)
    <3>1. at' = [at EXCEPT ![t].pc = "next", ![t].seen = top] /\ returned' = returned
      BY <1>5, <2>2 DEF Treiber!PopLoad
    <3>2. at'[t].node = at[t].node /\ \A u \in Popper : u # t => at'[u] = at[u]
      BY <3>1, LocalsOf DEF Locals
    <3>3. CASE at[t].pc = "load"
      BY <3>1, <3>2, <3>3, CalledStays
    <3>4. CASE Treiber!Calls(t, "pop")
      <4>1. at[t].node = Null
        BY <3>4, PlaceOf DEF Treiber!Calls
      <4> QED
        BY <3>1, <3>2, <3>4, <4>1, CalledStays DEF Treiber!Calls
    <3> QED
      BY <1>5, <3>3, <3>4 DEF Treiber!PopLoad
  <2> QED
    BY <2>1, <2>2
<1>6. ASSUME NEW t \in Popper, Treiber!PopValue(t) PROVE CalledInv'
  BY <1>3, <1>6 DEF Treiber!PopValue
<1>7. ASSUME UNCHANGED treiberVars PROVE CalledInv'
  BY <1>7 DEF treiberVars, CalledInv
<1> QED
  BY <1>1, <1>2, <1>4, <1>5, <1>6, <1>7 DEF Treiber!Next

LEMMA StackStep ==
    ASSUME StackInv, CalledInv, [Treiber!Next]_treiberVars
    PROVE  StackInv' /\ Treiber!AbstractStep
<1>1. ASSUME NEW t \in Popper, Treiber!Box(t) PROVE StackInv' /\ Treiber!AbstractStep
  BY <1>1, BoxStep
<1>2. ASSUME NEW t \in Popper, Treiber!PushLoad(t) PROVE StackInv' /\ Treiber!AbstractStep
  BY <1>2, PushLoadStep
<1>3. ASSUME NEW t \in Popper, Treiber!PushSwap(t) PROVE StackInv' /\ Treiber!AbstractStep
  BY <1>3, PushSwapStep
<1>4. ASSUME NEW t \in Popper, Treiber!PopLoad(t) PROVE StackInv' /\ Treiber!AbstractStep
  BY <1>4, PopLoadStep
<1>5. ASSUME NEW t \in Popper, Treiber!PopNext(t) PROVE StackInv' /\ Treiber!AbstractStep
  BY <1>5, PopNextStep
<1>6. ASSUME NEW t \in Popper, Treiber!PopSwap(t) PROVE StackInv' /\ Treiber!AbstractStep
  BY <1>6, PopSwapStep
<1>7. ASSUME NEW t \in Popper, Treiber!PopValue(t) PROVE StackInv' /\ Treiber!AbstractStep
  BY <1>7, PopValueStep
<1>8. ASSUME UNCHANGED treiberVars PROVE StackInv' /\ Treiber!AbstractStep
  <2>1. top' = top /\ cell' = cell /\ boxed' = boxed /\ at' = at /\ returned' = returned
    BY <1>8 DEF treiberVars
  <2>2. StackInv'
    <3>1. Shared' = Shared
      BY <2>1 DEF Shared
    <3>2. StackTypes'
      BY <2>1 DEF StackInv, StackTypes
    <3>3. \A t \in Popper : Doing(t)'
      BY <2>1, <3>1 DEF StackInv, Doing, Popping, Pushing
    <3>4. \A a \in boxed' : Made(a)'
      BY <2>1, <3>1 DEF StackInv, Made
    <3>5. PICK chain : Chained(chain)
      BY DEF StackInv
    <3>6. Chained(chain)'
      BY <2>1, <3>1, <3>5, ChainStays
    <3> QED
      BY <2>1, <3>2, <3>3, <3>4, <3>6 DEF StackInv
  <2>3. Stacked' = Stacked /\ Outcome' = Outcome
    BY <2>1 DEF Stacked, Treiber!From, Outcome, Got
  <2> QED
    BY <2>2, <2>3, AbstractStays
<1> QED
  BY <1>1, <1>2, <1>3, <1>4, <1>5, <1>6, <1>7, <1>8 DEF Treiber!Next

\* Every step of the stack of compare-and-exchange (treiber.rs) is one push or pop of a
\* stack whose operations happen at once, or nothing at all to it: an exchange
\* that finds the node it read still on top finds what it read of it still true.
THEOREM StackImplemented == EnsembleSpec => ImplementsStack
<1>1. EnsembleInit => Treiber!Init
  BY DEF EnsembleInit
<1>2. [EnsembleNext]_allVars => [Treiber!Next]_treiberVars
  BY DEF EnsembleNext, AtRest, allVars
<1>3. Treiber!Init => StackInv /\ CalledInv /\ Treiber!Abstract!Init
  BY StackInit
<1>4. StackInv /\ CalledInv /\ [Treiber!Next]_treiberVars
        => StackInv' /\ CalledInv' /\ Treiber!AbstractStep
  BY StackStep, CalledStep
<1> QED
  BY <1>1, <1>2, <1>3, <1>4, PTL DEF EnsembleSpec, ImplementsStack

-----------------------------------------------------------------------------
(* The engines of 09.  TransactionProofs proves its theorems for engines    *)
(* with any accounts and jobs; here it is given those of each engine of the *)
(* ensemble.  An engine then has two names, such as Optimistic and          *)
(* OnDrafts!Optimistic, and the first lemmas of each only say that the      *)
(* definitions behind both are the same.                                    *)

OnDrafts == INSTANCE TransactionProofs
                WITH Opening <- Funds, Jobs <- OptimisticJobs, held <- locked
OnVersions == INSTANCE TransactionProofs
                  WITH Opening <- Funds, Jobs <- SnapshotJobs, held <- locked
OnSkew == INSTANCE TransactionProofs
              WITH Opening <- Funds, Jobs <- SkewJobs, held <- locked
OnLocks == INSTANCE TransactionProofs
               WITH Opening <- LockedFunds, Jobs <- LockingJobs, held <- locked

LEMMA DraftsInit ==
    Optimistic!Init => OnDrafts!Optimistic!Init
BY ZenonT(60) DEF Optimistic!Init, OnDrafts!Optimistic!Init, Optimistic!NewTx,
       OnDrafts!Optimistic!NewTx, Optimistic!Nothing, OnDrafts!Optimistic!Nothing,
       Optimistic!Key, OnDrafts!Optimistic!Key, Optimistic!Job, OnDrafts!Optimistic!Job

LEMMA DraftsNext ==
    [Optimistic!Next]_optimisticVars => [OnDrafts!Optimistic!Next]_(OnDrafts!Optimistic!vars)
BY ZenonT(60) DEF Optimistic!Next, OnDrafts!Optimistic!Next, Optimistic!Step,
       OnDrafts!Optimistic!Step, Optimistic!Read, OnDrafts!Optimistic!Read,
       Optimistic!Commit, OnDrafts!Optimistic!Commit, Optimistic!Conflict,
       OnDrafts!Optimistic!Conflict, Optimistic!ReadyToCommit,
       OnDrafts!Optimistic!ReadyToCommit, Optimistic!Valid, OnDrafts!Optimistic!Valid,
       Optimistic!NextRead, OnDrafts!Optimistic!NextRead, Optimistic!StillToRead,
       OnDrafts!Optimistic!StillToRead, Optimistic!With, OnDrafts!Optimistic!With,
       Optimistic!Min, OnDrafts!Optimistic!Min, Optimistic!Written,
       OnDrafts!Optimistic!Written, Optimistic!NewTx, OnDrafts!Optimistic!NewTx,
       Optimistic!Nothing, OnDrafts!Optimistic!Nothing, Optimistic!Key,
       OnDrafts!Optimistic!Key, Optimistic!Job, OnDrafts!Optimistic!Job, Optimistic!vars,
       OnDrafts!Optimistic!vars, optimisticVars

LEMMA DraftsShow ==
    OnDrafts!Optimistic!Serializable => Optimistic!Serializable
BY ZenonT(60) DEF Optimistic!Serializable, OnDrafts!Optimistic!Serializable,
       Optimistic!Serial, OnDrafts!Optimistic!Serial, Optimistic!OneByOne,
       OnDrafts!Optimistic!OneByOne, Optimistic!LeftAlone, OnDrafts!Optimistic!LeftAlone,
       Optimistic!SeenAlone, OnDrafts!Optimistic!SeenAlone, Optimistic!Refused,
       OnDrafts!Optimistic!Refused, Optimistic!MapThenSumSet,
       OnDrafts!Optimistic!MapThenSumSet, Optimistic!MapThenFoldSet,
       OnDrafts!Optimistic!MapThenFoldSet, Optimistic!Restrict,
       OnDrafts!Optimistic!Restrict, Optimistic!Range, OnDrafts!Optimistic!Range,
       Optimistic!SetToSeqs, OnDrafts!Optimistic!SetToSeqs, Optimistic!Cardinality,
       OnDrafts!Optimistic!Cardinality, Optimistic!Key, OnDrafts!Optimistic!Key,
       Optimistic!Job, OnDrafts!Optimistic!Job

LEMMA DraftsFit ==
    OnDrafts!JobsFit /\ OnDrafts!NeverRefuse
BY JobsAssumption, ZenonT(60) DEF Optimistic!JobsFit, OnDrafts!JobsFit, Optimistic!Fits, OnDrafts!Fits,
       Optimistic!Key, OnDrafts!Key, Optimistic!Job, OnDrafts!Job, Optimistic!Range,
       OnDrafts!Range, Optimistic!NeverRefuse, OnDrafts!NeverRefuse

LEMMA VersionsInit ==
    Snapshot!Init => OnVersions!Snapshot!Init
BY ZenonT(60) DEF Snapshot!Init, OnVersions!Snapshot!Init, Snapshot!NotBegun,
       OnVersions!Snapshot!NotBegun, Snapshot!Nothing, OnVersions!Snapshot!Nothing,
       Snapshot!Key, OnVersions!Snapshot!Key, Snapshot!Job, OnVersions!Snapshot!Job

LEMMA VersionsNext ==
    [Snapshot!Next]_snapshotVars => [OnVersions!Snapshot!Next]_(OnVersions!Snapshot!vars)
BY ZenonT(60) DEF Snapshot!Next, OnVersions!Snapshot!Next, Snapshot!Step,
       OnVersions!Snapshot!Step, Snapshot!Begin, OnVersions!Snapshot!Begin, Snapshot!Read,
       OnVersions!Snapshot!Read, Snapshot!Commit, OnVersions!Snapshot!Commit,
       Snapshot!Conflict, OnVersions!Snapshot!Conflict, Snapshot!ReadyToCommit,
       OnVersions!Snapshot!ReadyToCommit, Snapshot!ReadAt, OnVersions!Snapshot!ReadAt,
       Snapshot!First, OnVersions!Snapshot!First, Snapshot!NotBegun,
       OnVersions!Snapshot!NotBegun, Snapshot!NextRead, OnVersions!Snapshot!NextRead,
       Snapshot!StillToRead, OnVersions!Snapshot!StillToRead, Snapshot!With,
       OnVersions!Snapshot!With, Snapshot!Min, OnVersions!Snapshot!Min, Snapshot!Max,
       OnVersions!Snapshot!Max, Snapshot!Written, OnVersions!Snapshot!Written,
       Snapshot!Refused, OnVersions!Snapshot!Refused, Snapshot!MapThenSumSet,
       OnVersions!Snapshot!MapThenSumSet, Snapshot!MapThenFoldSet,
       OnVersions!Snapshot!MapThenFoldSet, Snapshot!Nothing, OnVersions!Snapshot!Nothing,
       Snapshot!Key, OnVersions!Snapshot!Key, Snapshot!Job, OnVersions!Snapshot!Job,
       Snapshot!vars, OnVersions!Snapshot!vars, snapshotVars

LEMMA VersionsShow ==
    OnVersions!Snapshot!Serializable => Snapshot!Serializable
BY ZenonT(60) DEF Snapshot!Serializable, OnVersions!Snapshot!Serializable, Snapshot!Serial,
       OnVersions!Snapshot!Serial, Snapshot!OneByOne, OnVersions!Snapshot!OneByOne,
       Snapshot!LeftAlone, OnVersions!Snapshot!LeftAlone, Snapshot!SeenAlone,
       OnVersions!Snapshot!SeenAlone, Snapshot!Refused, OnVersions!Snapshot!Refused,
       Snapshot!MapThenSumSet, OnVersions!Snapshot!MapThenSumSet, Snapshot!MapThenFoldSet,
       OnVersions!Snapshot!MapThenFoldSet, Snapshot!Restrict, OnVersions!Snapshot!Restrict,
       Snapshot!Range, OnVersions!Snapshot!Range, Snapshot!SetToSeqs,
       OnVersions!Snapshot!SetToSeqs, Snapshot!Cardinality, OnVersions!Snapshot!Cardinality,
       Snapshot!Key, OnVersions!Snapshot!Key, Snapshot!Job, OnVersions!Snapshot!Job,
       Snapshot!Finished, OnVersions!Snapshot!Finished, Snapshot!Balance,
       OnVersions!Snapshot!Balance, Snapshot!Last, OnVersions!Snapshot!Last

LEMMA VersionsKeep ==
    OnVersions!Snapshot!NoLostUpdate => Snapshot!NoLostUpdate
BY ZenonT(60) DEF Snapshot!NoLostUpdate, OnVersions!Snapshot!NoLostUpdate,
       Snapshot!Finished, OnVersions!Snapshot!Finished, Snapshot!Balance,
       OnVersions!Snapshot!Balance, Snapshot!Last, OnVersions!Snapshot!Last,
       Snapshot!Refused, OnVersions!Snapshot!Refused, Snapshot!MapThenSumSet,
       OnVersions!Snapshot!MapThenSumSet, Snapshot!MapThenFoldSet,
       OnVersions!Snapshot!MapThenFoldSet, Snapshot!Key, OnVersions!Snapshot!Key,
       Snapshot!Job, OnVersions!Snapshot!Job

LEMMA VersionsFit ==
    OnVersions!JobsFit /\ OnVersions!WriteAllOrNothing
BY JobsAssumption, ZenonT(60) DEF Snapshot!JobsFit, OnVersions!JobsFit, Snapshot!Fits, OnVersions!Fits,
       Snapshot!Key, OnVersions!Key, Snapshot!Job, OnVersions!Job, Snapshot!Range,
       OnVersions!Range, Snapshot!WriteAllOrNothing, OnVersions!WriteAllOrNothing

LEMMA SkewInit ==
    Skew!Init => OnSkew!Snapshot!Init
BY ZenonT(60) DEF Skew!Init, OnSkew!Snapshot!Init, Skew!NotBegun, OnSkew!Snapshot!NotBegun,
       Skew!Nothing, OnSkew!Snapshot!Nothing, Skew!Key, OnSkew!Snapshot!Key, Skew!Job,
       OnSkew!Snapshot!Job

LEMMA SkewNext ==
    [Skew!Next]_snapshotVars => [OnSkew!Snapshot!Next]_(OnSkew!Snapshot!vars)
BY ZenonT(60) DEF Skew!Next, OnSkew!Snapshot!Next, Skew!Step, OnSkew!Snapshot!Step,
       Skew!Begin, OnSkew!Snapshot!Begin, Skew!Read, OnSkew!Snapshot!Read, Skew!Commit,
       OnSkew!Snapshot!Commit, Skew!Conflict, OnSkew!Snapshot!Conflict, Skew!ReadyToCommit,
       OnSkew!Snapshot!ReadyToCommit, Skew!ReadAt, OnSkew!Snapshot!ReadAt, Skew!First,
       OnSkew!Snapshot!First, Skew!NotBegun, OnSkew!Snapshot!NotBegun, Skew!NextRead,
       OnSkew!Snapshot!NextRead, Skew!StillToRead, OnSkew!Snapshot!StillToRead, Skew!With,
       OnSkew!Snapshot!With, Skew!Min, OnSkew!Snapshot!Min, Skew!Max, OnSkew!Snapshot!Max,
       Skew!Written, OnSkew!Snapshot!Written, Skew!Refused, OnSkew!Snapshot!Refused,
       Skew!MapThenSumSet, OnSkew!Snapshot!MapThenSumSet, Skew!MapThenFoldSet,
       OnSkew!Snapshot!MapThenFoldSet, Skew!Nothing, OnSkew!Snapshot!Nothing, Skew!Key,
       OnSkew!Snapshot!Key, Skew!Job, OnSkew!Snapshot!Job, Skew!vars, OnSkew!Snapshot!vars,
       snapshotVars

LEMMA SkewKeep ==
    OnSkew!Snapshot!NoLostUpdate => Skew!NoLostUpdate
BY ZenonT(60) DEF Skew!NoLostUpdate, OnSkew!Snapshot!NoLostUpdate, Skew!Finished,
       OnSkew!Snapshot!Finished, Skew!Balance, OnSkew!Snapshot!Balance, Skew!Last,
       OnSkew!Snapshot!Last, Skew!Refused, OnSkew!Snapshot!Refused, Skew!MapThenSumSet,
       OnSkew!Snapshot!MapThenSumSet, Skew!MapThenFoldSet, OnSkew!Snapshot!MapThenFoldSet,
       Skew!Key, OnSkew!Snapshot!Key, Skew!Job, OnSkew!Snapshot!Job

LEMMA SkewFit ==
    OnSkew!JobsFit
BY JobsAssumption, ZenonT(60) DEF Skew!JobsFit, OnSkew!JobsFit, Skew!Fits, OnSkew!Fits, Skew!Key,
       OnSkew!Key, Skew!Job, OnSkew!Job, Skew!Range, OnSkew!Range

LEMMA LocksInit ==
    Locking!Init => OnLocks!Locking!Init
BY ZenonT(60) DEF Locking!Init, OnLocks!Locking!Init, Locking!Nothing,
       OnLocks!Locking!Nothing, Locking!Key, OnLocks!Locking!Key, Locking!Job,
       OnLocks!Locking!Job

LEMMA LocksNext ==
    [Locking!Next]_lockingVars => [OnLocks!Locking!Next]_(OnLocks!Locking!vars)
BY ZenonT(60) DEF Locking!Next, OnLocks!Locking!Next, Locking!Step, OnLocks!Locking!Step,
       Locking!Lock, OnLocks!Locking!Lock, Locking!Look, OnLocks!Locking!Look,
       Locking!Overwrite, OnLocks!Locking!Overwrite, Locking!Adjust, OnLocks!Locking!Adjust,
       Locking!Unlock, OnLocks!Locking!Unlock, Locking!Touched, OnLocks!Locking!Touched,
       Locking!NextLock, OnLocks!Locking!NextLock, Locking!Writes, OnLocks!Locking!Writes,
       Locking!Accessed, OnLocks!Locking!Accessed, Locking!AllLocked,
       OnLocks!Locking!AllLocked, Locking!NextRead, OnLocks!Locking!NextRead,
       Locking!StillToRead, OnLocks!Locking!StillToRead, Locking!With, OnLocks!Locking!With,
       Locking!Min, OnLocks!Locking!Min, Locking!Max, OnLocks!Locking!Max, Locking!Range,
       OnLocks!Locking!Range, Locking!Key, OnLocks!Locking!Key, Locking!Job,
       OnLocks!Locking!Job, Locking!vars, OnLocks!Locking!vars, lockingVars

LEMMA LocksShow ==
    OnLocks!Locking!Serializable => Locking!Serializable
BY ZenonT(60) DEF Locking!Serializable, OnLocks!Locking!Serializable, Locking!Serial,
       OnLocks!Locking!Serial, Locking!OneByOne, OnLocks!Locking!OneByOne,
       Locking!LeftAlone, OnLocks!Locking!LeftAlone, Locking!SeenAlone,
       OnLocks!Locking!SeenAlone, Locking!Refused, OnLocks!Locking!Refused,
       Locking!MapThenSumSet, OnLocks!Locking!MapThenSumSet, Locking!MapThenFoldSet,
       OnLocks!Locking!MapThenFoldSet, Locking!Restrict, OnLocks!Locking!Restrict,
       Locking!Range, OnLocks!Locking!Range, Locking!SetToSeqs, OnLocks!Locking!SetToSeqs,
       Locking!Cardinality, OnLocks!Locking!Cardinality, Locking!Key, OnLocks!Locking!Key,
       Locking!Job, OnLocks!Locking!Job, Locking!Accessed, OnLocks!Locking!Accessed,
       Locking!StillToRead, OnLocks!Locking!StillToRead

LEMMA LocksFit ==
    OnLocks!JobsFit /\ OnLocks!NeverRefuse /\ OnLocks!Locking!KindsFit
BY JobsAssumption, ZenonT(60) DEF Locking!JobsFit, OnLocks!JobsFit, Locking!Fits, OnLocks!Fits, Locking!Key,
       OnLocks!Key, Locking!Job, OnLocks!Job, Locking!Range, OnLocks!Range,
       Locking!NeverRefuse, OnLocks!NeverRefuse, Locking!KindsFit, OnLocks!Locking!KindsFit,
       Locking!Touched, OnLocks!Locking!Touched, OnLocks!Locking!Range, OnLocks!Locking!Job


\* What holds of each engine, whichever part runs.
EngineInv ==
    /\ OnDrafts!OptimisticInv
    /\ OnLocks!LockingInv
    /\ IF part = "skew" THEN OnSkew!SnapshotInv /\ OnSkew!KeepsAll
       ELSE OnVersions!SnapshotInv /\ OnVersions!Timely /\ OnVersions!KeepsAll

LEMMA EngineInit == EnsembleInit => EngineInv
<1> SUFFICES ASSUME EnsembleInit PROVE EngineInv
  OBVIOUS
<1>1. Optimistic!Init /\ Locking!Init /\ IF part = "skew" THEN Skew!Init ELSE Snapshot!Init
  BY DEF EnsembleInit
<1>2. OnDrafts!OptimisticInv
  BY <1>1, DraftsInit, DraftsFit, OnDrafts!OptimisticStart
<1>3. OnLocks!LockingInv
  BY <1>1, LocksInit, LocksFit, OnLocks!LockingStart
<1>4. CASE part = "skew"
  <2>1. OnSkew!SnapshotInv
    BY <1>1, <1>4, SkewInit, SkewFit, OnSkew!SnapshotStart
  <2>2. OnSkew!KeepsAll
    BY <1>1, <1>4, SkewInit, SkewFit, OnSkew!KeepsStart
  <2> QED
    BY <1>2, <1>3, <1>4, <2>1, <2>2 DEF EngineInv
<1>5. CASE part # "skew"
  <2>1. OnVersions!SnapshotInv
    BY <1>1, <1>5, VersionsInit, VersionsFit, OnVersions!SnapshotStart
  <2>2. OnVersions!KeepsAll
    BY <1>1, <1>5, VersionsInit, VersionsFit, OnVersions!KeepsStart
  <2>3. OnVersions!Timely
    BY <1>1, <1>5, VersionsInit, VersionsFit, OnVersions!TimelyStart
  <2> QED
    BY <1>2, <1>3, <1>5, <2>1, <2>2, <2>3 DEF EngineInv
<1> QED
  BY <1>4, <1>5

\* A step of the ensemble is one of each engine or leaves it alone.
LEMMA EnginesStep ==
    ASSUME [EnsembleNext]_allVars
    PROVE  /\ part' = part
           /\ [Optimistic!Next]_optimisticVars /\ [Locking!Next]_lockingVars
           /\ IF part = "skew" THEN [Skew!Next]_snapshotVars ELSE [Snapshot!Next]_snapshotVars
<1>1. CASE UNCHANGED allVars
  BY <1>1 DEF allVars
<1>2. CASE EnsembleNext
  BY <1>2 DEF EnsembleNext, AtRest
<1> QED
  BY <1>1, <1>2

LEMMA EngineStep == EngineInv /\ [EnsembleNext]_allVars => EngineInv'
<1> SUFFICES ASSUME EngineInv, [EnsembleNext]_allVars PROVE EngineInv'
  OBVIOUS
<1>1. OnDrafts!OptimisticInv'
  <2>1. OnDrafts!OptimisticInv /\ [OnDrafts!Optimistic!Next]_(OnDrafts!Optimistic!vars)
    BY EnginesStep, DraftsNext DEF EngineInv
  <2> QED
    BY <2>1, DraftsFit, OnDrafts!OptimisticStep
<1>2. OnLocks!LockingInv'
  <2>1. OnLocks!LockingInv /\ [OnLocks!Locking!Next]_(OnLocks!Locking!vars)
    BY EnginesStep, LocksNext DEF EngineInv
  <2> QED
    BY <2>1, LocksFit, OnLocks!LockingStep
<1>3. CASE part = "skew"
  <2>1. OnSkew!SnapshotInv /\ OnSkew!KeepsAll /\ [OnSkew!Snapshot!Next]_(OnSkew!Snapshot!vars)
    BY <1>3, EnginesStep, SkewNext DEF EngineInv
  <2>2. OnSkew!SnapshotInv' /\ OnSkew!KeepsAll'
    BY <2>1, SkewFit, OnSkew!SnapshotStep, OnSkew!KeepsStep
  <2> QED
    BY <1>1, <1>2, <1>3, <2>2, EnginesStep DEF EngineInv
<1>4. CASE part # "skew"
  <2>1. /\ OnVersions!SnapshotInv /\ OnVersions!Timely /\ OnVersions!KeepsAll
        /\ [OnVersions!Snapshot!Next]_(OnVersions!Snapshot!vars)
    BY <1>4, EnginesStep, VersionsNext DEF EngineInv
  <2>2. OnVersions!SnapshotInv'
    BY <2>1, VersionsFit, OnVersions!SnapshotStep
  <2>3. OnVersions!KeepsAll'
    BY <2>1, VersionsFit, OnVersions!KeepsStep
  <2>4. OnVersions!Timely'
    BY <2>1, VersionsFit, OnVersions!TimelyStep
  <2> QED
    BY <1>1, <1>2, <1>4, <2>2, <2>3, <2>4, EnginesStep DEF EngineInv
<1> QED
  BY <1>3, <1>4

\* However the threads of 09 interleave, the jobs that an engine with locks,
\* with validation or with snapshots has finished saw and left what they would
\* have one after the other.
THEOREM IsolatedHolds == EnsembleSpec => []Isolated
<1>1. EngineInv => Isolated
  <2> SUFFICES ASSUME EngineInv PROVE Isolated
    OBVIOUS
  <2>1. Optimistic!Serializable
    BY DraftsShow, OnDrafts!OptimisticResult DEF EngineInv
  <2>2. Locking!Serializable
    BY LocksShow, OnLocks!LockingResult DEF EngineInv
  <2>3. part = "snapshot" => Snapshot!Serializable
    BY VersionsShow, OnVersions!SnapshotResult DEF EngineInv
  <2> QED
    BY <2>1, <2>2, <2>3 DEF Isolated
<1> QED
  BY <1>1, EngineInit, EngineStep, PTL DEF EnsembleSpec

\* And under the snapshots, where jobs like those of write_skew.rs are not as
\* good as one after the other, none of them loses a write to another.
THEOREM NothingLostHolds == EnsembleSpec => []NothingLost
<1>1. EngineInv => NothingLost
  <2> SUFFICES ASSUME EngineInv PROVE NothingLost
    OBVIOUS
  <2>1. part = "snapshot" => Snapshot!NoLostUpdate
    BY VersionsKeep, OnVersions!KeepsResult DEF EngineInv
  <2>2. part = "skew" => Skew!NoLostUpdate
    BY SkewKeep, OnSkew!KeepsResult DEF EngineInv
  <2> QED
    BY <2>1, <2>2 DEF NothingLost
<1> QED
  BY <1>1, EngineInit, EngineStep, PTL DEF EnsembleSpec

=============================================================================
