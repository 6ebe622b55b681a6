---------------------------- MODULE BrachaProofs ----------------------------
(***************************************************************************)
(* Proofs about BrachaBroadcast, for any nodes, any f Byzantine ones among *)
(* them, and whatever these sign.                                          *)
(*                                                                         *)
(* Consistency is not inductive: it looks at what was delivered, and that  *)
(* rests on READYs, which rest on other READYs, and in the end on ECHOs.   *)
(* Backed(c) is where the chain ends: an echo quorum whose correct members *)
(* have all echoed c.  Every READY of a correct node and every delivery is *)
(* of a backed content, and quorums that share a correct node cannot back  *)
(* two.                                                                    *)
(***************************************************************************)
EXTENDS BrachaBroadcast, FiniteSetTheorems, TLAPS

Echo(q, c)  == [kind |-> "ECHO", from |-> q, m |-> c]
Ready(q, c) == [kind |-> "READY", from |-> q, m |-> c]

\* Q is large enough, and its correct members have echoed c.
Backing(Q, c) ==
    /\ Q \subseteq Node /\ 2 * Cardinality(Q) > n + f
    /\ \A q \in Q : q \in Correct => Echo(q, c) \in net

Backed(c) == \E Q : Backing(Q, c)

\* A correct node echoes once.
EchoOnce ==
    \A q \in Correct, c \in Msg : Echo(q, c) \in net =>
        /\ sentecho[q]
        /\ \A d \in Msg : Echo(q, d) \in net => d = c

\* What a node has recorded from a correct node, that node has sent.
Recorded ==
    \A p, q \in Correct, c \in Msg :
        /\ echos[p][q] = c => Echo(q, c) \in net
        /\ readys[p][q] = c => Ready(q, c) \in net

ReadyBacked == \A q \in Correct, c \in Msg : Ready(q, c) \in net => Backed(c)

DeliveredBacked == \A p \in Correct, c \in Msg : delivered[p] = <<c>> => Backed(c)

\* What a correct node echoes, a correct sender has sent.
Send(c) == [kind |-> "SEND", from |-> Sender, m |-> c]
Heard ==
    Sender \in Correct =>
        \A q \in Correct, c \in Msg : Echo(q, c) \in net => Send(c) \in net

\* The net holds messages of correct nodes only.
Own == \A msg \in net : msg.from \in Correct

BackedInv ==
    /\ TypeOK /\ Own /\ EchoOnce /\ Heard
    /\ Recorded /\ ReadyBacked /\ DeliveredBacked

(******************************* cardinality *******************************)

LEMMA Sizes == n \in Nat /\ f \in Nat /\ f <= n
<1>1. n \in Nat
  BY NodeAssumption, FS_CardinalityType DEF n
<1>2. n > 0
  BY <1>1, NodeAssumption, FS_EmptySet DEF n
<1> QED
  BY <1>1, <1>2 DEF f

\* More than f nodes include a correct one.
LEMMA CorrectMember ==
    ASSUME NEW Q \in SUBSET Node, Cardinality(Q) > f
    PROVE  \E q \in Q : q \in Correct
<1>1. IsFiniteSet(Byzantine) /\ Cardinality(Byzantine) \in Nat
  BY NodeAssumption, FS_Subset, FS_CardinalityType
<1>2. SUFFICES ASSUME Q \subseteq Byzantine PROVE FALSE
  BY DEF Correct
<1>3. Cardinality(Q) <= Cardinality(Byzantine) /\ Cardinality(Q) \in Nat
  BY <1>1, <1>2, FS_Subset, FS_CardinalityType
<1> QED
  BY <1>1, <1>3, NodeAssumption, Sizes

\* Two echo quorums share a correct node.
LEMMA QuorumsMeet ==
    ASSUME NEW Q \in SUBSET Node, NEW R \in SUBSET Node,
           2 * Cardinality(Q) > n + f, 2 * Cardinality(R) > n + f
    PROVE  \E q \in Q \cap R : q \in Correct
<1>1. IsFiniteSet(Q) /\ IsFiniteSet(R) /\ IsFiniteSet(Q \cup R) /\ IsFiniteSet(Q \cap R)
  BY NodeAssumption, FS_Subset
<1>2. /\ Cardinality(Q) \in Nat /\ Cardinality(R) \in Nat
      /\ Cardinality(Q \cup R) \in Nat /\ Cardinality(Q \cap R) \in Nat
  BY <1>1, FS_CardinalityType
<1>3. Cardinality(Q \cup R) = Cardinality(Q) + Cardinality(R) - Cardinality(Q \cap R)
  BY <1>1, FS_Union
<1>4. Cardinality(Q \cup R) <= n
  BY NodeAssumption, FS_Subset DEF n
<1>5. Cardinality(Q \cap R) > f
  BY <1>2, <1>3, <1>4, Sizes
<1> QED
  BY <1>5, CorrectMember

LEMMA BackedUnique ==
    ASSUME TypeOK, EchoOnce, NEW c \in Msg, NEW d \in Msg, Backed(c), Backed(d)
    PROVE  c = d
<1>1. PICK Q : Backing(Q, c)
  BY DEF Backed
<1>2. PICK R : Backing(R, d)
  BY DEF Backed
<1>3. PICK q \in Q \cap R : q \in Correct
  BY <1>1, <1>2, QuorumsMeet DEF Backing
<1> QED
  BY <1>1, <1>2, <1>3 DEF Backing, EchoOnce

LEMMA BackedConsistent == BackedInv => Consistency
<1> SUFFICES ASSUME BackedInv, NEW p \in Correct, NEW q \in Correct,
                    NEW c \in ToSet(delivered[p]), NEW d \in ToSet(delivered[q])
             PROVE  c = d
  BY DEF Consistency
<1>1. ASSUME NEW r \in Correct, NEW e \in ToSet(delivered[r])
      PROVE  e \in Msg /\ delivered[r] = <<e>>
  <2>1. delivered[r] \in {<<>>} \cup {<<x>> : x \in Msg}
    BY DEF BackedInv, TypeOK
  <2> QED
    BY <1>1, <2>1 DEF ToSet
<1>2. c \in Msg /\ d \in Msg /\ Backed(c) /\ Backed(d)
  BY <1>1 DEF BackedInv, DeliveredBacked
<1> QED
  BY <1>2, BackedUnique DEF BackedInv

(******************************** the steps ********************************)

LEMMA InitBacked == Init => BackedInv
<1> SUFFICES ASSUME Init PROVE BackedInv
  OBVIOUS
<1>1. TypeOK
  BY DEF Init, TypeOK
<1>2. Own /\ EchoOnce /\ Heard /\ ReadyBacked /\ DeliveredBacked
  BY DEF Init, Own, EchoOnce, Heard, ReadyBacked, DeliveredBacked
<1>3. Recorded
  BY NodeAssumption DEF Init, Recorded, Correct
<1> QED
  BY <1>1, <1>2, <1>3 DEF BackedInv

\* A backed content stays backed.
LEMMA BackedStays ==
    ASSUME NEW c, Backed(c), net \subseteq net'
    PROVE  Backed(c)'
<1>1. PICK Q : Backing(Q, c)
  BY DEF Backed
<1>2. Backing(Q, c)'
  BY <1>1 DEF Backing
<1> QED
  BY <1>2 DEF Backed

\* Enough echoes in the map of a correct node back the content.
LEMMA EchoesBack ==
    ASSUME NEW map \in [Node -> Msg \cup {None}], NEW c \in Msg,
           EchoQuorum(Count(map, c)),
           \A q \in Correct : map[q] = c => Echo(q, c) \in net
    PROVE  Backed(c)
<1> DEFINE Q == {q \in Node : map[q] = c}
<1>1. Backing(Q, c)
  BY DEF Backing, EchoQuorum, Count
<1> QED
  BY <1>1 DEF Backed

\* More than f READYs in the map of a correct node do.
LEMMA ReadiesBack ==
    ASSUME NEW map \in [Node -> Msg \cup {None}], NEW c \in Msg,
           Count(map, c) > f, ReadyBacked,
           \A q \in Correct : map[q] = c => Ready(q, c) \in net
    PROVE  Backed(c)
<1> DEFINE Q == {q \in Node : map[q] = c}
<1>1. PICK q \in Q : q \in Correct
  BY CorrectMember DEF Count
<1> QED
  BY <1>1 DEF ReadyBacked

\* What is authentic and claims to be from a correct node is from it.
LEMMA FromCorrect ==
    ASSUME NEW p \in Correct, NEW msg \in Signed, Authentic(p, msg), msg.from \in Correct
    PROVE  msg \in net
BY ForgedAssumption DEF Authentic, Correct

LEMMA RecordKeeps ==
    ASSUME NEW map \in [Node -> Msg \cup {None}], NEW msg \in Signed
    PROVE  /\ Record(map, msg) \in [Node -> Msg \cup {None}]
           /\ \A q \in Node : \/ Record(map, msg)[q] = map[q]
                              \/ q = msg.from /\ Record(map, msg)[q] = msg.m
BY DEF Record, Signed

\* Contents stay backed, so that what is the same on both sides stays true.
LEMMA BackedSame ==
    ASSUME BackedInv, net \subseteq net'
    PROVE  /\ (\A q \in Correct, c \in Msg : Ready(q, c) \in net' => Ready(q, c) \in net)
                => ReadyBacked'
           /\ delivered' = delivered => DeliveredBacked'
           /\ echos' = echos /\ readys' = readys => Recorded'
<1>1. \A c \in Msg : Backed(c) => Backed(c)'
  BY BackedStays
<1> QED
  BY <1>1 DEF BackedInv, ReadyBacked, DeliveredBacked, Recorded

LEMMA BcastStep ==
    ASSUME BackedInv, NEW ms \in SUBSET Msg, Bcast(ms)
    PROVE  BackedInv'
<1>1. /\ net' = net \cup [kind : {"SEND"}, from : {Sender}, m : ms] /\ Sender \in Correct
      /\ UNCHANGED <<sentecho, sentready, delivered, echos, readys>>
  BY DEF Bcast, Broadcast
<1>2. \A q \in Correct, c \in Msg :
         /\ Echo(q, c) \in net' => Echo(q, c) \in net
         /\ Ready(q, c) \in net' => Ready(q, c) \in net
  BY <1>1 DEF Echo, Ready
<1>3. TypeOK'
  BY <1>1 DEF BackedInv, TypeOK, Signed, Correct
<1>4. Own'
  BY <1>1 DEF BackedInv, Own
<1>5. EchoOnce' /\ Heard'
  BY <1>1, <1>2 DEF BackedInv, EchoOnce, Heard
<1> QED
  BY <1>1, <1>2, <1>3, <1>4, <1>5, BackedSame DEF BackedInv

LEMMA SendStep ==
    ASSUME BackedInv, NEW p \in Correct, NEW msg \in Signed, OnSend(p, msg)
    PROVE  BackedInv'
<1>1. /\ msg.kind = "SEND" /\ msg.from = Sender /\ ~sentecho[p] /\ msg.m \in Msg
      /\ sentecho' = [sentecho EXCEPT ![p] = TRUE]
      /\ net' = net \cup {Echo(p, msg.m)}
      /\ UNCHANGED <<sentready, delivered, echos, readys>>
  BY DEF OnSend, Broadcast, Signed, Echo
<1>2. \A q \in Correct, c \in Msg :
         /\ Echo(q, c) \in net' => Echo(q, c) \in net \/ (q = p /\ c = msg.m)
         /\ Ready(q, c) \in net' => Ready(q, c) \in net
         /\ Send(c) \in net => Send(c) \in net'
  BY <1>1 DEF Echo, Ready
<1>3. \A c \in Msg : Echo(p, c) \notin net
  BY <1>1 DEF BackedInv, EchoOnce
<1>4. TypeOK'
  BY <1>1 DEF BackedInv, TypeOK, Signed, Correct, Echo
<1>5. Own'
  BY <1>1 DEF BackedInv, Own, Echo
<1>6. EchoOnce'
  BY <1>1, <1>2, <1>3 DEF BackedInv, EchoOnce, TypeOK
<1>7. Sender \in Correct => Send(msg.m) \in net
  <2> SUFFICES ASSUME Sender \in Correct PROVE Send(msg.m) \in net
    OBVIOUS
  <2>1. msg \in net
    BY <1>1, FromCorrect DEF OnSend
  <2> QED
    BY <1>1, <2>1 DEF Send, Signed
<1>8. Heard'
  BY <1>2, <1>7 DEF BackedInv, Heard
<1> QED
  BY <1>1, <1>2, <1>4, <1>5, <1>6, <1>8, BackedSame DEF BackedInv

\* A READY that goes out is of a backed content.
LEMMA ReadySent ==
    ASSUME BackedInv, NEW p \in Correct, NEW c \in Msg, NEW enough \in BOOLEAN,
           enough => Backed(c), MaybeReady(p, c, enough), sentecho' = sentecho
    PROVE  /\ net \subseteq net' /\ net' \subseteq Signed
           /\ sentready' \in [Correct -> BOOLEAN]
           /\ Own' /\ EchoOnce' /\ Heard' /\ ReadyBacked'
<1>1. \/ net' = net /\ sentready' = sentready
      \/ enough /\ net' = net \cup {Ready(p, c)} /\ sentready' = [sentready EXCEPT ![p] = TRUE]
  BY DEF MaybeReady, Broadcast, Ready
<1>0. Ready(p, c) \in Signed /\ Ready(p, c).from = p
  BY DEF Ready, Signed, Correct
<1>2. /\ net \subseteq net' /\ net' \subseteq Signed
      /\ sentready' \in [Correct -> BOOLEAN] /\ Own'
  <2>1. net \subseteq Signed /\ sentready \in [Correct -> BOOLEAN] /\ Own
    BY DEF BackedInv, TypeOK
  <2>2. CASE net' = net /\ sentready' = sentready
    BY <2>1, <2>2 DEF Own
  <2>3. CASE net' = net \cup {Ready(p, c)} /\ sentready' = [sentready EXCEPT ![p] = TRUE]
    <3>1. net' \subseteq Signed /\ Own'
      BY <1>0, <2>1, <2>3 DEF Own
    <3>2. sentready' \in [Correct -> BOOLEAN]
      BY <2>1, <2>3
    <3> QED
      BY <2>3, <3>1, <3>2
  <2> QED
    BY <1>1, <2>2, <2>3
<1>3. \A q \in Correct, d \in Msg :
         /\ Echo(q, d) \in net' => Echo(q, d) \in net
         /\ Ready(q, d) \in net' => Ready(q, d) \in net \/ (enough /\ d = c)
  BY <1>1 DEF Echo, Ready
<1>4. EchoOnce' /\ Heard'
  BY <1>2, <1>3 DEF BackedInv, EchoOnce, Heard
<1>5. \A d \in Msg : Backed(d) => Backed(d)'
  BY <1>2, BackedStays
<1>6. ReadyBacked'
  BY <1>3, <1>5 DEF BackedInv, ReadyBacked
<1> QED
  BY <1>2, <1>4, <1>6

LEMMA EchoStep ==
    ASSUME BackedInv, NEW p \in Correct, NEW msg \in Signed, OnEcho(p, msg)
    PROVE  BackedInv'
<1> DEFINE heard == Record(echos[p], msg)
           enough == EchoQuorum(Count(heard, msg.m))
<1>1. /\ msg.kind = "ECHO" /\ msg.m \in Msg /\ msg.from \in Node
      /\ echos' = [echos EXCEPT ![p] = heard] /\ MaybeReady(p, msg.m, enough)
      /\ UNCHANGED <<sentecho, delivered, readys>>
  BY DEF OnEcho, Signed
<1>2. echos[p] \in [Node -> Msg \cup {None}] /\ p \in Node
  BY DEF BackedInv, TypeOK, Correct
<1>3. /\ heard \in [Node -> Msg \cup {None}]
      /\ \A q \in Node : heard[q] = echos[p][q] \/ (q = msg.from /\ heard[q] = msg.m)
  BY <1>2, RecordKeeps
<1>4. msg.from \in Correct => Echo(msg.from, msg.m) \in net
  <2> SUFFICES ASSUME msg.from \in Correct PROVE Echo(msg.from, msg.m) \in net
    OBVIOUS
  <2>1. msg \in net
    BY FromCorrect DEF OnEcho
  <2> QED
    BY <1>1, <2>1 DEF Echo, Signed
<1> HIDE DEF heard
<1>5. \A q \in Correct, c \in Msg : heard[q] = c => Echo(q, c) \in net
  BY <1>3, <1>4 DEF BackedInv, Recorded, Correct
<1>6. enough \in BOOLEAN /\ (enough => Backed(msg.m))
  BY <1>1, <1>3, <1>5, EchoesBack DEF EchoQuorum
<1> HIDE DEF enough
<1>7. /\ net \subseteq net' /\ net' \subseteq Signed
      /\ sentready' \in [Correct -> BOOLEAN]
      /\ Own' /\ EchoOnce' /\ Heard' /\ ReadyBacked'
  BY <1>1, <1>6, ReadySent
<1>8. TypeOK'
  BY <1>1, <1>3, <1>7 DEF BackedInv, TypeOK
<1>9. Recorded'
  BY <1>1, <1>5, <1>7 DEF BackedInv, Recorded, TypeOK
<1> QED
  BY <1>1, <1>7, <1>8, <1>9, BackedSame DEF BackedInv

LEMMA ReadyStep ==
    ASSUME BackedInv, NEW p \in Correct, NEW msg \in Signed, OnReady(p, msg)
    PROVE  BackedInv'
<1> DEFINE heard == Record(readys[p], msg)
           count == Count(heard, msg.m)
           enough == Amplify(count)
<1>1. /\ msg.kind = "READY" /\ msg.m \in Msg /\ msg.from \in Node
      /\ readys' = [readys EXCEPT ![p] = heard] /\ MaybeReady(p, msg.m, enough)
      /\ delivered' = [delivered EXCEPT ![p] =
                         IF ReadyQuorum(count) /\ delivered[p] = <<>>
                         THEN <<msg.m>> ELSE delivered[p]]
      /\ UNCHANGED <<sentecho, echos>>
  BY DEF OnReady, Signed
<1>2. readys[p] \in [Node -> Msg \cup {None}] /\ p \in Node
  BY DEF BackedInv, TypeOK, Correct
<1>3. /\ heard \in [Node -> Msg \cup {None}]
      /\ \A q \in Node : heard[q] = readys[p][q] \/ (q = msg.from /\ heard[q] = msg.m)
  BY <1>2, RecordKeeps
<1>4. msg.from \in Correct => Ready(msg.from, msg.m) \in net
  <2> SUFFICES ASSUME msg.from \in Correct PROVE Ready(msg.from, msg.m) \in net
    OBVIOUS
  <2>1. msg \in net
    BY FromCorrect DEF OnReady
  <2> QED
    BY <1>1, <2>1 DEF Ready, Signed
<1> HIDE DEF heard
<1>5. \A q \in Correct, c \in Msg : heard[q] = c => Ready(q, c) \in net
  BY <1>3, <1>4 DEF BackedInv, Recorded, Correct
<1>6. count > f => Backed(msg.m)
  BY <1>1, <1>3, <1>5, ReadiesBack DEF BackedInv
<1>7. count \in Nat
  BY NodeAssumption, FS_Subset, FS_CardinalityType DEF Count
<1>8. enough \in BOOLEAN /\ (enough => Backed(msg.m)) /\ (ReadyQuorum(count) => Backed(msg.m))
  BY <1>6, <1>7, Sizes DEF Amplify, ReadyQuorum
<1> HIDE DEF enough, count
<1>9. /\ net \subseteq net' /\ net' \subseteq Signed
      /\ sentready' \in [Correct -> BOOLEAN]
      /\ Own' /\ EchoOnce' /\ Heard' /\ ReadyBacked'
  BY <1>1, <1>8, ReadySent
<1>10. TypeOK'
  BY <1>1, <1>3, <1>9 DEF BackedInv, TypeOK
<1>11. Recorded'
  BY <1>1, <1>5, <1>9 DEF BackedInv, Recorded, TypeOK
<1>12. \A c \in Msg : Backed(c) => Backed(c)'
  BY <1>9, BackedStays
<1>13. ASSUME NEW q \in Correct, NEW c \in Msg, delivered'[q] = <<c>> PROVE Backed(c)
  <2>1. delivered[q] = <<c>> \/ (ReadyQuorum(count) /\ <<c>> = <<msg.m>>)
    BY <1>1, <1>13 DEF BackedInv, TypeOK
  <2> QED
    BY <1>8, <2>1 DEF BackedInv, DeliveredBacked
<1>14. DeliveredBacked'
  BY <1>12, <1>13 DEF DeliveredBacked
<1> QED
  BY <1>9, <1>10, <1>11, <1>14 DEF BackedInv

LEMMA NextBacked == BackedInv /\ [Next]_vars => BackedInv'
<1> SUFFICES ASSUME BackedInv, [Next]_vars PROVE BackedInv'
  OBVIOUS
<1>1. ASSUME UNCHANGED vars PROVE BackedInv'
  BY <1>1, BackedSame DEF vars, BackedInv, TypeOK, Own, EchoOnce, Heard
<1>2. ASSUME NEW m \in Msg, NEW m2 \in Msg, Bcast({m, m2}) PROVE BackedInv'
  BY <1>2, BcastStep
<1>3. ASSUME NEW p \in Correct, NEW msg \in Signed, Receive(p, msg) PROVE BackedInv'
  BY <1>3, SendStep, EchoStep, ReadyStep DEF Receive
<1> QED
  BY <1>1, <1>2, <1>3 DEF Next

(******************************** theorems *********************************)

\* Every variable keeps its type, and no node delivers twice.
THEOREM TypeCorrect == Spec => []TypeOK
<1>1. BackedInv => TypeOK
  BY DEF BackedInv
<1> QED
  BY InitBacked, NextBacked, <1>1, PTL DEF Spec

\* Correct nodes deliver the same, for any number of nodes and any f of them
\* Byzantine, the sender included.
THEOREM ConsistencyHolds == Spec => []Consistency
BY InitBacked, NextBacked, BackedConsistent, PTL DEF Spec

LEMMA BackedIntegrity == BackedInv => Integrity
<1> SUFFICES ASSUME BackedInv, Sender \in Correct, NEW p \in Correct,
                    NEW c \in ToSet(delivered[p])
             PROVE  c \in Sent
  BY DEF Integrity
<1>1. delivered[p] \in {<<>>} \cup {<<x>> : x \in Msg}
  BY DEF BackedInv, TypeOK
<1>2. c \in Msg /\ delivered[p] = <<c>>
  BY <1>1 DEF ToSet
<1>3. PICK Q : Backing(Q, c)
  BY <1>2 DEF BackedInv, DeliveredBacked, Backed
<1>4. PICK q \in Q : q \in Correct
  BY <1>3, QuorumsMeet DEF Backing
<1>5. Send(c) \in net
  BY <1>2, <1>3, <1>4 DEF Backing, BackedInv, Heard
<1> QED
  BY <1>5 DEF Sent, Send

\* What a correct node delivers in the name of a correct sender, the sender has
\* broadcast.
THEOREM IntegrityHolds == Spec => []Integrity
BY InitBacked, NextBacked, BackedIntegrity, PTL DEF Spec
=============================================================================
