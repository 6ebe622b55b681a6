----------------------------- MODULE StoreProofs -----------------------------
(***************************************************************************)
(* Proofs about ReplicatedStore, for any nodes and any numbers of writes,  *)
(* gets, late forwards and crashes.                                        *)
(*                                                                         *)
(* While nothing is removed and no node dies serving a request (Quiet),    *)
(* timestamps count the writes, so that a node that has acknowledged a     *)
(* write never holds anything older, unless it is down: it comes back with *)
(* the primary's copy, which is the newest.  A get that has not yet seen   *)
(* what was acknowledged before it began has not yet asked a majority that *)
(* holds it (GetInv), and would have to leave that majority out; what that *)
(* majority holds is shown to it unless it is, or precedes, an empty value *)
(* (Shown).                                                                *)
(***************************************************************************)
EXTENDS ReplicatedStore, FiniteSetTheorems, TLAPS

Copy == [ts : 0 .. MaxWrites, value : 0 .. MaxWrites, text : {"empty", "part", "whole"}]
Line == [verb : {"none", "repl", "replrm"}, copy : Copy]
Attempt == [state : {"idle", "forwarding", "over"}, line : Line,
            left : SUBSET Node, acks : SUBSET Node]
Reading == [state : {"idle", "reading", "answered", "refused"}, at : Node,
            left : SUBSET Node, seen : SUBSET Node, best : Copy, floor : 0 .. MaxWrites]

\* The writes begin in order, and what is copied was once written.
Known(copy) == copy.ts \in Begun \union {0}

TypeInv ==
    /\ TypeOK
    /\ \A w \in Begun : 1 .. w - 1 \subseteq Begun
    /\ \A n \in Node : Known(store[n])
    /\ \A w \in Write : Known(write[w].line.copy)
    /\ acknowledged \in Begun \union {0} /\ get.floor \in Begun \union {0}

Quiet == Removals = {} /\ dying = 0

\* A running node has the copy of write v, or a newer one.
Holds(n, v) == n \in up => store[n].ts >= v

\* So does a majority outside S.
HeldOutside(S, v) ==
    \E Q \in SUBSET Node : Majority(Q) /\ Q \intersect S = {} /\ \A n \in Q : Holds(n, v)

\* The timestamp is the number of the set, and the text is empty if the set's was.
Genuine(copy) ==
    copy.ts = copy.value /\ (copy.text = "empty" => copy.ts \in Empties \union {0})

\* Timestamps number the sets, and the primary has the last one.
Numbered ==
    /\ \A w \in Begun : /\ write[w].line.verb = "repl"
                        /\ write[w].line.copy.ts = w
                        /\ Genuine(write[w].line.copy)
    /\ \A x \in late : x[1] \in Begun
    /\ \A n \in Node : Genuine(store[n])
    /\ Primary \in up => \A w \in Begun : store[Primary].ts >= w

\* Acknowledgements, of one node or of all, are kept.
AckInv ==
    /\ \A w \in Begun : \A n \in write[w].acks : Holds(n, w)
    /\ HeldOutside({}, acknowledged)

\* Neither set v nor any after it has the empty value.
Shown(v) == \A w \in Empties : w < v

GetInv ==
    /\ get.best.ts = get.best.value
    /\ get.state = "reading" /\ Shown(get.floor) =>
         get.best.ts >= get.floor \/ HeldOutside(get.seen, get.floor)
    /\ get.state = "answered" /\ Shown(get.floor) => get.best.ts >= get.floor

ReadInv == TypeInv /\ (Quiet => Numbered /\ AckInv /\ GetInv)

(******************************* majorities ********************************)

LEMMA AllNodes == IsFiniteSet(Node) /\ Cardinality(Node) \in Nat /\ Majority(Node)
<1>1. IsFiniteSet(Node) /\ Primary \in Node
  BY NodeAssumption
<1>2. Cardinality(Node) \in Nat /\ Cardinality(Node) # 0
  BY <1>1, FS_CardinalityType, FS_EmptySet
<1> QED
  BY <1>1, <1>2 DEF Majority

LEMMA MajoritiesMeet ==
    ASSUME NEW Q \in SUBSET Node, NEW R \in SUBSET Node, Majority(Q), Majority(R)
    PROVE  Q \intersect R # {}
<1>1. IsFiniteSet(Q) /\ IsFiniteSet(R)
  BY AllNodes, FS_Subset
<1>2. Q \union R \in SUBSET Node
  OBVIOUS
<1>3. /\ Cardinality(Q) \in Nat /\ Cardinality(R) \in Nat
      /\ Cardinality(Q \union R) <= Cardinality(Node) /\ Cardinality(Q \union R) \in Nat
  BY <1>1, <1>2, AllNodes, FS_Subset, FS_CardinalityType
<1>4. Cardinality(Q \union R) = Cardinality(Q) + Cardinality(R) - Cardinality(Q \intersect R)
  BY <1>1, FS_Union
<1>5. Cardinality(Q \intersect R) # 0
  BY <1>3, <1>4, AllNodes DEF Majority
<1> QED
  BY <1>5, FS_EmptySet

(********************************** types **********************************)

LEMMA Bounds == MaxWrites \in Nat /\ MaxCrashes \in Nat /\ MaxDying \in Nat /\ Primary \in Node
BY BoundAssumption, NodeAssumption

LEMMA Typed ==
    TypeOK <=> /\ store \in [Node -> Copy]
               /\ up \subseteq Node /\ catching \subseteq Node \ up
               /\ write \in [Write -> Attempt]
               /\ late \subseteq Write \X Node
               /\ get \in Reading
               /\ acknowledged \in 0 .. MaxWrites
               /\ crashes \in 0 .. MaxCrashes
               /\ dying \in 0 .. MaxDying
BY DEF TypeOK, Copy, Line, Attempt, Reading

LEMMA Copies ==
    /\ Absent \in Copy
    /\ \A copy \in Copy, line \in Line :
         /\ Apply(copy, line) \in Copy
         /\ Apply(copy, line) \in {copy, line.copy, Absent}
    /\ \A best, copy \in Copy : Fresher(best, copy) \in Copy /\ Wire(copy) \in Copy
    /\ \A copy \in Copy : \A torn \in Torn(copy) : torn \in Copy /\ torn.ts \in {0, copy.ts}
<1>1. Absent \in Copy /\ Absent.ts = 0
  BY Bounds DEF Absent, Copy
<1>2. \A best, copy \in Copy : Fresher(best, copy) \in Copy /\ Wire(copy) \in Copy
  BY <1>1 DEF Fresher, Wire
<1>3. \A copy \in Copy, line \in Line :
         /\ Apply(copy, line) \in Copy
         /\ Apply(copy, line) \in {copy, line.copy, Absent}
  BY <1>1 DEF Line, Apply
<1>4. \A copy \in Copy : \A torn \in Torn(copy) : torn \in Copy /\ torn.ts \in {0, copy.ts}
  BY <1>1 DEF Copy, Torn
<1> QED
  BY <1>1, <1>2, <1>3, <1>4

\* What is done to the writes, their lines apart: none begins.
LEMMA SameBegun ==
    ASSUME TypeInv, write' \in [Write -> Attempt],
           \A w \in Write : /\ write'[w].line = write[w].line
                            /\ write'[w].state = "idle" <=> write[w].state = "idle"
    PROVE  Begun' = Begun /\ Removals' = Removals /\ Empties' = Empties
BY DEF Begun, Removals, Empties, TypeInv

\* The next write: its timestamp is one more than some earlier one's, or 1.
LEMMA NextWrite ==
    ASSUME TypeInv, NEW w \in Write, NEW line, Accepted(w, line)
    PROVE  /\ line \in Line => write' \in [Write -> Attempt]
           /\ Begun' = Begun \union {w} /\ w \notin Begun
           /\ \A v \in Begun : write'[v] = write[v] /\ v < w
           /\ \A v \in Write \ {w} : write'[v].line = write[v].line
           /\ write'[w].line = line /\ write'[w].acks = {Primary}
           /\ \A v \in Begun' : 1 .. v - 1 \subseteq Begun'
           /\ \A v \in Begun \union {0} : v + 1 \in Begun'
<1>1. write \in [Write -> Attempt] /\ Begun \subseteq Write /\ Write \subseteq Nat
  BY Typed DEF TypeInv, Begun, Write
<1>2. /\ w \notin Begun /\ 1 .. w - 1 \subseteq Begun
      /\ write' = [write EXCEPT ![w] = [state |-> "forwarding", line |-> line,
                                        left |-> Node \ {Primary}, acks |-> {Primary}]]
  BY DEF Accepted
<1>3. /\ line \in Line => write' \in [Write -> Attempt]
      /\ write'[w] = [state |-> "forwarding", line |-> line,
                      left |-> Node \ {Primary}, acks |-> {Primary}]
      /\ \A v \in Write \ {w} : write'[v] = write[v]
  BY <1>1, <1>2, Bounds DEF Attempt
<1>4. Begun' = Begun \union {w}
  BY <1>2, <1>3 DEF Begun
<1>5. \A v \in Begun : v < w
  <2> SUFFICES ASSUME NEW v \in Begun, v > w PROVE FALSE
    BY <1>1, <1>2
  <2>1. w \in 1 .. v - 1
    BY <1>1 DEF Write
  <2> QED
    BY <1>2, <2>1 DEF TypeInv
<1>6. \A v \in Begun' : 1 .. v - 1 \subseteq Begun'
  BY <1>2, <1>4 DEF TypeInv
<1>7. \A v \in Begun \union {0} : v + 1 \in Begun'
  <2> TAKE v \in Begun \union {0}
  <2>1. v \in Nat /\ w \in Nat /\ v < w /\ w >= 1
    BY <1>1, <1>5 DEF Write
  <2>2. v + 1 = w \/ v + 1 \in 1 .. w - 1
    BY <2>1
  <2> QED
    BY <1>2, <1>4, <2>2
<1> QED
  BY <1>2, <1>3, <1>4, <1>5, <1>6, <1>7

\* A step that begins no write: what it does to the rest decides.
LEMMA NoneBegun ==
    ASSUME TypeInv, write' \in [Write -> Attempt],
           \A w \in Write : /\ write'[w].line = write[w].line
                            /\ write'[w].state = "idle" <=> write[w].state = "idle",
           store' \in [Node -> Copy],
           \A n \in Node : store'[n].ts \in Begun \union {0},
           up' \subseteq Node, catching' \subseteq Node \ up', late' \subseteq Write \X Node, get' \in Reading,
           acknowledged' \in Begun \union {0}, get'.floor \in Begun \union {0},
           crashes' \in 0 .. MaxCrashes, dying' \in 0 .. MaxDying
    PROVE  TypeInv'
<1>1. Begun' = Begun
  BY SameBegun
<1>2. Begun \subseteq 0 .. MaxWrites
  BY Bounds DEF Begun, Write
<1>3. acknowledged' \in 0 .. MaxWrites
  BY <1>2, Bounds
<1>4. TypeOK'
  BY <1>3 DEF TypeOK, Copy, Line, Attempt, Reading
<1> QED
  BY <1>1, <1>4 DEF TypeInv, Known

\* What is asked of a node, and the attempts that its answers or death leave.
LEMMA ForwardedTypes ==
    ASSUME TypeInv, NEW w \in Write, NEW n \in Node, NEW acked \in BOOLEAN,
           Forwarded(w, n, acked)
    PROVE  /\ write' \in [Write -> Attempt]
           /\ \A v \in Write : /\ write'[v].line = write[v].line
                               /\ write'[v].state = write[v].state
                               /\ write'[v].acks \in {write[v].acks, write[v].acks \union {n}}
                               /\ write'[v].acks # write[v].acks => v = w /\ acked
BY ZenonT(40), Typed DEF TypeInv, Forwarded, Attempt

LEMMA CutOffTypes ==
    ASSUME TypeInv, NEW n \in Node,
           write' = [w \in Write |-> IF w \in WritesCutOff(n)
                                     THEN [write[w] EXCEPT !.state = "over"] ELSE write[w]]
    PROVE  /\ write' \in [Write -> Attempt]
           /\ \A w \in Write : /\ write'[w].line = write[w].line
                               /\ write'[w].acks = write[w].acks
                               /\ write'[w].state = "idle" <=> write[w].state = "idle"
BY Typed DEF TypeInv, WritesCutOff, Begun, Attempt

LEMMA TypeInit == Init => TypeInv
<1> SUFFICES ASSUME Init PROVE TypeInv
  OBVIOUS
<1>1. Begun = {}
  BY DEF Init, Begun, Idle
<1>2. write \in [Write -> Attempt] /\ get \in Reading /\ Absent \in Copy /\ acknowledged = 0
      /\ get.floor = 0
  BY Bounds DEF Init, Idle, NoGet, Absent, Copy, Line, Attempt, Reading
<1>3. TypeOK
  BY <1>2, Bounds, Typed DEF Init
<1> QED
  BY <1>1, <1>2, <1>3 DEF Init, TypeInv, Known, Idle, Absent

LEMMA SetTypes ==
    ASSUME TypeInv, NEW w \in Write, NEW text \in {"empty", "whole"}, Set(w, text)
    PROVE  TypeInv'
<1> DEFINE copy == [ts |-> store[Primary].ts + 1, value |-> w, text |-> text]
           line == [verb |-> "repl", copy |-> copy]
<1>1. Accepted(w, line) /\ store' = [store EXCEPT ![Primary] = copy] /\ UNCHANGED <<get, acknowledged>>
  BY DEF Set
<1>2. store \in [Node -> Copy] /\ Known(store[Primary]) /\ Primary \in Node
  BY Bounds, Typed DEF TypeInv
<1>3. /\ Begun' = Begun \union {w} /\ \A v \in Begun' : 1 .. v - 1 \subseteq Begun'
      /\ store[Primary].ts + 1 \in Begun'
      /\ write'[w].line = line /\ \A v \in Write \ {w} : write'[v].line = write[v].line
      /\ line \in Line => write' \in [Write -> Attempt]
  <2>1. Accepted(w, line)
    BY <1>1
  <2> HIDE DEF line
  <2>2. /\ Begun' = Begun \union {w} /\ \A v \in Begun' : 1 .. v - 1 \subseteq Begun'
        /\ \A v \in Begun \union {0} : v + 1 \in Begun'
        /\ \A v \in Write \ {w} : write'[v].line = write[v].line
        /\ line \in Line => write' \in [Write -> Attempt]
        /\ write'[w].line = line
    BY <2>1, NextWrite, Zenon
  <2> QED
    BY <1>2, <2>2 DEF Known
<1>4. copy \in Copy /\ line \in Line
  <2>1. store[Primary].ts + 1 \in 0 .. MaxWrites /\ w \in 0 .. MaxWrites
    BY <1>3, Bounds DEF Begun, Write
  <2> QED
    BY <2>1 DEF Copy, Line
<1>5. store' \in [Node -> Copy]
  BY <1>1, <1>2, <1>4
<1>6. TypeOK'
  <2>1. up' = up /\ catching' = catching /\ late' = late /\ crashes' = crashes /\ dying' = dying
    BY <1>1 DEF Accepted
  <2>2. write' \in [Write -> Attempt]
    BY <1>3, <1>4
  <2> HIDE DEF copy, line
  <2> QED
    BY <1>1, <1>5, <2>1, <2>2 DEF TypeInv, TypeOK, Copy, Line, Attempt, Reading
<1>7. \A n \in Node : Known(store[n])'
  BY <1>1, <1>2, <1>3 DEF TypeInv, Known
<1>8. \A v \in Write : Known(write[v].line.copy)'
  BY <1>3 DEF TypeInv, Known
<1> HIDE DEF copy, line
<1> QED
  BY <1>1, <1>3, <1>6, <1>7, <1>8 DEF TypeInv

LEMMA RemoveTypes == ASSUME TypeInv, NEW w \in Write, Remove(w) PROVE TypeInv'
<1> DEFINE line == [verb |-> "replrm", copy |-> Absent]
<1>1. /\ Accepted(w, line) /\ store' = [store EXCEPT ![Primary] = Absent]
      /\ get' = [get EXCEPT !.floor = 0] /\ acknowledged' = 0
  BY DEF Remove
<1>2. line \in Line /\ Absent.ts = 0
  BY Copies DEF Line, Absent
<1>3. /\ write' \in [Write -> Attempt] /\ Begun' = Begun \union {w}
      /\ \A v \in Begun' : 1 .. v - 1 \subseteq Begun'
      /\ write'[w].line = line /\ \A v \in Write \ {w} : write'[v].line = write[v].line
  <2>1. Accepted(w, line)
    BY <1>1
  <2> HIDE DEF line
  <2> QED
    BY <1>2, <2>1, NextWrite, Zenon
<1>4. store' \in [Node -> Copy] /\ get' \in Reading /\ get'.floor = 0
  BY <1>1, Copies, Bounds, Typed DEF TypeInv, Reading
<1>5. TypeOK'
  <2>1. up' = up /\ catching' = catching /\ late' = late /\ crashes' = crashes /\ dying' = dying
    BY <1>1 DEF Accepted
  <2> QED
    BY <1>1, <1>3, <1>4, <2>1, Bounds DEF TypeInv, TypeOK, Copy, Line, Attempt, Reading
<1>6. \A n \in Node : Known(store[n])'
  BY <1>1, <1>2, <1>3, Typed DEF TypeInv, Known
<1>7. \A v \in Write : Known(write[v].line.copy)'
  BY <1>2, <1>3 DEF TypeInv, Known
<1> QED
  BY <1>1, <1>3, <1>4, <1>5, <1>6, <1>7 DEF TypeInv

LEMMA TypeStep == ASSUME TypeInv, [Next]_vars PROVE TypeInv'
<1> USE Bounds
<1>0. /\ store \in [Node -> Copy] /\ up \subseteq Node /\ catching \subseteq Node \ up /\ write \in [Write -> Attempt]
      /\ late \subseteq Write \X Node /\ get \in Reading
      /\ crashes \in 0 .. MaxCrashes /\ dying \in 0 .. MaxDying
      /\ \A n \in Node : store[n].ts \in Begun \union {0}
      /\ acknowledged \in Begun \union {0} /\ get.floor \in Begun \union {0}
  BY Typed DEF TypeInv, Known
\* A node applies what was written.
<1>1. ASSUME NEW w \in Write, NEW n \in Node, store' = [store EXCEPT ![n] = Apply(@, write[w].line)]
      PROVE  store' \in [Node -> Copy] /\ \A p \in Node : store'[p].ts \in Begun \union {0}
  <2>1. write[w].line \in Line /\ Known(write[w].line.copy) /\ Absent.ts = 0
    BY <1>0 DEF TypeInv, Attempt, Absent
  <2>2. /\ Apply(store[n], write[w].line) \in Copy
        /\ Apply(store[n], write[w].line).ts \in Begun \union {0}
    BY <1>0, <2>1, Copies DEF Known
  <2> QED
    BY <1>0, <1>1, <2>2
\* A node dies.
<1>2. ASSUME NEW n \in Node, Dies(n)
      PROVE  /\ store' \in [Node -> Copy] /\ \A p \in Node : store'[p].ts \in Begun \union {0}
             /\ up' \subseteq Node /\ catching' \subseteq Node \ up' /\ late' \subseteq Write \X Node
             /\ acknowledged' = acknowledged
  BY <1>0, <1>2, Copies DEF Dies, Absent
<1>3. NoGet \in Reading /\ NoGet.floor = 0
  BY Copies DEF NoGet, Reading
<1>4. ASSUME NEW w \in Write, NEW text \in {"empty", "whole"}, Set(w, text) PROVE TypeInv'
  BY <1>4, SetTypes
<1>5. ASSUME NEW w \in Write, Remove(w) PROVE TypeInv'
  BY <1>5, RemoveTypes
<1>6. ASSUME NEW w \in Write, Responded(w) PROVE TypeInv'
  <2>1. /\ write' \in [Write -> Attempt] /\ acknowledged' \in Begun \union {0}
        /\ \A v \in Write : /\ write'[v].line = write[v].line
                            /\ write'[v].state = "idle" <=> write[v].state = "idle"
    BY <1>0, <1>6 DEF Responded, Attempt, Begun
  <2>2. UNCHANGED <<store, up, catching, late, get, crashes, dying>>
    BY <1>6 DEF Responded
  <2> QED
    BY <1>0, <2>1, <2>2, NoneBegun
<1>7. ASSUME NEW w \in Write, NEW n \in Node, Confirmed(w, n) PROVE TypeInv'
  <2>1. /\ Forwarded(w, n, TRUE) /\ store' = [store EXCEPT ![n] = Apply(@, write[w].line)]
        /\ UNCHANGED <<up, catching, late, get, acknowledged, crashes, dying>>
    BY <1>7 DEF Confirmed
  <2> QED
    BY <1>0, <1>1, <2>1, ForwardedTypes, NoneBegun
<1>8. ASSUME NEW w \in Write, NEW n \in Node, Refused(w, n) PROVE TypeInv'
  <2>1. Forwarded(w, n, FALSE) /\ UNCHANGED <<store, up, catching, late, get, acknowledged, crashes, dying>>
    BY <1>8 DEF Refused
  <2> QED
    BY <1>0, <2>1, ForwardedTypes, NoneBegun
<1>9. ASSUME NEW w \in Write, NEW n \in Node, Abandoned(w, n) PROVE TypeInv'
  <2>1. /\ Forwarded(w, n, FALSE) /\ late' = late \union {<<w, n>>}
        /\ UNCHANGED <<store, up, catching, get, acknowledged, crashes, dying>>
    BY <1>9 DEF Abandoned
  <2>2. late' \subseteq Write \X Node
    BY <1>0, <2>1
  <2> QED
    BY <1>0, <2>1, <2>2, ForwardedTypes, NoneBegun
<1>10. ASSUME NEW w \in Write, NEW n \in Node, ServedLate(w, n) PROVE TypeInv'
  <2>1. /\ store' = [store EXCEPT ![n] = Apply(@, write[w].line)] /\ late' \subseteq late
        /\ UNCHANGED <<up, catching, write, get, acknowledged, crashes, dying>>
    BY <1>10 DEF ServedLate
  <2> QED
    BY <1>0, <1>1, <2>1, NoneBegun
<1>11. ASSUME NEW w \in Write, NEW n \in Node, DiesConfirming(w, n) PROVE TypeInv'
  <2>1. /\ dying < MaxDying /\ dying' = dying + 1 /\ crashes' = crashes
        /\ Dies(n) /\ Forwarded(w, n, TRUE) /\ get' \in {NoGet, get}
    BY <1>11 DEF DiesConfirming, DiesServing
  <2>2. dying' \in 0 .. MaxDying
    BY <1>0, <2>1
  <2> QED
    BY <1>0, <1>2, <1>3, <2>1, <2>2, ForwardedTypes, NoneBegun
<1>12. ASSUME NEW n \in Node, Get(n) PROVE TypeInv'
  <2>1. get' \in Reading /\ get'.floor \in Begun \union {0}
    <3>1. store[n] \in Copy /\ acknowledged \in 0 .. MaxWrites
      BY <1>0 DEF TypeInv, TypeOK
    <3> QED
      BY <1>0, <1>12, <3>1 DEF Get, Reading
  <2>2. UNCHANGED <<store, up, catching, write, late, acknowledged, crashes, dying>>
    BY <1>12 DEF Get
  <2> QED
    BY <1>0, <2>1, <2>2, NoneBegun
<1>13. ASSUME NEW n \in Node, ReadFrom(n) PROVE TypeInv'
  <2>1. get' \in Reading /\ get'.floor \in Begun \union {0}
    <3>1. Fresher(get.best, Wire(store[n])) \in Copy
      BY <1>0, Copies DEF Reading
    <3> QED
      BY <1>0, <1>13, <3>1 DEF ReadFrom, Reading
  <2>2. UNCHANGED <<store, up, catching, write, late, acknowledged, crashes, dying>>
    BY <1>13 DEF ReadFrom
  <2> QED
    BY <1>0, <2>1, <2>2, NoneBegun
<1>14. ASSUME NEW n \in Node, ReadFailed(n) PROVE TypeInv'
  <2>1. get' \in Reading /\ get'.floor \in Begun \union {0}
    BY <1>0, <1>14 DEF ReadFailed, Reading
  <2>2. UNCHANGED <<store, up, catching, write, late, acknowledged, crashes, dying>>
    BY <1>14 DEF ReadFailed
  <2> QED
    BY <1>0, <2>1, <2>2, NoneBegun
<1>15. ASSUME NEW n \in Node, Crash(n) PROVE TypeInv'
  <2>1. /\ crashes < MaxCrashes /\ crashes' = crashes + 1 /\ dying' = dying /\ Dies(n)
        /\ get' \in {NoGet, get}
        /\ write' = [w \in Write |-> IF w \in WritesCutOff(n)
                                     THEN [write[w] EXCEPT !.state = "over"] ELSE write[w]]
    BY <1>15 DEF Crash, CutOff
  <2>2. crashes' \in 0 .. MaxCrashes
    BY <1>0, <2>1
  <2> QED
    BY <1>0, <1>2, <1>3, <2>1, <2>2, CutOffTypes, NoneBegun
<1>16. ASSUME NEW n \in Node, DiesReading(n) PROVE TypeInv'
  <2>1. /\ dying < MaxDying /\ dying' = dying + 1 /\ crashes' = crashes /\ Dies(n)
        /\ get' = [get EXCEPT !.left = @ \ {n}, !.seen = @ \union {n}]
        /\ write' = [w \in Write |-> IF w \in WritesCutOff(n)
                                     THEN [write[w] EXCEPT !.state = "over"] ELSE write[w]]
    BY <1>16 DEF DiesReading, DiesServing
  <2>2. dying' \in 0 .. MaxDying
    BY <1>0, <2>1
  <2>3. get' \in Reading /\ get'.floor \in Begun \union {0}
    BY <1>0, <2>1 DEF Reading
  <2> QED
    BY <1>0, <1>2, <2>1, <2>2, <2>3, CutOffTypes, NoneBegun
<1>17. ASSUME NEW n \in Node, Restart(n) \/ CaughtUp(n) PROVE TypeInv'
  <2>1. /\ store' = store \/ store' = [store EXCEPT ![n] = store[Primary]]
        /\ up' \subseteq Node /\ catching' \subseteq Node \ up'
        /\ UNCHANGED <<write, late, get, acknowledged, crashes, dying>>
    BY <1>0, <1>17 DEF Restart, CaughtUp
  <2>2. store' \in [Node -> Copy] /\ \A p \in Node : store'[p].ts \in Begun \union {0}
    BY <1>0, <2>1
  <2> QED
    BY <1>0, <2>1, <2>2, NoneBegun
<1>20. ASSUME NEW n \in Node, DiesDumping(n) PROVE TypeInv'
  <2>1. PICK copy \in Torn(store[Primary]) :
           store' = [store EXCEPT ![Primary] = Absent, ![n] = copy]
    BY <1>20 DEF DiesDumping
  <2>2. copy \in Copy /\ copy.ts \in Begun \union {0} /\ Absent \in Copy /\ Absent.ts = 0
    BY <1>0, Copies DEF Absent
  <2>3. store' \in [Node -> Copy] /\ \A p \in Node : store'[p].ts \in Begun \union {0}
    BY <1>0, <2>1, <2>2
  <2>4. /\ dying < MaxDying /\ dying' = dying + 1 /\ crashes' = crashes
        /\ acknowledged' = acknowledged /\ late' \subseteq late /\ get' \in {NoGet, get}
        /\ up' = (up \ {Primary}) \union {n} /\ catching' = catching \ {n} /\ n \in catching
        /\ write' = [w \in Write |-> IF w \in WritesCutOff(Primary)
                                     THEN [write[w] EXCEPT !.state = "over"] ELSE write[w]]
    BY <1>20 DEF DiesDumping, DiesServing, CutOff
  <2>5. /\ dying' \in 0 .. MaxDying /\ up' \subseteq Node /\ catching' \subseteq Node \ up'
    BY <1>0, <2>4
  <2> QED
    BY <1>0, <1>3, <2>3, <2>4, <2>5, CutOffTypes, NoneBegun
<1>21. ASSUME NEW n \in Node, GivesUp(n) PROVE TypeInv'
  <2>1. Dies(n) /\ UNCHANGED <<write, get, crashes, dying>>
    BY <1>21 DEF GivesUp
  <2> QED
    BY <1>0, <1>2, <2>1, NoneBegun
<1>18. CASE Answer
  <2>1. get' \in Reading /\ get'.floor \in Begun \union {0}
    BY <1>0, <1>18 DEF Answer, Reading
  <2>2. UNCHANGED <<store, up, catching, write, late, acknowledged, crashes, dying>>
    BY <1>18 DEF Answer
  <2> QED
    BY <1>0, <2>1, <2>2, NoneBegun
<1>19. CASE UNCHANGED vars
  BY <1>0, <1>19, NoneBegun DEF vars
<1> QED
  BY <1>4, <1>5, <1>6, <1>7, <1>8, <1>9, <1>10, <1>11, <1>12, <1>13, <1>14, <1>15, <1>16,
     <1>17, <1>18, <1>19, <1>20, <1>21 DEF Next

\* The variables have the types that the state of 04 has; in particular no
\* timestamp exceeds the number of writes.
THEOREM StoreTypes == Spec => []TypeOK
<1>1. TypeInv /\ [Next]_vars => TypeInv'
  BY TypeStep
<1>2. TypeInv => TypeOK
  BY DEF TypeInv
<1> QED
  BY <1>1, <1>2, TypeInit, PTL DEF Spec

(********************************** reads **********************************)

LEMMA Facts ==
    ASSUME TypeInv
    PROVE  /\ store \in [Node -> Copy] /\ up \subseteq Node /\ catching \subseteq Node \ up
           /\ write \in [Write -> Attempt]
           /\ late \subseteq Write \X Node /\ get \in Reading
           /\ Begun \subseteq Write /\ Write \subseteq Nat /\ dying \in Nat /\ acknowledged \in Nat
           /\ \A n \in Node : store[n].ts \in Nat /\ store[n].value \in Nat
           /\ get.floor \in Nat /\ get.best.ts \in Nat /\ get.seen \subseteq Node
           /\ get.best \in Copy /\ get.left \subseteq Node
BY Bounds, Typed DEF TypeInv, Begun, Write, Copy, Reading

\* Trouble does not pass.
LEMMA QuietBefore ==
    ASSUME TypeInv, [Next]_vars, Quiet'
    PROVE  /\ Quiet
           /\ \A w \in Write : ~ Remove(w)
           /\ \A w \in Write, n \in Node : ~ DiesConfirming(w, n)
           /\ \A n \in Node : ~ DiesReading(n) /\ ~ DiesDumping(n)
<1>1. dying = 0 => Quiet \/ Removals # {}
  BY DEF Quiet
<1>2. SUFFICES /\ dying = 0 /\ \A w \in Write : ~ Remove(w)
               /\ \A w \in Write, n \in Node : ~ DiesConfirming(w, n)
               /\ \A n \in Node : ~ DiesReading(n) /\ ~ DiesDumping(n)
               /\ \A w \in Begun : w \in Begun' /\ write'[w].line = write[w].line
  BY <1>1 DEF Quiet, Removals
<1>3. \A w \in Write : ~ Remove(w)
  <2> SUFFICES ASSUME NEW w \in Write, Remove(w) PROVE FALSE
    OBVIOUS
  <2>1. Accepted(w, [verb |-> "replrm", copy |-> Absent])
    BY DEF Remove
  <2>2. w \in Begun' /\ write'[w].line = [verb |-> "replrm", copy |-> Absent]
    BY <2>1, NextWrite
  <2> QED
    BY <2>2 DEF Quiet, Removals
<1>4. /\ \A w \in Write, n \in Node : ~ DiesConfirming(w, n)
      /\ \A n \in Node : ~ DiesReading(n) /\ ~ DiesDumping(n)
  <2>1. dying' # dying + 1
    BY Facts DEF Quiet
  <2> QED
    BY <2>1 DEF DiesConfirming, DiesReading, DiesDumping, DiesServing
<1>5. dying = 0
  <2>1. dying' = dying
    BY <1>3, <1>4 DEF Next, vars, Set, Accepted, Responded, Confirmed, Refused, Abandoned,
          ServedLate, Get, ReadFrom, ReadFailed, Crash, Restart, CaughtUp, GivesUp, Answer
  <2> QED
    BY <2>1 DEF Quiet
<1>6. ASSUME NEW w \in Write, NEW text \in {"empty", "whole"}, Set(w, text)
      PROVE  \A v \in Begun : v \in Begun' /\ write'[v].line = write[v].line
  <2>1. Accepted(w, [verb |-> "repl",
                     copy |-> [ts |-> store[Primary].ts + 1, value |-> w, text |-> text]])
    BY <1>6 DEF Set
  <2> QED
    BY <2>1, NextWrite
<1>7. CASE \A w \in Write, text \in {"empty", "whole"} : ~ Set(w, text)
  <2>1. /\ write' \in [Write -> Attempt]
        /\ \A v \in Write : /\ write'[v].line = write[v].line
                            /\ write'[v].state = "idle" <=> write[v].state = "idle"
    <3>1. ASSUME NEW w \in Write, Responded(w)
          PROVE  /\ write' \in [Write -> Attempt]
                 /\ \A v \in Write : /\ write'[v].line = write[v].line
                                     /\ write'[v].state = "idle" <=> write[v].state = "idle"
      BY <3>1, Facts DEF Responded, Attempt
    <3>2. ASSUME NEW w \in Write, NEW n \in Node,
                 Confirmed(w, n) \/ Refused(w, n) \/ Abandoned(w, n)
          PROVE  /\ write' \in [Write -> Attempt]
                 /\ \A v \in Write : /\ write'[v].line = write[v].line
                                     /\ write'[v].state = "idle" <=> write[v].state = "idle"
      <4>1. PICK acked \in BOOLEAN : Forwarded(w, n, acked)
        BY <3>2 DEF Confirmed, Refused, Abandoned
      <4> QED
        BY <4>1, ForwardedTypes
    <3>3. ASSUME NEW n \in Node, Crash(n)
          PROVE  /\ write' \in [Write -> Attempt]
                 /\ \A v \in Write : /\ write'[v].line = write[v].line
                                     /\ write'[v].state = "idle" <=> write[v].state = "idle"
      <4>1. write' = [w \in Write |-> IF w \in WritesCutOff(n)
                                      THEN [write[w] EXCEPT !.state = "over"] ELSE write[w]]
        BY <3>3 DEF Crash, CutOff
      <4> QED
        BY <4>1, CutOffTypes
    <3>4. ASSUME NEW n \in Node,
                 \/ Get(n) \/ ReadFrom(n) \/ ReadFailed(n)
                 \/ Restart(n) \/ CaughtUp(n) \/ GivesUp(n)
          PROVE  write' = write
      BY <3>4 DEF Get, ReadFrom, ReadFailed, Restart, CaughtUp, GivesUp
    <3>5. ASSUME NEW w \in Write, NEW n \in Node, ServedLate(w, n) PROVE write' = write
      BY <3>5 DEF ServedLate
    <3>6. Answer \/ UNCHANGED vars => write' = write
      BY DEF Answer, vars
    <3> QED
      BY <1>3, <1>4, <1>7, <3>1, <3>2, <3>3, <3>4, <3>5, <3>6, Facts DEF Next
  <2> QED
    BY <1>3, <1>4, <1>5, <2>1, SameBegun, Facts
<1> QED
  BY <1>3, <1>4, <1>5, <1>6, <1>7

\* What the nodes hold of a write that has begun, they keep.
Keeps ==
    \A n \in Node, v \in Begun \union {0} :
        Holds(n, v) => (n \in up' => store'[n].ts >= v)

LEMMA SameKept == ASSUME UNCHANGED <<store, up>> PROVE Keeps
BY DEF Keeps, Holds

\* A request that is served leaves the node no older.
LEMMA ServedKept ==
    ASSUME ReadInv, Quiet, NEW w \in Begun, NEW n \in Node,
           store' = [store EXCEPT ![n] = Apply(@, write[w].line)], up' = up
    PROVE  /\ Keeps /\ store'[n].ts >= w
           /\ \A p \in Node : Genuine(store'[p]) /\ store'[p].ts >= store[p].ts
<1>1. /\ write[w].line.verb = "repl" /\ write[w].line.copy.ts = w /\ w \in Nat
      /\ Genuine(write[w].line.copy)
  BY Facts DEF ReadInv, Numbered
<1>2. \A p \in Node : Genuine(store[p]) /\ store[p].ts \in Nat /\ store[p] \in Copy
  BY Facts DEF ReadInv, Numbered
<1>3. /\ \A p \in Node \ {n} : store'[p] = store[p]
      /\ store'[n] = IF store[n].ts >= w THEN store[n] ELSE write[w].line.copy
  BY <1>1, Facts DEF ReadInv, Apply
<1>4. /\ store'[n].ts >= w
      /\ \A p \in Node : Genuine(store'[p]) /\ store'[p].ts >= store[p].ts
                         /\ store'[p].ts \in Nat
  BY <1>1, <1>2, <1>3
<1>5. \A v \in Begun \union {0} : v \in Nat
  BY Facts DEF ReadInv
<1>6. Keeps
  BY <1>2, <1>4, <1>5 DEF Keeps, Holds
<1> QED
  BY <1>4, <1>6

LEMMA DeathKept ==
    ASSUME ReadInv, Quiet, NEW n \in Node, Dies(n)
    PROVE  /\ Keeps
           /\ \A p \in Node : Genuine(store'[p])
           /\ Primary \in up' => Primary \in up /\ store'[Primary] = store[Primary]
<1>1. /\ up' = up \ {n} /\ \A p \in Node \ {n} : store'[p] = store[p]
      /\ store'[n] = Absent
  BY Facts DEF Dies, ReadInv
<1> QED
  BY <1>1, Bounds DEF Keeps, Holds, ReadInv, Numbered, Genuine, Absent

LEMMA CatchUpKept ==
    ASSUME ReadInv, Quiet, NEW n \in Node, CaughtUp(n)
    PROVE  /\ Keeps
           /\ \A p \in Node : Genuine(store'[p])
           /\ up' = up \union {n} /\ Primary \in up
           /\ store'[Primary] = store[Primary]
<1>1. /\ n \notin up /\ Primary \in up /\ up' = up \union {n}
      /\ \A p \in Node \ {n} : store'[p] = store[p]
      /\ store'[n] = store[Primary]
  BY Facts DEF CaughtUp, ReadInv
<1>2. \A v \in Begun \union {0} : store[Primary].ts >= v
  BY <1>1, Facts, Bounds DEF ReadInv, Numbered
<1>3. \A p \in Node : store'[p] = store[p] \/ store'[p] = store[Primary]
  BY <1>1
<1>4. \A p \in Node : Genuine(store'[p])
  BY <1>3, Bounds DEF ReadInv, Numbered
<1> QED
  BY <1>1, <1>2, <1>4, Bounds DEF Keeps, Holds

\* A step that begins no write, where the copies are kept.
LEMMA NumberedKept ==
    ASSUME ReadInv, Quiet, Begun' = Begun, \A w \in Begun : write'[w].line = write[w].line,
           \A x \in late' : x[1] \in Begun,
           \A n \in Node : Genuine(store'[n]),
           Primary \in up' => Primary \in up /\ store'[Primary].ts >= store[Primary].ts,
           store'[Primary].ts \in Nat
    PROVE  Numbered'
<1>1. ASSUME Primary \in up', NEW w \in Begun PROVE store'[Primary].ts >= w
  BY <1>1, Facts, Bounds DEF ReadInv, Numbered
<1>2. Empties' = Empties
  BY DEF Empties
<1>3. /\ \A n \in Node : Genuine(store[n])'
      /\ \A w \in Begun : Genuine(write[w].line.copy) => Genuine(write[w].line.copy)'
  BY <1>2 DEF Genuine
<1> QED
  BY <1>1, <1>3 DEF ReadInv, Numbered

LEMMA AckKept ==
    ASSUME ReadInv, Quiet, Keeps, Begun' = Begun, acknowledged' = acknowledged,
           \A w \in Begun : \A n \in write'[w].acks :
               n \in Node /\ (n \in write[w].acks \/ store'[n].ts >= w)
    PROVE  AckInv'
<1>1. \A w \in Begun : \A n \in write'[w].acks : n \in up' => store'[n].ts >= w
  BY DEF ReadInv, AckInv, Keeps
<1>2. acknowledged \in Begun \union {0} /\ HeldOutside({}, acknowledged)
  BY DEF ReadInv, TypeInv, AckInv
<1>3. \E Q \in SUBSET Node : /\ Majority(Q) /\ Q \intersect {} = {}
                             /\ \A n \in Q : n \in up' => store'[n].ts >= acknowledged
  BY <1>2 DEF Keeps, HeldOutside
<1> QED
  BY <1>1, <1>3 DEF AckInv, HeldOutside, Holds

LEMMA GetKept ==
    ASSUME ReadInv, Quiet, Keeps, get' = get, Empties \subseteq Empties'
    PROVE  GetInv'
<1>1. get.floor \in Begun \union {0}
  BY DEF ReadInv, TypeInv
<1>2. ASSUME HeldOutside(get.seen, get.floor)
      PROVE  \E Q \in SUBSET Node : /\ Majority(Q) /\ Q \intersect get.seen = {}
                                    /\ \A n \in Q : n \in up' => store'[n].ts >= get.floor
  BY <1>1, <1>2 DEF Keeps, HeldOutside
<1>3. Shown(get.floor)' => Shown(get.floor)
  BY DEF Shown
<1> QED
  BY <1>2, <1>3 DEF ReadInv, GetInv, HeldOutside, Holds

LEMMA ReadInit == Init => ReadInv
<1> SUFFICES ASSUME Init PROVE ReadInv
  OBVIOUS
<1>1. TypeInv
  BY TypeInit
<1>2. Begun = {}
  BY DEF Init, Begun, Idle
<1>3. Numbered
  BY <1>2 DEF Init, Numbered, Genuine, Absent
<1>4. AckInv
  <2>1. \A n \in Node : Holds(n, 0)
    BY DEF Init, Holds, Absent
  <2> QED
    BY <1>2, <2>1, AllNodes DEF Init, AckInv, HeldOutside
<1>5. GetInv
  BY DEF Init, GetInv, NoGet, Absent
<1> QED
  BY <1>1, <1>3, <1>4, <1>5 DEF ReadInv

LEMMA SetRead ==
    ASSUME ReadInv, Quiet, TypeInv',
           NEW w \in Write, NEW text \in {"empty", "whole"}, Set(w, text)
    PROVE  Numbered' /\ AckInv' /\ GetInv'
<1> DEFINE copy == [ts |-> store[Primary].ts + 1, value |-> w, text |-> text]
           line == [verb |-> "repl", copy |-> copy]
<1>1. /\ Accepted(w, line) /\ store' = [store EXCEPT ![Primary] = copy]
      /\ get' = get /\ acknowledged' = acknowledged
  BY DEF Set
<1>2. /\ Begun' = Begun \union {w}
      /\ \A v \in Begun : write'[v] = write[v] /\ v < w
      /\ \A v \in Begun \union {0} : v + 1 \in Begun'
      /\ write'[w].line = line /\ write'[w].acks = {Primary}
      /\ up' = up /\ late' = late /\ Primary \in up /\ 1 .. w - 1 \subseteq Begun
  <2>1. up' = up /\ late' = late /\ Primary \in up /\ 1 .. w - 1 \subseteq Begun
    BY <1>1 DEF Accepted
  <2>2. Accepted(w, line) /\ TypeInv
    BY <1>1 DEF ReadInv
  <2> HIDE DEF line
  <2>3. /\ Begun' = Begun \union {w}
        /\ \A v \in Begun : write'[v] = write[v] /\ v < w
        /\ \A v \in Begun \union {0} : v + 1 \in Begun'
        /\ write'[w].line = line /\ write'[w].acks = {Primary}
    BY <2>2, NextWrite, Zenon
  <2> QED
    BY <2>1, <2>3
<1>3. w \in Nat /\ w >= 1 /\ store[Primary].ts \in Nat /\ Primary \in Node
  BY Facts, Bounds DEF ReadInv, Write
<1>4. store[Primary].ts + 1 = w
  <2>1. store[Primary].ts < w
    BY <1>2, <1>3, Bounds DEF ReadInv, TypeInv, Known
  <2>2. w = 1 \/ w - 1 \in Begun
    BY <1>2, <1>3
  <2>3. w = 1 \/ store[Primary].ts >= w - 1
    BY <1>2, <2>2 DEF ReadInv, Numbered
  <2> QED
    BY <1>3, <2>1, <2>3
<1>5. /\ store'[Primary] = [ts |-> w, value |-> w, text |-> text]
      /\ \A n \in Node \ {Primary} : store'[n] = store[n]
  <2>1. copy = [ts |-> w, value |-> w, text |-> text] /\ store \in [Node -> Copy]
    BY <1>4, Facts DEF ReadInv
  <2> HIDE DEF copy
  <2> QED
    BY <1>1, <1>3, <2>1
<1>10. Empties \subseteq Empties'
  <2>1. \A v \in Begun : v \in Begun' /\ write'[v] = write[v]
    BY <1>2
  <2> HIDE DEF copy, line
  <2> QED
    BY <2>1 DEF Empties
<1>6. Keeps
  <2> HIDE DEF copy, line
  <2>1. \A v \in Begun : v \in Nat /\ v < w
    BY <1>2, Facts DEF ReadInv
  <2>2. \A v \in Begun \union {0} : w >= v
    BY <1>3, <2>1
  <2>3. store'[Primary].ts = w
    BY <1>5
  <2> SUFFICES ASSUME NEW n \in Node, NEW v \in Begun \union {0}, Holds(n, v), n \in up
               PROVE  store'[n].ts >= v
    BY <1>2 DEF Keeps
  <2>4. CASE n = Primary
    BY <2>2, <2>3, <2>4
  <2>5. CASE n # Primary
    BY <1>5, <2>5 DEF Holds
  <2> QED
    BY <2>4, <2>5
<1>7. Numbered'
  <2>1. \A v \in Begun' : w >= v
    <3>1. \A v \in Begun : v \in Nat /\ v < w
      BY <1>2, Facts DEF ReadInv
    <3> HIDE DEF line, copy
    <3> QED
      BY <1>2, <1>3, <3>1
  <2>2. \A v \in Begun' : /\ write'[v].line.verb = "repl"
                          /\ write'[v].line.copy.ts = v
                          /\ Genuine(write[v].line.copy)'
    <3>1. \A v \in Begun : /\ write[v].line.verb = "repl" /\ write[v].line.copy.ts = v
                           /\ Genuine(write[v].line.copy) /\ write'[v] = write[v]
      BY <1>2 DEF ReadInv, Numbered
    <3>2. /\ write'[w].line.verb = "repl" /\ write'[w].line.copy.ts = w
          /\ write'[w].line.copy.value = w /\ write'[w].line.copy.text = text
      BY <1>2, <1>4
    <3>3. text = "empty" => w \in Empties'
      BY <1>2, <3>2 DEF Empties
    <3> HIDE DEF line, copy
    <3> QED
      BY <1>2, <1>10, <3>1, <3>2, <3>3 DEF Genuine
  <2>3. \A n \in Node : Genuine(store[n])'
    <3>1. \A n \in Node : Genuine(store[n])
      BY DEF ReadInv, Numbered
    <3>2. text = "empty" => w \in Empties'
      <4>1. write'[w].line.verb = "repl" /\ write'[w].line.copy.text = text
        BY <1>2
      <4> QED
        BY <1>2, <4>1 DEF Empties
    <3> HIDE DEF line, copy
    <3>3. \A n \in Node \ {Primary} : Genuine(store[n])'
      BY <1>5, <1>10, <3>1 DEF Genuine
    <3>4. Genuine(store[Primary])'
      BY <1>5, <3>2 DEF Genuine
    <3> QED
      BY <3>3, <3>4
  <2>4. \A x \in late' : x[1] \in Begun'
    BY <1>2 DEF ReadInv, Numbered
  <2> HIDE DEF line, copy
  <2> QED
    BY <1>5, <2>1, <2>2, <2>3, <2>4 DEF Numbered
<1>8. AckInv'
  <2>1. \A v \in Begun' : \A n \in write'[v].acks : n \in up' => store'[n].ts >= v
    <3>1. \A v \in Begun : \A n \in write[v].acks : n \in Node /\ Holds(n, v)
      BY Facts DEF ReadInv, AckInv, Attempt
    <3>2. store'[Primary].ts >= w
      BY <1>3, <1>5
    <3> HIDE DEF line, copy
    <3> QED
      BY <1>2, <1>6, <3>1, <3>2 DEF Keeps
  <2>2. acknowledged \in Begun \union {0} /\ HeldOutside({}, acknowledged)
    BY DEF ReadInv, TypeInv, AckInv
  <2>3. \E Q \in SUBSET Node : /\ Majority(Q) /\ Q \intersect {} = {}
                               /\ \A n \in Q : n \in up' => store'[n].ts >= acknowledged
    BY <1>6, <2>2 DEF Keeps, HeldOutside
  <2> HIDE DEF line, copy
  <2> QED
    BY <1>1, <2>1, <2>3 DEF AckInv, HeldOutside, Holds
<1>9. GetInv'
  BY <1>1, <1>6, <1>10, GetKept
<1> HIDE DEF line, copy
<1> QED
  BY <1>7, <1>8, <1>9

\* All have been asked: a majority of acknowledgements is one that holds the write.
LEMMA RespondedRead == ASSUME ReadInv, Quiet, NEW w \in Write, Responded(w)
                       PROVE  Numbered' /\ AckInv' /\ GetInv'
<1>1. /\ UNCHANGED <<store, up, catching, late, get>> /\ w \in Begun
      /\ write' \in [Write -> Attempt]
      /\ \A v \in Write : /\ write'[v].line = write[v].line /\ write'[v].acks = write[v].acks
                          /\ write'[v].state = "idle" <=> write[v].state = "idle"
  BY Facts DEF ReadInv, Responded, Attempt, Begun
<1>2. Begun' = Begun /\ Empties' = Empties
  BY <1>1, SameBegun DEF ReadInv
<1>3. Keeps
  BY <1>1, SameKept
<1>4. Numbered'
  BY <1>1, <1>2, Facts, Bounds, NumberedKept DEF ReadInv, Numbered
<1>5. AckInv'
  <2>1. \A v \in Begun : \A n \in write'[v].acks : Holds(n, v)
    BY <1>1, Facts DEF ReadInv, AckInv
  <2>2. HeldOutside({}, acknowledged')
    <3>1. CASE acknowledged' = acknowledged
      BY <3>1 DEF ReadInv, AckInv
    <3>2. CASE acknowledged' = w /\ Majority(write[w].acks)
      <4>1. write[w].acks \in SUBSET Node /\ \A n \in write[w].acks : Holds(n, w)
        BY <1>1, Facts DEF ReadInv, AckInv, Attempt
      <4> QED
        BY <3>2, <4>1 DEF HeldOutside
    <3> QED
      BY <3>1, <3>2 DEF Responded
  <2> QED
    BY <1>1, <1>2, <2>1, <2>2 DEF AckInv, HeldOutside, Holds
<1>6. GetInv'
  BY <1>1, <1>2, <1>3, GetKept
<1> QED
  BY <1>4, <1>5, <1>6

\* forward() is over, with what it has left at n if it was served.
LEMMA ForwardedRead ==
    ASSUME ReadInv, Quiet, NEW w \in Write, NEW n \in Node, NEW acked \in BOOLEAN,
           Forwarded(w, n, acked),
           \/ acked /\ store' = [store EXCEPT ![n] = Apply(@, write[w].line)] /\ late' = late
           \/ ~ acked /\ store' = store /\ late' \subseteq late \union {<<w, n>>},
           up' = up, get' = get, acknowledged' = acknowledged
    PROVE  Numbered' /\ AckInv' /\ GetInv'
<1>1. /\ w \in Begun /\ write' \in [Write -> Attempt]
      /\ \A v \in Write : /\ write'[v].line = write[v].line
                          /\ write'[v].state = write[v].state
                          /\ write'[v].acks \in {write[v].acks, write[v].acks \union {n}}
                          /\ write'[v].acks # write[v].acks => v = w /\ acked
  BY ForwardedTypes DEF ReadInv, Forwarded, Begun
<1>2. Begun' = Begun /\ Empties' = Empties
  BY <1>1, SameBegun DEF ReadInv
<1>3. /\ Keeps
      /\ acked => store'[n].ts >= w
      /\ \A p \in Node : Genuine(store'[p]) /\ store'[p].ts >= store[p].ts
  <2>1. CASE acked
    BY <1>1, <2>1, ServedKept
  <2>2. CASE ~ acked
    BY <2>2, SameKept, Facts DEF ReadInv, Numbered
  <2> QED
    BY <2>1, <2>2
<1>4. Numbered'
  <2>1. \A x \in late' : x[1] \in Begun
    BY <1>1 DEF ReadInv, Numbered
  <2>2. store'[Primary].ts \in Nat
    <3>1. store' = store \/ store' = [store EXCEPT ![n] = Apply(@, write[w].line)]
      OBVIOUS
    <3>2. write[w].line \in Line /\ store \in [Node -> Copy]
      BY Facts DEF ReadInv, Attempt
    <3>3. store' \in [Node -> Copy]
      BY <3>1, <3>2, Copies
    <3> QED
      BY <3>3, Bounds DEF Copy
  <2> QED
    BY <1>1, <1>2, <1>3, <2>1, <2>2, Facts, Bounds, NumberedKept DEF ReadInv
<1>5. AckInv'
  <2>1. \A v \in Begun : \A p \in write'[v].acks :
           p \in Node /\ (p \in write[v].acks \/ store'[p].ts >= v)
    <3> SUFFICES ASSUME NEW v \in Begun, NEW p \in write'[v].acks
                 PROVE  p \in Node /\ (p \in write[v].acks \/ store'[p].ts >= v)
      OBVIOUS
    <3>1. v \in Write
      BY Facts DEF ReadInv
    <3>2. p \in Node
      BY <1>1, <3>1 DEF Attempt
    <3>3. p \in write[v].acks \/ (p = n /\ v = w /\ acked)
      BY <1>1, <3>1
    <3> QED
      BY <1>3, <3>2, <3>3
  <2> QED
    BY <1>2, <1>3, <2>1, AckKept
<1>6. GetInv'
  BY <1>2, <1>3, GetKept
<1> QED
  BY <1>4, <1>5, <1>6

\* Any step that leaves the writes as they are, and keeps the copies.
LEMMA WritesKept ==
    ASSUME ReadInv, Quiet, Keeps, write' = write, acknowledged' = acknowledged,
           \A x \in late' : x[1] \in Begun,
           \A n \in Node : Genuine(store'[n]),
           Primary \in up' => Primary \in up /\ store'[Primary].ts >= store[Primary].ts,
           store'[Primary].ts \in Nat
    PROVE  Numbered' /\ AckInv' /\ Empties' = Empties
<1>1. Begun' = Begun /\ Empties' = Empties
  BY DEF Begun, Empties
<1>2. \A w \in Begun : \A n \in write[w].acks : n \in Node
  BY Facts DEF ReadInv, Attempt
<1> QED
  BY <1>1, <1>2, NumberedKept, AckKept

LEMMA ReadStep == ASSUME ReadInv, [Next]_vars PROVE ReadInv'
<1>1. TypeInv /\ TypeInv'
  BY TypeStep DEF ReadInv
<1> SUFFICES ASSUME Quiet' PROVE Numbered' /\ AckInv' /\ GetInv'
  BY <1>1 DEF ReadInv
<1>2. /\ Quiet /\ \A w \in Write : ~ Remove(w)
      /\ \A w \in Write, n \in Node : ~ DiesConfirming(w, n)
      /\ \A n \in Node : ~ DiesReading(n) /\ ~ DiesDumping(n)
  BY <1>1, QuietBefore
<1>3. /\ \A x \in late : x[1] \in Begun
      /\ \A n \in Node : Genuine(store[n]) /\ store[n].ts \in Nat
      /\ store'[Primary].ts \in Nat /\ store[Primary].ts \in Nat
  <2>1. store \in [Node -> Copy] /\ store' \in [Node -> Copy]
    BY <1>1 DEF TypeInv, TypeOK, Copy
  <2>2. \A copy \in Copy : copy.ts \in Nat
    BY Bounds DEF Copy
  <2>3. Numbered
    BY <1>2 DEF ReadInv
  <2> QED
    BY <2>1, <2>2, <2>3, Bounds DEF Numbered
\* A step that touches the get only.
<1>4. ASSUME UNCHANGED <<store, up, write, late, acknowledged>>
      PROVE  Numbered' /\ AckInv' /\ Keeps /\ Empties' = Empties
  BY <1>2, <1>3, <1>4, SameKept, WritesKept
<1>5. ASSUME NEW w \in Write, NEW text \in {"empty", "whole"}, Set(w, text)
      PROVE  Numbered' /\ AckInv' /\ GetInv'
  BY <1>1, <1>2, <1>5, SetRead
<1>6. ASSUME NEW w \in Write, Responded(w) PROVE Numbered' /\ AckInv' /\ GetInv'
  BY <1>2, <1>6, RespondedRead
<1>7. ASSUME NEW w \in Write, NEW n \in Node, Confirmed(w, n)
      PROVE  Numbered' /\ AckInv' /\ GetInv'
  <2>1. /\ Forwarded(w, n, TRUE) /\ store' = [store EXCEPT ![n] = Apply(@, write[w].line)]
        /\ late' = late /\ up' = up /\ get' = get /\ acknowledged' = acknowledged
    BY <1>7 DEF Confirmed
  <2> QED
    BY <1>2, <2>1, ForwardedRead
<1>8. ASSUME NEW w \in Write, NEW n \in Node, Refused(w, n) \/ Abandoned(w, n)
      PROVE  Numbered' /\ AckInv' /\ GetInv'
  <2>1. /\ Forwarded(w, n, FALSE) /\ store' = store /\ late' \subseteq late \union {<<w, n>>}
        /\ up' = up /\ get' = get /\ acknowledged' = acknowledged
    BY <1>8 DEF Refused, Abandoned
  <2> QED
    BY <1>2, <2>1, ForwardedRead
<1>9. ASSUME NEW w \in Write, NEW n \in Node, ServedLate(w, n)
      PROVE  Numbered' /\ AckInv' /\ GetInv'
  <2>1. /\ <<w, n>> \in late /\ late' \subseteq late
        /\ store' = [store EXCEPT ![n] = Apply(@, write[w].line)]
        /\ up' = up /\ write' = write /\ get' = get /\ acknowledged' = acknowledged
    BY <1>9 DEF ServedLate
  <2>2. w \in Begun
    BY <1>3, <2>1
  <2>3. /\ Keeps
        /\ \A p \in Node : Genuine(store'[p]) /\ store'[p].ts >= store[p].ts
    BY <1>2, <2>1, <2>2, ServedKept
  <2> QED
    BY <1>2, <1>3, <2>1, <2>3, Bounds, WritesKept, GetKept
<1>10. ASSUME NEW n \in Node, Get(n) PROVE Numbered' /\ AckInv' /\ GetInv'
  <2>1. /\ get' = [state |-> "reading", at |-> n, left |-> Node \ {n}, seen |-> {n},
                   best |-> store[n], floor |-> acknowledged]
        /\ UNCHANGED <<store, up, write, late, acknowledged>> /\ n \in up
    BY <1>10 DEF Get
  <2>2. PICK Q \in SUBSET Node : Majority(Q) /\ \A p \in Q : Holds(p, acknowledged)
    BY <1>2 DEF ReadInv, AckInv, HeldOutside
  <2>3. CASE n \in Q
    BY <1>3, <1>4, <2>1, <2>2, <2>3 DEF GetInv, Holds, Genuine
  <2>4. CASE n \notin Q
    <3>1. HeldOutside(get.seen, get.floor)'
      BY <2>1, <2>2, <2>4 DEF HeldOutside, Holds
    <3> QED
      BY <1>3, <1>4, <2>1, <3>1 DEF GetInv, Genuine
  <2> QED
    BY <2>3, <2>4
<1>11. ASSUME NEW n \in Node, ReadFrom(n) PROVE Numbered' /\ AckInv' /\ GetInv'
  <2>1. /\ get.state = "reading"
        /\ get' = [get EXCEPT !.left = @ \ {n}, !.seen = @ \union {n},
                              !.best = Fresher(@, Wire(store[n]))]
        /\ UNCHANGED <<store, up, write, late, acknowledged>> /\ n \in up
    BY <1>11 DEF ReadFrom, Asked
  <2>2. /\ get'.state = "reading" /\ get'.seen = get.seen \union {n} /\ get'.floor = get.floor
        /\ get'.best = Fresher(get.best, Wire(store[n]))
    BY <1>1, <2>1, Facts DEF Reading
  <2>3. /\ get.best.ts \in Nat /\ get.floor \in Nat /\ store[n].ts \in Nat
        /\ get.best.ts = get.best.value /\ Genuine(store[n])
    BY <1>1, <1>2, <1>3, Facts DEF ReadInv, GetInv
  <2>4. /\ get'.best.ts = get'.best.value
        /\ get'.best.ts \in Nat /\ get'.best.ts >= get.best.ts
        /\ Wire(store[n]).ts >= get.floor => get'.best.ts >= get.floor
    BY <2>2, <2>3 DEF Fresher, Wire, Genuine, Absent
  \* What is not shown is older than the floor.
  <2>7. Shown(get.floor) /\ store[n].ts >= get.floor => get'.best.ts >= get.floor
    BY <2>3, <2>4 DEF Wire, Genuine, Shown
  <2>8. Empties' = Empties /\ (Shown(get.floor)' <=> Shown(get.floor))
    BY <1>4, <2>1, <2>2 DEF Shown
  <2>5. CASE get.best.ts >= get.floor \/ ~ Shown(get.floor)
    <3>1. Shown(get.floor)' => get'.best.ts >= get'.floor
      BY <2>2, <2>3, <2>4, <2>5, <2>8
    <3> QED
      BY <1>4, <2>1, <2>2, <2>4, <3>1 DEF GetInv
  <2>6. CASE HeldOutside(get.seen, get.floor) /\ Shown(get.floor)
    <3>1. PICK Q \in SUBSET Node : /\ Majority(Q) /\ Q \intersect get.seen = {}
                                   /\ \A p \in Q : Holds(p, get.floor)
      BY <2>6 DEF HeldOutside
    <3>2. CASE n \in Q
      BY <1>4, <2>1, <2>2, <2>4, <2>6, <2>7, <3>1, <3>2 DEF GetInv, Holds
    <3>3. CASE n \notin Q
      <4>1. HeldOutside(get.seen, get.floor)'
        BY <2>1, <2>2, <3>1, <3>3 DEF HeldOutside, Holds
      <4> QED
        BY <1>4, <2>1, <2>2, <2>4, <4>1 DEF GetInv
    <3> QED
      BY <3>2, <3>3
  <2> QED
    BY <1>2, <2>1, <2>5, <2>6 DEF ReadInv, GetInv
<1>12. ASSUME NEW n \in Node, ReadFailed(n) PROVE Numbered' /\ AckInv' /\ GetInv'
  <2>1. /\ get' = [get EXCEPT !.left = @ \ {n}]
        /\ UNCHANGED <<store, up, write, late, acknowledged>>
    BY <1>12 DEF ReadFailed
  <2>2. get'.state = get.state /\ get'.seen = get.seen /\ get'.floor = get.floor /\ get'.best = get.best
    BY <1>1, <2>1, Facts DEF Reading
  <2> QED
    BY <1>2, <1>4, <2>1, <2>2 DEF ReadInv, GetInv, HeldOutside, Holds, Shown
\* The get has seen a majority: it has met the one that holds what it must see.
<1>13. CASE Answer
  <2>1. /\ get.state = "reading"
        /\ get' = [get EXCEPT !.state = IF Majority(get.seen) THEN "answered" ELSE "refused"]
        /\ UNCHANGED <<store, up, write, late, acknowledged>>
    BY <1>13 DEF Answer
  <2>2. /\ get'.state = IF Majority(get.seen) THEN "answered" ELSE "refused"
        /\ get'.floor = get.floor /\ get'.best = get.best
    BY <1>1, <2>1, Facts DEF Reading
  <2>3. Majority(get.seen) => ~ HeldOutside(get.seen, get.floor)
    BY <1>1, Facts, MajoritiesMeet DEF HeldOutside
  <2> QED
    BY <1>2, <1>4, <2>1, <2>2, <2>3 DEF ReadInv, GetInv, Shown
<1>14. ASSUME NEW n \in Node, Crash(n) PROVE Numbered' /\ AckInv' /\ GetInv'
  <2>1. /\ Dies(n) /\ acknowledged' = acknowledged /\ late' \subseteq late
        /\ get' = NoGet \/ get' = get
        /\ write' = [w \in Write |-> IF w \in WritesCutOff(n)
                                     THEN [write[w] EXCEPT !.state = "over"] ELSE write[w]]
    BY <1>14 DEF Crash, CutOff, Dies
  <2>2. /\ Begun' = Begun /\ Empties' = Empties
        /\ \A w \in Write : write'[w].line = write[w].line /\ write'[w].acks = write[w].acks
    BY <1>1, <2>1, CutOffTypes, SameBegun
  <2>3. /\ Keeps
        /\ \A p \in Node : Genuine(store'[p])
        /\ Primary \in up' => Primary \in up /\ store'[Primary] = store[Primary]
    BY <1>2, <2>1, DeathKept
  <2>4. Numbered'
    BY <1>1, <1>2, <1>3, <2>1, <2>2, <2>3, Facts, NumberedKept
  <2>5. AckInv'
    BY <1>1, <1>2, <2>1, <2>2, <2>3, Facts, AckKept DEF Attempt
  <2>6. GetInv'
    BY <1>2, <2>1, <2>2, <2>3, GetKept DEF GetInv, NoGet, Absent
  <2> QED
    BY <2>4, <2>5, <2>6
<1>15. ASSUME NEW n \in Node, Restart(n) PROVE Numbered' /\ AckInv' /\ GetInv'
  <2>1. UNCHANGED <<store, up, write, late, get, acknowledged>>
    BY <1>15 DEF Restart
  <2> QED
    BY <1>2, <1>4, <2>1, GetKept
<1>17. ASSUME NEW n \in Node, CaughtUp(n) PROVE Numbered' /\ AckInv' /\ GetInv'
  <2>1. write' = write /\ late' = late /\ get' = get /\ acknowledged' = acknowledged
    BY <1>17 DEF CaughtUp
  <2>2. /\ Keeps
        /\ \A p \in Node : Genuine(store'[p])
        /\ Primary \in up /\ store'[Primary] = store[Primary]
    BY <1>1, <1>2, <1>17, CatchUpKept
  <2> QED
    BY <1>2, <1>3, <2>1, <2>2, WritesKept, GetKept
<1>18. ASSUME NEW n \in Node, GivesUp(n) PROVE Numbered' /\ AckInv' /\ GetInv'
  <2>1. /\ Dies(n) /\ write' = write /\ late' \subseteq late /\ get' = get
        /\ acknowledged' = acknowledged
    BY <1>18 DEF GivesUp, Dies
  <2>2. /\ Keeps
        /\ \A p \in Node : Genuine(store'[p])
        /\ Primary \in up' => Primary \in up /\ store'[Primary] = store[Primary]
    BY <1>2, <2>1, DeathKept
  <2> QED
    BY <1>2, <1>3, <2>1, <2>2, WritesKept, GetKept
<1>16. CASE UNCHANGED vars
  BY <1>2, <1>4, <1>16, GetKept DEF vars
<1> QED
  BY <1>2, <1>5, <1>6, <1>7, <1>8, <1>9, <1>10, <1>11, <1>12, <1>13, <1>14, <1>15, <1>16,
     <1>17, <1>18 DEF Next

\* A get that begins after a set was acknowledged, and finds a majority, does
\* not return anything older, for any nodes and any number of sets, gets, late
\* forwards, crashes and catch-ups (04 README, RR2).
THEOREM ReadsAreRegular == Spec => []RegularRead
<1>1. ReadInv /\ [Next]_vars => ReadInv'
  BY ReadStep
<1>2. ReadInv => RegularRead
  BY Facts DEF ReadInv, GetInv, Quiet, Shown, RegularRead
<1> QED
  BY <1>1, <1>2, ReadInit, PTL DEF Spec

\* While it runs, a node's copy is replaced by newer ones only, unless the key
\* is removed.
THEOREM CopiesNeverRegress == Spec => NeverRegress
<1> DEFINE Older == \A n \in up \intersect up' : store'[n].ts < store[n].ts => store'[n] = Absent
<1>1. ASSUME TypeInv, [Next]_vars PROVE Older
  <2>1. /\ \A n \in Node : store[n] \in Copy /\ store[n].ts \in Nat
        /\ \A w \in Write : write[w].line \in Line
        /\ up \subseteq Node /\ store \in [Node -> Copy]
    BY <1>1, Facts DEF Attempt
  <2>2. ASSUME NEW w \in Write, NEW n \in Node, store' = [store EXCEPT ![n] = Apply(@, write[w].line)]
        PROVE  Older
    <3>1. \/ Apply(store[n], write[w].line) = Absent
          \/ /\ Apply(store[n], write[w].line).ts >= store[n].ts
             /\ Apply(store[n], write[w].line).ts \in Nat
      BY <2>1, Bounds DEF Apply, Line, Copy
    <3>2. store'[n] = Apply(store[n], write[w].line)
      BY <2>1, <2>2
    <3>3. \A p \in Node \ {n} : store'[p].ts = store[p].ts
      BY <2>1, <2>2
    <3>4. ASSUME NEW p \in Node, store'[p].ts < store[p].ts PROVE store'[p] = Absent
      <4>1. CASE p = n
        BY <2>1, <3>1, <3>2, <3>4, <4>1, Copies
      <4>2. CASE p # n
        BY <2>1, <3>3, <3>4, <4>2
      <4> QED
        BY <4>1, <4>2
    <3> QED
      BY <2>1, <3>4
  <2>3. ASSUME NEW n \in Node, Dies(n) PROVE Older
    BY <2>1, <2>3 DEF Dies
  <2>4. ASSUME NEW w \in Write, NEW text \in {"empty", "whole"}, Set(w, text) PROVE Older
    <3>1. store' = [store EXCEPT ![Primary] = [ts |-> store[Primary].ts + 1, value |-> w,
                                               text |-> text]]
      BY <2>4 DEF Set
    <3> QED
      BY <2>1, <3>1, Bounds
  <2>5. ASSUME NEW w \in Write, Remove(w) PROVE Older
    BY <2>1, <2>5 DEF Remove
  <2>6. ASSUME NEW n \in Node, CaughtUp(n) PROVE Older
    <3>1. n \notin up
      BY <1>1, <2>6, Facts DEF CaughtUp
    <3> QED
      BY <2>1, <2>6, <3>1 DEF CaughtUp
  <2>8. ASSUME NEW n \in Node, DiesDumping(n) PROVE Older
    <3>1. /\ n \notin up /\ n \in catching /\ Primary \in up
          /\ up' = (up \ {Primary}) \union {n}
      BY <1>1, <2>8, Facts DEF DiesDumping, DiesServing
    <3>2. \A p \in up \intersect up' : p \in Node /\ p # n /\ p # Primary
      BY <2>1, <3>1
    <3>3. \E copy : store' = [store EXCEPT ![Primary] = Absent, ![n] = copy]
      BY <2>8 DEF DiesDumping
    <3>4. \A p \in up \intersect up' : store'[p] = store[p]
      BY <2>1, <3>2, <3>3
    <3> QED
      BY <2>1, <3>2, <3>4
  <2>7. ASSUME store' = store PROVE Older
    BY <2>1, <2>7
  <2> HIDE DEF Older
  <2> QED
    BY <1>1, <2>2, <2>3, <2>4, <2>5, <2>6, <2>7, <2>8 DEF Next, vars, Responded, Confirmed,
       Refused, Abandoned, ServedLate, DiesConfirming, Get, ReadFrom, ReadFailed, Crash,
       DiesReading, Restart, GivesUp, Answer
<1>2. TypeInv /\ [Next]_vars => TypeInv' /\ [Older]_vars
  BY <1>1, TypeStep
<1> QED
  BY <1>2, TypeInit, PTL DEF Spec, NeverRegress

=============================================================================
