--------------------------- MODULE CausalBroadcast ---------------------------
(***************************************************************************)
(* The causal-order broadcast of 06: eager reliable broadcast, where every *)
(* node relays what it sees for the first time, below a waiting room that  *)
(* holds a message back until all its author had delivered is delivered.   *)
(* A message is <<origin, number>>: the number is the origin's own slot of *)
(* the stamp, and that pair is what the code deduplicates by.              *)
(***************************************************************************)
EXTENDS Naturals, FiniteSets

CONSTANTS Node,
          Casts,       \* Casts[n]: how many messages n broadcasts at most
          MaxCrashes

ASSUME BoundAssumption == Casts \in [Node -> Nat] /\ MaxCrashes \in Nat

VARIABLES v,          \* v[n][r]: how many messages of r node n has delivered
          lsn,        \* lsn[n]: how many messages n has broadcast
          pending,    \* pending[n]: messages held back at n
          delivered,  \* delivered[n]: messages n has seen, the deduplication set
          stamp,      \* stamp[m]: the vector W that m carries
          wire,       \* <<n, m>>: copies of m were sent to n
          up,
          done,       \* done[n]: messages n has handed over (history)
          past        \* past[m]: what m's author had handed over or sent before m (history)

vars == <<v, lsn, pending, delivered, stamp, wire, up, done, past>>

-----------------------------------------------------------------------------

Message == UNION {{n} \X (0 .. Casts[n] - 1) : n \in Node}

Sent == {m \in Message : m[2] < lsn[m[1]]}

TypeOK ==
    /\ v \in [Node -> [Node -> Nat]]
    /\ lsn \in [Node -> Nat]
    /\ pending \in [Node -> SUBSET Message]
    /\ delivered \in [Node -> SUBSET Message]
    /\ stamp \in [Message -> [Node -> Nat]]
    /\ wire \subseteq Node \X Message
    /\ up \subseteq Node
    /\ done \in [Node -> SUBSET Message]
    /\ past \in [Message -> SUBSET Message]

Init ==
    /\ v = [n \in Node |-> [r \in Node |-> 0]]
    /\ lsn = [n \in Node |-> 0]
    /\ pending = [n \in Node |-> {}]
    /\ delivered = [n \in Node |-> {}]
    /\ stamp = [m \in Message |-> [r \in Node |-> 0]]
    /\ wire = {}
    /\ up = Node
    /\ done = [n \in Node |-> {}]
    /\ past = [m \in Message |-> {}]

-----------------------------------------------------------------------------

(* broadcast(): one thread and one connection per peer, and one to itself.  *)
(* Every relay sends everybody one more copy, so that a copy which was sent *)
(* may arrive over and over.                                                *)
Copies(m) == Node \X {m}

(* The nodes that have sent m. *)
Senders(m) == {n \in Node : m \in delivered[n] \/ (m \in Sent /\ m[1] = n)}

(* Mutant: only the author's own order is awaited. *)
ReadyFifo(n, m) == stamp[m][m[1]] <= v[n][m[1]]

(* All that the author had delivered, slot by slot. *)
Ready(n, m) == \A r \in Node : stamp[m][r] <= v[n][r]

(* The thread that received a message keeps the lock until nothing in the   *)
(* waiting room is ready: until then no other handler runs at n.            *)
Unlocked(n) == n \in up /\ \A m \in pending[n] : ~ Ready(n, m)

(* The stamp: its own slot counts the node's messages before this one.      *)
Stamp(n) == [v[n] EXCEPT ![n] = lsn[n]]

Bcast(n) ==
    LET m == <<n, lsn[n]>>
    IN  /\ Unlocked(n)
        /\ lsn[n] < Casts[n]
        /\ lsn' = [lsn EXCEPT ![n] = @ + 1]
        /\ stamp' = [stamp EXCEPT ![m] = Stamp(n)]
        /\ wire' = wire \union Copies(m)
        /\ past' = [past EXCEPT ![m] = done[n] \union {x \in Sent : x[1] = n}]
        /\ UNCHANGED <<v, pending, delivered, up, done>>

(* Mutant: a message that was seen before is put in the waiting room again. *)
ReceiveAgain(n, m) ==
    /\ <<n, m>> \in wire
    /\ Unlocked(n)
    /\ delivered' = [delivered EXCEPT ![n] = @ \union {m}]
    /\ pending' = [pending EXCEPT ![n] = @ \union {m}]
    /\ wire' = wire \union Copies(m)
    /\ UNCHANGED <<v, lsn, stamp, up, done, past>>

(* Mutant: nobody relays. *)
ReceiveOnly(n, m) ==
    /\ <<n, m>> \in wire
    /\ Unlocked(n)
    /\ m \notin delivered[n]
    /\ delivered' = [delivered EXCEPT ![n] = @ \union {m}]
    /\ pending' = [pending EXCEPT ![n] = @ \union {m}]
    /\ UNCHANGED <<v, lsn, stamp, wire, up, done, past>>

(* A copy of what was seen before is dropped; the first is relayed and put *)
(* in the waiting room.                                                     *)
Receive(n, m) ==
    /\ <<n, m>> \in wire
    /\ Unlocked(n)
    /\ m \notin delivered[n]
    /\ delivered' = [delivered EXCEPT ![n] = @ \union {m}]
    /\ pending' = [pending EXCEPT ![n] = @ \union {m}]
    /\ wire' = wire \union Copies(m)
    /\ UNCHANGED <<v, lsn, stamp, up, done, past>>

(* One turn of the loop that drains the waiting room. *)
Deliver(n, m) ==
    /\ n \in up
    /\ m \in pending[n]
    /\ Ready(n, m)
    /\ pending' = [pending EXCEPT ![n] = @ \ {m}]
    /\ v' = [v EXCEPT ![n][m[1]] = @ + 1]
    /\ done' = [done EXCEPT ![n] = @ \union {m}]
    /\ UNCHANGED <<lsn, delivered, stamp, wire, up, past>>

(* The process stops for good, in the middle of its sends: a message that   *)
(* no running node has sent may be lost to some.                            *)
Crash(n) ==
    /\ n \in up
    /\ Cardinality(Node \ up) < MaxCrashes
    /\ up' = up \ {n}
    /\ \E lost \in SUBSET {c \in wire : /\ c[2] \notin delivered[c[1]]
                                        /\ Senders(c[2]) \intersect up = {n}} :
         wire' = wire \ lost
    /\ UNCHANGED <<v, lsn, pending, delivered, stamp, done, past>>

Next ==
    \/ \E n \in Node : Bcast(n) \/ Crash(n)
    \/ \E n \in Node, m \in Message : Receive(n, m) \/ Deliver(n, m)

Spec == Init /\ [][Next]_vars

(* The threads of a node that has something to handle get to run. *)
Handle(n) == \E m \in Message : Receive(n, m) \/ Deliver(n, m)

FairSpec == Spec /\ \A n \in Node : WF_vars(Handle(n))

-----------------------------------------------------------------------------
(* CRB5: a node hands a message over only after everything its author had   *)
(* handed over, or broadcast, before it broadcast the message, in whatever  *)
(* order the copies arrive.                                                 *)
CausalOrder == \A n \in Node : \A m \in done[n] : past[m] \subseteq done[n]

(* What a node has handed over of an origin is the first v of its messages, *)
(* each once: the vector counts deliveries and is compared with stamps that *)
(* count broadcasts, so one message counted twice or out of turn would let  *)
(* later ones pass the test too early.                                      *)
DeliveredPrefix ==
    \A n \in Node : done[n] = {m \in Message : m[2] < v[n][m[1]]}

(* RB1 and RB4: what a node broadcasts or hands over is in the end handed   *)
(* over by all the nodes that run, unless the node itself crashes before:   *)
(* the relays make up for an author that crashed halfway through its sends, *)
(* and nobody waits in the waiting room for ever.  (Broadcasts are bounded, *)
(* so the nodes get together again and again.)                              *)
Together ==
    \A n \in up, m \in Message :
        m \in done[n] \/ (m \in Sent /\ m[1] = n) => \A q \in up : m \in done[q]

ReachesEverybody == []<>Together

=============================================================================
