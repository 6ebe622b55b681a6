-------------------------- MODULE BrachaBroadcast --------------------------
(***************************************************************************)
(* Module 10, src/10-byzantine-broadcast/src/main.rs: Byzantine reliable   *)
(* broadcast of one message by a designated sender (authenticated double   *)
(* echo).                                                                  *)
(*                                                                         *)
(* A correct node is an accept loop that handles one signed message per    *)
(* connection, under one lock.  It sends from threads of their own, one    *)
(* per destination, so that messages arrive in any order.  A message does  *)
(* not say whom it is for and keeps its signature, so whoever has it can   *)
(* hand it on: what was ever sent may reach anybody, any number of times,  *)
(* or never.  A Byzantine node sends whatever it can sign.                 *)
(***************************************************************************)
EXTENDS Naturals, Sequences, FiniteSets, SequencesExt

CONSTANTS
    Node,       \* the nodes, by address
    Byzantine,  \* those that do not run this code,
    Forged,     \*   and what they sign for each correct node
    Sender,     \* the designated sender (--sender)
    Msg, None,  \* message contents; no entry in a map
    MaxBcasts   \* bound, not in the code: contents a correct sender broadcasts

Correct == Node \ Byzantine
n == Cardinality(Node)
f == (n - 1) \div 3

Signed == [kind : {"SEND", "ECHO", "READY"}, from : Node, m : Msg]

ASSUME NodeAssumption == /\ IsFiniteSet(Node) /\ Sender \in Node /\ None \notin Msg
                         /\ Byzantine \subseteq Node /\ Cardinality(Byzantine) <= f
ASSUME ForgedAssumption ==
    Forged \in [Correct -> SUBSET {msg \in Signed : msg.from \in Byzantine}]
ASSUME BoundAssumption == MaxBcasts \in Nat

VARIABLES
    net,        \* what correct nodes have signed and sent
    sentecho, sentready,   \* the flags of struct State
    delivered,  \* contents delivered; the flag is delivered[p] # <<>>
    echos, readys  \* first ECHO and READY of each node

vars == <<net, sentecho, sentready, delivered, echos, readys>>

(***************************** pure functions ******************************)

\* Mutant: anybody's signature will do.
AnyEnvelope(p, msg) == \E q \in Node : [msg EXCEPT !.from = q] \in net \cup Forged[p]

\* verify_envelope: a message counts only if the node it claims to be from
\* has signed it.
Authentic(p, msg) == msg \in net \cup Forged[p]

\* entry(from).or_insert(m)
Record(map, msg) == IF map[msg.from] = None THEN [map EXCEPT ![msg.from] = msg.m] ELSE map

\* Mutant: whatever a node said counts.
CountAll(map, m) == Cardinality({q \in Node : map[q] # None})

Count(map, m) == Cardinality({q \in Node : map[q] = m})

\* Mutants of the thresholds: all are waited for; no amplification.
EchoAll(c)      == c = n
AmplifyNever(c) == FALSE

EchoQuorum(c)  == 2 * c > n + f
Amplify(c)     == c > f
ReadyQuorum(c) == c > 2 * f

(********************************* actions *********************************)

Init ==
    /\ net = {}
    /\ sentecho = [p \in Correct |-> FALSE]
    /\ sentready = [p \in Correct |-> FALSE]
    /\ delivered = [p \in Correct |-> <<>>]
    /\ echos = [p \in Correct |-> [q \in Node |-> None]]
    /\ readys = [p \in Correct |-> [q \in Node |-> None]]

Broadcast(kind, p, ms) == net' = net \cup [kind : {kind}, from : {p}, m : ms]

\* bcast m and bcast equiv m m2, typed at the sender's terminal.
Bcast(ms) ==
    /\ Sender \in Correct
    /\ Cardinality(ms \cup {msg.m : msg \in {x \in net : x.kind = "SEND"}}) <= MaxBcasts
    /\ Broadcast("SEND", Sender, ms)
    /\ UNCHANGED <<sentecho, sentready, delivered, echos, readys>>

\* The first SEND of the sender is echoed; any other is ignored.
OnSend(p, msg) ==
    /\ msg.kind = "SEND" /\ Authentic(p, msg)
    /\ msg.from = Sender /\ ~sentecho[p]
    /\ sentecho' = [sentecho EXCEPT ![p] = TRUE]
    /\ Broadcast("ECHO", p, {msg.m})
    /\ UNCHANGED <<sentready, delivered, echos, readys>>

\* READY goes out once, when enough is TRUE.
MaybeReady(p, m, enough) ==
    IF enough /\ ~sentready[p]
    THEN /\ sentready' = [sentready EXCEPT ![p] = TRUE]
         /\ Broadcast("READY", p, {m})
    ELSE UNCHANGED <<sentready, net>>

OnEcho(p, msg) ==
    /\ msg.kind = "ECHO" /\ Authentic(p, msg)
    /\ LET heard == Record(echos[p], msg)
       IN  /\ echos' = [echos EXCEPT ![p] = heard]
           /\ MaybeReady(p, msg.m, EchoQuorum(Count(heard, msg.m)))
    /\ UNCHANGED <<sentecho, delivered, readys>>

\* Mutant: delivered is not looked at.
ReadyAgain(p, msg) ==
    /\ msg.kind = "READY" /\ Authentic(p, msg)
    /\ LET heard == Record(readys[p], msg)
           count == Count(heard, msg.m)
       IN  /\ readys' = [readys EXCEPT ![p] = heard]
           /\ MaybeReady(p, msg.m, Amplify(count))
           /\ delivered' = [delivered EXCEPT ![p] =
                              IF ReadyQuorum(count) THEN Append(@, msg.m) ELSE @]
    /\ UNCHANGED <<sentecho, echos>>

OnReady(p, msg) ==
    /\ msg.kind = "READY" /\ Authentic(p, msg)
    /\ LET heard == Record(readys[p], msg)
           count == Count(heard, msg.m)
       IN  /\ readys' = [readys EXCEPT ![p] = heard]
           /\ MaybeReady(p, msg.m, Amplify(count))
           /\ delivered' = [delivered EXCEPT ![p] =
                              IF ReadyQuorum(count) /\ @ = <<>> THEN <<msg.m>> ELSE @]
    /\ UNCHANGED <<sentecho, echos>>

Receive(p, msg) == OnSend(p, msg) \/ OnEcho(p, msg) \/ OnReady(p, msg)

Next ==
    \/ \E m, m2 \in Msg : Bcast({m, m2})
    \/ \E p \in Correct, msg \in Signed : Receive(p, msg)

Spec == Init /\ [][Next]_vars

(******************************** properties *******************************)

\* The types; delivered's says that nothing is delivered twice (BRB2).
TypeOK ==
    /\ net \subseteq Signed
    /\ sentecho \in [Correct -> BOOLEAN] /\ sentready \in [Correct -> BOOLEAN]
    /\ delivered \in [Correct -> {<<>>} \cup {<<m>> : m \in Msg}]
    /\ echos \in [Correct -> [Node -> Msg \cup {None}]]
    /\ readys \in [Correct -> [Node -> Msg \cup {None}]]

Sent == {msg.m : msg \in {x \in net : x.kind = "SEND"}}

\* BRB4: no two correct nodes deliver different contents, whatever the sender
\* and the other Byzantine nodes sign and to whomever they send it.
Consistency ==
    \A p, q \in Correct : \A m \in ToSet(delivered[p]), m2 \in ToSet(delivered[q]) : m = m2

\* BRB3: what is delivered in the name of a correct sender, it broadcast.
Integrity ==
    Sender \in Correct => \A p \in Correct : ToSet(delivered[p]) \subseteq Sent

\* BRB5: if one correct node delivers, all do.
Totality ==
    (\E p \in Correct : delivered[p] # <<>>) ~> (\A p \in Correct : delivered[p] # <<>>)

\* BRB1: what a correct sender broadcasts, and nothing else, is delivered.
Validity ==
    (Sender \in Correct /\ \E m \in Msg : Sent = {m})
        ~> (\A m \in Msg : Sent = {m} => \A p \in Correct : delivered[p] = <<m>>)

\* Every message of a correct node reaches every correct node in the end.  A
\* node has only so many messages to learn something from, so it is enough that
\* while there is one such message, one is received.
Fairness == WF_vars(\E p \in Correct : \E msg \in net : Receive(p, msg))

FairSpec == Spec /\ Fairness
=============================================================================
