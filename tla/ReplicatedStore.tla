--------------------------- MODULE ReplicatedStore ---------------------------
(***************************************************************************)
(* The replicated key-value store of 04: a regular register by majority    *)
(* voting.  A fixed primary stamps every set with the next timestamp of    *)
(* the key and forwards it to the other nodes, one after the other; any    *)
(* node serves a get by asking all the others for their copies.  Both need *)
(* a majority.  Keys do not interact, so there is one.  The value of a set *)
(* is its number in the order in which the primary applied the writes; its *)
(* text may be empty (`set k` is a command), and is cut short in a dump    *)
(* whose sender dies.                                                      *)
(***************************************************************************)
EXTENDS Naturals, FiniteSets

CONSTANTS Node,       \* every node lists all the others as its peers
          Primary,
          MaxWrites,  \* sets and removes the clients send to the primary
          MaxRemoves,
          MaxEmpty,   \* sets of the empty value
          MaxLate,    \* forwards abandoned by the primary and not yet served
          MaxCrashes,
          MaxDying    \* nodes that die while they serve a request

ASSUME NodeAssumption == IsFiniteSet(Node) /\ Primary \in Node
ASSUME BoundAssumption ==
    {MaxWrites, MaxRemoves, MaxEmpty, MaxLate, MaxCrashes, MaxDying} \subseteq Nat

VARIABLES store,         \* store[n]: the copy at n, volatile
          up,            \* the nodes that serve
          catching,      \* those that are bound to their port and wait for the dump
          write,         \* write[w]: the w-th write at the primary
          late,          \* <<w, n>>: the request of write w waits at n, abandoned
          get,           \* the last get: who asked it, whom it has still to ask ...
          acknowledged,  \* the latest set answered OK and with no removal begun after it
          crashes,
          dying

vars == <<store, up, catching, write, late, get, acknowledged, crashes, dying>>

-----------------------------------------------------------------------------

(* A copy of the key: its timestamp, its value and what there is of the     *)
(* value's text; or no entry at all.                                       *)
Absent == [ts |-> 0, value |-> 0, text |-> "empty"]

Write == 1 .. MaxWrites

(* Mutant: half of the nodes is enough. *)
HalfIsEnough(S) == Cardinality(S) >= Cardinality(Node) \div 2

Majority(S) == Cardinality(S) >= Cardinality(Node) \div 2 + 1

(* Mutant: what arrives is written, without the guard on the timestamp. *)
ApplyAlways(copy, line) == IF line.verb = "replrm" THEN Absent ELSE line.copy

(* Store::write, and Store::remove for a forwarded removal. *)
Apply(copy, line) ==
    IF line.verb = "replrm" THEN Absent
    ELSE IF copy.ts >= line.copy.ts THEN copy
    ELSE line.copy

(* What read_from makes of the answer to a readts: after trim() an entry    *)
(* with an empty value is a timestamp alone, and counts as no entry.        *)
Wire(copy) == IF copy.text = "empty" THEN Absent ELSE copy

(* What a dump that stops anywhere says of the key: its line is missing or  *)
(* whole, or stops within the value; without the second blank it is no line. *)
Torn(copy) ==
    {Absent, copy} \union {[copy EXCEPT !.text = t] :
                             t \in IF copy.text = "empty" THEN {} ELSE {"empty", "part"}}

(* max_by_key keeps the last of the largest; a missing copy is not pushed. *)
Fresher(best, copy) == IF copy # Absent /\ copy.ts >= best.ts THEN copy ELSE best

Idle == [state |-> "idle", line |-> [verb |-> "none", copy |-> Absent],
         left |-> {}, acks |-> {}]

NoGet == [state |-> "idle", at |-> Primary, left |-> {}, seen |-> {},
          best |-> Absent, floor |-> 0]

Begun == {w \in Write : write[w].state # "idle"}
Removals == {w \in Begun : write[w].line.verb = "replrm"}
Empties == {w \in Begun : write[w].line.verb = "repl" /\ write[w].line.copy.text = "empty"}

TypeOK ==
    LET Copy == [ts : 0 .. MaxWrites, value : 0 .. MaxWrites, text : {"empty", "part", "whole"}]
        Line == [verb : {"none", "repl", "replrm"}, copy : Copy]
    IN  /\ store \in [Node -> Copy]
        /\ up \subseteq Node /\ catching \subseteq Node \ up
        /\ write \in [Write -> [state : {"idle", "forwarding", "over"}, line : Line,
                                left : SUBSET Node, acks : SUBSET Node]]
        /\ late \subseteq Write \X Node
        /\ get \in [state : {"idle", "reading", "answered", "refused"}, at : Node,
                    left : SUBSET Node, seen : SUBSET Node, best : Copy,
                    floor : 0 .. MaxWrites]
        /\ acknowledged \in 0 .. MaxWrites
        /\ crashes \in 0 .. MaxCrashes
        /\ dying \in 0 .. MaxDying

Init ==
    /\ store = [n \in Node |-> Absent]
    /\ up = Node /\ catching = {}
    /\ write = [w \in Write |-> Idle]
    /\ late = {}
    /\ get = NoGet
    /\ acknowledged = 0
    /\ crashes = 0
    /\ dying = 0

-----------------------------------------------------------------------------
(* Writes at the primary. *)

Accepted(w, line) ==
    /\ Primary \in up
    /\ w \notin Begun
    /\ \A v \in 1 .. w - 1 : v \in Begun
    /\ write' = [write EXCEPT ![w] = [state |-> "forwarding", line |-> line,
                                      left |-> Node \ {Primary}, acks |-> {Primary}]]
    /\ UNCHANGED <<up, catching, late, crashes, dying>>

(* The timestamp is chosen and the copy written under one lock. *)
Set(w, text) ==
    LET copy == [ts |-> store[Primary].ts + 1, value |-> w, text |-> text]
    IN  /\ text = "empty" => Cardinality(Empties) < MaxEmpty
        /\ Accepted(w, [verb |-> "repl", copy |-> copy])
        /\ store' = [store EXCEPT ![Primary] = copy]
        /\ UNCHANGED <<get, acknowledged>>

(* The key is dropped, its timestamp with it; a get may miss it from here on. *)
Remove(w) ==
    /\ Cardinality(Removals) < MaxRemoves
    /\ Accepted(w, [verb |-> "replrm", copy |-> Absent])
    /\ store' = [store EXCEPT ![Primary] = Absent]
    /\ get' = [get EXCEPT !.floor = 0]
    /\ acknowledged' = 0

(* forward() to n has returned; acked tells whether with Ok. *)
Forwarded(w, n, acked) ==
    /\ write[w].state = "forwarding"
    /\ n \in write[w].left
    /\ write' = [write EXCEPT ![w].left = @ \ {n},
                              ![w].acks = IF acked THEN @ \union {n} ELSE @]

(* n serves the request and answers in time. *)
Confirmed(w, n) ==
    /\ n \in up
    /\ Forwarded(w, n, TRUE)
    /\ store' = [store EXCEPT ![n] = Apply(@, write[w].line)]
    /\ UNCHANGED <<up, catching, late, get, acknowledged, crashes, dying>>

(* The connection is refused. *)
Refused(w, n) ==
    /\ n \notin up \union catching
    /\ Forwarded(w, n, FALSE)
    /\ UNCHANGED <<store, up, catching, late, get, acknowledged, crashes, dying>>

(* No answer within a second; the request stays with n. *)
Abandoned(w, n) ==
    /\ n \in up \union catching
    /\ Cardinality(late) < MaxLate
    /\ Forwarded(w, n, FALSE)
    /\ late' = late \union {<<w, n>>}
    /\ UNCHANGED <<store, up, catching, get, acknowledged, crashes, dying>>

(* n serves a request its sender no longer waits for. *)
ServedLate(w, n) ==
    /\ n \in up
    /\ <<w, n>> \in late
    /\ store' = [store EXCEPT ![n] = Apply(@, write[w].line)]
    /\ late' = late \ {<<w, n>>}
    /\ UNCHANGED <<up, catching, write, get, acknowledged, crashes, dying>>

(* All have been asked: OK with a majority, otherwise ERR no quorum. *)
Responded(w) ==
    /\ write[w].state = "forwarding"
    /\ write[w].left = {}
    /\ write' = [write EXCEPT ![w].state = "over"]
    /\ acknowledged' =
         IF /\ write[w].line.verb = "repl"
            /\ Majority(write[w].acks)
            /\ \A v \in Removals \union {acknowledged} : v < w
         THEN w ELSE acknowledged
    /\ UNCHANGED <<store, up, catching, late, get, crashes, dying>>

-----------------------------------------------------------------------------
(* A get at any node. *)

(* The node's own copy is the first response, and not parsed. *)
Get(n) ==
    /\ n \in up
    /\ get.state # "reading"
    /\ get' = [state |-> "reading", at |-> n, left |-> Node \ {n}, seen |-> {n},
               best |-> store[n], floor |-> acknowledged]
    /\ UNCHANGED <<store, up, catching, write, late, acknowledged, crashes, dying>>

Asked(n) ==
    /\ get.state = "reading"
    /\ n \in get.left

ReadFrom(n) ==
    /\ Asked(n)
    /\ n \in up
    /\ get' = [get EXCEPT !.left = @ \ {n}, !.seen = @ \union {n},
                          !.best = Fresher(@, Wire(store[n]))]
    /\ UNCHANGED <<store, up, catching, write, late, acknowledged, crashes, dying>>

(* Refused, or not answered in time. *)
ReadFailed(n) ==
    /\ Asked(n)
    /\ get' = [get EXCEPT !.left = @ \ {n}]
    /\ UNCHANGED <<store, up, catching, write, late, acknowledged, crashes, dying>>

Answer ==
    /\ get.state = "reading"
    /\ get.left = {}
    /\ get' = [get EXCEPT !.state = IF Majority(get.seen) THEN "answered" ELSE "refused"]
    /\ UNCHANGED <<store, up, catching, write, late, acknowledged, crashes, dying>>

-----------------------------------------------------------------------------
(* Crashes and restarts. *)

(* The process of n is gone, with its memory and the requests it had not    *)
(* served.                                                                 *)
Dies(n) ==
    /\ up' = up \ {n}
    /\ catching' = catching \ {n}
    /\ store' = [store EXCEPT ![n] = Absent]
    /\ late' = {x \in late : x[2] # n}
    /\ UNCHANGED acknowledged

(* The writes that end without an answer when n dies. *)
WritesCutOff(n) == IF n = Primary THEN Begun ELSE {}
GetCutOff(n) == get.state = "reading" /\ get.at = n

CutOff(n) ==
    /\ write' = [w \in Write |-> IF w \in WritesCutOff(n)
                                 THEN [write[w] EXCEPT !.state = "over"] ELSE write[w]]
    /\ get' = IF GetCutOff(n) THEN NoGet ELSE get

Crash(n) ==
    /\ crashes < MaxCrashes
    /\ crashes' = crashes + 1
    /\ n \in up \union catching
    /\ Dies(n)
    /\ CutOff(n)
    /\ UNCHANGED dying

DiesServing(n) ==
    /\ dying < MaxDying
    /\ dying' = dying + 1
    /\ n \in up
    /\ UNCHANGED crashes

(* n dies between reading a forwarded line and answering it: read_line sees *)
(* the end of the stream, returns Ok(0), and forward() Ok of an empty line. *)
DiesConfirming(w, n) ==
    /\ DiesServing(n)
    /\ Dies(n)
    /\ Forwarded(w, n, TRUE)
    /\ get' = IF GetCutOff(n) THEN NoGet ELSE get

(* The same for a readts: read_from() returns Ok(None), a response.         *)
DiesReading(n) ==
    /\ DiesServing(n)
    /\ Dies(n)
    /\ Asked(n)
    /\ get' = [get EXCEPT !.left = @ \ {n}, !.seen = @ \union {n}]
    /\ write' = [w \in Write |-> IF w \in WritesCutOff(n)
                                 THEN [write[w] EXCEPT !.state = "over"] ELSE write[w]]

-----------------------------------------------------------------------------
(* --catch-up. *)

(* The node is bound to its port, where requests wait, and asks for a dump. *)
Restart(n) ==
    /\ n \notin up \union catching
    /\ n # Primary
    /\ Primary \in up
    /\ catching' = catching \union {n}
    /\ UNCHANGED <<store, up, write, late, get, acknowledged, crashes, dying>>

(* From here on it serves.  The dump is written under one lock; a request   *)
(* that arrives while it is on its way is one that is served after it.      *)
CaughtUp(n) ==
    /\ n \in catching
    /\ Primary \in up
    /\ catching' = catching \ {n}
    /\ up' = up \union {n}
    /\ store' = [store EXCEPT ![n] = store[Primary]]
    /\ UNCHANGED <<write, late, get, acknowledged, crashes, dying>>

(* The primary dies while it sends the dump.  The loop ends with the stream *)
(* as it does with END, and the node serves what it has got.                *)
DiesDumping(n) ==
    /\ DiesServing(Primary)
    /\ n \in catching
    /\ catching' = catching \ {n}
    /\ up' = (up \ {Primary}) \union {n}
    /\ \E copy \in Torn(store[Primary]) :
          store' = [store EXCEPT ![Primary] = Absent, ![n] = copy]
    /\ late' = {x \in late : x[2] # Primary}
    /\ CutOff(Primary)
    /\ UNCHANGED acknowledged

(* The connection is refused or reset: the process ends. *)
GivesUp(n) ==
    /\ n \in catching
    /\ Primary \notin up
    /\ Dies(n)
    /\ UNCHANGED <<write, get, crashes, dying>>

Next ==
    \/ \E w \in Write, text \in {"empty", "whole"} : Set(w, text)
    \/ \E w \in Write : Remove(w) \/ Responded(w)
    \/ \E w \in Write, n \in Node :
         \/ Confirmed(w, n) \/ Refused(w, n) \/ Abandoned(w, n)
         \/ ServedLate(w, n) \/ DiesConfirming(w, n)
    \/ \E n \in Node :
         \/ Get(n) \/ ReadFrom(n) \/ ReadFailed(n)
         \/ Crash(n) \/ DiesReading(n)
         \/ Restart(n) \/ CaughtUp(n) \/ DiesDumping(n) \/ GivesUp(n)
    \/ Answer

Spec == Init /\ [][Next]_vars

-----------------------------------------------------------------------------
(* What a completed get returns is no older than the last set acknowledged  *)
(* before the get began (RR2 of the README), whatever sets, gets, late      *)
(* forwards, crashes and catch-ups happen meanwhile: the majority of the    *)
(* set's acknowledgements meets the majority of the get's responses.  Not   *)
(* when the key was removed, when a node died serving a request, or when    *)
(* the set, or one begun after it, has the empty value, which no readts     *)
(* shows; an empty value that was set before does no harm.                  *)
RegularRead ==
    get.state = "answered" /\ Removals = {} /\ dying = 0 /\ (\A w \in Empties : w < get.floor)
        => get.best.value >= get.floor

(* A running node never goes back to an older copy, however late and in     *)
(* which order the forwards arrive; only a removal may take the key away.   *)
NeverRegress ==
    [][\A n \in up \intersect up' :
          store'[n].ts < store[n].ts => store'[n] = Absent]_vars

(* RR2 as the README states it of the program, deaths while serving included. *)
RegularRegister ==
    get.state = "answered" /\ Removals = {} => get.best.value >= get.floor

=============================================================================
