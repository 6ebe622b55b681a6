----------------------------- MODULE MCRaftStale -----------------------------
(***************************************************************************)
(* A leader's tick reads its term under one lock and its log under another *)
(* (main.rs:210-219).  Five nodes, no crash and no lost request: l is held *)
(* up between the two locks while two more leaders are elected, and then   *)
(* sends the newest log under its old term to a node that has seen neither *)
(* of them.  The schedule is cut down to the behaviours around that one:   *)
(* who times out when, who can be reached, one round at a time.            *)
(***************************************************************************)
EXTENDS Raft, TLC

CONSTANTS l, y, x, z, q, k, v1, v2

Nodes == {l, y, x, z, q}
Standers == {l, y, x}
Keys == {k}
Vals == {v1, v2}
SetA == [op |-> "set", key |-> k, val |-> v1]
SetB == [op |-> "set", key |-> k, val |-> v2]
TwoCmds == {SetA, SetB}
NoCmds == {}
ThreeTimeouts == 0 :> 3

\* l, y and x stand in this order, in the terms 1, 2 and 3.
Place(n) == CASE n = l -> 0 [] n = y -> 1 [] n = x -> 2

\* The nodes that answer n; the others refuse the connection.
Reach(n) == CASE n = x -> {z, l}
              [] n = y -> IF pc[n] = "vote" THEN {x, z} ELSE {q}
              [] n = l -> IF pc[n] = "vote" THEN {y, z} ELSE {q}

\* No other round is under way, but for that of l before its second lock.
Turn(n) == \A m \in Server \ {n} : pc[m] = "sleep" \/ (m = l /\ pc[m] = "snapshot")

NextStale ==
    \E n \in Standers :
        /\ Turn(n)
        /\ \/ LeaderWake(n)
           \/ LeaderSnapshot(n)
           \/ elections = Place(n) /\ ElectionTimeout(n)
           \/ \E p \in Reach(n) : AppendAnswered(n, p) \/ VoteAnswered(n, p)
           \/ \E p \in Server \ Reach(n) : CallRefused(n, p)
           \/ RoundDeposed(n)
           \/ RoundCommit(n)
           \/ RoundStale(n)
           \/ ElectionWon(n)
           \/ ElectionLost(n)
           \/ \E c \in Cmd : ClientCommand(n, c)

SpecStale == Init /\ [][NextStale]_vars
=============================================================================
