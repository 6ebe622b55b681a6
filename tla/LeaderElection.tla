---------------------------- MODULE LeaderElection ----------------------------
(***************************************************************************)
(* The leader election of 05.  Every node pings its peers once a second    *)
(* with the name of its choice, the lowest node it does not suspect, and   *)
(* suspects a peer it has not heard for three seconds.  It acts as leader  *)
(* while it is its own choice and a majority, itself included, was last    *)
(* heard voting for it.  Crashes, lost pings and timers that run out too   *)
(* early happen until the system has calmed down, if it ever does.         *)
(***************************************************************************)
EXTENDS Naturals, FiniteSets, FiniteSetsExt

CONSTANTS Node,          \* ports
          MaxCrashes,
          MaxRestarts

VARIABLES fresh,     \* fresh[n]: the peers n heard within the timeout
          voters,    \* voters[n]: the peers whose last ping named n
          choice,    \* choice[n]: whom n voted for in its last round, or none yet
          leads,     \* the nodes whose status is I AM LEADER
          up,
          calm,      \* pings arrive and timers run out for silent peers only
          crashes,
          restarts

vars == <<fresh, voters, choice, leads, up, calm, crashes, restarts>>

-----------------------------------------------------------------------------

NoChoice == 0

Peers(n) == Node \ {n}

Majority == Cardinality(Node) \div 2 + 1

(* Every peer counts as heard when the process starts; no vote is known. *)
Init ==
    /\ fresh = [n \in Node |-> Peers(n)]
    /\ voters = [n \in Node |-> {}]
    /\ choice = [n \in Node |-> NoChoice]
    /\ leads = {}
    /\ up = Node
    /\ calm = FALSE
    /\ crashes = 0
    /\ restarts = 0

(* A heartbeat n sent is recorded by the nodes it reached, with its time and vote. *)
Pinged(n, vote, reached) ==
    /\ fresh' = [q \in Node |-> IF q \in reached THEN fresh[q] \union {n} ELSE fresh[q]]
    /\ voters' = [q \in Node |-> IF q \notin reached THEN voters[q]
                                 ELSE IF vote = q THEN voters[q] \union {n}
                                 ELSE voters[q] \ {n}]

(* The votes n counts: of the peers it does not suspect, and its own. *)
Votes(n, suspected, vote) ==
    Cardinality(voters[n] \ suspected) + (IF vote = n THEN 1 ELSE 0)

(* Mutant: a node does not think of itself. *)
LowestPeer(n, suspected) ==
    IF Peers(n) \subseteq suspected THEN n ELSE Min(Peers(n) \ suspected)

(* The lowest node that n does not suspect; it never suspects itself. *)
Choice(n, suspected) == Min(Node \ suspected)

(* One turn of the loop: suspect, choose, ping the peers, count the votes.  *)
(* A ping to a node that is down is lost, before the calm any other may be. *)
(* What n hears while it is in the round counts as heard before the round,  *)
(* or after it when n suspected the sender, whose vote is not counted.      *)
Round(n) ==
    LET suspected == Peers(n) \ fresh[n]
        vote == Choice(n, suspected)
    IN  /\ n \in up
        /\ \E reached \in SUBSET (up \ {n}) :
             /\ calm => reached = up \ {n}
             /\ Pinged(n, vote, reached)
        /\ choice' = [choice EXCEPT ![n] = vote]
        /\ leads' = IF vote = n /\ Votes(n, suspected, vote) >= Majority
                    THEN leads \union {n} ELSE leads \ {n}
        /\ UNCHANGED <<up, calm, crashes, restarts>>

(* Three seconds without a ping of p. *)
TimeOut(n, p) ==
    /\ n \in up
    /\ p \in fresh[n]
    /\ calm => p \notin up
    /\ fresh' = [fresh EXCEPT ![n] = @ \ {p}]
    /\ UNCHANGED <<voters, choice, leads, up, calm, crashes, restarts>>

(* The process is gone with all it knew. *)
Crash(n) ==
    /\ ~ calm
    /\ n \in up
    /\ crashes < MaxCrashes
    /\ crashes' = crashes + 1
    /\ up' = up \ {n}
    /\ leads' = leads \ {n}
    /\ fresh' = [fresh EXCEPT ![n] = Peers(n)]
    /\ voters' = [voters EXCEPT ![n] = {}]
    /\ choice' = [choice EXCEPT ![n] = NoChoice]
    /\ UNCHANGED <<calm, restarts>>

(* The process starts over. *)
Restart(n) ==
    /\ ~ calm
    /\ n \notin up
    /\ restarts < MaxRestarts
    /\ restarts' = restarts + 1
    /\ up' = up \union {n}
    /\ UNCHANGED <<fresh, voters, choice, leads, calm, crashes>>

CalmDown ==
    /\ ~ calm
    /\ calm' = TRUE
    /\ UNCHANGED <<fresh, voters, choice, leads, up, crashes, restarts>>

Next ==
    \/ \E n \in Node : Round(n) \/ Crash(n) \/ Restart(n)
    \/ \E n, p \in Node : TimeOut(n, p)
    \/ CalmDown

Spec == Init /\ [][Next]_vars

(* The loop of a running node goes round, and time passes. *)
FairSpec ==
    /\ Spec
    /\ \A n \in Node : WF_vars(Round(n))
    /\ \A n, p \in Node : WF_vars(p \notin up /\ TimeOut(n, p))

-----------------------------------------------------------------------------
(* ELD1 and ELD2, with the majority gate: once the system has calmed down,  *)
(* in the end every running node votes for the lowest running node, which   *)
(* leads, and nobody else does, if a majority is running; otherwise nobody  *)
(* leads.  Whatever was suspected, counted or lost before is forgotten.     *)
Settled ==
    LET lowest == Min(up)
    IN  /\ \A n \in up : choice[n] = lowest
        /\ leads = IF Cardinality(up) >= Majority THEN {lowest} ELSE {}

LeaderEmerges == <>[](calm /\ up # {} => Settled)

=============================================================================
