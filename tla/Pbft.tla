-------------------------------- MODULE Pbft --------------------------------
(***************************************************************************)
(* Module 11, src/11-byzantine-consensus/src/main.rs: single-shot PBFT.    *)
(*                                                                         *)
(* A correct node is an accept loop that handles one signed message per    *)
(* connection, a timer thread and a terminal, over one mutex.  What it     *)
(* sends is never lost for good here: votes, complaints and newviews hold  *)
(* everything that correct nodes have ever signed, and a step may use any  *)
(* of it, late, twice or never.  A Byzantine node signs anything.          *)
(*                                                                         *)
(* Votes.  The maps prepares, commits and viewchanges hold at most one     *)
(* entry per sender and are read only to compare a count with a threshold, *)
(* by the handler that has just added to them.  A handler that stays below *)
(* the threshold changes nothing that anybody can see; the steps here are  *)
(* those that reach it, with a tally of any votes that have been signed.   *)
(* The code's guard on the view and on highest_vc_sent, which every entry  *)
(* of the tally has passed, has stayed true since the first entry.         *)
(*                                                                         *)
(* Certificates.  A Cert carries the signatures of a quorum of PREPAREs.   *)
(* One that verifies can be made by whoever has the PREPAREs, and one that *)
(* does not is passed over by select_value like no certificate at all, so  *)
(* a certificate is its view and value, and it verifies if they are signed.*)
(*                                                                         *)
(* The disk.  Every assignment to a durable field is followed by persist() *)
(* under the same lock and before anything is sent; so a crash leaves what *)
(* some step left, except between the two persists of a NEWVIEW.           *)
(***************************************************************************)
EXTENDS Naturals, Sequences, FiniteSets, FiniteSetsExt, SequencesExt

CONSTANTS
    nodes,          \* the nodes, sorted by port
    Byzantine,      \* those that do not run this code
    Value, None,    \* what may be proposed; Option::None
    Input,          \* bounds, not in the code: what is typed in each view,
    MaxView,        \*   the last view,
    MaxCrashes,     \*   crashes in a behaviour,
    MaxHalfEntries  \*   those in the middle of a NEWVIEW

Node    == ToSet(nodes)
Correct == Node \ Byzantine
n == Len(nodes)
f == (n - 1) \div 3

View    == 0 .. MaxView
Cert    == [view : View, value : Value]
Vote    == [kind : {"PREPREPARE", "PREPARE", "COMMIT"}, from : Correct, view : View, m : Value]
Complaint == [from : Node, newview : View, prepared : Cert \cup {None}]
NewView == [view : View, proposal : Value \cup {None}]
State   == [view : View, highest_vc_sent : View, sentcommit : BOOLEAN, preprepared : BOOLEAN,
            my_prepare : Cert \cup {None}, prepared : Cert \cup {None},
            decided : Value \cup {None}, expected : Value \cup {None}]

ASSUME NodeAssumption  == nodes \in Seq(Node) /\ nodes # <<>> /\ Cardinality(Node) = n
ASSUME FaultAssumption == /\ Byzantine \subseteq Node /\ Cardinality(Byzantine) <= f
                          /\ n = 3 * f + 1
ASSUME ValueAssumption == None \notin Value \cup Cert
ASSUME BoundAssumption == /\ {MaxView, MaxCrashes, MaxHalfEntries} \subseteq Nat
                          /\ Input \in [View -> SUBSET Value]

VARIABLES
    state,      \* state[p]: struct State of a correct node, but for the tallies
    votes,      \* PREPREPARE, PREPARE and COMMIT messages of correct nodes
    complaints, \* their VIEWCHANGE messages
    newviews,   \* their NEWVIEW messages, vcs left out
    crashes, half_entries  \* how many there were

vars == <<state, votes, complaints, newviews, crashes, half_entries>>

(************************* signatures and evidence *************************)

leader_of(v) == nodes[(v % n) + 1]

\* verify_envelope of a vote.
Said(kind, q, v, m) ==
    q \in Byzantine \/ [kind |-> kind, from |-> q, view |-> v, m |-> m] \in votes

\* The nodes whose vote of this kind for m in v a tally may hold.
Saying(kind, v, m) == {q \in Node : Said(kind, q, v, m)}

\* Mutant: the threshold that makes a node join.
OneCorrect(Q) == Cardinality(Q) > f

Quorum(Q) == 2 * Cardinality(Q) > n + f

verify_cert(c) == Quorum(Saying("PREPARE", c.view, c.value))

Certified == {c \in Cert : verify_cert(c)}

\* VIEWCHANGE messages for v that verify; a Byzantine node's claim counts if
\* its certificate does.
Records(v) ==
    {c \in complaints : c.newview = v}
        \cup [from : Byzantine, newview : {v},
              prepared : {None} \cup Certified]

Senders(vcs) == {c.from : c \in vcs}

\* The values that select_value may return: that of a certificate of the
\* highest view, whichever of them it comes to first.
select_value(vcs) ==
    LET certs == {c.prepared : c \in vcs} \ {None}
    IN  IF certs = {} THEN {None}
        ELSE {c.value : c \in {d \in certs : \A e \in certs : e.view <= d.view}}

\* What 2f+1 complaints for v, one of a sender, can force.
Forced(v) ==
    UNION {select_value(vcs) : vcs \in
             {s \in SUBSET Records(v) : /\ Cardinality(Senders(s)) = Cardinality(s)
                                        /\ Cardinality(s) > 2 * f}}

(********************************* actions *********************************)

\* Mutants: the vote is not persisted; a vote of whatever view is taken for one
\* in the present view; the complaint is not persisted.
RecoverNoVote(s) ==
    [s EXCEPT !.sentcommit = FALSE, !.expected = None,
              !.my_prepare = None, !.preprepared = FALSE]
RecoverAnyVote(s) ==
    [s EXCEPT !.sentcommit = FALSE, !.expected = None, !.preprepared = s.my_prepare # None]
RecoverNoComplaint(s) ==
    [s EXCEPT !.sentcommit = FALSE, !.expected = None, !.highest_vc_sent = 0,
              !.preprepared = s.my_prepare # None /\ s.my_prepare.view = s.view]

\* load() of what a node in state s has persisted, if anything.
Recover(s) ==
    [s EXCEPT !.sentcommit = FALSE, !.expected = None,
              !.preprepared = s.my_prepare # None /\ s.my_prepare.view = s.view]

Fresh == [view |-> 0, highest_vc_sent |-> 0, sentcommit |-> FALSE, preprepared |-> FALSE,
          my_prepare |-> None, prepared |-> None, decided |-> None, expected |-> None]

Init ==
    /\ state = [p \in Correct |-> Fresh]
    /\ votes = {} /\ complaints = {} /\ newviews = {}
    /\ crashes = 0 /\ half_entries = 0

Cast(kind, p, v, m) ==
    votes' = votes \cup {[kind |-> kind, from |-> p, view |-> v, m |-> m]}

\* propose m, typed at the leader's terminal, once or again.
Propose(p, m) ==
    /\ leader_of(state[p].view) = p /\ m \in Input[state[p].view]
    /\ Cast("PREPREPARE", p, state[p].view, m)
    /\ UNCHANGED <<state, complaints, newviews, crashes, half_entries>>

\* Mutant: a node that has complained past its view goes on voting in it.
NeverAbandons(s) == TRUE

\* The abandon rule.
Participates(s) == s.highest_vc_sent <= s.view

OnPrePrepare(p, m) ==
    LET s == state[p]
    IN  /\ Said("PREPREPARE", leader_of(s.view), s.view, m)
        /\ Participates(s) /\ ~s.preprepared /\ s.expected \in {None, m}
        /\ state' = [state EXCEPT ![p].preprepared = TRUE,
                                  ![p].my_prepare = [view |-> s.view, value |-> m]]
        /\ Cast("PREPARE", p, s.view, m)
        /\ UNCHANGED <<complaints, newviews, crashes, half_entries>>

\* The PREPARE that makes a quorum.
OnPrepare(p, m) ==
    LET s == state[p]
    IN  /\ Participates(s) /\ ~s.sentcommit
        /\ Quorum(Saying("PREPARE", s.view, m))
        /\ state' = [state EXCEPT ![p].sentcommit = TRUE,
                                  ![p].prepared = [view |-> s.view, value |-> m]]
        /\ Cast("COMMIT", p, s.view, m)
        /\ UNCHANGED <<complaints, newviews, crashes, half_entries>>

\* The COMMIT that makes a quorum.
OnCommit(p, m) ==
    LET s == state[p]
    IN  /\ Participates(s) /\ s.decided = None
        /\ Quorum(Saying("COMMIT", s.view, m))
        /\ state' = [state EXCEPT ![p].decided = m]
        /\ UNCHANGED <<votes, complaints, newviews, crashes, half_entries>>

\* p complains for view nv, with the certificate it has.
Complain(p, nv) ==
    /\ nv <= MaxView
    /\ state' = [state EXCEPT ![p].highest_vc_sent = nv]
    /\ complaints' = complaints \cup
           {[from |-> p, newview |-> nv, prepared |-> state[p].prepared]}
    /\ UNCHANGED <<votes, newviews, crashes, half_entries>>

\* The timer: four seconds in a view without a decision.
Timeout(p) ==
    /\ state[p].decided = None
    /\ Complain(p, Max({state[p].view, state[p].highest_vc_sent}) + 1)

\* The VIEWCHANGE that makes f+1: one of them is a correct node's.
OnViewChange(p, nv) ==
    /\ nv > state[p].highest_vc_sent /\ nv > state[p].view
    /\ Cardinality(Senders(Records(nv))) > f
    /\ Complain(p, nv)

\* The VIEWCHANGE that makes 2f+1, or a later one, at the leader of the view.
LeadNewView(p, nv) ==
    /\ nv > state[p].view /\ leader_of(nv) = p
    /\ \E proposal \in Forced(nv) :
          newviews' = newviews \cup {[view |-> nv, proposal |-> proposal]}
    /\ UNCHANGED <<state, votes, complaints, crashes, half_entries>>

\* The proposals that p accepts in a NEWVIEW: the complaints in it are checked
\* here again.
Acceptable(p, v) ==
    IF v <= state[p].view THEN {}
    ELSE IF leader_of(v) \in Byzantine THEN Forced(v)
    ELSE {m.proposal : m \in {msg \in newviews : msg.view = v /\ msg.proposal \in Forced(v)}}

Entered(s, v, proposal) ==
    [s EXCEPT !.view = v, !.preprepared = FALSE, !.sentcommit = FALSE, !.expected = proposal]

\* The proposal rides in the NEWVIEW, and is voted for at once.
OnNewView(p, v) ==
    \E proposal \in Acceptable(p, v) :
    LET s == Entered(state[p], v, proposal)
    IN  /\ IF proposal = None
           THEN /\ state' = [state EXCEPT ![p] = s]
                /\ UNCHANGED votes
           ELSE /\ state' = [state EXCEPT ![p] =
                       [s EXCEPT !.preprepared = TRUE,
                                 !.my_prepare = [view |-> v, value |-> proposal]]]
                /\ Cast("PREPARE", p, v, proposal)
        /\ UNCHANGED <<complaints, newviews, crashes, half_entries>>

(********************************* crashes *********************************)

Crash(p) ==
    /\ crashes < MaxCrashes /\ crashes' = crashes + 1
    /\ state' = [state EXCEPT ![p] = Recover(@)]
    /\ UNCHANGED <<votes, complaints, newviews, half_entries>>

\* A crash when the view has been persisted and the vote in it has not.
HalfEntry(p, v) ==
    /\ crashes < MaxCrashes /\ crashes' = crashes + 1
    /\ half_entries < MaxHalfEntries /\ half_entries' = half_entries + 1
    /\ \E proposal \in Acceptable(p, v) :
          state' = [state EXCEPT ![p] = Recover(Entered(@, v, proposal))]
    /\ UNCHANGED <<votes, complaints, newviews>>

Next ==
    \E p \in Correct :
        \/ \E m \in Value : Propose(p, m) \/ OnPrePrepare(p, m) \/ OnPrepare(p, m) \/ OnCommit(p, m)
        \/ Timeout(p) \/ Crash(p)
        \/ \E v \in View :
              OnViewChange(p, v) \/ LeadNewView(p, v) \/ OnNewView(p, v) \/ HalfEntry(p, v)

Spec == Init /\ [][Next]_vars

(******************************** properties *******************************)

\* A node has voted in its view if and only if preprepared says so, has voted
\* whenever a NEWVIEW binds it (11 README 6.4), and has the certificate of a
\* COMMIT it has sent in its view.
FlagsAgree(s) ==
    /\ s.preprepared <=> s.my_prepare # None /\ s.my_prepare.view = s.view
    /\ s.expected # None => s.preprepared
    /\ s.sentcommit => s.prepared # None /\ s.prepared.view = s.view

\* The types, and how the flags that a crash forgets belong to what it keeps.
TypeOK ==
    /\ state \in [Correct -> State] /\ \A p \in Correct : FlagsAgree(state[p])
    /\ votes \subseteq Vote /\ complaints \subseteq Complaint /\ newviews \subseteq NewView
    /\ crashes \in 0 .. MaxCrashes /\ half_entries \in 0 .. MaxHalfEntries

\* WBC4: no two correct nodes decide differently, in whatever views.
Agreement ==
    \A p, q \in Correct : \A m, m2 \in Value :
        state[p].decided = m /\ state[q].decided = m2 => m = m2

\* 11 README 7.1: of one view there are never certificates for two values, a
\* node that crashed and voted again in the view included.
OneCertificate ==
    LET certs == Certified
    IN  \A c, d \in certs : c.view = d.view => c.value = d.value

\* 11 README 7.2, lock-in: once a quorum of COMMITs in v makes m decidable, no
\* certificate of a later view is for another value.
LockIn ==
    \A c \in Certified : \A v \in 0 .. c.view, m \in Value :
        Quorum(Saying("COMMIT", v, m)) => c.value = m

\* 11 README 6.6: neither a step nor a crash turns back the view, the complaint
\* counter or the view of the certificate, nor changes a decision (WBC3).
NothingTurnsBack ==
    [][\A p \in Correct :
          LET s == state[p]
              t == state'[p]
          IN  /\ s.view <= t.view /\ s.highest_vc_sent <= t.highest_vc_sent
              /\ s.prepared # None => t.prepared # None /\ s.prepared.view <= t.prepared.view
              /\ s.decided # None => t.decided = s.decided]_vars
=============================================================================
