--------------------------- MODULE TwoPhaseProofs ---------------------------
(***************************************************************************)
(* Proofs about TwoPhaseCommit, for any number of participants, any        *)
(* transfers, and any number of commands and deaths.                       *)
(***************************************************************************)
EXTENDS TwoPhaseCommit, Sums, SequenceTheorems

(********************************* typing **********************************)

\* A transfer in progress has a number that fate knows.
TypeInv == TypeOK /\ (coord.pc # "idle" => coord.g \in Tx)

LEMMA IdleType ==
    ASSUME NEW tx \in Nat
    PROVE  Idle(tx) \in Coordinator /\ Idle(tx).pc = "idle" /\ Idle(tx).tx = tx
                /\ Idle(tx).waiting = FALSE /\ Idle(tx).at = 1
<1>1. 1 \in Participant /\ 0 \in Int /\ 0 \in Nat
  BY ParticipantAssumption DEF Participant
<1>2. [p \in Participant |-> 0] \in Delta
  BY DEF Delta
<1> QED
  BY <1>1, <1>2 DEF Idle, Coordinator

\* What After makes of the coordinator c, field by field.
CallAfter(c, d) ==
    /\ d \in Coordinator /\ d.tx = c.tx /\ d.waiting = FALSE
    /\ c.pc # "idle" /\ d.pc = "idle" => d.at = 1
    /\ d.pc # "idle" => d.deltas = c.deltas
    /\ \/ d.pc = "idle"
       \/ /\ d.g = c.g /\ c.at < N /\ d.at = c.at + 1
          /\ d.pc = c.pc /\ d.all_yes = c.all_yes
       \/ /\ d.g = c.g /\ c.at = N /\ c.pc = "PREPARE"
          /\ d.pc = IF c.all_yes THEN "COMMIT" ELSE "ABORT"

LEMMA AfterFields ==
    ASSUME NEW c \in Coordinator
    PROVE  CallAfter(c, After(c))
<1>0. PICK d : d = After(c)
  OBVIOUS
<1>1. N \in Nat \ {0} /\ c.at \in 1 .. N /\ c.tx \in Nat /\ c.hook \in BOOLEAN
  BY ParticipantAssumption DEF Coordinator, Participant
<1>2. ASSUME c.at < N PROVE CallAfter(c, d)
  <2> DEFINE q == c.at + 1
  <2>1. q \in Participant
    BY <1>1, <1>2 DEF Participant
  <2>2. d = [c EXCEPT !.waiting = FALSE, !.at = q]
    BY <1>0, <1>1, <1>2 DEF After
  <2>3. q = c.at + 1
    OBVIOUS
  <2> HIDE DEF q
  <2>4. d \in Coordinator /\ d.tx = c.tx /\ d.waiting = FALSE /\ d.g = c.g /\ d.at = q
           /\ d.pc = c.pc /\ d.all_yes = c.all_yes /\ d.deltas = c.deltas
    BY <2>1, <2>2 DEF Coordinator
  <2> QED
    BY <1>2, <2>3, <2>4 DEF CallAfter
<1>3. ASSUME c.at = N /\ c.pc = "PREPARE" /\ ~c.hook PROVE CallAfter(c, d)
  <2> DEFINE v == IF c.all_yes THEN "COMMIT" ELSE "ABORT"
  <2>1. d = [c EXCEPT !.waiting = FALSE, !.at = 1, !.pc = v]
    BY <1>0, <1>1, <1>3 DEF After
  <2>2. v \in {"COMMIT", "ABORT"} /\ 1 \in Participant
    BY <1>1 DEF Participant
  <2>3. v = IF c.all_yes THEN "COMMIT" ELSE "ABORT"
    OBVIOUS
  <2> HIDE DEF v
  <2>4. d \in Coordinator /\ d.tx = c.tx /\ d.waiting = FALSE /\ d.g = c.g /\ d.pc = v
           /\ d.deltas = c.deltas
    BY <2>1, <2>2 DEF Coordinator
  <2> QED
    BY <1>3, <2>3, <2>4 DEF CallAfter
<1>4. ASSUME c.at = N /\ (c.pc # "PREPARE" \/ c.hook) PROVE CallAfter(c, d)
  <2>1. d = Idle(c.tx)
    BY <1>0, <1>1, <1>4 DEF After
  <2> QED
    BY <1>1, <2>1, IdleType DEF CallAfter
<1>5. c.at < N \/ c.at = N
  BY <1>1
<1>6. \/ c.pc = "PREPARE" /\ ~c.hook
      \/ c.pc # "PREPARE" \/ c.hook
  BY <1>1
<1>7. CallAfter(c, d)
  BY <1>2, <1>3, <1>4, <1>5, <1>6, Zenon
<1> QED
  BY <1>0, <1>7

\* d is what the end of a call makes of the coordinator c, field by field.
CallOver(c, d, yes) ==
    /\ d \in Coordinator /\ d.tx = c.tx /\ d.waiting = FALSE
    /\ c.pc # "idle" /\ d.pc = "idle" => d.at = 1
    /\ d.pc # "idle" => d.deltas = c.deltas
    /\ \/ d.pc = "idle"
       \/ /\ d.g = c.g /\ c.at < N /\ d.at = c.at + 1 /\ d.pc = c.pc
          /\ c.pc = "PREPARE" /\ d.all_yes => c.all_yes /\ yes
       \/ /\ d.g = c.g /\ c.at = N /\ c.pc = "PREPARE"
          /\ d.pc = IF c.all_yes /\ yes THEN "COMMIT" ELSE "ABORT"

LEMMA AnsweredFields ==
    ASSUME NEW c \in Coordinator, NEW yes \in BOOLEAN
    PROVE  CallOver(c, Answered(c, yes), yes)
<1>0. PICK d : d = Answered(c, yes)
  OBVIOUS
<1> DEFINE b == IF c.pc = "PREPARE" THEN c.all_yes /\ yes ELSE c.all_yes
           e == [c EXCEPT !.all_yes = b]
<1>1. b \in BOOLEAN
  BY DEF Coordinator
<1>2. d = After(e)
  BY <1>0 DEF Answered
<1>3. c.pc = "PREPARE" => b = (c.all_yes /\ yes)
  OBVIOUS
<1> HIDE DEF b
<1>4. e \in Coordinator /\ e.tx = c.tx /\ e.at = c.at /\ e.pc = c.pc /\ e.g = c.g /\ e.all_yes = b
         /\ e.deltas = c.deltas
  BY <1>1 DEF Coordinator
<1> HIDE DEF e
<1>5. CallAfter(e, d)
  BY <1>2, <1>4, AfterFields
<1>6. c.pc = "PREPARE" => (IF e.all_yes THEN "COMMIT" ELSE "ABORT")
                            = (IF c.all_yes /\ yes THEN "COMMIT" ELSE "ABORT")
  BY <1>3, <1>4
<1>7. c.pc = "PREPARE" /\ e.all_yes => c.all_yes /\ yes
  BY <1>3, <1>4
<1>8. CallOver(c, d, yes)
  BY <1>4, <1>5, <1>6, <1>7, Zenon DEF CallOver, CallAfter
<1> QED
  BY <1>0, <1>8

LEMMA AnsweredType ==
    ASSUME TypeInv, coord.pc # "idle", NEW yes \in BOOLEAN, coord' = Answered(coord, yes)
    PROVE  coord' \in Coordinator /\ (coord'.pc # "idle" => coord'.g \in Tx)
<1>1. CallOver(coord, coord', yes)
  BY AnsweredFields DEF TypeInv, TypeOK
<1>2. coord' \in Coordinator /\ (coord'.pc # "idle" => coord'.g = coord.g)
  BY <1>1 DEF CallOver
<1> QED
  BY <1>2 DEF TypeInv

LEMMA OnCallType ==
    ASSUME NEW a \in Account, NEW m \in Call
    PROVE  /\ OnCall(a, m) \in Account
           /\ m.kind # "PREPARE" => OnCall(a, m) = OnVerdict(a, m)
<1>1. Nobody \in Promise
  BY DEF Nobody, Promise
<1>2. m.tx \in Nat /\ m.delta \in Int /\ m.g \in Nat
  BY DEF Call, Tx
<1>3. OnPrepare(a, m) \in Account
  <2> DEFINE pr == [tx |-> m.tx, delta |-> m.delta, g |-> m.g]
  <2>1. pr \in Promise
    BY <1>2 DEF Promise
  <2> HIDE DEF pr
  <2>2. [a EXCEPT !.prepared = pr] \in Account
    BY <2>1 DEF Account
  <2> QED
    BY <2>2 DEF OnPrepare, pr
<1>4. OnVerdict(a, m) \in Account
  <2> DEFINE b == a.balance + (IF m.kind = "COMMIT" THEN a.prepared.delta ELSE 0)
  <2>1. b \in Int
    BY DEF Account, Promise
  <2> HIDE DEF b
  <2>2. [balance |-> b, prepared |-> Nobody] \in Account
    BY <1>1, <2>1 DEF Account
  <2> QED
    BY <2>2 DEF OnVerdict, b
<1> QED
  BY <1>3, <1>4 DEF OnCall

LEMMA HandledType ==
    ASSUME TypeInv, NEW p \in Participant, queue[p] # <<>>, Handled(p)
    PROVE  /\ account' \in [Participant -> Account] /\ disk' \in [Participant -> Account]
           /\ fate' \in [Tx -> [Participant -> {"none", "YES", "NO", "COMMIT", "ABORT"}]]
<1> DEFINE m == Head(queue[p])
           a == OnCall(account[p], m)
<1>1. m \in Call
  BY DEF TypeInv, TypeOK
<1>2. a \in Account
  BY <1>1, OnCallType DEF TypeInv, TypeOK
<1>3. /\ account' = [account EXCEPT ![p] = a] /\ disk' = [disk EXCEPT ![p] = a]
      /\ fate' = FateAfter(p, account[p], m)
  BY DEF Handled, Persist
<1> HIDE DEF a, m
<1>4. account' \in [Participant -> Account] /\ disk' \in [Participant -> Account]
  BY <1>2, <1>3 DEF TypeInv, TypeOK
<1>5. fate' \in [Tx -> [Participant -> {"none", "YES", "NO", "COMMIT", "ABORT"}]]
  <2>1. CASE m.kind = "PREPARE"
    BY <1>1, <1>3, <2>1 DEF FateAfter, TypeInv, TypeOK, Call
  <2>2. CASE m.kind # "PREPARE"
    <3>1. m.kind \in {"COMMIT", "ABORT"}
      BY <1>1, <2>2 DEF Call
    <3> QED
      BY <1>3, <2>2, <3>1 DEF FateAfter, TypeInv, TypeOK
  <2> QED
    BY <2>1, <2>2
<1> QED
  BY <1>4, <1>5

LEMMA QueueType ==
    ASSUME TypeInv, NEW p \in Participant, NEW q \in Seq(Call), queue' = [queue EXCEPT ![p] = q]
    PROVE  queue' \in [Participant -> Seq(Call)]
BY DEF TypeInv, TypeOK

LEMMA InitType == Init => TypeInv
<1> SUFFICES ASSUME Init PROVE TypeInv
  OBVIOUS
<1>1. Fresh \in Account
  BY DEF Fresh, Account, Nobody, Promise
<1>2. Idle(0) \in Coordinator /\ Idle(0).pc = "idle"
  BY IdleType
<1>3. 0 \in 0 .. MaxTransfers
  BY BoundAssumption
<1> QED
  BY <1>1, <1>2, <1>3 DEF Init, TypeInv, TypeOK

LEMMA SubmitType ==
    ASSUME TypeInv, NEW d \in Delta, NEW hook \in BOOLEAN, Submit(d, hook)
    PROVE  TypeInv'
<1> DEFINE t == coord.tx + 1
           g == submitted + 1
           c == [coord EXCEPT !.pc = "PREPARE", !.tx = t, !.g = g, !.deltas = d, !.hook = hook]
<1>1. coord \in Coordinator /\ submitted \in 0 .. MaxTransfers /\ MaxTransfers \in Nat
  BY BoundAssumption DEF TypeInv, TypeOK
<1>2. t \in Nat /\ g \in Tx /\ g \in Nat /\ submitted' = g /\ g \in 0 .. MaxTransfers
  BY <1>1 DEF Submit, Tx, Coordinator
<1>3. coord' = c /\ UNCHANGED <<account, disk, up, queue, deaths, coordinators, fate>>
  BY DEF Submit
<1> HIDE DEF t, g
<1>4. c \in Coordinator /\ c.g = g
  BY <1>1, <1>2 DEF Coordinator
<1> QED
  BY <1>2, <1>3, <1>4 DEF TypeInv, TypeOK

LEMMA SendType ==
    ASSUME TypeInv, Send
    PROVE  /\ TypeInv'
           /\ coord' \in Coordinator /\ coord'.waiting
           /\ coord'.pc = coord.pc /\ coord'.tx = coord.tx /\ coord'.g = coord.g
           /\ coord'.at = coord.at /\ coord'.deltas = coord.deltas
           /\ coord'.all_yes = coord.all_yes
<1> DEFINE m == [kind |-> coord.pc, tx |-> coord.tx, g |-> coord.g,
                 delta |-> coord.deltas[coord.at]]
           q == Append(queue[coord.at], m)
<1>1. coord \in Coordinator /\ coord.g \in Tx /\ coord.at \in Participant
  BY DEF TypeInv, TypeOK, Send, Coordinator
<1>2. m \in Call
  BY <1>1 DEF Send, Call, Coordinator, Delta
<1>3. q \in Seq(Call)
  BY <1>1, <1>2 DEF TypeInv, TypeOK
<1>4. /\ coord' = [coord EXCEPT !.waiting = TRUE] /\ queue' = [queue EXCEPT ![coord.at] = q]
      /\ UNCHANGED <<account, disk, up, submitted, deaths, coordinators, fate>>
  BY DEF Send
<1> HIDE DEF m, q
<1>5. queue' \in [Participant -> Seq(Call)]
  BY <1>1, <1>3, <1>4, QueueType
<1>6. /\ coord' \in Coordinator /\ coord'.waiting
      /\ coord'.pc = coord.pc /\ coord'.tx = coord.tx /\ coord'.g = coord.g
      /\ coord'.at = coord.at /\ coord'.deltas = coord.deltas
      /\ coord'.all_yes = coord.all_yes
  BY <1>1, <1>4 DEF Coordinator
<1> QED
  BY <1>1, <1>4, <1>5, <1>6 DEF TypeInv, TypeOK

\* A coordinator that waits has a transfer in progress, so that a reply to it
\* leaves it well typed.
WaitInv == TypeInv /\ (coord.waiting => coord.pc # "idle")

LEMMA ReplyType ==
    ASSUME WaitInv, NEW yes \in BOOLEAN,
           coord' = coord \/ (coord.waiting /\ coord' = Answered(coord, yes))
    PROVE  /\ coord' \in Coordinator /\ (coord'.pc # "idle" => coord'.g \in Tx)
           /\ coord'.waiting => coord'.pc # "idle"
<1>1. CASE coord' = coord
  BY <1>1 DEF WaitInv, TypeInv, TypeOK
<1>2. CASE coord.waiting /\ coord' = Answered(coord, yes)
  BY <1>2, AnsweredType, AnsweredFields DEF CallOver, WaitInv, TypeInv, TypeOK
<1> QED
  BY <1>1, <1>2

LEMMA ServeType ==
    ASSUME WaitInv, NEW p \in Participant, Serve(p)
    PROVE  WaitInv'
<1>1. queue[p] # <<>> /\ Handled(p) /\ queue[p] \in Seq(Call) /\ TypeInv
  BY DEF Serve, WaitInv, TypeInv, TypeOK
<1>2. Tail(queue[p]) \in Seq(Call)
  BY <1>1
<1>3. queue' \in [Participant -> Seq(Call)]
  BY <1>1, <1>2, QueueType DEF Serve
<1>4. /\ account' \in [Participant -> Account] /\ disk' \in [Participant -> Account]
      /\ fate' \in [Tx -> [Participant -> {"none", "YES", "NO", "COMMIT", "ABORT"}]]
  BY <1>1, HandledType
<1>5. CanPromise(account[p], Head(queue[p])) \in BOOLEAN
  BY DEF CanPromise
<1>6. /\ coord' \in Coordinator /\ (coord'.pc # "idle" => coord'.g \in Tx)
      /\ coord'.waiting => coord'.pc # "idle"
  BY <1>5, ReplyType DEF Serve, Live
<1> QED
  BY <1>1, <1>3, <1>4, <1>6 DEF Serve, WaitInv, TypeInv, TypeOK

LEMMA GoneType ==
    ASSUME WaitInv, NEW p \in Participant, Gone(p)
    PROVE  /\ queue' \in [Participant -> Seq(Call)] /\ up' \in [Participant -> BOOLEAN]
           /\ deaths' \in Nat
           /\ coord' \in Coordinator /\ (coord'.pc # "idle" => coord'.g \in Tx)
           /\ coord'.waiting => coord'.pc # "idle"
<1>1. <<>> \in Seq(Call) /\ TypeInv
  BY DEF WaitInv
<1>2. queue' \in [Participant -> Seq(Call)]
  BY <1>1, QueueType DEF Gone
<1>3. /\ coord' \in Coordinator /\ (coord'.pc # "idle" => coord'.g \in Tx)
      /\ coord'.waiting => coord'.pc # "idle"
  BY ReplyType DEF Gone
<1>4. up' \in [Participant -> BOOLEAN] /\ deaths' \in Nat
  BY <1>1 DEF Gone, TypeInv, TypeOK
<1> QED
  BY <1>2, <1>3, <1>4

LEMMA NextType == WaitInv /\ [Next]_vars => WaitInv'
<1> SUFFICES ASSUME WaitInv, [Next]_vars PROVE WaitInv'
  OBVIOUS
<1>0. TypeInv /\ coord \in Coordinator
  BY DEF WaitInv, TypeInv, TypeOK
<1>1. ASSUME UNCHANGED vars PROVE WaitInv'
  BY <1>1 DEF vars, WaitInv, TypeInv, TypeOK
<1>2. ASSUME NEW d \in Transfers \cup CrashTransfers, NEW hook \in BOOLEAN, Submit(d, hook)
      PROVE  WaitInv'
  <2>1. TypeInv'
    BY <1>0, <1>2, SubmitType, TransferAssumption
  <2>2. coord'.pc = "PREPARE"
    BY <1>0, <1>2 DEF Submit, Coordinator
  <2> QED
    BY <2>1, <2>2 DEF WaitInv
<1>3. ASSUME Send PROVE WaitInv'
  <2>1. coord.pc # "idle"
    BY <1>3 DEF Send
  <2> QED
    BY <1>0, <1>3, <2>1, SendType DEF WaitInv
<1>4. ASSUME Refused PROVE WaitInv'
  <2>1. /\ coord' \in Coordinator /\ (coord'.pc # "idle" => coord'.g \in Tx)
        /\ coord'.waiting = FALSE
    BY <1>0, <1>4, AnsweredType, AnsweredFields DEF Refused, CallOver
  <2> QED
    BY <1>0, <1>4, <2>1 DEF Refused, WaitInv, TypeInv, TypeOK
<1>5. ASSUME NEW p \in Participant, Serve(p) PROVE WaitInv'
  BY <1>5, ServeType
<1>6. ASSUME NEW p \in Participant, Die(p) PROVE WaitInv'
  BY <1>0, <1>6, GoneType DEF Die, WaitInv, TypeInv, TypeOK
<1>7. ASSUME NEW p \in Participant, DieBeforeReply(p) PROVE WaitInv'
  BY <1>0, <1>7, GoneType, HandledType DEF DieBeforeReply, WaitInv, TypeInv, TypeOK
<1>8. ASSUME NEW p \in Participant, Start(p) PROVE WaitInv'
  BY <1>8 DEF Start, WaitInv, TypeInv, TypeOK
<1>9. ASSUME CoordinatorRestarts PROVE WaitInv'
  <2>1. coord' \in Coordinator /\ coord'.pc = "idle" /\ coord'.waiting = FALSE
    BY <1>9, IdleType DEF CoordinatorRestarts
  <2>2. coordinators' \in Nat
    BY <1>0, <1>9 DEF CoordinatorRestarts, TypeInv, TypeOK
  <2> QED
    BY <1>0, <1>9, <2>1, <2>2 DEF CoordinatorRestarts, WaitInv, TypeInv, TypeOK
<1> QED
  BY <1>1, <1>2, <1>3, <1>4, <1>5, <1>6, <1>7, <1>8, <1>9 DEF Next

LEMMA InitWait == Init => WaitInv
BY InitType, IdleType DEF Init, WaitInv

\* Every variable keeps its type, whoever dies and restarts.
THEOREM TypeCorrect == Spec => []TypeOK
<1>1. WaitInv => TypeOK
  BY DEF WaitInv, TypeInv
<1> QED
  BY InitWait, NextType, <1>1, PTL DEF Spec

(******************************** solvency *********************************)

\* Funds of one account: what is there covers what is promised.
Covers(a) == a.balance >= 0 /\ a.balance + a.prepared.delta >= 0

\* Memory and disk never differ between two turns of the accept loop, so what
\* covers the promises in memory covers them after a death.
SolventInv == WaitInv /\ account = disk /\ \A p \in Participant : Covers(account[p])

LEMMA OnCallCovers ==
    ASSUME NEW a \in Account, NEW m \in Call, Covers(a)
    PROVE  Covers(OnCall(a, m))
<1>0. /\ a.balance \in Int /\ a.prepared.delta \in Int /\ m.delta \in Int
      /\ Nobody.delta = 0
  BY DEF Account, Promise, Call, Nobody
<1>1. Covers(OnPrepare(a, m))
  <2> DEFINE pr == [tx |-> m.tx, delta |-> m.delta, g |-> m.g]
             b == [a EXCEPT !.prepared = pr]
  <2>1. pr.delta = m.delta
    OBVIOUS
  <2> HIDE DEF pr
  <2>2. b.balance = a.balance /\ b.prepared = pr
    BY DEF Account
  <2>3. OnPrepare(a, m) = b \/ OnPrepare(a, m) = a
    BY DEF OnPrepare, pr
  <2>4. CanPromise(a, m) => Covers(b)
    BY <1>0, <2>1, <2>2 DEF Covers, CanPromise
  <2>5. ~CanPromise(a, m) => OnPrepare(a, m) = a
    BY DEF OnPrepare
  <2> QED
    BY <2>3, <2>4, <2>5
<1>2. Covers(OnVerdict(a, m))
  <2> DEFINE b == a.balance + (IF m.kind = "COMMIT" THEN a.prepared.delta ELSE 0)
  <2>1. b \in Int /\ b >= 0
    BY <1>0 DEF Covers
  <2>2. OnVerdict(a, m) = a \/ OnVerdict(a, m) = [balance |-> b, prepared |-> Nobody]
    BY DEF OnVerdict
  <2> HIDE DEF b
  <2> QED
    BY <1>0, <2>1, <2>2 DEF Covers
<1> QED
  BY <1>1, <1>2 DEF OnCall

LEMMA HandledSolvent ==
    ASSUME SolventInv, NEW p \in Participant, queue[p] # <<>>, Handled(p)
    PROVE  account' = disk' /\ \A q \in Participant : Covers(account'[q])
<1> DEFINE m == Head(queue[p])
           a == OnCall(account[p], m)
<1>1. m \in Call /\ account[p] \in Account
  BY DEF SolventInv, WaitInv, TypeInv, TypeOK
<1>2. Covers(a)
  BY <1>1, OnCallCovers DEF SolventInv
<1>3. account' = [account EXCEPT ![p] = a] /\ disk' = [disk EXCEPT ![p] = a]
  BY DEF Handled, Persist
<1> HIDE DEF a
<1> QED
  BY <1>2, <1>3 DEF SolventInv, WaitInv, TypeInv, TypeOK

LEMMA NextSolvent == SolventInv /\ [Next]_vars => SolventInv'
<1> SUFFICES ASSUME SolventInv, [Next]_vars PROVE SolventInv'
  OBVIOUS
<1>1. WaitInv'
  BY NextType DEF SolventInv
<1>2. CASE account' = account /\ disk' = disk
  BY <1>1, <1>2 DEF SolventInv
<1>3. ASSUME NEW p \in Participant, Serve(p) \/ DieBeforeReply(p) PROVE SolventInv'
  BY <1>1, <1>3, HandledSolvent DEF Serve, DieBeforeReply, SolventInv
<1>4. ASSUME NEW p \in Participant, Start(p) PROVE SolventInv'
  <2>1. account' = account /\ disk' = disk
    BY <1>4 DEF Start, SolventInv, WaitInv, TypeInv, TypeOK
  <2> QED
    BY <1>2, <2>1
<1>5. \/ account' = account /\ disk' = disk
      \/ \E p \in Participant : Serve(p) \/ DieBeforeReply(p) \/ Start(p)
  BY DEF Next, vars, Submit, Send, Refused, Die, CoordinatorRestarts
<1> QED
  BY <1>2, <1>3, <1>4, <1>5

LEMMA SolventInit == Init => SolventInv
<1> SUFFICES ASSUME Init PROVE SolventInv
  OBVIOUS
<1>1. Covers(Fresh)
  BY DEF Covers, Fresh, Nobody
<1> QED
  BY <1>1, InitWait DEF Init, SolventInv

\* No account is overdrawn and every promise can be kept, whoever dies and
\* however often the coordinator restarts.
THEOREM SolventAlways == Spec => []Solvent
<1>1. SolventInv => Solvent
  BY DEF SolventInv, Solvent, Covers
<1> QED
  BY <1>1, SolventInit, NextSolvent, PTL DEF Spec

(******************************** agreement ********************************)

\* As long as no coordinator restarts, the code's number of a transfer is its
\* own, ...
Numbered ==
    /\ MaxCoordinators = 0
    /\ coord.tx = submitted
    /\ coord.pc # "idle" => coord.g = submitted
    /\ coord.pc = "idle" => coord.at = 1

\* ... the only request under way is the one the coordinator waits for, ...
Current(c, m) == m.kind = c.pc /\ m.tx = c.tx /\ m.g = c.g
Queued ==
    \A p \in Participant :
        \/ queue[p] = <<>>
        \/ coord.waiting /\ coord.at = p /\ Len(queue[p]) = 1 /\ Current(coord, Head(queue[p]))

\* ... a promise is of the transfer it is numbered after, and not yet settled, ...
Promised ==
    \A p \in Participant :
        LET pr == account[p].prepared
        IN  pr = Nobody \/ (pr.tx = pr.g /\ pr.g \in Tx /\ fate[pr.g][p] = "YES")

\* ... nothing has happened to transfers to come, ...
Untouched ==
    \A g \in Tx : g > submitted => \A p \in Participant : fate[g][p] = "none"

\* ... and the coordinator's progress says what has happened to the current one.
Progress ==
    /\ coord.pc = "PREPARE" =>
          \A q \in Participant :
              /\ fate[coord.g][q] \in {"none", "YES", "NO"}
              /\ q >= coord.at => fate[coord.g][q] = "none"
              /\ q < coord.at /\ coord.all_yes => fate[coord.g][q] = "YES"
    /\ coord.pc = "COMMIT" =>
          \A q \in Participant : fate[coord.g][q] \in {"YES", "COMMIT"}
    /\ coord.pc = "ABORT" =>
          \A q \in Participant : fate[coord.g][q] # "COMMIT"

AgreeInv ==
    /\ WaitInv /\ account = disk
    /\ Numbered /\ Queued /\ Promised /\ Untouched /\ Progress /\ Agreement

\* The end of a call: whatever has happened to the current transfer at the
\* participant called, if it agrees with the reply, progress stays right.
LEMMA CallEnds ==
    ASSUME AgreeInv, coord.pc # "idle", NEW yes \in BOOLEAN,
           coord' = Answered(coord, yes), submitted' = submitted,
           \A g \in Tx, q \in Participant :
               g # coord.g \/ q # coord.at => fate'[g][q] = fate[g][q],
           coord.pc = "PREPARE" => /\ fate'[coord.g][coord.at] \in {"none", "YES", "NO"}
                                   /\ yes => fate'[coord.g][coord.at] = "YES",
           coord.pc = "COMMIT" => fate'[coord.g][coord.at] \in {"YES", "COMMIT"},
           coord.pc = "ABORT" => fate'[coord.g][coord.at] # "COMMIT"
    PROVE  Numbered' /\ Untouched' /\ Progress' /\ Agreement' /\ coord'.waiting = FALSE
<1> DEFINE d == coord'
           g == coord.g
<1>1. /\ coord \in Coordinator /\ g \in Tx /\ N \in Nat /\ coord.at \in 1 .. N
      /\ coord.pc \in {"PREPARE", "COMMIT", "ABORT"}
      /\ submitted \in Nat /\ g = submitted /\ coord.tx = submitted
  BY ParticipantAssumption DEF AgreeInv, WaitInv, TypeInv, TypeOK, Coordinator, Participant, Numbered
<1>2. /\ d \in Coordinator /\ d.tx = coord.tx /\ d.waiting = FALSE
      /\ d.pc = "idle" => d.at = 1
      /\ \/ d.pc = "idle"
         \/ /\ d.g = g /\ coord.at < N /\ d.at = coord.at + 1 /\ d.pc = coord.pc
            /\ coord.pc = "PREPARE" /\ d.all_yes => coord.all_yes /\ yes
         \/ /\ d.g = g /\ coord.at = N /\ coord.pc = "PREPARE"
            /\ d.pc = IF coord.all_yes /\ yes THEN "COMMIT" ELSE "ABORT"
  <2>1. CallOver(coord, d, yes)
    BY <1>1, AnsweredFields
  <2> QED
    BY <1>1, <2>1, Zenon DEF CallOver
<1>3. Numbered'
  BY <1>1, <1>2 DEF AgreeInv, Numbered
<1>4. Untouched'
  BY <1>1 DEF AgreeInv, Untouched, Tx
<1>5. coord.pc = "PREPARE" =>
        \A q \in Participant :
            /\ fate'[g][q] \in {"none", "YES", "NO"}
            /\ q > coord.at => fate'[g][q] = "none"
            /\ q <= coord.at /\ coord.all_yes /\ yes => fate'[g][q] = "YES"
  BY <1>1 DEF AgreeInv, Progress, Participant
<1>6. coord.pc = "COMMIT" => \A q \in Participant : fate'[g][q] \in {"YES", "COMMIT"}
  BY <1>1 DEF AgreeInv, Progress, Participant
<1>7. coord.pc = "ABORT" => \A q \in Participant : fate'[g][q] # "COMMIT"
  BY <1>1 DEF AgreeInv, Progress, Participant
<1>8. Agreement'
  <2> SUFFICES ASSUME NEW h \in Tx, NEW p \in Participant, NEW q \in Participant,
                      fate'[h][p] = "COMMIT", fate'[h][q] = "ABORT"
               PROVE  FALSE
    BY DEF Agreement
  <2>1. CASE h # g
    BY <2>1 DEF AgreeInv, Agreement
  <2>2. CASE h = g
    BY <1>1, <1>5, <1>6, <1>7, <2>2
  <2> QED
    BY <2>1, <2>2
<1>9. Progress'
  <2>1. CASE d.pc = "idle"
    BY <2>1 DEF Progress
  <2>2. CASE /\ d.g = g /\ coord.at < N /\ d.at = coord.at + 1 /\ d.pc = coord.pc
             /\ coord.pc = "PREPARE" /\ d.all_yes => coord.all_yes /\ yes
    <3>1. CASE coord.pc = "PREPARE"
      <4> SUFFICES ASSUME NEW q \in Participant
                   PROVE  /\ fate'[g][q] \in {"none", "YES", "NO"}
                          /\ q >= d.at => fate'[g][q] = "none"
                          /\ q < d.at /\ d.all_yes => fate'[g][q] = "YES"
        BY <2>2, <3>1 DEF Progress
      <4>1. q \in Nat /\ (q >= d.at => q > coord.at) /\ (q < d.at => q <= coord.at)
        BY <1>1, <2>2 DEF Participant
      <4> QED
        BY <1>5, <2>2, <3>1, <4>1
    <3>2. CASE coord.pc # "PREPARE"
      BY <1>1, <1>6, <1>7, <2>2, <3>2 DEF Progress
    <3> QED
      BY <3>1, <3>2
  <2>3. CASE /\ d.g = g /\ coord.at = N /\ coord.pc = "PREPARE"
             /\ d.pc = IF coord.all_yes /\ yes THEN "COMMIT" ELSE "ABORT"
    <3>1. \A q \in Participant : q <= coord.at
      BY <1>1, <2>3 DEF Participant
    <3>2. coord.all_yes /\ yes => \A q \in Participant : fate'[g][q] = "YES"
      BY <1>5, <2>3, <3>1
    <3>3. \A q \in Participant : fate'[g][q] # "COMMIT"
      BY <1>5, <2>3
    <3> QED
      BY <2>3, <3>2, <3>3 DEF Progress
  <2> QED
    BY <1>2, <2>1, <2>2, <2>3
<1> QED
  BY <1>2, <1>3, <1>4, <1>8, <1>9

\* What the current request does at p: the account is p's new one, and only the
\* fate of the current transfer at p changes.
LEMMA HandledAgree ==
    ASSUME AgreeInv, NEW p \in Participant, queue[p] # <<>>, Handled(p)
    PROVE  /\ coord.waiting /\ coord.at = p /\ Len(queue[p]) = 1 /\ coord.pc # "idle"
           /\ account' = disk' /\ Promised'
           /\ \A g \in Tx, q \in Participant :
                 g # coord.g \/ q # p => fate'[g][q] = fate[g][q]
           /\ coord.pc = "PREPARE" =>
                 fate'[coord.g][p] = IF CanPromise(account[p], Head(queue[p])) THEN "YES" ELSE "NO"
           /\ coord.pc = "COMMIT" => fate'[coord.g][p] \in {"YES", "COMMIT"}
           /\ coord.pc = "ABORT" => fate'[coord.g][p] # "COMMIT"
           /\ \/ fate' = fate
              \/ /\ coord.pc = "PREPARE" /\ fate[coord.g][p] = "none"
                 /\ \E v \in {"YES", "NO"} : fate' = [fate EXCEPT ![coord.g][p] = v]
              \/ /\ coord.pc # "PREPARE" /\ fate[coord.g][p] = "YES"
                 /\ fate' = [fate EXCEPT ![coord.g][p] = coord.pc]
<1> DEFINE m == Head(queue[p])
           a == account[p]
           b == OnCall(a, m)
           g == coord.g
           K == {"none", "YES", "NO", "COMMIT", "ABORT"}
<1>1. /\ WaitInv /\ TypeInv /\ coord \in Coordinator
      /\ m \in Call /\ a \in Account /\ fate \in [Tx -> [Participant -> K]]
      /\ account \in [Participant -> Account] /\ account = disk
  BY DEF AgreeInv, WaitInv, TypeInv, TypeOK
<1>2. /\ coord.waiting /\ coord.at = p /\ Len(queue[p]) = 1 /\ coord.pc # "idle"
      /\ m.kind = coord.pc /\ m.tx = coord.tx /\ m.g = g
  BY <1>1 DEF AgreeInv, Queued, Current, WaitInv
<1>3. g \in Tx /\ g \in Nat /\ m.tx = g /\ Tx \subseteq Nat
  BY <1>1, <1>2 DEF TypeInv, AgreeInv, Numbered, Coordinator, Tx
<1>4. account' = [account EXCEPT ![p] = b] /\ disk' = [disk EXCEPT ![p] = b]
  BY DEF Handled, Persist
<1>5. fate' = FateAfter(p, a, m)
  BY DEF Handled
<1>6. a.prepared = Nobody \/ /\ a.prepared.tx = a.prepared.g /\ a.prepared.g \in Tx
                             /\ fate[a.prepared.g][p] = "YES"
  BY DEF AgreeInv, Promised
<1>7. \A q \in Participant : q # p =>
         LET pr == account[q].prepared
         IN  pr = Nobody \/ (pr.tx = pr.g /\ pr.g \in Tx /\ fate[pr.g][q] = "YES")
  BY DEF AgreeInv, Promised
<1>8. coord.pc = "PREPARE" => fate[g][p] = "none"
  BY <1>2 DEF AgreeInv, Progress, Participant
<1>9. coord.pc = "COMMIT" => fate[g][p] \in {"YES", "COMMIT"}
  BY <1>2 DEF AgreeInv, Progress
<1>10. coord.pc = "ABORT" => fate[g][p] # "COMMIT"
  BY <1>2 DEF AgreeInv, Progress
<1>11. b \in Account
  BY <1>1, OnCallType
\* The promise that p has now, if any.
<1> DEFINE Settled(pr, f) == pr = Nobody \/ (pr.tx = pr.g /\ pr.g \in Tx /\ f[pr.g][p] = "YES")
<1>12. ASSUME coord.pc = "PREPARE"
       PROVE  /\ Settled(b.prepared, fate')
              /\ fate' = [fate EXCEPT ![g][p] = IF CanPromise(a, m) THEN "YES" ELSE "NO"]
  <2>1. fate' = [fate EXCEPT ![g][p] = IF CanPromise(a, m) THEN "YES" ELSE "NO"]
    BY <1>2, <1>5, <1>12 DEF FateAfter
  <2>2. b = OnPrepare(a, m)
    BY <1>2, <1>12 DEF OnCall
  <2>3. CASE CanPromise(a, m)
    <3>1. fate'[g][p] = "YES"
      BY <1>1, <1>3, <2>1, <2>3
    <3> DEFINE pr == [tx |-> m.tx, delta |-> m.delta, g |-> m.g]
    <3>2. b = [a EXCEPT !.prepared = pr]
      BY <2>2, <2>3 DEF OnPrepare
    <3>3. pr.tx = g /\ pr.g = g
      BY <1>2, <1>3
    <3> HIDE DEF pr
    <3>4. b.prepared = pr
      BY <1>1, <3>2 DEF Account
    <3> QED
      BY <1>3, <2>1, <3>1, <3>3, <3>4
  <2>4. CASE ~CanPromise(a, m)
    <3>1. b = a
      BY <2>2, <2>4 DEF OnPrepare
    <3>2. a.prepared # Nobody => a.prepared.g # g
      BY <1>6, <1>8, <1>12
    <3>3. a.prepared # Nobody => fate'[a.prepared.g][p] = "YES"
      BY <1>1, <1>6, <2>1, <3>2
    <3> QED
      BY <1>6, <2>1, <3>1, <3>3
  <2> QED
    BY <2>3, <2>4
<1>13. ASSUME coord.pc # "PREPARE"
       PROVE  /\ Settled(b.prepared, fate')
              /\ \/ fate' = fate
                 \/ /\ fate[g][p] = "YES"
                    /\ fate' = [h \in Tx |-> IF h = g THEN [fate[h] EXCEPT ![p] = coord.pc]
                                             ELSE fate[h]]
  <2>1. b = OnVerdict(a, m) /\ m.kind # "PREPARE"
    BY <1>2, <1>13 DEF OnCall
  <2>2. fate' = [h \in Tx |-> IF Holds(a, m) /\ a.prepared.g = h
                              THEN [fate[h] EXCEPT ![p] = coord.pc] ELSE fate[h]]
    BY <1>2, <1>5, <2>1 DEF FateAfter
  <2>3. CASE Holds(a, m)
    <3>1. a.prepared.g = g
      BY <1>3, <1>6, <2>3 DEF Holds
    <3>2. b.prepared = Nobody
      BY <2>1, <2>3 DEF OnVerdict
    <3>3. fate' = [h \in Tx |-> IF h = g THEN [fate[h] EXCEPT ![p] = coord.pc] ELSE fate[h]]
      BY <2>2, <2>3, <3>1
    <3>4. fate[g][p] = "YES"
      BY <1>6, <2>3, <3>1 DEF Holds
    <3> QED
      BY <3>2, <3>3, <3>4
  <2>4. CASE ~Holds(a, m)
    <3>1. b = a
      BY <2>1, <2>4 DEF OnVerdict
    <3>2. fate' = [h \in Tx |-> fate[h]]
      BY <2>2, <2>4
    <3>3. fate' = fate
      BY <1>1, <3>2
    <3> QED
      BY <1>6, <3>1, <3>3
  <2> QED
    BY <2>3, <2>4
<1> HIDE DEF m, a, b, K
<1>14. \A h \in Tx, q \in Participant : h # g \/ q # p => fate'[h][q] = fate[h][q]
  <2>1. CASE coord.pc = "PREPARE"
    BY <1>1, <1>3, <1>12, <2>1
  <2>2. CASE coord.pc # "PREPARE"
    BY <1>1, <1>3, <1>13, <2>2
  <2> QED
    BY <2>1, <2>2
<1>15. Settled(b.prepared, fate')
  BY <1>12, <1>13
<1>16. Promised'
  <2> SUFFICES ASSUME NEW q \in Participant
               PROVE  LET pr == account'[q].prepared
                      IN  pr = Nobody \/ (pr.tx = pr.g /\ pr.g \in Tx /\ fate'[pr.g][q] = "YES")
    BY DEF Promised
  <2>1. CASE q = p
    <3>1. account'[q] = b
      BY <1>1, <1>4, <2>1
    <3> QED
      BY <1>15, <2>1, <3>1
  <2>2. CASE q # p
    <3>1. account'[q] = account[q]
      BY <1>1, <1>4, <2>2
    <3> QED
      BY <1>7, <1>14, <2>2, <3>1
  <2> QED
    BY <2>1, <2>2
<1>17. account' = disk'
  BY <1>1, <1>4
<1>18. coord.pc = "PREPARE" => fate'[g][p] = IF CanPromise(a, m) THEN "YES" ELSE "NO"
  BY <1>1, <1>3, <1>12
<1>19. coord.pc # "PREPARE" => fate'[g][p] \in {fate[g][p], coord.pc}
  BY <1>1, <1>3, <1>13
<1>20. \/ fate' = fate
       \/ /\ coord.pc = "PREPARE" /\ fate[g][p] = "none"
          /\ \E v \in {"YES", "NO"} : fate' = [fate EXCEPT ![g][p] = v]
       \/ /\ coord.pc # "PREPARE" /\ fate[g][p] = "YES"
          /\ fate' = [fate EXCEPT ![g][p] = coord.pc]
  <2>1. CASE coord.pc = "PREPARE"
    BY <1>8, <1>12, <2>1
  <2>2. CASE coord.pc # "PREPARE"
    <3>1. [h \in Tx |-> IF h = g THEN [fate[h] EXCEPT ![p] = coord.pc] ELSE fate[h]]
            = [fate EXCEPT ![g][p] = coord.pc]
      BY <1>1, <1>3
    <3> QED
      BY <1>13, <2>2, <3>1
  <2> QED
    BY <2>1, <2>2
<1> QED
  BY <1>2, <1>9, <1>10, <1>14, <1>16, <1>17, <1>18, <1>19, <1>20 DEF a, m

\* A step that ends the call under way: its request is gone from the queue.
LEMMA QueuedAtEnd ==
    ASSUME AgreeInv, NEW p \in Participant, coord.at = p, coord'.waiting = FALSE,
           NEW s, queue' = [queue EXCEPT ![p] = s], s = <<>>
    PROVE  Queued'
<1>1. \A q \in Participant : q # p => queue[q] = <<>>
  BY DEF AgreeInv, Queued
<1>2. queue \in [Participant -> Seq(Call)]
  BY DEF AgreeInv, WaitInv, TypeInv, TypeOK
<1>3. \A q \in Participant : queue'[q] = <<>>
  BY <1>1, <1>2
<1> QED
  BY <1>3 DEF Queued

LEMMA SubmitAgree ==
    ASSUME AgreeInv, NEW d \in Delta, NEW hook \in BOOLEAN, Submit(d, hook), WaitInv'
    PROVE  AgreeInv'
<1> DEFINE t == coord.tx + 1
           g == submitted + 1
<1>1. /\ coord \in Coordinator /\ submitted \in Nat /\ MaxTransfers \in Nat
      /\ ~coord.waiting /\ coord.at = 1 /\ coord.tx = submitted /\ MaxCoordinators = 0
  BY BoundAssumption
     DEF AgreeInv, WaitInv, TypeInv, TypeOK, Numbered, Submit, Coordinator
<1>2. /\ coord' = [coord EXCEPT !.pc = "PREPARE", !.tx = t, !.g = g, !.deltas = d, !.hook = hook]
      /\ submitted' = g /\ submitted < MaxTransfers
      /\ UNCHANGED <<account, disk, up, queue, deaths, coordinators, fate>>
  BY DEF Submit
<1>3. g \in Tx /\ t = g /\ g > submitted
  BY <1>1, <1>2 DEF Tx
<1>4. g \in Nat /\ g = submitted + 1
  BY <1>1
<1> HIDE DEF t, g
<1>5. /\ coord'.pc = "PREPARE" /\ coord'.tx = g /\ coord'.g = g /\ coord'.at = 1
      /\ coord'.waiting = coord.waiting
  BY <1>1, <1>2, <1>3 DEF Coordinator
<1>6. Numbered'
  BY <1>1, <1>2, <1>5 DEF Numbered
<1>7. Queued'
  BY <1>1, <1>2 DEF AgreeInv, Queued
<1>8. Promised'
  BY <1>2 DEF AgreeInv, Promised
<1>9. Untouched'
  BY <1>1, <1>2, <1>4 DEF AgreeInv, Untouched, Tx
<1>10. \A q \in Participant : fate'[g][q] = "none" /\ ~(q < 1)
  BY <1>2, <1>3 DEF AgreeInv, Untouched, Participant
<1>11. Progress'
  BY <1>5, <1>10 DEF Progress
<1>12. Agreement'
  BY <1>2 DEF AgreeInv, Agreement
<1> QED
  BY <1>2, <1>6, <1>7, <1>8, <1>9, <1>11, <1>12 DEF AgreeInv

LEMMA SendAgree ==
    ASSUME AgreeInv, Send, WaitInv'
    PROVE  AgreeInv'
<1> DEFINE m == [kind |-> coord.pc, tx |-> coord.tx, g |-> coord.g,
                 delta |-> coord.deltas[coord.at]]
           s == Append(queue[coord.at], m)
<1>1. /\ queue' = [queue EXCEPT ![coord.at] = s] /\ ~coord.waiting /\ coord.pc # "idle"
      /\ UNCHANGED <<account, disk, up, submitted, deaths, coordinators, fate>>
  BY DEF Send
<1>2. /\ coord'.waiting /\ coord'.pc = coord.pc /\ coord'.tx = coord.tx
      /\ coord'.g = coord.g /\ coord'.at = coord.at /\ coord'.all_yes = coord.all_yes
  BY SendType DEF AgreeInv, WaitInv
<1>3. queue \in [Participant -> Seq(Call)] /\ coord.at \in Participant
  BY DEF AgreeInv, WaitInv, TypeInv, TypeOK, Coordinator
<1>4. \A p \in Participant : queue[p] = <<>>
  BY <1>1 DEF AgreeInv, Queued
<1>5. m.kind = coord.pc /\ m.tx = coord.tx /\ m.g = coord.g
  OBVIOUS
<1> HIDE DEF m
<1>6. s = Append(<<>>, m)
  BY <1>3, <1>4
<1>7. Len(s) = 1 /\ Head(s) = m
  BY <1>6
<1> HIDE DEF s
<1>8. Queued'
  <2> SUFFICES ASSUME NEW p \in Participant, queue'[p] # <<>>
               PROVE  coord'.at = p /\ Len(queue'[p]) = 1 /\ Current(coord', Head(queue'[p]))
    BY <1>2 DEF Queued
  <2>1. p = coord.at /\ queue'[p] = s
    BY <1>1, <1>3, <1>4
  <2> QED
    BY <1>2, <1>5, <1>7, <2>1 DEF Current
<1>9. Numbered' /\ Promised' /\ Untouched' /\ Progress' /\ Agreement'
  BY <1>1, <1>2 DEF AgreeInv, Numbered, Promised, Untouched, Progress, Agreement
<1> QED
  BY <1>1, <1>8, <1>9 DEF AgreeInv

LEMMA NextAgree == AgreeInv /\ [Next]_vars => AgreeInv'
<1> SUFFICES ASSUME AgreeInv, [Next]_vars PROVE AgreeInv'
  OBVIOUS
<1>0. WaitInv /\ TypeInv /\ coord \in Coordinator /\ account = disk
  BY DEF AgreeInv, WaitInv, TypeInv, TypeOK
<1>1. WaitInv'
  BY <1>0, NextType
\* What is known of the fate of the transfer in progress, at whoever is called.
<1>2. /\ coord.pc = "PREPARE" => fate[coord.g][coord.at] = "none"
      /\ coord.pc = "COMMIT" => fate[coord.g][coord.at] \in {"YES", "COMMIT"}
      /\ coord.pc = "ABORT" => fate[coord.g][coord.at] # "COMMIT"
  BY <1>0 DEF AgreeInv, Progress, Coordinator, Participant
\* A call that ends without an answer and without an effect.
<1>3. ASSUME coord.pc # "idle", coord' = Answered(coord, FALSE),
             UNCHANGED <<submitted, account, disk, fate>>
      PROVE  /\ Numbered' /\ Promised' /\ Untouched' /\ Progress' /\ Agreement'
             /\ coord'.waiting = FALSE /\ account' = disk'
  <2>1. Numbered' /\ Untouched' /\ Progress' /\ Agreement' /\ coord'.waiting = FALSE
    BY <1>2, <1>3, CallEnds
  <2> QED
    BY <1>0, <1>3, <2>1 DEF AgreeInv, Promised
\* The request is served, and the call ends with the answer yes.
<1>4. ASSUME NEW p \in Participant, queue[p] # <<>>, Handled(p), NEW yes \in BOOLEAN,
             yes => CanPromise(account[p], Head(queue[p])),
             coord' = Answered(coord, yes), submitted' = submitted
      PROVE  /\ Numbered' /\ Promised' /\ Untouched' /\ Progress' /\ Agreement'
             /\ coord'.waiting = FALSE /\ account' = disk'
  <2> HIDE DEF Handled
  <2>1. /\ coord.at = p /\ coord.pc # "idle" /\ account' = disk' /\ Promised'
        /\ \A g \in Tx, q \in Participant :
              g # coord.g \/ q # p => fate'[g][q] = fate[g][q]
        /\ coord.pc = "PREPARE" =>
              fate'[coord.g][p] = IF CanPromise(account[p], Head(queue[p])) THEN "YES" ELSE "NO"
        /\ coord.pc = "COMMIT" => fate'[coord.g][p] \in {"YES", "COMMIT"}
        /\ coord.pc = "ABORT" => fate'[coord.g][p] # "COMMIT"
    BY <1>4, HandledAgree
  <2>2. coord.pc = "PREPARE" => /\ fate'[coord.g][p] \in {"none", "YES", "NO"}
                                /\ yes => fate'[coord.g][p] = "YES"
    BY <1>4, <2>1
  <2>3. Numbered' /\ Untouched' /\ Progress' /\ Agreement' /\ coord'.waiting = FALSE
    BY <1>4, <2>1, <2>2, CallEnds
  <2> QED
    BY <2>1, <2>3
<1>5. ASSUME UNCHANGED vars PROVE AgreeInv'
  BY <1>1, <1>5
     DEF vars, AgreeInv, Numbered, Queued, Current, Promised, Untouched, Progress, Agreement
<1>6. ASSUME NEW d \in Transfers \cup CrashTransfers, NEW hook \in BOOLEAN, Submit(d, hook)
      PROVE  AgreeInv'
  BY <1>1, <1>6, SubmitAgree, TransferAssumption
<1>7. ASSUME Send PROVE AgreeInv'
  BY <1>1, <1>7, SendAgree
<1>8. ASSUME Refused PROVE AgreeInv'
  <2>1. /\ coord.pc # "idle" /\ ~coord.waiting /\ coord' = Answered(coord, FALSE)
        /\ UNCHANGED <<submitted, account, disk, fate, queue>>
    BY <1>8 DEF Refused
  <2>2. /\ Numbered' /\ Promised' /\ Untouched' /\ Progress' /\ Agreement' /\ account' = disk'
    BY <1>3, <2>1
  <2>3. Queued'
    BY <2>1 DEF AgreeInv, Queued
  <2> QED
    BY <1>1, <2>2, <2>3 DEF AgreeInv
<1>9. ASSUME NEW p \in Participant, Serve(p) PROVE AgreeInv'
  <2>1. queue[p] # <<>> /\ Handled(p) /\ submitted' = submitted
    BY <1>9 DEF Serve
  <2>2. coord.waiting /\ coord.at = p /\ Len(queue[p]) = 1
    BY <2>1 DEF AgreeInv, Queued
  <2> DEFINE yes == CanPromise(account[p], Head(queue[p]))
             s == Tail(queue[p])
  <2>3. yes \in BOOLEAN
    BY DEF CanPromise
  <2>4. coord' = Answered(coord, yes) /\ queue' = [queue EXCEPT ![p] = s]
    BY <1>9, <2>2 DEF Serve, Live
  <2>5. s = <<>>
    <3>1. queue[p] \in Seq(Call)
      BY <1>0 DEF TypeInv, TypeOK
    <3>2. s \in Seq(Call) /\ Len(s) = 0
      BY <2>2, <3>1
    <3> QED
      BY <3>2, EmptySeq
  <2> HIDE DEF s
  <2>6. /\ Numbered' /\ Promised' /\ Untouched' /\ Progress' /\ Agreement'
        /\ coord'.waiting = FALSE /\ account' = disk'
    BY <1>4, <2>1, <2>3, <2>4
  <2>7. Queued'
    BY <2>2, <2>4, <2>5, <2>6, QueuedAtEnd
  <2> QED
    BY <1>1, <2>6, <2>7 DEF AgreeInv
<1>10. ASSUME NEW p \in Participant, Die(p) PROVE AgreeInv'
  <2>1. /\ UNCHANGED <<submitted, account, disk, fate>>
        /\ queue' = [queue EXCEPT ![p] = <<>>]
        /\ coord' = IF coord.waiting /\ coord.at = p THEN Answered(coord, FALSE) ELSE coord
    BY <1>10 DEF Die, Gone
  <2>2. CASE coord.waiting /\ coord.at = p
    <3>1. /\ Numbered' /\ Promised' /\ Untouched' /\ Progress' /\ Agreement'
          /\ coord'.waiting = FALSE /\ account' = disk'
      BY <1>0, <1>3, <2>1, <2>2 DEF WaitInv
    <3>2. Queued'
      BY <2>1, <2>2, <3>1, QueuedAtEnd
    <3> QED
      BY <1>1, <3>1, <3>2 DEF AgreeInv
  <2>3. CASE ~(coord.waiting /\ coord.at = p)
    <3>1. coord' = coord /\ queue[p] = <<>>
      BY <2>1, <2>3 DEF AgreeInv, Queued
    <3>2. queue' = queue
      BY <1>0, <2>1, <3>1 DEF TypeInv, TypeOK
    <3>3. UNCHANGED <<coord, submitted, account, fate>>
      BY <2>1, <3>1
    <3>4. Numbered' /\ Promised' /\ Untouched' /\ Progress' /\ Agreement'
      BY <3>3 DEF AgreeInv, Numbered, Promised, Untouched, Progress, Agreement
    <3>5. Queued'
      BY <3>1, <3>2 DEF AgreeInv, Queued, Current
    <3> QED
      BY <1>0, <1>1, <2>1, <3>4, <3>5 DEF AgreeInv
  <2> QED
    BY <2>2, <2>3
<1>11. ASSUME NEW p \in Participant, DieBeforeReply(p) PROVE AgreeInv'
  <2>1. /\ queue[p] # <<>> /\ Handled(p) /\ submitted' = submitted
        /\ queue' = [queue EXCEPT ![p] = <<>>]
        /\ coord' = IF coord.waiting /\ coord.at = p THEN Answered(coord, FALSE) ELSE coord
    BY <1>11 DEF DieBeforeReply, Gone
  <2>2. coord.waiting /\ coord.at = p
    BY <2>1 DEF AgreeInv, Queued
  <2>3. /\ Numbered' /\ Promised' /\ Untouched' /\ Progress' /\ Agreement'
        /\ coord'.waiting = FALSE /\ account' = disk'
    BY <1>4, <2>1, <2>2
  <2>4. Queued'
    BY <2>1, <2>2, <2>3, QueuedAtEnd
  <2> QED
    BY <1>1, <2>3, <2>4 DEF AgreeInv
<1>12. ASSUME NEW p \in Participant, Start(p) PROVE AgreeInv'
  <2>1. account' = account
    BY <1>0, <1>12 DEF Start, TypeInv, TypeOK
  <2>2. UNCHANGED <<disk, queue, coord, submitted, fate>>
    BY <1>12 DEF Start
  <2> QED
    BY <1>1, <2>1, <2>2
       DEF AgreeInv, Numbered, Queued, Current, Promised, Untouched, Progress, Agreement
<1>13. ~CoordinatorRestarts
  BY <1>0 DEF CoordinatorRestarts, AgreeInv, Numbered, TypeInv, TypeOK
<1> QED
  BY <1>5, <1>6, <1>7, <1>8, <1>9, <1>10, <1>11, <1>12, <1>13 DEF Next

LEMMA AgreeInit == MaxCoordinators = 0 /\ Init => AgreeInv
<1> SUFFICES ASSUME MaxCoordinators = 0, Init PROVE AgreeInv
  OBVIOUS
<1>1. coord.pc = "idle" /\ coord.tx = 0 /\ coord.at = 1
  BY IdleType DEF Init
<1>2. Promised
  BY DEF Init, Promised, Fresh
<1>3. \A g \in Tx, p \in Participant : fate[g][p] = "none"
  BY DEF Init
<1> QED
  BY <1>1, <1>2, <1>3, InitWait
     DEF Init, AgreeInv, Numbered, Queued, Untouched, Progress, Agreement

\* NBAC5: as long as the coordinator does not restart, no transfer is committed
\* by one participant and aborted by another, whatever participants die and
\* however often.
THEOREM AgreementAlways == MaxCoordinators = 0 /\ Spec => []Agreement
<1>1. AgreeInv => Agreement
  BY DEF AgreeInv
<1> QED
  BY <1>1, AgreeInit, NextAgree, PTL DEF Spec

(******************************* refinement ********************************)

\* What a request does to the fates is a vote, a kept or a released promise.
LEMMA HandledStep ==
    ASSUME AgreeInv, NEW p \in Participant, queue[p] # <<>>, Handled(p)
    PROVE  [Abstract!Step]_fate
<1> DEFINE g == coord.g
<1>1. /\ coord.pc # "idle" /\ g \in Tx /\ coord.pc \in {"PREPARE", "COMMIT", "ABORT"}
  BY HandledAgree DEF AgreeInv, WaitInv, TypeInv, TypeOK, Coordinator
<1>2. \/ fate' = fate
      \/ /\ coord.pc = "PREPARE" /\ fate[g][p] = "none"
         /\ \E v \in {"YES", "NO"} : fate' = [fate EXCEPT ![g][p] = v]
      \/ /\ coord.pc # "PREPARE" /\ fate[g][p] = "YES"
         /\ fate' = [fate EXCEPT ![g][p] = coord.pc]
  BY HandledAgree
<1>3. CASE /\ coord.pc = "PREPARE" /\ fate[g][p] = "none"
           /\ \E v \in {"YES", "NO"} : fate' = [fate EXCEPT ![g][p] = v]
  <2>1. Abstract!Vote(g, p)
    BY <1>3 DEF Abstract!Vote, Abstract!Becomes
  <2> QED
    BY <1>1, <2>1 DEF Abstract!Step
<1>4. CASE /\ coord.pc = "COMMIT" /\ fate[g][p] = "YES"
           /\ fate' = [fate EXCEPT ![g][p] = coord.pc]
  <2>1. \A q \in Participant : fate[g][q] \in {"YES", "COMMIT"}
    BY <1>4 DEF AgreeInv, Progress
  <2>2. Abstract!Keep(g, p)
    BY <1>4, <2>1 DEF Abstract!Keep, Abstract!Becomes
  <2> QED
    BY <1>1, <2>2 DEF Abstract!Step
<1>5. CASE /\ coord.pc = "ABORT" /\ fate[g][p] = "YES"
           /\ fate' = [fate EXCEPT ![g][p] = coord.pc]
  <2>1. \A q \in Participant : fate[g][q] # "COMMIT"
    BY <1>5 DEF AgreeInv, Progress
  <2>2. Abstract!Release(g, p)
    BY <1>5, <2>1 DEF Abstract!Release, Abstract!Becomes
  <2> QED
    BY <1>1, <2>2 DEF Abstract!Step
<1> QED
  BY <1>1, <1>2, <1>3, <1>4, <1>5

\* As long as the coordinator does not restart, what the participants do about
\* the transfers is atomic commitment, whoever dies: a vote is cast once, no
\* promise is kept before all have given it, none is released after one was kept.
THEOREM AtomicCommitment == MaxCoordinators = 0 /\ Spec => ImplementsAtomicCommit
<1>1. Init => Abstract!Start
  BY DEF Init, Abstract!Start
<1>2. AgreeInv /\ [Next]_vars => [Abstract!Step]_fate
  <2> SUFFICES ASSUME AgreeInv, [Next]_vars PROVE [Abstract!Step]_fate
    OBVIOUS
  <2>1. ASSUME NEW p \in Participant, Serve(p) \/ DieBeforeReply(p)
        PROVE  [Abstract!Step]_fate
    BY <2>1, HandledStep DEF Serve, DieBeforeReply
  <2>2. ASSUME NEW p \in Participant, Die(p) \/ Start(p) PROVE fate' = fate
    BY <2>2 DEF Die, Start
  <2>3. ASSUME NEW d, NEW hook, Submit(d, hook) PROVE fate' = fate
    BY <2>3 DEF Submit
  <2> QED
    BY <2>1, <2>2, <2>3 DEF Next, vars, Send, Refused, CoordinatorRestarts
<1> QED
  BY <1>1, <1>2, AgreeInit, NextAgree, PTL DEF Spec, ImplementsAtomicCommit, Abstract!Spec

(************************** promises behind COMMIT *************************)

\* Requests of coordinators that died may be waiting anywhere, but the last in
\* the queue of the participant called is the one that is waited for, ...
Last(q) == queue[q][Len(queue[q])]
Awaited ==
    /\ coord.pc = "idle" => coord.at = 1
    /\ coord.waiting => queue[coord.at] # <<>> /\ Current(coord, Last(coord.at))

\* ... and who has answered it with YES has served all that came before, so that
\* nobody but this coordinator can take the promise from it.
Backed ==
    /\ coord.pc = "PREPARE" /\ coord.all_yes =>
          \A q \in Participant :
              q < coord.at => queue[q] = <<>> /\ disk[q].prepared.g = coord.g
    /\ coord.pc = "COMMIT" =>
          \A q \in Participant :
              /\ disk[q].prepared.g = coord.g \/ fate[coord.g][q] = "COMMIT"
              /\ \/ queue[q] = <<>>
                 \/ coord.waiting /\ coord.at = q /\ Len(queue[q]) = 1

BackedInv == SolventInv /\ Awaited /\ Backed

\* A request changes nothing at another participant than the one that serves it.
LEMMA HandledThere ==
    ASSUME BackedInv, NEW p \in Participant, queue[p] # <<>>, Handled(p)
    PROVE  /\ disk'[p] = OnCall(account[p], Head(queue[p]))
           /\ \A q \in Participant : q # p =>
                 disk'[q] = disk[q] /\ \A g \in Tx : fate'[g][q] = fate[g][q]
<1> DEFINE m == Head(queue[p])
           K == {"none", "YES", "NO", "COMMIT", "ABORT"}
<1>1. /\ queue[p] \in Seq(Call) /\ disk \in [Participant -> Account]
      /\ fate \in [Tx -> [Participant -> K]]
  BY DEF BackedInv, SolventInv, WaitInv, TypeInv, TypeOK
<1>2. m \in Call
  BY <1>1
<1>3. disk' = [disk EXCEPT ![p] = OnCall(account[p], m)] /\ fate' = FateAfter(p, account[p], m)
  BY DEF Handled, Persist
<1>4. m.g \in Tx
  BY <1>2 DEF Call
<1> HIDE DEF m
<1>5. \A q \in Participant, g \in Tx : q # p => fate'[g][q] = fate[g][q]
  <2>1. CASE m.kind = "PREPARE"
    BY <1>1, <1>3, <1>4, <2>1 DEF FateAfter
  <2>2. CASE m.kind # "PREPARE"
    BY <1>1, <1>3, <1>4, <2>2 DEF FateAfter
  <2> QED
    BY <2>1, <2>2
<1> QED
  BY <1>1, <1>3, <1>5 DEF m

\* A participant that serves COMMIT has the promise, or keeps it.
LEMMA CommitServed ==
    ASSUME BackedInv, NEW p \in Participant, Handled(p),
           coord.pc = "COMMIT", coord.waiting, coord.at = p, Len(queue[p]) = 1
    PROVE  disk'[p].prepared.g = coord.g \/ fate'[coord.g][p] = "COMMIT"
<1> DEFINE m == Head(queue[p])
           a == account[p]
           g == coord.g
           K == {"none", "YES", "NO", "COMMIT", "ABORT"}
<1>1. /\ queue[p] \in Seq(Call) /\ disk = account /\ a \in Account /\ g \in Tx
      /\ fate \in [Tx -> [Participant -> K]] /\ queue[p] # <<>>
  BY DEF BackedInv, SolventInv, WaitInv, TypeInv, TypeOK, Awaited
<1>2. m = Last(p) /\ m.kind = "COMMIT" /\ m.tx = coord.tx /\ m.g = g
  BY <1>1 DEF BackedInv, Awaited, Current, Last
<1>3. disk'[p] = OnVerdict(a, m)
  BY <1>1, <1>2, HandledThere DEF OnCall
<1>4. fate' = [h \in Tx |-> IF Holds(a, m) /\ a.prepared.g = h
                            THEN [fate[h] EXCEPT ![p] = m.kind] ELSE fate[h]]
  BY <1>2 DEF Handled, FateAfter
<1>5. a.prepared.g = g \/ fate[g][p] = "COMMIT"
  BY <1>1 DEF BackedInv, Backed
<1>6. CASE Holds(a, m) /\ a.prepared.g = g
  <2>1. fate'[g] = [fate[g] EXCEPT ![p] = "COMMIT"]
    BY <1>1, <1>2, <1>4, <1>6
  <2> QED
    BY <1>1, <2>1
<1>7. CASE fate[g][p] = "COMMIT"
  <2>1. fate'[g] = fate[g] \/ fate'[g] = [fate[g] EXCEPT ![p] = "COMMIT"]
    BY <1>1, <1>2, <1>4
  <2> QED
    BY <1>1, <1>7, <2>1
<1>8. CASE ~Holds(a, m) /\ a.prepared.g = g
  BY <1>3, <1>8 DEF OnVerdict
<1> QED
  BY <1>5, <1>6, <1>7, <1>8

\* The end of a call, if what it did at the participant called agrees with it.
LEMMA CallEndsBacked ==
    ASSUME BackedInv, coord.pc # "idle", NEW yes \in BOOLEAN, coord' = Answered(coord, yes),
           \A q \in Participant : q # coord.at =>
               /\ queue'[q] = queue[q] /\ disk'[q] = disk[q]
               /\ fate'[coord.g][q] = fate[coord.g][q],
           coord.pc = "PREPARE" /\ yes =>
               queue'[coord.at] = <<>> /\ disk'[coord.at].prepared.g = coord.g,
           coord.pc = "COMMIT" =>
               /\ queue'[coord.at] = <<>>
               /\ disk'[coord.at].prepared.g = coord.g \/ fate'[coord.g][coord.at] = "COMMIT"
    PROVE  Awaited' /\ Backed'
<1> DEFINE d == coord'
           g == coord.g
<1>1. /\ coord \in Coordinator /\ N \in Nat /\ coord.at \in 1 .. N
      /\ coord.pc \in {"PREPARE", "COMMIT", "ABORT"}
  BY ParticipantAssumption
     DEF BackedInv, SolventInv, WaitInv, TypeInv, TypeOK, Coordinator, Participant
<1>2. /\ d.waiting = FALSE
      /\ d.pc = "idle" => d.at = 1
      /\ \/ d.pc = "idle"
         \/ /\ d.g = g /\ coord.at < N /\ d.at = coord.at + 1 /\ d.pc = coord.pc
            /\ coord.pc = "PREPARE" /\ d.all_yes => coord.all_yes /\ yes
         \/ /\ d.g = g /\ coord.at = N /\ coord.pc = "PREPARE"
            /\ d.pc = IF coord.all_yes /\ yes THEN "COMMIT" ELSE "ABORT"
  <2>1. CallOver(coord, d, yes)
    BY <1>1, AnsweredFields
  <2> QED
    BY <1>1, <2>1, Zenon DEF CallOver
<1>3. Awaited'
  BY <1>2 DEF Awaited
<1>4. ASSUME coord.pc = "PREPARE", coord.all_yes, yes, NEW q \in Participant, q <= coord.at
      PROVE  queue'[q] = <<>> /\ disk'[q].prepared.g = g
  <2>1. CASE q = coord.at
    BY <1>4, <2>1
  <2>2. CASE q # coord.at
    <3>1. q < coord.at
      BY <1>1, <1>4, <2>2 DEF Participant
    <3> QED
      BY <1>4, <2>2, <3>1 DEF BackedInv, Backed
  <2> QED
    BY <2>1, <2>2
<1>5. ASSUME coord.pc = "COMMIT", NEW q \in Participant
      PROVE  /\ disk'[q].prepared.g = g \/ fate'[g][q] = "COMMIT"
             /\ queue'[q] = <<>>
  BY <1>5 DEF BackedInv, Backed
<1>6. Backed'
  <2>1. CASE d.pc = "idle"
    BY <2>1 DEF Backed
  <2>2. CASE /\ d.g = g /\ coord.at < N /\ d.at = coord.at + 1 /\ d.pc = coord.pc
             /\ coord.pc = "PREPARE" /\ d.all_yes => coord.all_yes /\ yes
    <3>1. \A q \in Participant : q < d.at => q <= coord.at
      BY <1>1, <2>2 DEF Participant
    <3> QED
      BY <1>4, <1>5, <2>2, <3>1 DEF Backed
  <2>3. CASE /\ d.g = g /\ coord.at = N /\ coord.pc = "PREPARE"
             /\ d.pc = IF coord.all_yes /\ yes THEN "COMMIT" ELSE "ABORT"
    <3>1. \A q \in Participant : q <= coord.at
      BY <1>1, <2>3 DEF Participant
    <3> QED
      BY <1>4, <2>3, <3>1 DEF Backed
  <2> QED
    BY <1>2, <2>1, <2>2, <2>3
<1> QED
  BY <1>3, <1>6

LEMMA NextBacked == BackedInv /\ [Next]_vars => BackedInv'
<1> SUFFICES ASSUME BackedInv, [Next]_vars PROVE Awaited' /\ Backed'
  BY NextSolvent DEF BackedInv
<1>0. /\ TypeInv /\ WaitInv /\ account = disk /\ coord \in Coordinator
      /\ queue \in [Participant -> Seq(Call)] /\ coord.at \in Participant
      /\ disk \in [Participant -> Account]
  BY DEF BackedInv, SolventInv, WaitInv, TypeInv, TypeOK, Coordinator
\* The participant called has nothing before it or is waited for.
<1>1. coord.pc = "COMMIT" => \A q \in Participant :
          \/ queue[q] = <<>>
          \/ coord.waiting /\ coord.at = q /\ Len(queue[q]) = 1
  BY DEF BackedInv, Backed
<1>2. ASSUME UNCHANGED vars PROVE Awaited' /\ Backed'
  BY <1>2 DEF vars, BackedInv, Awaited, Backed, Current, Last
<1>3. ASSUME NEW d \in Transfers \cup CrashTransfers, NEW hook \in BOOLEAN, Submit(d, hook)
      PROVE  Awaited' /\ Backed'
  <2>1. coord'.pc = "PREPARE" /\ coord'.at = 1 /\ ~coord'.waiting
    BY <1>0, <1>3 DEF Submit, Coordinator, BackedInv, Awaited, WaitInv
  <2>2. \A q \in Participant : ~(q < 1)
    BY DEF Participant
  <2> QED
    BY <2>1, <2>2 DEF Awaited, Backed
<1>4. ASSUME Send PROVE Awaited' /\ Backed'
  <2> DEFINE m == [kind |-> coord.pc, tx |-> coord.tx, g |-> coord.g,
                   delta |-> coord.deltas[coord.at]]
             s == Append(queue[coord.at], m)
  <2>1. /\ queue' = [queue EXCEPT ![coord.at] = s] /\ ~coord.waiting /\ coord.pc # "idle"
        /\ UNCHANGED <<account, disk, up, submitted, deaths, coordinators, fate>>
    BY <1>4 DEF Send
  <2>2. /\ coord'.waiting /\ coord'.pc = coord.pc /\ coord'.tx = coord.tx
        /\ coord'.g = coord.g /\ coord'.at = coord.at /\ coord'.all_yes = coord.all_yes
    BY <1>0, <1>4, SendType
  <2>3. m.kind = coord.pc /\ m.tx = coord.tx /\ m.g = coord.g /\ m \in Call
    BY <1>0, <2>1 DEF Call, Coordinator, Delta, TypeInv
  <2> HIDE DEF m
  <2>4. s # <<>> /\ s[Len(s)] = m /\ (queue[coord.at] = <<>> => Len(s) = 1)
    <3>1. PICK t \in Seq(Call) : t = queue[coord.at]
      BY <1>0
    <3>2. s = Append(t, m)
      BY <3>1
    <3> HIDE DEF s
    <3>3. Len(s) = Len(t) + 1 /\ s[Len(t) + 1] = m /\ Len(t) \in Nat /\ s \in Seq(Call)
      BY <2>3, <3>2
    <3>4. s # <<>> /\ s[Len(s)] = m
      BY <3>3
    <3>5. t = <<>> => Len(s) = 1
      BY <3>3
    <3> QED
      BY <3>1, <3>4, <3>5
  <2> HIDE DEF s
  <2>5. queue'[coord.at] = s /\ \A q \in Participant : q # coord.at => queue'[q] = queue[q]
    BY <1>0, <2>1
  <2>6. Awaited'
    BY <2>1, <2>2, <2>3, <2>4, <2>5 DEF Awaited, Current, Last
  <2>7. \A q \in Participant : q < coord.at => q # coord.at
    BY <1>0 DEF Participant
  <2>8. Backed'
    BY <1>1, <2>1, <2>2, <2>4, <2>5, <2>7 DEF BackedInv, Backed
  <2> QED
    BY <2>6, <2>8
<1>5. ASSUME Refused PROVE Awaited' /\ Backed'
  <2>1. /\ coord.pc # "idle" /\ ~coord.waiting /\ coord' = Answered(coord, FALSE)
        /\ UNCHANGED <<disk, fate, queue>>
    BY <1>5 DEF Refused
  <2>2. coord.pc = "COMMIT" => disk[coord.at].prepared.g = coord.g
                                 \/ fate[coord.g][coord.at] = "COMMIT"
    BY <1>0 DEF BackedInv, Backed
  <2> QED
    BY <1>0, <1>1, <2>1, <2>2, CallEndsBacked
\* A request is served, or lost with its effect done, and the call goes on.
<1>6. ASSUME NEW p \in Participant, queue[p] # <<>>, Handled(p), coord' = coord,
             \A q \in Participant : q # p => queue'[q] = queue[q],
             coord.waiting /\ coord.at = p => queue'[p] = Tail(queue[p]) /\ Len(queue[p]) # 1
      PROVE  Awaited' /\ Backed'
  <2>1. \A q \in Participant : q # p =>
           disk'[q] = disk[q] /\ \A g \in Tx : fate'[g][q] = fate[g][q]
    BY <1>6, HandledThere
  <2>2. Awaited'
    <3>1. CASE coord.waiting /\ coord.at = p
      <4>1. PICK s \in Seq(Call) : s = queue[p]
        BY <1>0
      <4>2. s # <<>> /\ Len(s) # 1 /\ queue'[p] = Tail(s)
        BY <1>6, <3>1, <4>1
      <4>3. Len(s) \in Nat /\ Len(s) > 1
        <5>1. \A q \in Seq(Call) : q # <<>> => Len(q) \in Nat \ {0}
          BY EmptySeq
        <5>2. Len(s) \in Nat \ {0}
          BY <4>2, <5>1, Zenon
        <5>3. \A n \in Nat \ {0} : n # 1 => n \in Nat /\ n > 1
          OBVIOUS
        <5> QED
          BY <4>2, <5>2, <5>3, Zenon
      <4>4. PICK k \in Nat : k = Len(s) - 1 /\ k >= 1 /\ Len(s) = k + 1
        BY <4>3
      <4>5. /\ Tail(s) \in Seq(Call) /\ Len(Tail(s)) = k
            /\ \A i \in 1 .. k : Tail(s)[i] = s[i + 1]
        BY <4>2, <4>4, HeadTailProperties
      <4>6. Tail(s) # <<>> /\ Tail(s)[Len(Tail(s))] = s[Len(s)]
        <5>1. k \in 1 .. k /\ k # 0
          BY <4>4
        <5>2. Tail(s)[k] = s[Len(s)]
          BY <4>4, <4>5, <5>1
        <5>3. Tail(s) # <<>>
          BY <4>5, <5>1, EmptySeq, Zenon
        <5> QED
          BY <4>5, <5>2, <5>3, Zenon
      <4>7. queue'[p] # <<>> /\ queue'[p][Len(queue'[p])] = queue[p][Len(queue[p])]
        BY <4>1, <4>2, <4>6
      <4> QED
        BY <1>6, <3>1, <4>7 DEF BackedInv, Awaited, Current, Last
    <3>2. CASE ~(coord.waiting /\ coord.at = p)
      BY <1>0, <1>6, <3>2 DEF BackedInv, Awaited, Current, Last
    <3> QED
      BY <3>1, <3>2
  <2>3. Backed'
    <3>1. coord.pc = "COMMIT" => FALSE
      BY <1>1, <1>6
    <3>2. coord.pc = "PREPARE" /\ coord.all_yes => \A q \in Participant : q < coord.at => q # p
      BY <1>6 DEF BackedInv, Backed
    <3> QED
      BY <1>6, <2>1, <3>1, <3>2 DEF BackedInv, Backed
  <2> QED
    BY <2>2, <2>3
\* The call is over with it.
<1>7. ASSUME NEW p \in Participant, queue[p] # <<>>, Handled(p), coord.waiting, coord.at = p,
             \A q \in Participant : q # p => queue'[q] = queue[q], queue'[p] = <<>>,
             NEW yes \in BOOLEAN, coord' = Answered(coord, yes),
             yes => Len(queue[p]) = 1 /\ CanPromise(account[p], Head(queue[p]))
      PROVE  Awaited' /\ Backed'
  <2>1. /\ disk'[p] = OnCall(account[p], Head(queue[p]))
        /\ \A q \in Participant : q # p =>
              disk'[q] = disk[q] /\ \A g \in Tx : fate'[g][q] = fate[g][q]
    BY <1>7, HandledThere
  <2>2. coord.pc # "idle" /\ coord.g \in Tx
    BY <1>0, <1>7 DEF WaitInv, TypeInv
  <2>3. ASSUME coord.pc = "PREPARE", yes PROVE disk'[p].prepared.g = coord.g
    <3> DEFINE m == Head(queue[p])
               pr == [tx |-> m.tx, delta |-> m.delta, g |-> m.g]
    <3>1. m = Last(p) /\ m.kind = "PREPARE" /\ m.g = coord.g
      <4>1. Len(queue[p]) = 1 /\ Head(queue[p]) = queue[p][1]
        BY <1>0, <1>7, <2>3
      <4> QED
        BY <1>7, <2>3, <4>1 DEF BackedInv, Awaited, Current, Last
    <3>2. disk'[p] = [account[p] EXCEPT !.prepared = pr]
      BY <1>7, <2>1, <2>3, <3>1 DEF OnCall, OnPrepare
    <3>3. pr.g = coord.g
      BY <3>1
    <3> HIDE DEF pr, m
    <3>4. disk'[p].prepared = pr
      BY <1>0, <3>2 DEF Account
    <3> QED
      BY <3>3, <3>4
  <2>4. coord.pc = "COMMIT" =>
          disk'[p].prepared.g = coord.g \/ fate'[coord.g][p] = "COMMIT"
    BY <1>1, <1>7, CommitServed
  <2> QED
    BY <1>7, <2>1, <2>2, <2>3, <2>4, CallEndsBacked
<1>8. ASSUME NEW p \in Participant, Serve(p) PROVE Awaited' /\ Backed'
  <2>1. /\ queue[p] # <<>> /\ Handled(p) /\ queue[p] \in Seq(Call)
        /\ queue' = [queue EXCEPT ![p] = Tail(queue[p])]
        /\ coord' = IF Live(p) THEN Answered(coord, CanPromise(account[p], Head(queue[p])))
                    ELSE coord
    BY <1>0, <1>8 DEF Serve
  <2>2. queue'[p] = Tail(queue[p]) /\ \A q \in Participant : q # p => queue'[q] = queue[q]
    BY <1>0, <2>1
  <2>3. CASE Live(p)
    <3>1. Tail(queue[p]) = <<>>
      <4>1. Tail(queue[p]) \in Seq(Call) /\ Len(Tail(queue[p])) = 0
        BY <2>1, <2>3 DEF Live
      <4> QED
        BY <4>1, EmptySeq
    <3>2. CanPromise(account[p], Head(queue[p])) \in BOOLEAN
      BY DEF CanPromise
    <3> QED
      BY <1>7, <2>1, <2>2, <2>3, <3>1, <3>2 DEF Live
  <2>4. CASE ~Live(p)
    BY <1>6, <2>1, <2>2, <2>4 DEF Live
  <2> QED
    BY <2>3, <2>4
<1>9. ASSUME NEW p \in Participant, Gone(p) PROVE
        /\ queue'[p] = <<>> /\ \A q \in Participant : q # p => queue'[q] = queue[q]
        /\ coord' = IF coord.waiting /\ coord.at = p THEN Answered(coord, FALSE) ELSE coord
  BY <1>0, <1>9 DEF Gone
<1>10. ASSUME NEW p \in Participant, Die(p) PROVE Awaited' /\ Backed'
  <2>1. UNCHANGED <<disk, fate>> /\ Gone(p)
    BY <1>10 DEF Die
  <2>2. CASE coord.waiting /\ coord.at = p
    <3>1. coord.pc # "idle" /\ coord' = Answered(coord, FALSE)
      BY <1>0, <1>9, <2>1, <2>2 DEF WaitInv
    <3>2. coord.pc = "COMMIT" =>
            disk[p].prepared.g = coord.g \/ fate[coord.g][p] = "COMMIT"
      BY DEF BackedInv, Backed
    <3> QED
      BY <1>9, <2>1, <2>2, <3>1, <3>2, CallEndsBacked
  <2>3. CASE ~(coord.waiting /\ coord.at = p)
    <3>1. coord' = coord
      BY <1>9, <2>1, <2>3
    <3>2. queue'[p] = <<>> /\ \A q \in Participant : q # p => queue'[q] = queue[q]
      BY <1>9, <2>1
    <3>3. Awaited'
      BY <1>0, <2>3, <3>1, <3>2 DEF BackedInv, Awaited, Current, Last
    <3>4. Backed'
      BY <2>1, <2>3, <3>1, <3>2 DEF BackedInv, Backed
    <3> QED
      BY <3>3, <3>4
  <2> QED
    BY <2>2, <2>3
<1>11. ASSUME NEW p \in Participant, DieBeforeReply(p) PROVE Awaited' /\ Backed'
  <2>1. queue[p] # <<>> /\ Handled(p) /\ Gone(p)
    BY <1>11 DEF DieBeforeReply
  <2>2. CASE coord.waiting /\ coord.at = p
    BY <1>7, <1>9, <2>1, <2>2
  <2>3. CASE ~(coord.waiting /\ coord.at = p)
    BY <1>6, <1>9, <2>1, <2>3
  <2> QED
    BY <2>2, <2>3
<1>12. ASSUME NEW p \in Participant, Start(p) PROVE Awaited' /\ Backed'
  BY <1>12 DEF Start, BackedInv, Awaited, Backed, Current, Last
<1>13. ASSUME CoordinatorRestarts PROVE Awaited' /\ Backed'
  <2>1. coord'.pc = "idle" /\ coord'.at = 1 /\ coord'.waiting = FALSE
    BY <1>13, IdleType DEF CoordinatorRestarts
  <2> QED
    BY <2>1 DEF Awaited, Backed
<1> QED
  BY <1>2, <1>3, <1>4, <1>5, <1>8, <1>10, <1>11, <1>12, <1>13 DEF Next

\* COMMIT is sent only when every participant has the promise on its disk or
\* has already kept it, whoever dies, and though each new coordinator counts its
\* transactions from one again while requests of the old ones are still queued.
THEOREM CommitSafe == Spec => []CommitIsSafe
<1>1. Init => BackedInv
  <2> SUFFICES ASSUME Init PROVE BackedInv
    OBVIOUS
  <2>1. coord.pc = "idle" /\ coord.at = 1 /\ coord.waiting = FALSE
    BY IdleType DEF Init
  <2> QED
    BY <2>1, SolventInit DEF BackedInv, Awaited, Backed
<1>2. BackedInv => CommitIsSafe
  BY DEF BackedInv, Backed, CommitIsSafe
<1> QED
  BY <1>1, <1>2, NextBacked, PTL DEF Spec

(********************************** money **********************************)

\* The sum of d over the participants, as Conserved sums.
Total(d) == SumOver(d, Participant)
SumsToZero(d) == FoldFunction(LAMBDA x, sum : x + sum, 0, d) = 0

\* A transfer is decided when all have promised it and none has left it: what
\* is still promised of it counts as moved already.
Decided(f, g) == \A q \in Participant : f[g][q] \in {"YES", "COMMIT"}
Owed(dk, f, q) == IF dk[q].prepared # Nobody /\ Decided(f, dk[q].prepared.g)
                  THEN dk[q].prepared.delta ELSE 0
Worth(dk, f) == [q \in Participant |-> dk[q].balance + Owed(dk, f, q)]

\* A participant that has promised a transfer and heard no verdict holds its
\* part of it, the parts of the current one being the coordinator's.
Held ==
    /\ \A q \in Participant, g \in Tx :
          fate[g][q] = "YES" => disk[q].prepared # Nobody /\ disk[q].prepared.g = g
    /\ coord.pc # "idle" => \A q \in Participant :
          disk[q].prepared # Nobody /\ disk[q].prepared.g = coord.g
              => disk[q].prepared.delta = coord.deltas[q]
    /\ coord.pc # "idle" => \A q \in Participant :
          queue[q] # <<>> => Head(queue[q]).delta = coord.deltas[q]
    /\ coord.pc # "idle" => Total(coord.deltas) = 0

MoneyInv == AgreeInv /\ Held /\ Total(Worth(disk, fate)) = 100 * N

LEMMA ParticipantsFinite == IsFiniteSet(Participant) /\ Cardinality(Participant) = N
BY FS_Interval, ParticipantAssumption DEF Participant

\* The folds of the model are sums.
LEMMA FoldIsTotal ==
    ASSUME NEW d \in Delta
    PROVE  FoldFunction(LAMBDA x, sum : x + sum, 0, d) = Total(d)
<1>1. d \in [Participant -> Int] /\ DOMAIN d = Participant
  BY DEF Delta
<1>2. PICK it \in [SUBSET Participant -> Int] : IsIter(it, d, Participant)
  BY <1>1, ParticipantsFinite, IterExists
<1> DEFINE fold == CHOOSE i : IsIter(i, d, Participant)
<1>3. FoldFunction(LAMBDA x, sum : x + sum, 0, d) = fold[Participant]
  BY <1>1 DEF FoldFunction, FoldFunctionOnSet, MapThenFoldSet, IsIter, Pick
<1> QED
  BY <1>3 DEF Total, SumOver

LEMMA FoldOfDisk ==
    ASSUME NEW d \in [Participant -> Account]
    PROVE  FoldFunction(LAMBDA a, sum : a.balance + sum, 0, d)
             = Total([q \in Participant |-> d[q].balance])
<1> DEFINE h == [q \in Participant |-> d[q].balance]
           IsFold(it) == it = [s \in SUBSET Participant |->
                                  IF s = {} THEN 0 ELSE d[Pick(s)].balance + it[s \ {Pick(s)}]]
           fold == CHOOSE it : IsFold(it)
<1>1. h \in [Participant -> Int]
  BY DEF Account
<1>2. FoldFunction(LAMBDA a, sum : a.balance + sum, 0, d) = fold[Participant]
  BY DEF FoldFunction, FoldFunctionOnSet, MapThenFoldSet, Pick
<1>3. PICK it : IsIter(it, h, Participant)
  BY <1>1, ParticipantsFinite, IterExists
<1>4. \A i : IsFold(i) <=> IsIter(i, h, Participant)
  <2>1. \A s \in SUBSET Participant : s # {} => h[Pick(s)] = d[Pick(s)].balance
    BY Picked
  <2> QED
    BY <2>1 DEF IsIter
<1>5. IsFold(fold)
  BY <1>3, <1>4
<1>6. IsIter(fold, h, Participant)
  BY <1>4, <1>5
<1>7. Total(h) = fold[Participant]
  BY <1>1, <1>6, ParticipantsFinite, SumIs DEF Total
<1> QED
  BY <1>2, <1>7

\* A promise given, refused, settled, or nothing at all.
LEMMA HandledMoney ==
    ASSUME MoneyInv, NEW p \in Participant, queue[p] # <<>>, Handled(p)
    PROVE  /\ \A q \in Participant : q # p => disk'[q] = disk[q]
           /\ \/ /\ coord.pc = "PREPARE" /\ fate[coord.g][p] = "none"
                 /\ disk[p].prepared = Nobody /\ disk'[p].prepared # Nobody
                 /\ disk'[p].prepared.g = coord.g
                 /\ disk'[p].prepared.delta = coord.deltas[p]
                 /\ disk'[p].balance = disk[p].balance
                 /\ fate' = [fate EXCEPT ![coord.g][p] = "YES"]
              \/ /\ coord.pc = "PREPARE" /\ fate[coord.g][p] = "none"
                 /\ disk'[p] = disk[p] /\ fate' = [fate EXCEPT ![coord.g][p] = "NO"]
              \/ /\ coord.pc \in {"COMMIT", "ABORT"} /\ fate[coord.g][p] = "YES"
                 /\ disk'[p].prepared = Nobody
                 /\ disk'[p].balance = disk[p].balance
                       + (IF coord.pc = "COMMIT" THEN coord.deltas[p] ELSE 0)
                 /\ fate' = [fate EXCEPT ![coord.g][p] = coord.pc]
              \/ disk'[p] = disk[p] /\ fate' = fate
<1> DEFINE m == Head(queue[p])
           a == disk[p]
           g == coord.g
           K == {"none", "YES", "NO", "COMMIT", "ABORT"}
<1>1. /\ AgreeInv /\ TypeInv /\ coord \in Coordinator /\ a \in Account /\ account = disk
      /\ disk \in [Participant -> Account] /\ fate \in [Tx -> [Participant -> K]]
  BY DEF MoneyInv, AgreeInv, WaitInv, TypeInv, TypeOK
<1>2. /\ coord.waiting /\ coord.at = p /\ coord.pc # "idle"
      /\ m.kind = coord.pc /\ m.tx = coord.tx /\ m.g = g /\ m.delta = coord.deltas[p]
  BY <1>1 DEF MoneyInv, AgreeInv, Queued, Current, WaitInv, Held
<1>3. g \in Tx /\ g \in Nat /\ m.tx = g
  BY <1>1, <1>2 DEF TypeInv, AgreeInv, Numbered, Coordinator, Tx
<1>4. disk' = [disk EXCEPT ![p] = OnCall(a, m)] /\ fate' = FateAfter(p, a, m)
  BY <1>1 DEF Handled, Persist
<1>5. /\ disk'[p] = OnCall(a, m)
      /\ \A q \in Participant : q # p => disk'[q] = disk[q]
  BY <1>1, <1>4
<1>6. CASE coord.pc = "PREPARE"
  <2> DEFINE yes == CanPromise(a, m)
             pr == [tx |-> m.tx, delta |-> m.delta, g |-> m.g]
  <2>1. fate[g][p] = "none"
    BY <1>1, <1>2, <1>6 DEF AgreeInv, Progress, Participant
  <2>2. fate' = [fate EXCEPT ![g][p] = IF yes THEN "YES" ELSE "NO"]
    BY <1>2, <1>4, <1>6 DEF FateAfter
  <2>3. disk'[p] = IF yes THEN [a EXCEPT !.prepared = pr] ELSE a
    BY <1>2, <1>5, <1>6 DEF OnCall, OnPrepare
  <2>4. CASE yes
    <3>1. pr.g = g /\ pr.delta = coord.deltas[p] /\ pr.tx = g
      BY <1>2, <1>3
    <3>2. a.prepared = Nobody
      BY <2>4 DEF CanPromise
    <3>3. g # 0
      BY <1>3 DEF Tx
    <3> HIDE DEF pr
    <3>4. disk'[p].prepared = pr /\ disk'[p].balance = a.balance
      BY <1>1, <2>3, <2>4 DEF Account
    <3>5. pr # Nobody
      BY <3>1, <3>3 DEF Nobody
    <3> QED
      BY <1>5, <1>6, <2>1, <2>2, <2>4, <3>1, <3>2, <3>4, <3>5
  <2>5. CASE ~yes
    BY <1>5, <1>6, <2>1, <2>2, <2>3, <2>5
  <2> QED
    BY <2>4, <2>5
<1>7. CASE coord.pc # "PREPARE"
  <2>1. coord.pc \in {"COMMIT", "ABORT"}
    BY <1>1, <1>2, <1>7 DEF Coordinator
  <2>2. /\ disk'[p] = OnVerdict(a, m)
        /\ fate' = [h \in Tx |-> IF Holds(a, m) /\ a.prepared.g = h
                                 THEN [fate[h] EXCEPT ![p] = coord.pc] ELSE fate[h]]
    BY <1>2, <1>4, <1>5, <1>7 DEF OnCall, FateAfter
  <2>3. CASE Holds(a, m)
    <3>1. a.prepared # Nobody /\ a.prepared.g = g /\ fate[g][p] = "YES"
      <4>1. a.prepared # Nobody /\ a.prepared.tx = g
        BY <1>3, <2>3 DEF Holds
      <4> QED
        BY <1>1, <4>1 DEF AgreeInv, Promised
    <3>2. a.prepared.delta = coord.deltas[p]
      BY <1>2, <3>1 DEF MoneyInv, Held
    <3>3. fate' = [h \in Tx |-> IF h = g THEN [fate[h] EXCEPT ![p] = coord.pc] ELSE fate[h]]
      BY <2>2, <2>3, <3>1
    <3>4. fate' = [fate EXCEPT ![g][p] = coord.pc]
      BY <1>1, <1>3, <3>3
    <3>5. /\ disk'[p].prepared = Nobody
          /\ disk'[p].balance = a.balance + (IF coord.pc = "COMMIT" THEN coord.deltas[p] ELSE 0)
      BY <1>2, <2>2, <2>3, <3>2 DEF OnVerdict
    <3> QED
      BY <1>5, <2>1, <3>1, <3>4, <3>5
  <2>4. CASE ~Holds(a, m)
    <3>1. fate' = [h \in Tx |-> fate[h]] /\ disk'[p] = a
      BY <2>2, <2>4 DEF OnVerdict
    <3>2. fate' = fate
      BY <1>1, <3>1
    <3> QED
      BY <1>5, <3>1, <3>2
  <2> QED
    BY <2>3, <2>4
<1> QED
  BY <1>6, <1>7

LEMMA WorthType ==
    ASSUME NEW dk \in [Participant -> Account], NEW f
    PROVE  /\ Worth(dk, f) \in [Participant -> Int]
           /\ \A q \in Participant : Worth(dk, f)[q] = dk[q].balance + Owed(dk, f, q)
<1> SUFFICES ASSUME NEW q \in Participant PROVE dk[q].balance + Owed(dk, f, q) \in Int
  BY DEF Worth
<1>1. dk[q].balance \in Int /\ dk[q].prepared.delta \in Int
  BY DEF Account, Promise
<1>2. Owed(dk, f, q) \in Int
  BY <1>1 DEF Owed
<1> QED
  BY <1>1, <1>2

\* Who holds what, after a request.
LEMMA HandledHeld ==
    ASSUME MoneyInv, AgreeInv', NEW p \in Participant, queue[p] # <<>>, Handled(p)
    PROVE  /\ \A q \in Participant, g \in Tx :
                 fate'[g][q] = "YES" => disk'[q].prepared # Nobody /\ disk'[q].prepared.g = g
           /\ \A q \in Participant :
                 disk'[q].prepared # Nobody /\ disk'[q].prepared.g = coord.g
                     => disk'[q].prepared.delta = coord.deltas[q]
<1> DEFINE K == {"none", "YES", "NO", "COMMIT", "ABORT"}
           g == coord.g
<1>1. g \in Tx /\ fate \in [Tx -> [Participant -> K]] /\ coord.pc # "idle"
  BY HandledAgree DEF MoneyInv, AgreeInv, WaitInv, TypeInv, TypeOK
<1>2. /\ \A q \in Participant, f \in Tx :
            fate[f][q] = "YES" => disk[q].prepared # Nobody /\ disk[q].prepared.g = f
      /\ \A q \in Participant :
            disk[q].prepared # Nobody /\ disk[q].prepared.g = g
                => disk[q].prepared.delta = coord.deltas[q]
  <2>1. Held
    BY DEF MoneyInv
  <2> QED
    BY <1>1, <2>1 DEF Held
<1>3. \A q \in Participant, f \in Tx : q # p =>
         disk'[q] = disk[q] /\ fate'[f][q] = fate[f][q]
  <2>1. \A q \in Participant : q # p => disk'[q] = disk[q]
    BY HandledMoney
  <2>2. \A f \in Tx, q \in Participant : f # g \/ q # p => fate'[f][q] = fate[f][q]
    BY HandledAgree DEF MoneyInv
  <2> QED
    BY <2>1, <2>2
<1>4. \A f \in Tx : fate'[f][p] = "YES" => disk'[p].prepared # Nobody /\ disk'[p].prepared.g = f
  <2> SUFFICES ASSUME NEW f \in Tx, fate'[f][p] = "YES"
               PROVE  disk'[p].prepared # Nobody /\ disk'[p].prepared.g = f
    OBVIOUS
  <2>1. f # g => fate[f][p] = "YES"
    BY HandledAgree DEF MoneyInv
  <2>2. CASE /\ fate[g][p] = "none" /\ disk[p].prepared = Nobody
             /\ disk'[p].prepared # Nobody /\ disk'[p].prepared.g = g
    <3>1. f = g
      BY <1>2, <2>1, <2>2
    <3> QED
      BY <2>2, <3>1
  <2>3. CASE disk'[p] = disk[p] /\ fate' = [fate EXCEPT ![g][p] = "NO"]
    <3>1. fate'[g][p] = "NO"
      BY <1>1, <2>3
    <3> QED
      BY <1>2, <2>1, <2>3, <3>1
  <2>4. CASE /\ coord.pc \in {"COMMIT", "ABORT"} /\ fate[g][p] = "YES"
             /\ fate' = [fate EXCEPT ![g][p] = coord.pc]
    <3>1. fate'[g][p] = coord.pc
      BY <1>1, <2>4
    <3>2. f # g
      BY <2>4, <3>1
    <3>3. fate[f][p] = "YES" /\ fate[g][p] = "YES"
      BY <2>1, <2>4, <3>2
    <3>4. disk[p].prepared.g = f /\ disk[p].prepared.g = g
      BY <1>1, <1>2, <3>3
    <3> QED
      BY <3>2, <3>4
  <2>5. CASE disk'[p] = disk[p] /\ fate' = fate
    BY <1>2, <2>5
  <2> QED
    BY <2>2, <2>3, <2>4, <2>5, HandledMoney
<1>5. disk'[p].prepared # Nobody /\ disk'[p].prepared.g = g
         => disk'[p].prepared.delta = coord.deltas[p]
  <2>1. \/ disk'[p].prepared.delta = coord.deltas[p]
        \/ disk'[p].prepared = Nobody
        \/ disk'[p] = disk[p]
    BY HandledMoney
  <2> QED
    BY <1>2, <2>1
<1>6. \A q \in Participant, f \in Tx :
         fate'[f][q] = "YES" => disk'[q].prepared # Nobody /\ disk'[q].prepared.g = f
  BY <1>2, <1>3, <1>4
<1>7. \A q \in Participant :
         disk'[q].prepared # Nobody /\ disk'[q].prepared.g = g
             => disk'[q].prepared.delta = coord.deltas[q]
  BY <1>1, <1>2, <1>3, <1>5
<1> QED
  BY <1>6, <1>7

\* What a request does to the sum: the parts of the current transfer are added
\* everywhere or taken away everywhere, and they sum to zero.
LEMMA Shift ==
    ASSUME NEW v \in [Participant -> Int], NEW w \in [Participant -> Int],
           NEW d \in [Participant -> Int], Total(d) = 0,
           \/ \A q \in Participant : w[q] = v[q]
           \/ \A q \in Participant : w[q] = v[q] + d[q]
           \/ \A q \in Participant : v[q] = w[q] + d[q]
    PROVE  Total(w) = Total(v)
<1>1. Total(v) \in Int /\ Total(w) \in Int
  BY SumType, ParticipantsFinite DEF Total
<1>2. CASE \A q \in Participant : w[q] = v[q]
  <2>1. w = v
    BY <1>2
  <2> QED
    BY <2>1
<1>3. CASE \A q \in Participant : w[q] = v[q] + d[q]
  <2>1. Total(w) = Total(v) + Total(d)
    BY <1>3, SumAdd, ParticipantsFinite DEF Total
  <2> QED
    BY <1>1, <2>1
<1>4. CASE \A q \in Participant : v[q] = w[q] + d[q]
  <2>1. Total(v) = Total(w) + Total(d)
    BY <1>4, SumAdd, ParticipantsFinite DEF Total
  <2> QED
    BY <1>1, <2>1
<1> QED
  BY <1>2, <1>3, <1>4

LEMMA HandledTotal ==
    ASSUME MoneyInv, AgreeInv', NEW p \in Participant, queue[p] # <<>>, Handled(p)
    PROVE  Total(Worth(disk', fate')) = Total(Worth(disk, fate))
<1> DEFINE K == {"none", "YES", "NO", "COMMIT", "ABORT"}
           g == coord.g
           d == coord.deltas
<1>1. /\ AgreeInv /\ Held /\ TypeOK /\ TypeOK'
      /\ g \in Tx /\ fate \in [Tx -> [Participant -> K]] /\ fate' \in [Tx -> [Participant -> K]]
      /\ d \in [Participant -> Int] /\ coord.pc # "idle" /\ coord.at = p /\ Total(d) = 0
  <2>1. AgreeInv /\ Held /\ coord.pc # "idle" /\ coord.at = p
    BY HandledAgree DEF MoneyInv
  <2>2. /\ TypeOK /\ TypeOK' /\ g \in Tx
    BY <2>1 DEF AgreeInv, WaitInv, TypeInv
  <2>3. Total(d) = 0
    BY <2>1 DEF Held
  <2> QED
    BY <2>1, <2>2, <2>3 DEF TypeOK, Coordinator, Delta
<1>2. PICK v \in [Participant -> Int], w \in [Participant -> Int] :
         /\ v = Worth(disk, fate) /\ \A q \in Participant : v[q] = disk[q].balance + Owed(disk, fate, q)
         /\ w = Worth(disk', fate') /\ \A q \in Participant : w[q] = disk'[q].balance + Owed(disk', fate', q)
  <2>1. disk \in [Participant -> Account] /\ disk' \in [Participant -> Account]
    BY <1>1 DEF TypeOK
  <2> QED
    BY <2>1, WorthType
<1> SUFFICES Total(w) = Total(v)
  BY <1>2
<1>3. \A q \in Participant :
         /\ disk[q].balance \in Int /\ disk'[q].balance \in Int
         /\ disk[q].prepared # Nobody => disk[q].prepared.g \in Tx
  <2>1. Promised /\ account = disk
    BY <1>1 DEF AgreeInv
  <2> QED
    BY <1>1, <2>1 DEF TypeOK, Account, Promised
<1>4. \A q \in Participant :
         /\ disk[q].prepared = Nobody => Owed(disk, fate, q) = 0
         /\ disk[q].prepared # Nobody =>
               Owed(disk, fate, q) = IF Decided(fate, disk[q].prepared.g) THEN disk[q].prepared.delta ELSE 0
         /\ disk'[q].prepared = Nobody => Owed(disk', fate', q) = 0
         /\ disk'[q].prepared # Nobody =>
               Owed(disk', fate', q) = IF Decided(fate', disk'[q].prepared.g) THEN disk'[q].prepared.delta ELSE 0
  BY DEF Owed
<1>5. \A q \in Participant : q # p => disk'[q] = disk[q]
  BY HandledMoney
<1>6. \A f \in Tx, q \in Participant : f # g \/ q # p => fate'[f][q] = fate[f][q]
  BY HandledAgree DEF MoneyInv
<1>7. \A f \in Tx : f # g => (Decided(fate', f) <=> Decided(fate, f))
  BY <1>6 DEF Decided
\* Another participant's worth changes only if the current transfer becomes
\* decided, or ceases to be.
<1>8. \A q \in Participant :
         q # p /\ (disk[q].prepared.g # g \/ (Decided(fate', g) <=> Decided(fate, g)))
             => Owed(disk', fate', q) = Owed(disk, fate, q)
  BY <1>3, <1>4, <1>5, <1>7
\* Decided, and kept by nobody: all hold their parts.
<1>9. ASSUME Decided(fate, g), \A q \in Participant : fate[g][q] # "COMMIT", NEW q \in Participant
      PROVE  Owed(disk, fate, q) = d[q] /\ disk[q].prepared.g = g
  <2>1. fate[g][q] = "YES"
    BY <1>9 DEF Decided
  <2>2. disk[q].prepared # Nobody /\ disk[q].prepared.g = g /\ disk[q].prepared.delta = d[q]
    BY <1>1, <2>1 DEF Held
  <2> QED
    BY <1>4, <1>9, <2>2
<1>10. ASSUME Decided(fate', g), \A q \in Participant : fate'[g][q] # "COMMIT", NEW q \in Participant
       PROVE  Owed(disk', fate', q) = d[q] /\ disk'[q].prepared # Nobody /\ disk'[q].prepared.g = g
  <2>1. fate'[g][q] = "YES"
    BY <1>10 DEF Decided
  <2>2. disk'[q].prepared # Nobody /\ disk'[q].prepared.g = g
    BY <1>1, <2>1, HandledHeld
  <2>3. disk'[q].prepared.delta = d[q]
    BY <2>2, HandledHeld
  <2> QED
    BY <1>4, <1>10, <2>2, <2>3
<1> DEFINE Same == \A q \in Participant : w[q] = v[q]
           Added == \A q \in Participant : w[q] = v[q] + d[q]
           Taken == \A q \in Participant : v[q] = w[q] + d[q]
<1>11. CASE /\ coord.pc = "PREPARE" /\ fate[g][p] = "none"
            /\ disk[p].prepared = Nobody /\ disk'[p].prepared # Nobody
            /\ disk'[p].prepared.g = g
            /\ disk'[p].balance = disk[p].balance
            /\ fate' = [fate EXCEPT ![g][p] = "YES"]
  <2>1. ~Decided(fate, g)
    BY <1>11 DEF Decided
  <2>2. \A q \in Participant : fate'[g][q] # "COMMIT"
    <3>1. \A q \in Participant : fate[g][q] # "COMMIT"
      BY <1>1, <1>11 DEF AgreeInv, Progress
    <3> QED
      BY <1>1, <1>11, <3>1
  <2>3. ASSUME Decided(fate', g) PROVE Added
    <3>1. \A q \in Participant : Owed(disk', fate', q) = d[q]
      BY <1>10, <2>2, <2>3
    <3>2. \A q \in Participant : q # p => disk[q].prepared # Nobody /\ disk[q].prepared.g = g
      BY <1>5, <1>10, <2>2, <2>3
    <3>3. \A q \in Participant : Owed(disk, fate, q) = 0
      BY <1>4, <1>11, <2>1, <3>2
    <3>4. \A q \in Participant : disk'[q].balance = disk[q].balance
      BY <1>5, <1>11
    <3>5. \A q \in Participant : w[q] = disk[q].balance + d[q] /\ v[q] = disk[q].balance + 0
      BY <1>2, <3>1, <3>3, <3>4
    <3> QED
      BY <1>3, <3>5
  <2>4. ASSUME ~Decided(fate', g) PROVE Same
    <3>1. \A q \in Participant : q # p => Owed(disk', fate', q) = Owed(disk, fate, q)
      BY <1>8, <2>1, <2>4
    <3>2. Owed(disk', fate', p) = 0 /\ Owed(disk, fate, p) = 0
      BY <1>4, <1>11, <2>4
    <3>3. w[p] = v[p]
      <4>1. w[p] = disk[p].balance + 0 /\ v[p] = disk[p].balance + 0
        BY <1>2, <1>11, <3>2
      <4> QED
        BY <4>1
    <3> QED
      BY <1>2, <1>5, <3>1, <3>3
  <2>5. Same \/ Added
    BY <2>3, <2>4
  <2> QED
    BY <1>1, <1>2, <2>5, Shift
<1>12. CASE /\ coord.pc = "PREPARE" /\ fate[g][p] = "none"
            /\ disk'[p] = disk[p] /\ fate' = [fate EXCEPT ![g][p] = "NO"]
  <2>1. fate'[g][p] = "NO"
    BY <1>1, <1>12
  <2>2. ~Decided(fate, g) /\ ~Decided(fate', g)
    BY <1>12, <2>1 DEF Decided
  <2>3. \A q \in Participant : Owed(disk', fate', q) = Owed(disk, fate, q)
    <3>1. Owed(disk', fate', p) = Owed(disk, fate, p)
      BY <1>3, <1>4, <1>7, <1>12, <2>2
    <3> QED
      BY <1>8, <2>2, <3>1
  <2>4. Same
    BY <1>2, <1>5, <1>12, <2>3
  <2> QED
    BY <1>1, <1>2, <2>4, Shift
<1>13. ASSUME coord.pc \in {"COMMIT", "ABORT"}, fate[g][p] = "YES"
       PROVE  disk[p].prepared # Nobody /\ disk[p].prepared.g = g /\ disk[p].prepared.delta = d[p]
  BY <1>1, <1>13 DEF Held
<1>14. CASE /\ coord.pc = "COMMIT" /\ fate[g][p] = "YES"
            /\ disk'[p].prepared = Nobody /\ disk'[p].balance = disk[p].balance + d[p]
            /\ fate' = [fate EXCEPT ![g][p] = "COMMIT"]
  <2>1. Decided(fate, g)
    BY <1>1, <1>14 DEF AgreeInv, Progress, Decided
  <2>2. Decided(fate', g)
    <3>1. fate'[g][p] = "COMMIT"
      BY <1>1, <1>14
    <3> QED
      BY <1>1, <1>6, <2>1, <3>1 DEF Decided
  <2>3. \A q \in Participant : q # p => Owed(disk', fate', q) = Owed(disk, fate, q)
    BY <1>8, <2>1, <2>2
  <2>4. Owed(disk, fate, p) = d[p] /\ Owed(disk', fate', p) = 0
    BY <1>4, <1>13, <1>14, <2>1
  <2>5. Same
    <3>1. w[p] = v[p]
      <4>1. w[p] = (disk[p].balance + d[p]) + 0 /\ v[p] = disk[p].balance + d[p]
        BY <1>2, <1>14, <2>4
      <4> QED
        BY <1>1, <1>3, <4>1
    <3> QED
      BY <1>2, <1>5, <2>3, <3>1
  <2> QED
    BY <1>1, <1>2, <2>5, Shift
<1>15. CASE /\ coord.pc = "ABORT" /\ fate[g][p] = "YES"
            /\ disk'[p].prepared = Nobody /\ disk'[p].balance = disk[p].balance
            /\ fate' = [fate EXCEPT ![g][p] = "ABORT"]
  <2>1. ~Decided(fate', g)
    <3>1. fate'[g][p] = "ABORT"
      BY <1>1, <1>15
    <3> QED
      BY <3>1 DEF Decided
  <2>2. \A q \in Participant : fate[g][q] # "COMMIT"
    BY <1>1, <1>15 DEF AgreeInv, Progress
  <2>3. Owed(disk', fate', p) = 0
    BY <1>4, <1>15
  <2>4. ASSUME Decided(fate, g) PROVE Taken
    <3>1. \A q \in Participant : Owed(disk, fate, q) = d[q] /\ disk[q].prepared.g = g
      BY <1>9, <2>2, <2>4
    <3>2. \A q \in Participant : Owed(disk', fate', q) = 0
      BY <1>4, <1>5, <2>1, <2>3, <3>1
    <3>3. \A q \in Participant : disk'[q].balance = disk[q].balance
      BY <1>5, <1>15
    <3>4. \A q \in Participant : v[q] = disk[q].balance + d[q] /\ w[q] = disk[q].balance + 0
      BY <1>2, <3>1, <3>2, <3>3
    <3> QED
      BY <1>3, <3>4
  <2>5. ASSUME ~Decided(fate, g) PROVE Same
    <3>1. \A q \in Participant : q # p => Owed(disk', fate', q) = Owed(disk, fate, q)
      BY <1>8, <2>1, <2>5
    <3>2. Owed(disk, fate, p) = 0
      BY <1>4, <1>13, <1>15, <2>5
    <3>3. w[p] = v[p]
      BY <1>2, <1>15, <2>3, <3>2
    <3> QED
      BY <1>2, <1>5, <3>1, <3>3
  <2>6. Same \/ Taken
    BY <2>4, <2>5
  <2> QED
    BY <1>1, <1>2, <2>6, Shift
<1>16. CASE disk'[p] = disk[p] /\ fate' = fate
  <2>1. \A f \in Tx : Decided(fate', f) <=> Decided(fate, f)
    BY <1>16 DEF Decided
  <2>2. \A q \in Participant : disk'[q] = disk[q]
    BY <1>5, <1>16
  <2>3. \A q \in Participant : Owed(disk', fate', q) = Owed(disk, fate, q)
    BY <1>3, <1>4, <2>1, <2>2
  <2>4. Same
    BY <1>2, <2>2, <2>3
  <2> QED
    BY <1>1, <1>2, <2>4, Shift
<1>17. disk[p].balance + (IF coord.pc = "COMMIT" THEN d[p] ELSE 0)
          = IF coord.pc = "COMMIT" THEN disk[p].balance + d[p] ELSE disk[p].balance
  BY <1>3
<1> QED
  BY <1>11, <1>12, <1>14, <1>15, <1>16, <1>17, HandledMoney

\* The call goes on to the next participant, or to the verdict, or is over.
LEMMA HeldAtEnd ==
    ASSUME MoneyInv, AgreeInv', coord.pc # "idle",
           NEW yes \in BOOLEAN, coord' = Answered(coord, yes),
           \A q \in Participant, g \in Tx :
              fate'[g][q] = "YES" => disk'[q].prepared # Nobody /\ disk'[q].prepared.g = g,
           \A q \in Participant :
              disk'[q].prepared # Nobody /\ disk'[q].prepared.g = coord.g
                  => disk'[q].prepared.delta = coord.deltas[q]
    PROVE  Held'
<1>1. coord \in Coordinator /\ Held
  BY DEF MoneyInv, AgreeInv, WaitInv, TypeInv, TypeOK
<1>2. CallOver(coord, coord', yes)
  BY <1>1, AnsweredFields
<1>3. /\ coord'.waiting = FALSE
      /\ coord'.pc # "idle" => coord'.g = coord.g /\ coord'.deltas = coord.deltas
  BY <1>2 DEF CallOver
<1>4. \A q \in Participant : queue'[q] = <<>>
  <2>1. Queued'
    BY DEF AgreeInv
  <2> QED
    BY <1>3, <2>1 DEF Queued
<1>5. Total(coord.deltas) = 0
  BY <1>1 DEF Held
<1>6. coord'.pc # "idle" => Total(coord'.deltas) = 0
  BY <1>3, <1>5
<1> QED
  BY <1>3, <1>4, <1>6 DEF Held

\* The transfers that are submitted conserve money.
Conserving == \A d \in Transfers \cup CrashTransfers : SumsToZero(d)

LEMMA NextMoney == Conserving /\ MoneyInv /\ [Next]_vars => MoneyInv'
<1> SUFFICES ASSUME Conserving, MoneyInv, [Next]_vars PROVE MoneyInv'
  OBVIOUS
<1>0. /\ AgreeInv /\ AgreeInv' /\ Held /\ TypeInv /\ WaitInv /\ Queued
      /\ coord \in Coordinator /\ queue \in [Participant -> Seq(Call)]
      /\ Total(Worth(disk, fate)) = 100 * N
  <2>1. AgreeInv /\ AgreeInv' /\ Held /\ Total(Worth(disk, fate)) = 100 * N
    BY NextAgree DEF MoneyInv
  <2> QED
    BY <2>1 DEF AgreeInv, WaitInv, TypeInv, TypeOK
<1> SUFFICES Held' /\ Total(Worth(disk', fate')) = Total(Worth(disk, fate))
  BY <1>0 DEF MoneyInv
<1>1. /\ \A q \in Participant, g \in Tx :
            fate[g][q] = "YES" => disk[q].prepared # Nobody /\ disk[q].prepared.g = g
      /\ coord.pc # "idle" => \A q \in Participant :
            disk[q].prepared # Nobody /\ disk[q].prepared.g = coord.g
                => disk[q].prepared.delta = coord.deltas[q]
      /\ coord.pc # "idle" => \A q \in Participant :
            queue[q] # <<>> => Head(queue[q]).delta = coord.deltas[q]
      /\ coord.pc # "idle" => Total(coord.deltas) = 0
  BY <1>0 DEF Held
\* A step that touches neither the files nor the current transfer.
<1>2. ASSUME disk' = disk, fate' = fate, coord' = coord,
             \A q \in Participant : queue'[q] = queue[q] \/ queue'[q] = <<>>
      PROVE  Held' /\ Total(Worth(disk', fate')) = Total(Worth(disk, fate))
  BY <1>1, <1>2 DEF Held
<1>3. ASSUME NEW d \in Transfers \cup CrashTransfers, NEW hook \in BOOLEAN, Submit(d, hook)
      PROVE  Held' /\ Total(Worth(disk', fate')) = Total(Worth(disk, fate))
  <2>1. disk' = disk /\ fate' = fate /\ queue' = queue /\ coord.pc = "idle"
    BY <1>3 DEF Submit
  <2>2. coord'.g = submitted + 1 /\ coord'.deltas = d
    BY <1>0, <1>3 DEF Submit, Coordinator
  <2>3. \A q \in Participant : queue[q] = <<>>
    BY <1>0, <2>1 DEF WaitInv, Queued
  <2>4. Total(d) = 0
    BY TransferAssumption, FoldIsTotal DEF Conserving, SumsToZero
  <2>5. ASSUME NEW q \in Participant, disk[q].prepared # Nobody PROVE disk[q].prepared.g # submitted + 1
    <3>1. disk[q].prepared.g \in Tx /\ fate[disk[q].prepared.g][q] = "YES"
      BY <1>0, <2>5 DEF AgreeInv, Promised
    <3>2. submitted \in Nat /\ Tx \subseteq Nat
      BY <1>0, BoundAssumption DEF TypeInv, TypeOK, Tx
    <3> QED
      BY <1>0, <3>1, <3>2 DEF AgreeInv, Untouched
  <2>6. Held'
    BY <1>1, <2>1, <2>2, <2>3, <2>4, <2>5 DEF Held
  <2> QED
    BY <2>1, <2>6
<1>4. ASSUME Send PROVE Held' /\ Total(Worth(disk', fate')) = Total(Worth(disk, fate))
  <2> DEFINE p == coord.at
             m == [kind |-> coord.pc, tx |-> coord.tx, g |-> coord.g, delta |-> coord.deltas[p]]
  <2>1. /\ disk' = disk /\ fate' = fate /\ coord.pc # "idle" /\ ~coord.waiting
        /\ queue' = [queue EXCEPT ![p] = Append(queue[p], m)]
    BY <1>4 DEF Send
  <2>2. coord'.g = coord.g /\ coord'.deltas = coord.deltas /\ coord'.pc = coord.pc
    BY <1>0, <1>4 DEF Send, Coordinator
  <2>3. \A q \in Participant : queue[q] = <<>>
    BY <1>0, <2>1 DEF Queued
  <2>4. p \in Participant
    BY <1>0 DEF Coordinator
  <2>5. m.delta = coord.deltas[p]
    OBVIOUS
  <2> HIDE DEF m
  <2>6. queue'[p] = Append(<<>>, m) /\ \A q \in Participant : q # p => queue'[q] = <<>>
    BY <1>0, <2>1, <2>3, <2>4
  <2>7. Head(queue'[p]).delta = coord.deltas[p]
    <3>1. Head(Append(<<>>, m)) = m
      OBVIOUS
    <3> QED
      BY <2>5, <2>6, <3>1
  <2>8. Held'
    BY <1>1, <2>1, <2>2, <2>6, <2>7 DEF Held
  <2> QED
    BY <2>1, <2>8
<1>5. ASSUME Refused PROVE Held' /\ Total(Worth(disk', fate')) = Total(Worth(disk, fate))
  <2>1. disk' = disk /\ fate' = fate /\ coord.pc # "idle" /\ coord' = Answered(coord, FALSE)
    BY <1>5 DEF Refused
  <2>2. Held'
    BY <1>0, <1>1, <2>1, HeldAtEnd
  <2> QED
    BY <2>1, <2>2
<1>6. ASSUME NEW p \in Participant, queue[p] # <<>>, Handled(p),
             NEW yes \in BOOLEAN, coord' = Answered(coord, yes)
      PROVE  Held' /\ Total(Worth(disk', fate')) = Total(Worth(disk, fate))
  <2>1. coord.pc # "idle"
    BY <1>0, <1>6, HandledAgree
  <2>2. /\ \A q \in Participant, g \in Tx :
              fate'[g][q] = "YES" => disk'[q].prepared # Nobody /\ disk'[q].prepared.g = g
        /\ \A q \in Participant :
              disk'[q].prepared # Nobody /\ disk'[q].prepared.g = coord.g
                  => disk'[q].prepared.delta = coord.deltas[q]
    BY <1>0, <1>6, HandledHeld
  <2>3. Held'
    BY <1>0, <1>6, <2>1, <2>2, HeldAtEnd
  <2> QED
    BY <1>0, <1>6, <2>3, HandledTotal
<1>7. ASSUME NEW p \in Participant, Serve(p)
      PROVE  Held' /\ Total(Worth(disk', fate')) = Total(Worth(disk, fate))
  <2>1. queue[p] # <<>> /\ Handled(p)
    BY <1>7 DEF Serve
  <2>2. Live(p)
    BY <1>0, <2>1, HandledAgree DEF Live
  <2>3. coord' = Answered(coord, CanPromise(account[p], Head(queue[p])))
    BY <1>7, <2>2 DEF Serve
  <2>4. CanPromise(account[p], Head(queue[p])) \in BOOLEAN
    BY DEF CanPromise
  <2> QED
    BY <1>6, <2>1, <2>3, <2>4
<1>8. ASSUME NEW p \in Participant, DieBeforeReply(p)
      PROVE  Held' /\ Total(Worth(disk', fate')) = Total(Worth(disk, fate))
  <2>1. queue[p] # <<>> /\ Handled(p)
    BY <1>8 DEF DieBeforeReply
  <2>2. coord.waiting /\ coord.at = p
    BY <1>0, <2>1, HandledAgree
  <2>3. coord' = Answered(coord, FALSE)
    BY <1>8, <2>2 DEF DieBeforeReply, Gone
  <2> QED
    BY <1>6, <2>1, <2>3
<1>9. ASSUME NEW p \in Participant, Die(p)
      PROVE  Held' /\ Total(Worth(disk', fate')) = Total(Worth(disk, fate))
  <2>1. disk' = disk /\ fate' = fate /\ Gone(p)
    BY <1>9 DEF Die
  <2>2. CASE coord.waiting /\ coord.at = p
    <3>1. coord' = Answered(coord, FALSE) /\ coord.pc # "idle"
      BY <1>0, <2>1, <2>2 DEF Gone, WaitInv
    <3>2. Held'
      BY <1>0, <1>1, <2>1, <3>1, HeldAtEnd
    <3> QED
      BY <2>1, <3>2
  <2>3. CASE ~(coord.waiting /\ coord.at = p)
    <3>1. coord' = coord /\ queue' = [queue EXCEPT ![p] = <<>>]
      BY <2>1, <2>3 DEF Gone
    <3>2. \A q \in Participant : queue'[q] = queue[q] \/ queue'[q] = <<>>
      BY <1>0, <3>1
    <3> QED
      BY <1>2, <2>1, <3>1, <3>2
  <2> QED
    BY <2>2, <2>3
<1>10. ASSUME NEW p \in Participant, Start(p)
       PROVE  Held' /\ Total(Worth(disk', fate')) = Total(Worth(disk, fate))
  BY <1>2, <1>10 DEF Start
<1>11. ASSUME CoordinatorRestarts
       PROVE  Held' /\ Total(Worth(disk', fate')) = Total(Worth(disk, fate))
  <2>1. coord'.pc = "idle" /\ disk' = disk /\ fate' = fate
    BY <1>11, IdleType DEF CoordinatorRestarts
  <2>2. Held'
    BY <1>1, <2>1 DEF Held
  <2> QED
    BY <2>1, <2>2
<1>12. CASE UNCHANGED vars
  BY <1>2, <1>12 DEF vars
<1> QED
  BY <1>3, <1>4, <1>5, <1>7, <1>8, <1>9, <1>10, <1>11, <1>12 DEF Next

LEMMA MoneyInit == MaxCoordinators = 0 /\ Init => MoneyInv
<1> SUFFICES ASSUME MaxCoordinators = 0, Init PROVE MoneyInv
  OBVIOUS
<1>1. AgreeInv
  BY AgreeInit
<1>2. coord.pc = "idle"
  BY IdleType DEF Init
<1>3. Held
  BY <1>2 DEF Held, Init
<1>4. disk \in [Participant -> Account]
  BY <1>1 DEF AgreeInv, WaitInv, TypeInv, TypeOK
<1>5. \A q \in Participant : disk[q].prepared = Nobody /\ disk[q].balance = 100
  BY DEF Init, Fresh
<1>6. \A q \in Participant : Worth(disk, fate)[q] = 100
  BY <1>4, <1>5, WorthType DEF Owed
<1>7. Worth(disk, fate) \in [Participant -> Int]
  BY <1>4, WorthType
<1>8. Total(Worth(disk, fate)) = 100 * N
  BY <1>6, <1>7, SumOfSame, ParticipantsFinite DEF Total
<1> QED
  BY <1>1, <1>3, <1>8 DEF MoneyInv

\* Whatever participants die, and at whatever point: if every transfer sums to
\* zero, then whenever nobody is in doubt the accounts hold, together, the
\* money of the beginning.
THEOREM MoneyConserved ==
    ASSUME MaxCoordinators = 0, Conserving
    PROVE  Spec => []Conserved
<1>1. Init => MoneyInv
  BY MoneyInit
<1>2. MoneyInv /\ [Next]_vars => MoneyInv'
  BY NextMoney
<1>3. MoneyInv => Conserved
  <2> SUFFICES ASSUME MoneyInv, \A q \in Participant : disk[q].prepared = Nobody
               PROVE  FoldFunction(LAMBDA a, sum : a.balance + sum, 0, disk) = 100 * N
    BY DEF Conserved
  <2>1. disk \in [Participant -> Account] /\ Total(Worth(disk, fate)) = 100 * N
    BY DEF MoneyInv, AgreeInv, WaitInv, TypeInv, TypeOK
  <2> DEFINE balances == [q \in Participant |-> disk[q].balance]
  <2>2. \A q \in Participant : disk[q].balance \in Int /\ Worth(disk, fate)[q] = disk[q].balance + 0
    BY <2>1, WorthType DEF Owed, Account
  <2>3. \A q \in Participant : Worth(disk, fate)[q] = balances[q]
    BY <2>2
  <2>4. Worth(disk, fate) = balances
    BY <2>3 DEF Worth
  <2>5. FoldFunction(LAMBDA a, sum : a.balance + sum, 0, disk) = Total(balances)
    BY <2>1, FoldOfDisk
  <2> QED
    BY <2>1, <2>4, <2>5
<1> QED
  BY <1>1, <1>2, <1>3, PTL DEF Spec
=============================================================================
