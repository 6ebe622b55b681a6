----------------------------- MODULE TreiberStack -----------------------------
(***************************************************************************)
(* The lock-free stack of 03 (treiber.rs): a list of nodes below one       *)
(* atomic pointer, changed by compare-and-exchange only.  Nodes are never  *)
(* freed, so no address is used twice and what a thread has seen of a node *)
(* stays true.                                                             *)
(***************************************************************************)
EXTENDS Naturals, Sequences, FiniteSets

CONSTANTS Thread,
          Program,     \* Program[t]: the operations t calls, "push" or "pop"
          Null, None

VARIABLES top,
          cell,     \* cell[a]: value and next of the node at address a
          boxed,    \* the addresses Box::into_raw has returned so far
          at,       \* at[t]: what t does next in its operation, and its locals
          returned  \* returned[t]: what the operations of t returned so far

vars == <<top, cell, boxed, at, returned>>

-----------------------------------------------------------------------------

(* An address for every push there is. *)
Address == UNION {{t} \X {i \in DOMAIN Program[t] : Program[t][i] = "push"} : t \in Thread}

ProgramsFit ==
    /\ Program \in [Thread -> Seq({"push", "pop"})]
    /\ IsFiniteSet(Address)
    /\ Null \notin Address

NoLocals == [pc |-> "call", node |-> Null, seen |-> Null, next |-> Null]

Init ==
    /\ top = Null
    /\ cell = [a \in Address |-> [value |-> None, next |-> Null]]
    /\ boxed = {}
    /\ at = [t \in Thread |-> NoLocals]
    /\ returned = [t \in Thread |-> <<>>]

Calls(t, op) ==
    /\ at[t].pc = "call"
    /\ Len(returned[t]) < Len(Program[t])
    /\ Program[t][Len(returned[t]) + 1] = op

Return(t, r) ==
    /\ returned' = [returned EXCEPT ![t] = Append(@, r)]
    /\ at' = [at EXCEPT ![t] = NoLocals]

(* For the mutant below: the addresses on the stack. *)
Linked ==
    LET next[k \in 0 .. Cardinality(Address)] ==
            IF k = 0 THEN top ELSE IF next[k - 1] = Null THEN Null ELSE cell[next[k - 1]].next
    IN  {next[k] : k \in DOMAIN next}

(* Mutant: a node is freed when it was popped, and its address used again. *)
Freed == Address \ (Linked \union {at[t].node : t \in Thread})

(* The allocator returns an address that is not in use. *)
Unused == Address \ boxed

Box(t) ==
    /\ Calls(t, "push")
    /\ LET a == CHOOSE a \in Unused : TRUE
       IN  /\ cell' = [cell EXCEPT ![a] = [value |-> <<t, Len(returned[t]) + 1>>, next |-> Null]]
           /\ boxed' = boxed \union {a}
           /\ at' = [at EXCEPT ![t] = [NoLocals EXCEPT !.pc = "load", !.node = a]]
    /\ UNCHANGED <<top, returned>>

(* The new node is not yet shared: the load and the link are one step. *)
PushLoad(t) ==
    /\ at[t].pc = "load"
    /\ at[t].node # Null
    /\ at' = [at EXCEPT ![t].pc = "swap", ![t].seen = top]
    /\ cell' = [cell EXCEPT ![at[t].node].next = top]
    /\ UNCHANGED <<top, boxed, returned>>

PushSwap(t) ==
    /\ at[t].pc = "swap"
    /\ at[t].node # Null
    /\ IF top = at[t].seen
       THEN /\ top' = at[t].node
            /\ Return(t, None)
       ELSE /\ at' = [at EXCEPT ![t].pc = "load"]
            /\ UNCHANGED <<top, returned>>
    /\ UNCHANGED <<cell, boxed>>

PopLoad(t) ==
    /\ \/ Calls(t, "pop")
       \/ at[t].pc = "load" /\ at[t].node = Null
    /\ IF top = Null
       THEN Return(t, None)
       ELSE /\ at' = [at EXCEPT ![t].pc = "next", ![t].seen = top]
            /\ UNCHANGED returned
    /\ UNCHANGED <<top, cell, boxed>>

(* The node is read while a rival may pop it. *)
PopNext(t) ==
    /\ at[t].pc = "next"
    /\ at' = [at EXCEPT ![t].pc = "swap", ![t].next = cell[at[t].seen].next]
    /\ UNCHANGED <<top, cell, boxed, returned>>

PopSwap(t) ==
    /\ at[t].pc = "swap"
    /\ at[t].node = Null
    /\ IF top = at[t].seen
       THEN /\ top' = at[t].next
            /\ at' = [at EXCEPT ![t].pc = "won"]
       ELSE /\ at' = [at EXCEPT ![t].pc = "load"]
            /\ UNCHANGED top
    /\ UNCHANGED <<cell, boxed, returned>>

PopValue(t) ==
    /\ at[t].pc = "won"
    /\ Return(t, cell[at[t].seen].value)
    /\ UNCHANGED <<top, cell, boxed>>

Next ==
    \E t \in Thread :
        \/ Box(t) \/ PushLoad(t) \/ PushSwap(t)
        \/ PopLoad(t) \/ PopNext(t) \/ PopSwap(t) \/ PopValue(t)

Spec == Init /\ [][Next]_vars

-----------------------------------------------------------------------------

(* The values from the node at a downwards, not more than n. *)
From(a, n) ==
    LET below[k \in 0 .. n] ==   \* the k-th address from a
            IF k = 0 THEN a
            ELSE IF below[k - 1] = Null THEN Null ELSE cell[below[k - 1]].next
        depth == Cardinality({k \in 0 .. n : below[k] # Null})
    IN  [k \in 1 .. depth |-> cell[below[k - 1]].value]

(* Every operation takes effect at once, between its call and its return:   *)
(* at the exchange it wins, a pop of nothing at its load.  No push is lost, *)
(* no value popped twice, whatever happens between the load of a pop and    *)
(* its exchange.                                                           *)
Abstract == INSTANCE AtomicStack WITH
    contents <- From(top, Cardinality(Address)),
    outcome  <- [t \in Thread |->
                    IF at[t].pc = "won" THEN Append(returned[t], cell[at[t].seen].value)
                    ELSE returned[t]]

AbstractStep == [Abstract!Next]_(Abstract!vars)

ImplementsStack == Abstract!Spec

=============================================================================
