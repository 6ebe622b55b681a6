----------------------------- MODULE AtomicStack -----------------------------
(***************************************************************************)
(* A stack whose operations happen at once: what TreiberStack implements.  *)
(* The value a thread pushes is told by who pushes it, and as which of his *)
(* operations.                                                             *)
(***************************************************************************)
EXTENDS Naturals, Sequences

CONSTANTS Thread,
          Program,   \* Program[t]: the operations t calls, "push" or "pop"
          None

VARIABLES contents,  \* the values on the stack, the top first
          outcome    \* outcome[t]: what the operations of t returned so far

Init == contents = <<>> /\ outcome = [t \in Thread |-> <<>>]

\* The next operation of t.
Calls(t, op) ==
    /\ Len(outcome[t]) < Len(Program[t])
    /\ Program[t][Len(outcome[t]) + 1] = op

Returns(t, r) == outcome' = [outcome EXCEPT ![t] = Append(@, r)]

Value(t) == <<t, Len(outcome[t]) + 1>>

Push(t) ==
    /\ Calls(t, "push")
    /\ contents' = <<Value(t)>> \o contents
    /\ Returns(t, None)

Pop(t) ==
    /\ Calls(t, "pop")
    /\ contents # <<>>
    /\ contents' = Tail(contents)
    /\ Returns(t, Head(contents))

PopNothing(t) ==
    /\ Calls(t, "pop")
    /\ contents = <<>>
    /\ Returns(t, None)
    /\ UNCHANGED contents

Next == \E t \in Thread : Push(t) \/ Pop(t) \/ PopNothing(t)

vars == <<contents, outcome>>

Spec == Init /\ [][Next]_vars

=============================================================================
