----------------------------- MODULE BoundedBuffer -----------------------------
(***************************************************************************)
(* The bounded buffer of 03 (bounded_buffer.rs): a queue behind a mutex,   *)
(* a condition variable for the producers and one for the consumers.       *)
(* main runs one thread of each kind; put and get are for any number.      *)
(***************************************************************************)
EXTENDS Naturals, Sequences

CONSTANTS Producer, Consumer,
          Capacity,
          Turns       \* Turns[t]: how often t calls put or get

VARIABLES queue,      \* who put what is in the buffer, oldest first
          not_full,   \* the producers that wait on this condition variable
          not_empty,  \* the consumers that wait on this one
          turns       \* turns[t]: the calls t has returned from

vars == <<queue, not_full, not_empty, turns>>

Thread == Producer \union Consumer

-----------------------------------------------------------------------------

Init ==
    /\ queue = <<>>
    /\ not_full = {}
    /\ not_empty = {}
    /\ turns = [t \in Thread |-> 0]

Calls(t) == turns[t] < Turns[t] /\ t \notin not_full \union not_empty

(* wait() puts t to sleep and gives up the mutex. *)
PutWaits(t) ==
    /\ t \in Producer
    /\ Calls(t)
    /\ Len(queue) = Capacity
    /\ not_full' = not_full \union {t}
    /\ UNCHANGED <<queue, not_empty, turns>>

(* What notify_one may leave of the threads that wait. *)
AfterNotify(waiting) == IF waiting = {} THEN {{}} ELSE {waiting \ {t} : t \in waiting}

Put(t) ==
    /\ t \in Producer
    /\ Calls(t)
    /\ Len(queue) # Capacity
    /\ queue' = Append(queue, t)
    /\ not_empty' \in AfterNotify(not_empty)
    /\ turns' = [turns EXCEPT ![t] = @ + 1]
    /\ UNCHANGED not_full

GetWaits(t) ==
    /\ t \in Consumer
    /\ Calls(t)
    /\ queue = <<>>
    /\ not_empty' = not_empty \union {t}
    /\ UNCHANGED <<queue, not_full, turns>>

Get(t) ==
    /\ t \in Consumer
    /\ Calls(t)
    /\ queue # <<>>
    /\ queue' = Tail(queue)
    /\ not_full' \in AfterNotify(not_full)
    /\ turns' = [turns EXCEPT ![t] = @ + 1]
    /\ UNCHANGED not_empty

(* A condition variable may wake a thread for no reason. *)
SpuriousWake(t) ==
    /\ t \in not_full \union not_empty
    /\ not_full' = not_full \ {t}
    /\ not_empty' = not_empty \ {t}
    /\ UNCHANGED <<queue, turns>>

Step(t) == Put(t) \/ PutWaits(t) \/ Get(t) \/ GetWaits(t)

Next == \E t \in Thread : Step(t) \/ SpuriousWake(t)

Spec == Init /\ [][Next]_vars

FairSpec == Spec /\ \A t \in Thread : WF_vars(Step(t))

-----------------------------------------------------------------------------
(* Every call returns: nobody sleeps on while there is room, or an item,    *)
(* for him.                                                                *)
AllReturned == \A t \in Thread : turns[t] = Turns[t]

EverybodyFinishes == <>AllReturned

=============================================================================
