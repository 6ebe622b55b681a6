------------------------------- MODULE Semaphore -------------------------------
(***************************************************************************)
(* The counting semaphore of 03 (lib.rs): a mutex, a condition variable    *)
(* and a loop.  Each operation is the critical sections of acquire() and   *)
(* release(); a thread that calls acquire() goes through Acquire, or       *)
(* through Sleep and, once it is awake, tries again.                       *)
(***************************************************************************)
EXTENDS Naturals

CONSTANTS Permits

VARIABLES permits,
          asleep   \* the threads in available.wait()

SemaphoreInit == permits = Permits /\ asleep = {}

Acquire(t) ==
    /\ t \notin asleep
    /\ permits > 0
    /\ permits' = permits - 1
    /\ UNCHANGED asleep

Sleep(t) ==
    /\ t \notin asleep
    /\ permits = 0
    /\ asleep' = asleep \union {t}
    /\ UNCHANGED permits

(* notify_one wakes any one of the sleepers, who then has to compete with   *)
(* the others for the mutex and the permit.                                *)
Release ==
    /\ permits' = permits + 1
    /\ IF asleep = {} THEN UNCHANGED asleep
       ELSE \E t \in asleep : asleep' = asleep \ {t}

(* A condition variable may wake a thread for no reason. *)
SpuriousWake(t) ==
    /\ t \in asleep
    /\ asleep' = asleep \ {t}
    /\ UNCHANGED permits

=============================================================================
