----------------------------- MODULE MutexSpec -----------------------------
(***************************************************************************)
(* What a set of mutexes promises its callers (the trait Mutexable,        *)
(* src/mutex/mod.rs): a thread asks for a mutex, gets it when nobody has   *)
(* it, and gives it up.  Giving it up may hand it straight to one of the   *)
(* threads that ask for it.  A thread may have several mutexes, and asks   *)
(* for one at a time.  Nothing is said about who gets a mutex next.        *)
(***************************************************************************)
CONSTANTS Threads, Mutexes

VARIABLES owners,  \* owners[m]: the threads that have m
          waiting  \* waiting[m]: the threads that asked for m

vars == <<owners, waiting>>

Init == /\ owners = [m \in Mutexes |-> {}]
        /\ waiting = [m \in Mutexes |-> {}]

\* t is not in a call.
Out(t) == \A m \in Mutexes : t \notin waiting[m]

\* A call of lock().
Ask(t, m) == /\ Out(t)
             /\ waiting' = [waiting EXCEPT ![m] = @ \cup {t}]
             /\ UNCHANGED owners

Acquire(t, m) == /\ t \in waiting[m]
                 /\ owners[m] = {}
                 /\ owners' = [owners EXCEPT ![m] = {t}]
                 /\ waiting' = [waiting EXCEPT ![m] = @ \ {t}]

\* The uncontended lock(): asked for and acquired in one step.
AskAcquire(t, m) == /\ Out(t)
                    /\ owners[m] = {}
                    /\ owners' = [owners EXCEPT ![m] = {t}]
                    /\ UNCHANGED waiting

Release(t, m) == /\ Out(t)
                 /\ owners[m] = {t}
                 /\ owners' = [owners EXCEPT ![m] = {}]
                 /\ UNCHANGED waiting

HandOff(t, u, m) == /\ Out(t)
                    /\ owners[m] = {t}
                    /\ u \in waiting[m]
                    /\ owners' = [owners EXCEPT ![m] = {u}]
                    /\ waiting' = [waiting EXCEPT ![m] = @ \ {u}]

Next == \E t \in Threads, m \in Mutexes :
          \/ Ask(t, m) \/ Acquire(t, m) \/ AskAcquire(t, m) \/ Release(t, m)
          \/ \E u \in Threads : HandOff(t, u, m)

Spec == Init /\ [][Next]_vars
=============================================================================
