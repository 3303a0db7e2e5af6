---------------------------- MODULE ThreadParker ----------------------------
(***************************************************************************)
(* ThreadParker (src/mutex/deadlock.rs): how one thread sleeps until       *)
(* another wakes it.  futex[t] is the word of t's parker, and asleep the   *)
(* set of threads the kernel holds in FUTEX_WAIT on their own word.  The   *)
(* operators are the effects of the parker's methods; the modules that     *)
(* use a parker conjoin them with their own state.                         *)
(*                                                                         *)
(* FUTEX_WAIT compares the word with 1 and goes to sleep in one step, so   *)
(* the load that guards the loop of park() needs no step of its own: when  *)
(* the word was cleared in between, the system call returns EAGAIN and     *)
(* the loop ends.                                                          *)
(***************************************************************************)
EXTENDS Naturals

CONSTANT Threads

VARIABLES futex,  \* futex[t]: 1 from prepare_park() to unpark_lock()
          asleep  \* the threads sleeping in the kernel

prepare_park(t) == futex' = [futex EXCEPT ![t] = 1]

timed_out(t) == futex[t] # 0

\* One turn of the loop of park(): the word is still 1, the thread sleeps.
futex_wait(t) == /\ t \notin asleep
                 /\ futex[t] = 1
                 /\ asleep' = asleep \cup {t}

\* FUTEX_WAIT returns without a wake: EINTR, or ETIMEDOUT in park_until().
Interrupt(t) == /\ t \in asleep
                /\ asleep' = asleep \ {t}

\* The loop of park() or park_until() finds the word cleared.
Unparked(t) == t \notin asleep /\ futex[t] = 0

unpark_lock(t) == futex' = [futex EXCEPT ![t] = 0]

\* FUTEX_WAKE.  It reads nothing of the parker, which may be gone by now
\* (EFAULT) or be the parker of a later sleep of the same thread.
unpark(t) == asleep' = asleep \ {t}
=============================================================================
