------------------------------ MODULE RawMutex ------------------------------
(***************************************************************************)
(* Mootex = SmallMutex<RawMutex, T> (src/mutex/mod.rs and raw_mutex.rs) on *)
(* one bucket of the parking lot (park and unpark_one, deadlock.rs).  The  *)
(* mutexes of the model hash to the same bucket, so they share its lock    *)
(* and its queue of parked threads, and unpark_one has to look for its     *)
(* own key.  A step is one atomic access of `state`, or what a thread does *)
(* between two of them while it holds the bucket lock.                     *)
(***************************************************************************)
EXTENDS Naturals, Sequences, FiniteSets

CONSTANTS Threads,    \* the threads that use the mutexes
          Mutexes,    \* the mutexes: `self as *const _ as usize`, the park key
          NoThread,   \* nobody: a free bucket lock, no thread to unpark
          SpinLimit,  \* SpinWait gives up after this many spins (10 in the code)
          MaxHeld     \* bound: entries of a thread's `resources`, and guards a
                      \* thread has for one mutex

ASSUME NoThreadAssumption == NoThread \notin Threads
ASSUME SpinLimitAssumption == SpinLimit \in Nat

VARIABLES
  state,     \* state[m]: the AtomicU8 of m, as the set of the bits that are set
  bucket,    \* the thread that holds the bucket's WordLock, or NoThread
  queue,     \* the bucket's list of parked ThreadData, head first
  futex,     \* futex[t]: ThreadParker::futex of t is 1
  token,     \* token[t]: ThreadData::unpark_token of t
  held,      \* held[t][m]: how often t has m to give back, by the drop of a
             \* MutexGuard or, after try_lock, by force_unlock
  resources, \* resources[t]: the Vec DeadlockData::resources of t
  strayed,   \* history: the mutexes whose guard somebody mapped or sent away,
             \* or that somebody unlocked without having it to give back
  pc,        \* where each thread is; "idle" outside of any call
  key,       \* the mutex of the thread's current (or last) call
  seen,      \* lock_slow's local copy `state`
  spins,     \* lock_slow's SpinWait counter
  current    \* unpark_one's `current`: the thread to wake, or NoThread

vars == <<state, bucket, queue, futex, token, held, resources, strayed, pc, key,
          seen, spins, current>>

LOCKED_BIT == "LOCKED_BIT"
PARKED_BIT == "PARKED_BIT"
Bits == {LOCKED_BIT, PARKED_BIT}

TOKEN_NORMAL == "TOKEN_NORMAL"
TOKEN_HANDOFF == "TOKEN_HANDOFF"

Init == /\ state = [m \in Mutexes |-> {}]
        /\ bucket = NoThread
        /\ queue = <<>>
        /\ futex = [t \in Threads |-> FALSE]
        /\ token = [t \in Threads |-> TOKEN_NORMAL]
        /\ held = [t \in Threads |-> [m \in Mutexes |-> 0]]
        /\ resources = [t \in Threads |-> <<>>]
        /\ strayed = {}
        /\ pc = [t \in Threads |-> "idle"]
        /\ key \in [Threads -> Mutexes]
        /\ seen = [t \in Threads |-> {}]
        /\ spins = [t \in Threads |-> 0]
        /\ current = [t \in Threads |-> NoThread]

-----------------------------------------------------------------------------
(* Helpers *)

Goto(t, label) == pc' = [pc EXCEPT ![t] = label]

Reload(t) == seen' = [seen EXCEPT ![t] = state[key[t]]]

\* SpinWait::spin: counts up to the limit; TRUE while the limit is not reached.
CanSpinOnceMore(t) == spins[t] <= SpinLimit    \* fault: off by one
CanSpin(t) == spins[t] < SpinLimit
Spin(t) == spins' = [spins EXCEPT ![t] = IF CanSpin(t) THEN @ + 1 ELSE @]

\* deadlock::acquire_resource pushes the key on the thread's Vec.
acquire_resource(t, m) == resources' = [resources EXCEPT ![t] = Append(@, m)]

\* Where the key occurs in a Vec, and the Vec after swap_remove(p): the last
\* entry takes the place of the removed one.
Positions(s, m) == {i \in 1..Len(s) : s[i] = m}
swap_remove(s, p) == [i \in 1..(Len(s) - 1) |-> IF i = p THEN s[Len(s)] ELSE s[i]]

\* fault: the entry to go is taken to be the one pushed last
release_last(t, m) ==
  resources' = [resources EXCEPT ![t] = SubSeq(@, 1, Len(@) - 1)]

\* deadlock::release_resource looks for the key from the end (rposition), and
\* does nothing if it is not there.
release_resource(t, m) ==
  \/ /\ Positions(resources[t], m) = {}
     /\ UNCHANGED resources
  \/ \E p \in Positions(resources[t], m) :
       /\ \A q \in Positions(resources[t], m) : q <= p
       /\ resources' = [resources EXCEPT ![t] = swap_remove(@, p)]

Gain(t, m) == held' = [held EXCEPT ![t][m] = @ + 1]
GiveUp(t, m) == held[t][m] > 0 /\ held' = [held EXCEPT ![t][m] = @ - 1]

\* The bound on what a thread may start to acquire.
MayAcquire(t, m) == Len(resources[t]) < MaxHeld /\ held[t][m] < MaxHeld

\* lock() and lock_slow() return with the mutex: their locals are gone, and the
\* caller has a guard.
Acquired(t, m) == /\ acquire_resource(t, m)
                  /\ Gain(t, m)
                  /\ seen' = [seen EXCEPT ![t] = {}]
                  /\ spins' = [spins EXCEPT ![t] = 0]
                  /\ Goto(t, "idle")

lotVars == <<bucket, queue, futex, token, current>>
guardVars == <<held, resources, strayed>>

-----------------------------------------------------------------------------
(* lock *)

\* The fast path: compare_exchange_weak(0, LOCKED_BIT).
LockFast(t, m) == /\ pc[t] = "idle"
                  /\ MayAcquire(t, m)
                  /\ state[m] = {}
                  /\ state' = [state EXCEPT ![m] = {LOCKED_BIT}]
                  /\ key' = [key EXCEPT ![t] = m]
                  /\ Acquired(t, m)
                  /\ UNCHANGED <<lotVars, strayed>>

\* The fast path fails, because of the state or spuriously: lock_slow starts.
LockSlow(t, m) == /\ pc[t] = "idle"
                  /\ MayAcquire(t, m)
                  /\ key' = [key EXCEPT ![t] = m]
                  /\ Goto(t, "load")
                  /\ UNCHANGED <<state, lotVars, guardVars, seen, spins>>

Load(t) == /\ pc[t] = "load"
           /\ Reload(t)
           /\ Goto(t, "slow")
           /\ UNCHANGED <<state, lotVars, guardVars, key, spins>>

\* Grab the lock if it looks free, even if there is a queue on it.
SlowAcquire(t) == /\ pc[t] = "slow"
                  /\ LOCKED_BIT \notin seen[t]
                  /\ state[key[t]] = seen[t]
                  /\ state' = [state EXCEPT ![key[t]] = @ \cup {LOCKED_BIT}]
                  /\ Acquired(t, key[t])
                  /\ UNCHANGED <<lotVars, strayed, key>>

\* The queue is empty, so spin before looking again.
SlowSpin(t) == /\ pc[t] = "slow"
               /\ seen[t] = {LOCKED_BIT}
               /\ CanSpin(t)
               /\ Spin(t)
               /\ Reload(t)
               /\ UNCHANGED <<state, lotVars, guardVars, pc, key>>

\* Announce that a thread is about to park.
SlowSetParked(t) == /\ pc[t] = "slow"
                    /\ seen[t] = {LOCKED_BIT}
                    /\ ~CanSpin(t)
                    /\ state[key[t]] = seen[t]
                    /\ state' = [state EXCEPT ![key[t]] = @ \cup {PARKED_BIT}]
                    /\ Goto(t, "park")
                    /\ UNCHANGED <<lotVars, guardVars, key, seen, spins>>

\* Either compare_exchange_weak fails, because `state` moved on or spuriously:
\* take the value it saw.
SlowCasFails(t) == /\ pc[t] = "slow"
                   /\ \/ LOCKED_BIT \notin seen[t]
                      \/ seen[t] = {LOCKED_BIT} /\ ~CanSpin(t)
                   /\ Reload(t)
                   /\ UNCHANGED <<state, lotVars, guardVars, pc, key, spins>>

\* fault: `continue` without a look at `state`
SlowQueuedAgain(t) == pc[t] = "slow" /\ seen[t] = Bits /\ UNCHANGED vars

\* The parked bit is set already.
SlowQueued(t) == /\ pc[t] = "slow"
                 /\ seen[t] = Bits
                 /\ Goto(t, "park")
                 /\ UNCHANGED <<state, lotVars, guardVars, key, seen, spins>>

-----------------------------------------------------------------------------
(* park, as lock_slow calls it: no timeout, an empty before_sleep *)

ParkLockBucket(t) == /\ pc[t] = "park"
                     /\ bucket = NoThread
                     /\ bucket' = t
                     /\ Goto(t, "validate")
                     /\ UNCHANGED <<state, queue, futex, token, current,
                                    guardVars, key, seen, spins>>

ValidatedLocked(t) == LOCKED_BIT \in state[key[t]]   \* fault: one bit only
Validated(t) == state[key[t]] = Bits

\* fault: lock_slow gives up and returns
ParkInvalidGivesUp(t) == /\ pc[t] = "validate"
                         /\ ~Validated(t)
                         /\ bucket' = NoThread
                         /\ Goto(t, "idle")
                         /\ UNCHANGED <<state, queue, futex, token, current,
                                        guardVars, key, seen, spins>>

\* ParkResult::Invalid: unlock the bucket, spin and start over.
ParkInvalid(t) == /\ pc[t] = "validate"
                  /\ ~Validated(t)
                  /\ bucket' = NoThread
                  /\ Spin(t)
                  /\ Goto(t, "load")
                  /\ UNCHANGED <<state, queue, futex, token, current,
                                 guardVars, key, seen>>

ParkValid(t) == /\ pc[t] = "validate"
                /\ Validated(t)
                /\ Goto(t, "enqueue")
                /\ UNCHANGED <<state, lotVars, guardVars, key, seen, spins>>

\* prepare_park, append to the bucket's list, unlock the bucket, sleep.
ParkEnqueue(t) == /\ pc[t] = "enqueue"
                  /\ futex' = [futex EXCEPT ![t] = TRUE]
                  /\ queue' = Append(queue, t)
                  /\ bucket' = NoThread
                  /\ Goto(t, "parked")
                  /\ UNCHANGED <<state, token, current, guardVars, key, seen,
                                 spins>>

\* ThreadParker::park returns once the futex word is 0.
WokenHandOff(t) == /\ pc[t] = "parked"
                   /\ ~futex[t]
                   /\ token[t] = TOKEN_HANDOFF
                   /\ Acquired(t, key[t])
                   /\ UNCHANGED <<state, lotVars, strayed, key>>

WokenNormal(t) == /\ pc[t] = "parked"
                  /\ ~futex[t]
                  /\ token[t] = TOKEN_NORMAL
                  /\ Spin(t)
                  /\ Goto(t, "load")
                  /\ UNCHANGED <<state, lotVars, guardVars, key, seen>>

-----------------------------------------------------------------------------
(* unlock: dropping a MutexGuard *)

\* RawMutex::unlock: the entry goes first, then compare_exchange(LOCKED_BIT, 0),
\* or unlock_slow if `state` is anything else.
UnlockBy(t, m) ==
  /\ pc[t] = "idle"
  /\ release_resource(t, m)
  /\ key' = [key EXCEPT ![t] = m]
  /\ IF state[m] = {LOCKED_BIT}
       THEN /\ state' = [state EXCEPT ![m] = {}]
            /\ UNCHANGED pc
       ELSE /\ Goto(t, "unlock_slow")
            /\ UNCHANGED state
  /\ UNCHANGED <<lotVars, seen, spins>>

\* A thread gives back what it has: it drops a MutexGuard, in whatever order, or
\* calls force_unlock after a try_lock that returned true.
Unlock(t, m) == GiveUp(t, m) /\ UnlockBy(t, m) /\ UNCHANGED strayed

UnparkLockBucket(t) == /\ pc[t] = "unlock_slow"
                       /\ bucket = NoThread
                       /\ bucket' = t
                       /\ Goto(t, "unpark")
                       /\ UNCHANGED <<state, queue, futex, token, current,
                                      guardVars, key, seen, spins>>

\* faults: have_more_threads is ignored; the token is always a hand-off
UnlockStateForgets(old, fair, more) == IF fair THEN {LOCKED_BIT} ELSE {}
UnlockTokenHandsOff(fair) == TOKEN_HANDOFF

\* unlock_slow's callback: the new state, and the token for the thread.
UnlockState(old, fair, more) ==
  IF fair THEN IF more THEN old ELSE {LOCKED_BIT}
          ELSE IF more THEN {PARKED_BIT} ELSE {}
UnlockToken(fair) == IF fair THEN TOKEN_HANDOFF ELSE TOKEN_NORMAL

\* The positions of the bucket's list that hold a thread parked on m.
ParkedAt(m) == {i \in 1..Len(queue) : key[queue[i]] = m}

\* The list without its entry at i.
Unlinked(q, i) == SubSeq(q, 1, i - 1) \o SubSeq(q, i + 1, Len(q))

\* unpark_one finds a thread with its key: remove it, look for another one,
\* let the callback store the state, leave the token.  be_fair comes from the
\* clock (FairTimeout::should_timeout).
Unpark(t) == /\ pc[t] = "unpark"
             /\ \E i \in ParkedAt(key[t]), be_fair \in BOOLEAN :
                  /\ \A j \in ParkedAt(key[t]) : i <= j
                  /\ state' = [state EXCEPT ![key[t]] =
                        UnlockState(@, be_fair, \E j \in ParkedAt(key[t]) : i < j)]
                  /\ token' = [token EXCEPT ![queue[i]] = UnlockToken(be_fair)]
                  /\ current' = [current EXCEPT ![t] = queue[i]]
                  /\ queue' = Unlinked(queue, i)
             /\ Goto(t, "wake")
             /\ UNCHANGED <<bucket, futex, guardVars, key, seen, spins>>

\* No thread with this key: the callback still runs, with nothing unparked.
UnparkNobody(t) == /\ pc[t] = "unpark"
                   /\ ParkedAt(key[t]) = {}
                   /\ state' = [state EXCEPT ![key[t]] = UnlockState(@, FALSE, FALSE)]
                   /\ bucket' = NoThread
                   /\ Goto(t, "idle")
                   /\ UNCHANGED <<queue, futex, token, current, guardVars, key,
                                  seen, spins>>

\* fault: a thread that was handed the mutex is not woken
WakeNormal(t) == /\ pc[t] = "wake"
                 /\ futex' = [futex EXCEPT ![current[t]] =
                                @ /\ token[current[t]] = TOKEN_HANDOFF]
                 /\ current' = [current EXCEPT ![t] = NoThread]
                 /\ bucket' = NoThread
                 /\ Goto(t, "idle")
                 /\ UNCHANGED <<state, queue, token, guardVars, key, seen, spins>>

\* unpark_lock clears the futex word, then the bucket is unlocked.
Wake(t) == /\ pc[t] = "wake"
           /\ futex' = [futex EXCEPT ![current[t]] = FALSE]
           /\ current' = [current EXCEPT ![t] = NoThread]
           /\ bucket' = NoThread
           /\ Goto(t, "idle")
           /\ UNCHANGED <<state, queue, token, guardVars, key, seen, spins>>

-----------------------------------------------------------------------------
(* The operations that hand out no guard, or give it away *)

\* try_lock: fails if the lock bit is set, else sets the bit it sets.  The
\* loop around its compare_exchange_weak has no other effect.
TryLock(t, m) == /\ pc[t] = "idle"
                 /\ MayAcquire(t, m)
                 /\ LOCKED_BIT \notin state[m]
                 /\ state' = [state EXCEPT ![m] = @ \cup {PARKED_BIT}]
                 /\ key' = [key EXCEPT ![t] = m]
                 /\ acquire_resource(t, m)
                 /\ Gain(t, m)
                 /\ UNCHANGED <<lotVars, strayed, pc, seen, spins>>

\* force_unlock is public and asks nothing of its caller: any thread may call it
\* at any time, and who has a guard keeps it.
ForceUnlock(t, m) == /\ UnlockBy(t, m)
                     /\ strayed' = strayed \cup {m}
                     /\ UNCHANGED held

\* mark_parked_when_lock, called by a thread that is not in another call.
MarkParkedWhenLock(t, m) == /\ pc[t] = "idle"
                            /\ LOCKED_BIT \in state[m]
                            /\ state' = [state EXCEPT ![m] = @ \cup {PARKED_BIT}]
                            /\ UNCHANGED <<lotVars, guardVars, pc, key, seen, spins>>

\* MutexGuard::map forgets the guard.  A MapMutexGuard has no Drop, so nothing
\* is left that unlocks the mutex.
MapGuard(t, m) == /\ pc[t] = "idle"
                  /\ GiveUp(t, m)
                  /\ strayed' = strayed \cup {m}
                  /\ UNCHANGED <<state, lotVars, resources, pc, key, seen, spins>>

\* MutexGuard is Send: thread u gets t's guard.
SendGuard(t, u, m) == /\ pc[t] = "idle" /\ pc[u] = "idle" /\ t # u
                      /\ held[t][m] > 0 /\ held[u][m] < MaxHeld
                      /\ held' = [held EXCEPT ![t][m] = @ - 1, ![u][m] = @ + 1]
                      /\ strayed' = strayed \cup {m}
                      /\ UNCHANGED <<state, lotVars, resources, pc, key, seen, spins>>

-----------------------------------------------------------------------------
(* Specifications *)

\* The steps of a thread inside a call of lock() or unlock().
Call(t) == \/ Load(t) \/ SlowAcquire(t) \/ SlowSpin(t) \/ SlowSetParked(t)
           \/ SlowQueued(t) \/ SlowCasFails(t)
           \/ ParkLockBucket(t) \/ ParkInvalid(t) \/ ParkValid(t)
           \/ ParkEnqueue(t) \/ WokenHandOff(t) \/ WokenNormal(t)
           \/ UnparkLockBucket(t) \/ Unpark(t) \/ UnparkNobody(t) \/ Wake(t)

\* Threads that call lock() and drop the guards they get, nested as they like.
LockNext == \E t \in Threads :
              \/ \E m \in Mutexes : LockFast(t, m) \/ LockSlow(t, m) \/ Unlock(t, m)
              \/ Call(t)

\* Threads that may also call try_lock().
TryNext == LockNext \/ \E t \in Threads, m \in Mutexes : TryLock(t, m)

\* Threads that may do everything there is to do with a mutex.
AnyNext == \/ TryNext
           \/ \E t \in Threads, m \in Mutexes :
                \/ ForceUnlock(t, m)
                \/ MarkParkedWhenLock(t, m)
                \/ MapGuard(t, m)
                \/ \E u \in Threads : SendGuard(t, u, m)

Spec == Init /\ [][LockNext]_vars
TrySpec == Init /\ [][TryNext]_vars
AnySpec == Init /\ [][AnyNext]_vars

\* The scheduler runs every thread, a compare_exchange_weak does not fail
\* spuriously for ever (such a failure is a stuttering step), and a thread that
\* holds a mutex gives it back.  Nobody has to call lock().
FairSpec == /\ Spec
            /\ \A t \in Threads : /\ WF_vars(Call(t))
                                  /\ WF_vars(\E m \in Mutexes : Unlock(t, m))

-----------------------------------------------------------------------------
(* Properties *)

Labels == {"idle", "load", "slow", "park", "validate", "enqueue", "parked",
           "unlock_slow", "unpark", "wake"}

\* Every variable has its type, and lock_slow's spin counter stays within
\* SpinWait's limit.
TypeOK == /\ state \in [Mutexes -> SUBSET Bits]
          /\ bucket \in Threads \cup {NoThread}
          /\ queue \in Seq(Threads)
          /\ futex \in [Threads -> BOOLEAN]
          /\ token \in [Threads -> {TOKEN_NORMAL, TOKEN_HANDOFF}]
          /\ held \in [Threads -> [Mutexes -> Nat]]
          /\ resources \in [Threads -> Seq(Mutexes)]
          /\ strayed \subseteq Mutexes
          /\ pc \in [Threads -> Labels]
          /\ key \in [Threads -> Mutexes]
          /\ seen \in [Threads -> SUBSET Bits]
          /\ spins \in [Threads -> 0..SpinLimit]
          /\ current \in [Threads -> Threads \cup {NoThread}]

Queued(t) == \E i \in 1..Len(queue) : queue[i] = t

\* unpark_one took t off the queue and left it the mutex.
HandedOff(t) == pc[t] = "parked" /\ ~Queued(t) /\ token[t] = TOKEN_HANDOFF

\* t may use what m protects, or has yet to finish giving m back.
Owns(t, m) == \/ held[t][m] > 0
              \/ key[t] = m /\ (pc[t] \in {"unlock_slow", "unpark"} \/ HandedOff(t))

\* t is in a call of lock() for m.
Waits(t, m) == /\ key[t] = m
               /\ pc[t] \in {"load", "slow", "park", "validate", "enqueue", "parked"}
               /\ ~HandedOff(t)

\* No two threads own the same mutex ("locked by exactly one thread"): across
\* barging, parking, hand-off and the late waking of a thread that was dequeued.
MutualExclusion == \A t, u \in Threads, m \in Mutexes :
                     Owns(t, m) /\ Owns(u, m) => t = u

\* A mutex is never left locked with nobody to unlock it: a set lock bit has
\* an owner, through hand-off and through every failed compare_exchange.
LockedHasOwner == \A m \in Mutexes :
                    LOCKED_BIT \in state[m] => \E t \in Threads : Owns(t, m)

\* "we never end up in a situation where there are parked threads but
\* PARKED_BIT is not set": whoever is in the queue, or validated and on its
\* way there, is announced in the state of its mutex.
ParkedBitCoversQueue == \A t \in Threads :
                          Queued(t) \/ pc[t] = "enqueue" => PARKED_BIT \in state[key[t]]

\* A thread that sleeps has somebody to wake it: it is queued, or the thread
\* that dequeued it is about to clear its futex word, or it can wake already.
NoLostWakeup == \A t \in Threads :
                  pc[t] = "parked" => \/ Queued(t)
                                      \/ ~futex[t]
                                      \/ \E u \in Threads : pc[u] = "wake" /\ current[u] = t

\* A thread's `resources` are the mutexes it has to give back, each as often as
\* it has it: release_resource, searching by key, finds the entry of the mutex
\* that is unlocked and leaves those of the others, however the locks are nested
\* and in whatever order they are dropped.  It is so for every mutex whose guards
\* stay with the threads that locked it, whatever is done with other mutexes.
ResourcesMatch == \A t \in Threads, m \in Mutexes \ strayed :
                    Cardinality(Positions(resources[t], m)) = held[t][m]

\* The mutexes the callers see.  The bit patterns, the queue and the two ways
\* to wake a thread implement "asked for, owned by one, given up".
owners == [m \in Mutexes |-> {t \in Threads : Owns(t, m)}]
waiting == [m \in Mutexes |-> {t \in Threads : Waits(t, m)}]
Abstract == INSTANCE MutexSpec WITH owners <- owners, waiting <- waiting
ImplementsMutexSpec == Abstract!Spec

\* A thread that went to sleep in lock() is woken in the end.
ParkedIsWoken == \A t \in Threads : pc[t] = "parked" ~> pc[t] # "parked"

\* A mutex that a thread wants is acquired by somebody in the end: lock()
\* neither deadlocks nor loses the last wakeup.
WantedIsAcquired == \A m \in Mutexes : waiting[m] # {} ~> owners[m] # {}

=============================================================================
