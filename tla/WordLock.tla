------------------------------ MODULE WordLock ------------------------------
(***************************************************************************)
(* WordLock (mod word_lock of src/mutex/deadlock.rs): the one-word lock of *)
(* every hash bucket of the parking lot.  The word holds LOCKED_BIT,       *)
(* QUEUE_LOCKED_BIT and a pointer to the newest waiting thread.            *)
(*                                                                         *)
(* A waiting thread pushes its ThreadData on the front of the queue with   *)
(* one compare-exchange.  The thread that unlocks takes the queue lock,    *)
(* fills in the prev pointers of the nodes pushed since, removes the       *)
(* oldest node and wakes its thread.  A ThreadData lives on the stack of   *)
(* the waiting thread: it exists exactly while pc[t] = "park".  Its        *)
(* address is the thread itself, so a later ThreadData of the same thread  *)
(* has the address of the earlier one.                                     *)
(*                                                                         *)
(* A step is one access to the word.  The fields of a queued ThreadData    *)
(* are only touched under the queue lock, those of an unqueued one only by *)
(* its thread; such accesses join the step of the word they go with.       *)
(***************************************************************************)
EXTENDS Naturals, FiniteSets

CONSTANTS Threads,
          NoThread,   \* the null pointer
          SpinLimit,  \* SpinWait gives up after 10 rounds
          MaxCalls    \* bound on the calls of lock() of one thread

ASSUME WordLockAssumption == /\ NoThread \notin Threads
                             /\ SpinLimit \in Nat
                             /\ MaxCalls \in Nat

VARIABLES state,   \* the word
          data,    \* data[t]: the ThreadData of t
          futex, asleep,
          pc,
          seen,    \* seen[t]: the local variable `state` of lock_slow and unlock_slow
          spins,   \* spins[t]: the counter of t's SpinWait
          current, \* current[t]: the node t's scan of the queue has reached
          tail,    \* tail[t]: the local variable `queue_tail` of unlock_slow
          calls    \* calls[t]: the calls of lock() so far

locals == <<seen, spins, current, tail>>
vars == <<state, data, futex, asleep, pc, locals, calls>>

Parker == INSTANCE ThreadParker
            WITH Threads <- Threads, futex <- futex, asleep <- asleep

Pointer == Threads \cup {NoThread}
Word == [locked : BOOLEAN, queue_locked : BOOLEAN, queue_head : Pointer]
Zero == [locked |-> FALSE, queue_locked |-> FALSE, queue_head |-> NoThread]
NewThreadData == [queue_tail |-> NoThread, prev |-> NoThread, next |-> NoThread]

Locking == {"try", "park"}
QueueOwning == {"scan", "decide"}
Waking == {"unpark", "wake"}
Unlocking == {"unlock_load", "grab"} \cup QueueOwning \cup Waking

Init == /\ state = Zero
        /\ data = [t \in Threads |-> NewThreadData]
        /\ futex = [t \in Threads |-> 0]
        /\ asleep = {}
        /\ pc = [t \in Threads |-> "idle"]
        /\ seen = [t \in Threads |-> Zero]
        /\ spins = [t \in Threads |-> 0]
        /\ current = [t \in Threads |-> NoThread]
        /\ tail = [t \in Threads |-> NoThread]
        /\ calls = [t \in Threads |-> 0]

Goto(t, l) == pc' = [pc EXCEPT ![t] = l]
Reads(t) == seen' = [seen EXCEPT ![t] = state]
\* fault: the word is stored without looking at it.
CasBlind(t, new) == state' = new

\* A compare-exchange of the word from seen[t].  The weak form may also fail
\* when the word is seen[t].
Cas(t, new) == state = seen[t] /\ state' = new

\* lock_slow and unlock_slow return: their local variables are gone.
Return(t, l) == /\ Goto(t, l)
                /\ seen' = [seen EXCEPT ![t] = Zero]
                /\ spins' = [spins EXCEPT ![t] = 0]
                /\ current' = [current EXCEPT ![t] = NoThread]
                /\ tail' = [tail EXCEPT ![t] = NoThread]

-----------------------------------------------------------------------------
\* lock

Calls(t) == /\ pc[t] = "idle"
            /\ calls[t] < MaxCalls
            /\ calls' = [calls EXCEPT ![t] = @ + 1]

LockFast(t) == /\ Calls(t)
               /\ state = Zero
               /\ state' = [Zero EXCEPT !.locked = TRUE]
               /\ Goto(t, "held")
               /\ UNCHANGED <<data, futex, asleep, locals>>

\* The fast path fails, with or without a reason, and lock_slow loads the word.
LockSlow(t) == /\ Calls(t)
               /\ Reads(t)
               /\ Goto(t, "try")
               /\ UNCHANGED <<state, data, futex, asleep, spins, current, tail>>

\* Grab the lock if it isn't locked, even if there is a queue on it.
Barge(t) == /\ pc[t] = "try"
            /\ ~seen[t].locked
            /\ Cas(t, [seen[t] EXCEPT !.locked = TRUE])
            /\ Return(t, "held")
            /\ UNCHANGED <<data, futex, asleep, calls>>

\* fault: one round too many.
CanSpinOnceMore(t) == spins[t] <= SpinLimit

CanSpin(t) == spins[t] < SpinLimit

Spin(t) == /\ pc[t] = "try"
           /\ seen[t].locked
           /\ seen[t].queue_head = NoThread
           /\ CanSpin(t)
           /\ spins' = [spins EXCEPT ![t] = @ + 1]
           /\ Reads(t)
           /\ UNCHANGED <<state, data, futex, asleep, pc, current, tail, calls>>

GivesUp(t) == /\ pc[t] = "try"
              /\ seen[t].locked
              /\ seen[t].queue_head # NoThread \/ ~CanSpin(t)

\* fault: the first node does not know that it is the tail.
LinkedNoTail(t) == [NewThreadData EXCEPT !.next = seen[t].queue_head]

Linked(t) == IF seen[t].queue_head = NoThread
             THEN [NewThreadData EXCEPT !.queue_tail = t]
             ELSE [NewThreadData EXCEPT !.next = seen[t].queue_head]

\* The new ThreadData is filled in and published as the head of the queue.
Enqueue(t) ==
  /\ GivesUp(t)
  /\ Cas(t, [seen[t] EXCEPT !.queue_head = t])
  /\ data' = [data EXCEPT ![t] = Linked(t)]
  /\ Parker!prepare_park(t)
  /\ Goto(t, "park")
  /\ UNCHANGED <<asleep, locals, calls>>

\* A failed compare-exchange of lock_slow gives the thread the word it met.
\* (When it fails for no reason the thread tries again with the same word.)
LockCasFails(t) == /\ pc[t] = "try"
                   /\ ~seen[t].locked \/ GivesUp(t)
                   /\ state # seen[t]
                   /\ Reads(t)
                   /\ UNCHANGED <<state, data, futex, asleep, pc, spins, current, tail, calls>>

Sleep(t) == /\ pc[t] = "park"
            /\ Parker!futex_wait(t)
            /\ UNCHANGED <<state, data, futex, pc, locals, calls>>

Interrupt(t) == /\ pc[t] = "park"
                /\ Parker!Interrupt(t)
                /\ UNCHANGED <<state, data, futex, pc, locals, calls>>

\* park() returns: the word is loaded, the ThreadData goes, and the loop of
\* lock_slow starts again.
Woken(t) == /\ pc[t] = "park"
            /\ Parker!Unparked(t)
            /\ Reads(t)
            /\ spins' = [spins EXCEPT ![t] = 0]
            /\ data' = [data EXCEPT ![t] = NewThreadData]
            /\ Goto(t, "try")
            /\ UNCHANGED <<state, futex, asleep, current, tail, calls>>

-----------------------------------------------------------------------------
\* unlock

\* fault: the queue lock is not respected.
NoOneQueued(w) == w.queue_head = NoThread

NoOneToWake(w) == w.queue_locked \/ w.queue_head = NoThread

Unlock(t) == /\ pc[t] = "held"
             /\ state' = [state EXCEPT !.locked = FALSE]
             /\ Goto(t, IF NoOneToWake(state) THEN "idle" ELSE "unlock_load")
             /\ UNCHANGED <<data, futex, asleep, locals, calls>>

UnlockLoad(t) == /\ pc[t] = "unlock_load"
                 /\ Reads(t)
                 /\ Goto(t, "grab")
                 /\ UNCHANGED <<state, data, futex, asleep, spins, current, tail, calls>>

LeaveToOther(t) == /\ pc[t] = "grab"
                   /\ NoOneToWake(seen[t])
                   /\ Return(t, "idle")
                   /\ UNCHANGED <<state, data, futex, asleep, calls>>

\* The queue lock is taken.  seen[t] keeps the word without the bit.
GrabQueue(t) == /\ pc[t] = "grab"
                /\ ~NoOneToWake(seen[t])
                /\ Cas(t, [seen[t] EXCEPT !.queue_locked = TRUE])
                /\ current' = [current EXCEPT ![t] = seen[t].queue_head]
                /\ Goto(t, "scan")
                /\ UNCHANGED <<data, futex, asleep, seen, spins, tail, calls>>

GrabFails(t) == /\ pc[t] = "grab"
                /\ ~NoOneToWake(seen[t])
                /\ state # seen[t]
                /\ Reads(t)
                /\ UNCHANGED <<state, data, futex, asleep, pc, spins, current, tail, calls>>

\* Fill in the prev pointer of the node after a newly added one.
ScanNode(t) ==
  LET c == current[t] IN
  /\ pc[t] = "scan"
  /\ data[c].queue_tail = NoThread
  /\ data' = [data EXCEPT ![data[c].next].prev = c]
  /\ current' = [current EXCEPT ![t] = data[c].next]
  /\ UNCHANGED <<state, futex, asleep, pc, seen, spins, tail, calls>>

\* The first processed node knows the tail; the head is told.
ScanEnd(t) ==
  LET c == current[t] IN
  /\ pc[t] = "scan"
  /\ data[c].queue_tail # NoThread
  /\ data' = [data EXCEPT ![seen[t].queue_head].queue_tail = data[c].queue_tail]
  /\ tail' = [tail EXCEPT ![t] = data[c].queue_tail]
  /\ Goto(t, "decide")
  /\ UNCHANGED <<state, futex, asleep, seen, spins, current, calls>>

\* fault: the queue lock is dropped without another look at the word.
LeaveToOwnerBlind(t) == /\ pc[t] = "decide"
                        /\ seen[t].locked
                        /\ state' = [state EXCEPT !.queue_locked = FALSE]
                        /\ Return(t, "idle")
                        /\ UNCHANGED <<data, futex, asleep, calls>>

\* The lock is taken: the next unlock will wake a thread.
LeaveToOwner(t) == /\ pc[t] = "decide"
                   /\ seen[t].locked
                   /\ Cas(t, [seen[t] EXCEPT !.queue_locked = FALSE])
                   /\ Return(t, "idle")
                   /\ UNCHANGED <<data, futex, asleep, calls>>

\* Remove the last of several threads and unlock the queue.
RemoveLast(t) ==
  LET new_tail == data[tail[t]].prev IN
  /\ pc[t] = "decide"
  /\ ~seen[t].locked
  /\ new_tail # NoThread
  /\ data' = [data EXCEPT ![seen[t].queue_head].queue_tail = new_tail]
  /\ state' = [state EXCEPT !.queue_locked = FALSE]
  /\ Goto(t, "unpark")
  /\ UNCHANGED <<futex, asleep, locals, calls>>

OnlyOne(t) == ~seen[t].locked /\ data[tail[t]].prev = NoThread

\* fault: a thread pushed meanwhile is dropped from the word.
RemoveOnlyBlind(t) == /\ pc[t] = "decide"
                      /\ OnlyOne(t)
                      /\ state' = [Zero EXCEPT !.locked = state.locked]
                      /\ Goto(t, "unpark")
                      /\ UNCHANGED <<data, futex, asleep, locals, calls>>

\* Remove the only thread: the word keeps LOCKED_BIT alone.
RemoveOnly(t) == /\ pc[t] = "decide"
                 /\ OnlyOne(t)
                 /\ Cas(t, [Zero EXCEPT !.locked = seen[t].locked])
                 /\ Goto(t, "unpark")
                 /\ UNCHANGED <<data, futex, asleep, locals, calls>>

\* A failed compare-exchange under the queue lock: scan the new queue.  (When
\* it fails for no reason the scan changes nothing and the thread tries again
\* with the same word.  Retrying without a scan when the new word has no queue
\* is the code's answer to a word that QueueOwned shows cannot occur.)
Rescan(t) == /\ pc[t] = "decide"
             /\ seen[t].locked \/ OnlyOne(t)
             /\ state # seen[t]
             /\ Reads(t)
             /\ current' = [current EXCEPT ![t] = state.queue_head]
             /\ tail' = [tail EXCEPT ![t] = NoThread]
             /\ Goto(t, "scan")
             /\ UNCHANGED <<state, data, futex, asleep, spins, calls>>

\* Wake the removed thread: clear its word, then FUTEX_WAKE.
UnparkLock(t) == /\ pc[t] = "unpark"
                 /\ Parker!unpark_lock(tail[t])
                 /\ Goto(t, "wake")
                 /\ UNCHANGED <<state, data, asleep, locals, calls>>

Unpark(t) == /\ pc[t] = "wake"
             /\ Parker!unpark(tail[t])
             /\ Return(t, "idle")
             /\ UNCHANGED <<state, data, futex, calls>>

-----------------------------------------------------------------------------
Step(t) == \/ Barge(t) \/ Spin(t) \/ Enqueue(t) \/ LockCasFails(t)
           \/ Sleep(t) \/ Woken(t)
           \/ Unlock(t) \/ UnlockLoad(t) \/ LeaveToOther(t) \/ GrabQueue(t)
           \/ GrabFails(t) \/ ScanNode(t) \/ ScanEnd(t) \/ LeaveToOwner(t)
           \/ RemoveLast(t) \/ RemoveOnly(t) \/ Rescan(t)
           \/ UnparkLock(t) \/ Unpark(t)

Next == \E t \in Threads : LockFast(t) \/ LockSlow(t) \/ Interrupt(t) \/ Step(t)

Spec == Init /\ [][Next]_vars

\* Every thread inside a call is scheduled, the critical sections of the
\* parking lot end, and a weak compare-exchange does not fail for no reason
\* for ever.  Nothing is asked of EINTR: FUTEX_WAIT may sleep until FUTEX_WAKE.
Fairness == \A t \in Threads : WF_vars(Step(t))

FairSpec == Spec /\ Fairness

-----------------------------------------------------------------------------
\* Every variable has its type; SpinWait counts no further than its limit.
TypeOK == /\ state \in Word
          /\ data \in [Threads -> [queue_tail : Pointer, prev : Pointer, next : Pointer]]
          /\ futex \in [Threads -> {0, 1}]
          /\ asleep \subseteq Threads
          /\ pc \in [Threads -> {"idle", "held"} \cup Locking \cup Unlocking]
          /\ seen \in [Threads -> Word]
          /\ spins \in [Threads -> 0..SpinLimit]
          /\ current \in [Threads -> Pointer]
          /\ tail \in [Threads -> Pointer]
          /\ calls \in [Threads -> 0..MaxCalls]

\* What a WordLock promises: it is one mutex.  lock() asks for it and gets it
\* when nobody has it, unlock() gives it up with its fetch_sub.
Abstract == INSTANCE MutexSpec
              WITH Mutexes <- {"word"},
                   owners <- [m \in {"word"} |-> {t \in Threads : pc[t] = "held"}],
                   waiting <- [m \in {"word"} |-> {t \in Threads : pc[t] \in Locking}]

\* The word lock implements a mutex: whatever the queue does, two threads are
\* never both past lock(), and a thread only gets in after asking.
ImplementsMutexSpec == Abstract!Spec

\* LOCKED_BIT is set exactly while one thread is between lock() and unlock().
LockOwned == /\ \A t, u \in Threads : pc[t] = "held" /\ pc[u] = "held" => t = u
             /\ state.locked <=> \E t \in Threads : pc[t] = "held"

\* QUEUE_LOCKED_BIT is set exactly while one thread works on the queue, and then
\* the queue is not empty.
QueueOwned == /\ \A t, u \in Threads :
                   pc[t] \in QueueOwning /\ pc[u] \in QueueOwning => t = u
              /\ state.queue_locked <=> \E t \in Threads : pc[t] \in QueueOwning
              /\ state.queue_locked => state.queue_head # NoThread

\* unlock_slow follows no pointer to a ThreadData that is gone: every node it
\* reads or writes belongs to a thread still inside park().
Alive(p) == p \in Threads /\ pc[p] = "park"
MemorySafe ==
  \A t \in Threads :
    /\ pc[t] = "scan" => /\ Alive(current[t]) /\ Alive(seen[t].queue_head)
                         /\ \/ Alive(data[current[t]].queue_tail)
                            \/ /\ data[current[t]].queue_tail = NoThread
                               /\ Alive(data[current[t]].next)
    /\ pc[t] = "decide" => Alive(tail[t]) /\ Alive(seen[t].queue_head)
    /\ pc[t] = "unpark" => Alive(tail[t])

\* "the thread is guaranteed to be sleeping right now and we are the only one
\* who can wake it up" (unlock_slow): every thread in park() whose word is
\* still 1 can be reached from the head of the queue through such threads, or
\* has been removed by exactly one thread that is about to wake it.
Waits(p) == Alive(p) /\ futex[p] = 1
Removers(p) == {t \in Threads : pc[t] = "unpark" /\ tail[t] = p}
Queue == LET at[n \in Nat] == IF n = 0 THEN state.queue_head
                              ELSE IF at[n-1] = NoThread THEN NoThread
                              ELSE data[at[n-1]].next
         IN  {at[n] : n \in {m \in 0..Cardinality(Threads) :
                              \A i \in 0..m : Waits(at[i]) /\ Removers(at[i]) = {}}}
NoneLostNorWokenTwice ==
  /\ \A p \in Threads : Waits(p) => IF Removers(p) = {} THEN p \in Queue
                                    ELSE Cardinality(Removers(p)) = 1
  /\ \A t \in Threads : pc[t] = "unpark" => Waits(tail[t])

\* Every call returns, however the threads push on the queue while another
\* unlocks it: no wake-up is lost between a push, an unlock that leaves the
\* queue to somebody else, and the sleep.  (The calls are bounded: a thread
\* that keeps calling lock() may overtake a sleeping one for ever.)
CallsReturn == []<>(\A t \in Threads : pc[t] = "idle")
=============================================================================
