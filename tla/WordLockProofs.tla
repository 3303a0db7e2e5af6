--------------------------- MODULE WordLockProofs ---------------------------
(***************************************************************************)
(* For any number of threads, calls and spins, a WordLock is a mutex and   *)
(* its queue has at most one owner.  The argument only needs the word, the *)
(* program counters and the words the threads have seen: every change of   *)
(* a bit is a compare-exchange from a word in which the bit was clear, or  *)
(* is made by the bit's only owner.                                        *)
(***************************************************************************)
EXTENDS WordLock, TLAPS

\* The part of TypeOK the bits depend on.
BitTypes == /\ state \in Word
            /\ pc \in [Threads -> {"idle", "held"} \cup Locking \cup Unlocking]
            /\ seen \in [Threads -> Word]

BitInv == BitTypes /\ LockOwned /\ QueueOwned

\* The word starts as zero with every thread idle.
LEMMA InitBits == Init => BitInv
  BY WordLockAssumption DEF Init, BitInv, BitTypes, LockOwned, QueueOwned, Word, Zero,
     Pointer, Locking, Unlocking, QueueOwning, Waking

\* A read keeps the types: the word seen is a word.
LEMMA ReadsWord == ASSUME BitTypes, NEW t \in Threads, Reads(t)
                   PROVE  seen' \in [Threads -> Word]
  BY DEF BitTypes, Reads

\* A return keeps the types.
LEMMA ReturnWord == ASSUME BitTypes, NEW t \in Threads, NEW l, Return(t, l)
                    PROVE  seen' \in [Threads -> Word]
  <1>1. Zero \in Word BY DEF Zero, Word, Pointer
  <1> QED BY <1>1 DEF BitTypes, Return

\* A step that moves one thread between labels that own nothing and leaves
\* the word alone keeps the invariant.
LEMMA MoveKeeps == ASSUME BitInv, NEW t \in Threads, NEW l \in {"idle"} \cup Locking \cup Unlocking,
                          pc[t] # "held", l \in QueueOwning <=> pc[t] \in QueueOwning,
                          pc' = [pc EXCEPT ![t] = l], state' = state,
                          seen' \in [Threads -> Word]
                   PROVE  BitInv'
  <1>1. BitTypes' BY Zenon DEF BitInv, BitTypes
  <1>2. \A u \in Threads : /\ pc'[u] = "held" <=> pc[u] = "held"
                           /\ pc'[u] \in QueueOwning <=> pc[u] \in QueueOwning
    BY DEF BitInv, BitTypes, Locking, Unlocking, QueueOwning, Waking
  <1>3. LockOwned' BY <1>2 DEF BitInv, LockOwned
  <1>4. QueueOwned' BY <1>2 DEF BitInv, QueueOwned
  <1> QED BY <1>1, <1>3, <1>4 DEF BitInv

\* One step of each action: the invariant is inductive.
LEMMA NextKeepsBits == BitInv /\ [Next]_vars => BitInv'
  <1> SUFFICES ASSUME BitInv, [Next]_vars PROVE BitInv'
    OBVIOUS
  <1> USE DEF Goto
  <1>1. CASE UNCHANGED vars
    BY <1>1 DEF vars, locals, BitInv, BitTypes, LockOwned, QueueOwned
  <1>2. ASSUME NEW t \in Threads, LockFast(t) PROVE BitInv'
    BY <1>2, Zenon DEF LockFast, Calls, BitInv, BitTypes, LockOwned, QueueOwned, Word, Zero,
       Locking, Unlocking, QueueOwning, Waking, locals
  <1>3. ASSUME NEW t \in Threads, LockSlow(t) PROVE BitInv'
    BY <1>3, MoveKeeps, ReadsWord, Zenon DEF LockSlow, Calls, BitInv, Locking, Unlocking, QueueOwning, Waking
  <1>4. ASSUME NEW t \in Threads, Barge(t) PROVE BitInv'
    <2>1. seen' \in [Threads -> Word] BY <1>4, ReturnWord DEF Barge, BitInv
    <2>2. state' \in Word /\ state'.locked /\ ~state.locked
          /\ state'.queue_locked = state.queue_locked /\ state'.queue_head = state.queue_head
      BY <1>4, Zenon DEF Barge, Cas, BitInv, BitTypes, Word
    <2>3. pc' = [pc EXCEPT ![t] = "held"] /\ pc[t] = "try" BY <1>4 DEF Barge, Return
    <2> QED BY <2>1, <2>2, <2>3 DEF BitInv, BitTypes, LockOwned, QueueOwned,
               Locking, Unlocking, QueueOwning, Waking
  <1>5. ASSUME NEW t \in Threads, Spin(t) \/ LockCasFails(t) \/ GrabFails(t) PROVE BitInv'
    BY <1>5, ReadsWord DEF Spin, LockCasFails, GrabFails, BitInv, BitTypes, LockOwned, QueueOwned
  <1>6. ASSUME NEW t \in Threads, Enqueue(t) PROVE BitInv'
    <2>1. state' \in Word /\ state'.locked = state.locked
          /\ state'.queue_locked = state.queue_locked /\ state'.queue_head # NoThread
      BY <1>6, WordLockAssumption DEF Enqueue, Cas, BitInv, BitTypes, Word, Pointer
    <2>2. pc' = [pc EXCEPT ![t] = "park"] /\ pc[t] = "try" /\ seen' = seen
      BY <1>6 DEF Enqueue, GivesUp, locals
    <2> QED BY <2>1, <2>2 DEF BitInv, BitTypes, LockOwned, QueueOwned,
               Locking, Unlocking, QueueOwning, Waking
  <1>7. ASSUME NEW t \in Threads, Sleep(t) \/ Interrupt(t) PROVE BitInv'
    BY <1>7 DEF Sleep, Interrupt, locals, BitInv, BitTypes, LockOwned, QueueOwned
  <1>8. ASSUME NEW t \in Threads, Woken(t) PROVE BitInv'
    BY <1>8, MoveKeeps, ReadsWord, Zenon DEF Woken, BitInv, Locking, Unlocking, QueueOwning, Waking
  <1>9. ASSUME NEW t \in Threads, Unlock(t) PROVE BitInv'
    <2>1. state' \in Word /\ ~state'.locked
          /\ state'.queue_locked = state.queue_locked /\ state'.queue_head = state.queue_head
      BY <1>9, Zenon DEF Unlock, BitInv, BitTypes, Word
    <2>2. PICK l \in {"idle", "unlock_load"} : pc' = [pc EXCEPT ![t] = l]
      BY <1>9, Zenon DEF Unlock
    <2>3. pc[t] = "held" /\ seen' = seen BY <1>9, SMTT(60) DEF Unlock, locals
    <2> QED BY <2>1, <2>2, <2>3 DEF BitInv, BitTypes, LockOwned, QueueOwned,
               Locking, Unlocking, QueueOwning, Waking
  <1>10. ASSUME NEW t \in Threads, UnlockLoad(t) PROVE BitInv'
    BY <1>10, MoveKeeps, ReadsWord, ZenonT(60) DEF UnlockLoad, BitInv, Locking, Unlocking, QueueOwning, Waking
  <1>11. ASSUME NEW t \in Threads, LeaveToOther(t) PROVE BitInv'
    BY <1>11, MoveKeeps, ReturnWord, Zenon DEF LeaveToOther, Return, BitInv, Locking, Unlocking, QueueOwning, Waking
  <1>12. ASSUME NEW t \in Threads, GrabQueue(t) PROVE BitInv'
    <2>1. state' \in Word /\ state'.locked = state.locked /\ ~state.queue_locked
          /\ state'.queue_locked /\ state'.queue_head # NoThread
      BY <1>12, Zenon DEF GrabQueue, NoOneToWake, Cas, BitInv, BitTypes, Word
    <2>2. pc' = [pc EXCEPT ![t] = "scan"] /\ pc[t] = "grab" /\ seen' = seen
      BY <1>12 DEF GrabQueue
    <2> QED BY <2>1, <2>2 DEF BitInv, BitTypes, LockOwned, QueueOwned,
               Locking, Unlocking, QueueOwning, Waking
  <1>13. ASSUME NEW t \in Threads, ScanNode(t) PROVE BitInv'
    BY <1>13 DEF ScanNode, BitInv, BitTypes, LockOwned, QueueOwned
  <1>14. ASSUME NEW t \in Threads, ScanEnd(t) PROVE BitInv'
    BY <1>14, MoveKeeps, Zenon DEF ScanEnd, BitInv, BitTypes, Locking, Unlocking, QueueOwning, Waking
  <1>15. ASSUME NEW t \in Threads, LeaveToOwner(t) PROVE BitInv'
    <2>1. state' \in Word /\ state'.locked = state.locked /\ ~state'.queue_locked
      BY <1>15, Zenon DEF LeaveToOwner, Cas, BitInv, BitTypes, Word
    <2>2. pc' = [pc EXCEPT ![t] = "idle"] /\ pc[t] = "decide" /\ seen' \in [Threads -> Word]
      BY <1>15, ReturnWord, Zenon DEF LeaveToOwner, Return, BitInv
    <2> QED BY <2>1, <2>2 DEF BitInv, BitTypes, LockOwned, QueueOwned,
               Locking, Unlocking, QueueOwning, Waking
  <1>16. ASSUME NEW t \in Threads, RemoveLast(t) \/ RemoveOnly(t) PROVE BitInv'
    <2>1. state' \in Word /\ state'.locked = state.locked /\ ~state'.queue_locked
      BY <1>16, ZenonT(60) DEF RemoveLast, RemoveOnly, Cas, Zero, BitInv, BitTypes, Word, Pointer
    <2>2. pc' = [pc EXCEPT ![t] = "unpark"] /\ pc[t] = "decide" /\ seen' = seen
      BY <1>16 DEF RemoveLast, RemoveOnly, locals
    <2> QED BY <2>1, <2>2 DEF BitInv, BitTypes, LockOwned, QueueOwned,
               Locking, Unlocking, QueueOwning, Waking
  <1>17. ASSUME NEW t \in Threads, Rescan(t) PROVE BitInv'
    BY <1>17, MoveKeeps, ReadsWord, Zenon DEF Rescan, BitInv, Locking, Unlocking, QueueOwning, Waking
  <1>18. ASSUME NEW t \in Threads, UnparkLock(t) PROVE BitInv'
    BY <1>18, MoveKeeps, ZenonT(60) DEF UnparkLock, locals, BitInv, BitTypes, Locking, Unlocking, QueueOwning, Waking
  <1>19. ASSUME NEW t \in Threads, Unpark(t) PROVE BitInv'
    BY <1>19, MoveKeeps, ReturnWord, Zenon DEF Unpark, Return, BitInv, Locking, Unlocking, QueueOwning, Waking
  <1> QED
    BY <1>1, <1>2, <1>3, <1>4, <1>5, <1>6, <1>7, <1>8, <1>9, <1>10, <1>11, <1>12, <1>13,
       <1>14, <1>15, <1>16, <1>17, <1>18, <1>19 DEF Next, Step

\* The queue lock of a WordLock has one owner, and its queue is not empty: two
\* threads never scan or cut the list of unlock_slow at the same time.
THEOREM QueueHasOneOwner == Spec => []QueueOwned
  <1>1. BitInv => QueueOwned BY DEF BitInv
  <1> QED BY InitBits, NextKeepsBits, <1>1, PTL DEF Spec

-----------------------------------------------------------------------------
\* The threads past lock(), and those inside it.
Inside == {t \in Threads : pc[t] = "held"}
Asking == {t \in Threads : pc[t] \in Locking}

\* MutexSpec is about these two sets, under the one mutex's name.
LEMMA Mapped ==
  ASSUME NEW S, NEW R
  PROVE  /\ Inside' = S =>
              [m \in {"word"} |-> {t \in Threads : pc[t] = "held"}]' =
                [[m \in {"word"} |-> {t \in Threads : pc[t] = "held"}] EXCEPT !["word"] = S]
         /\ Asking' = R =>
              [m \in {"word"} |-> {t \in Threads : pc[t] \in Locking}]' =
                [[m \in {"word"} |-> {t \in Threads : pc[t] \in Locking}] EXCEPT !["word"] = R]
  BY DEF Inside, Asking

\* A set that does not change looks the same there.
LEMMA MappedSame ==
  /\ Inside' = Inside => UNCHANGED [m \in {"word"} |-> {t \in Threads : pc[t] = "held"}]
  /\ Asking' = Asking => UNCHANGED [m \in {"word"} |-> {t \in Threads : pc[t] \in Locking}]
  BY DEF Inside, Asking

\* Who is not in lock() is in no call.
LEMMA NotAsking == ASSUME NEW t \in Threads \ Asking PROVE Abstract!Out(t)
  BY DEF Asking, Abstract!Out

\* If neither changes, the mutex takes no step.
LEMMA SameSets == ASSUME Inside' = Inside, Asking' = Asking PROVE UNCHANGED Abstract!vars
  BY DEF Inside, Asking, Abstract!vars

\* A step of one thread that stays outside, inside or asking is no step of the
\* mutex.
LEMMA SamePhase == ASSUME pc \in [Threads -> {"idle", "held"} \cup Locking \cup Unlocking],
                          NEW t \in Threads, NEW l,
                          pc' = [pc EXCEPT ![t] = l],
                          l = "held" <=> pc[t] = "held",
                          l \in Locking <=> pc[t] \in Locking
                   PROVE  UNCHANGED Abstract!vars
  <1>1. \A u \in Threads : /\ pc'[u] = "held" <=> pc[u] = "held"
                           /\ pc'[u] \in Locking <=> pc[u] \in Locking
    OBVIOUS
  <1>2. Inside' = Inside /\ Asking' = Asking
    BY <1>1 DEF Inside, Asking, Locking
  <1> QED BY <1>2, SameSets

\* How the two sets change when one thread moves.
LEMMA MovePhase == ASSUME pc \in [Threads -> {"idle", "held"} \cup Locking \cup Unlocking],
                          NEW t \in Threads, NEW l,
                          pc' = [pc EXCEPT ![t] = l]
                   PROVE  /\ Inside' = IF l = "held" THEN Inside \cup {t} ELSE Inside \ {t}
                          /\ Asking' = IF l \in Locking THEN Asking \cup {t} ELSE Asking \ {t}
                          /\ l # "held" /\ t \notin Inside => Inside' = Inside
                          /\ l \notin Locking /\ t \notin Asking => Asking' = Asking
  BY DEF Inside, Asking, Locking

\* Inside is who has the mutex: nobody while LOCKED_BIT is clear, else one thread.
LEMMA InsideIsOne == BitInv => /\ ~state.locked => Inside = {}
                               /\ \A t \in Inside : Inside = {t}
  BY DEF BitInv, LockOwned, Inside

\* Every step of the word lock is a step of the mutex or a stutter.
LEMMA NextRefines == BitInv /\ [Next]_vars => [Abstract!Next]_(Abstract!vars)
  <1> SUFFICES ASSUME BitInv, [Next]_vars PROVE [Abstract!Next]_(Abstract!vars)
    OBVIOUS
  <1>a. pc \in [Threads -> {"idle", "held"} \cup Locking \cup Unlocking]
    BY DEF BitInv, BitTypes
  <1> USE DEF Goto
  <1>1. CASE UNCHANGED vars
    BY <1>1 DEF vars, Abstract!vars
  <1>2. ASSUME NEW t \in Threads, LockFast(t) PROVE Abstract!Next
    <2>1. pc[t] = "idle" /\ pc' = [pc EXCEPT ![t] = "held"] /\ ~state.locked
      BY <1>2 DEF LockFast, Calls, Zero
    <2>2. Inside = {} /\ t \notin Asking
      BY <2>1, InsideIsOne DEF Asking, Locking
    <2>3. Inside' = {t} /\ Asking' = Asking
      BY <2>1, <2>2, <1>a, MovePhase DEF Locking
    <2>4. Abstract!AskAcquire(t, "word")
      BY <2>2, <2>3, Mapped, MappedSame, NotAsking DEF Abstract!AskAcquire, Inside
    <2> QED BY <2>4 DEF Abstract!Next
  <1>3. ASSUME NEW t \in Threads, LockSlow(t) PROVE Abstract!Next
    <2>1. pc[t] = "idle" /\ pc' = [pc EXCEPT ![t] = "try"] BY <1>3 DEF LockSlow, Calls
    <2>2. t \notin Asking /\ t \notin Inside BY <2>1 DEF Asking, Inside, Locking
    <2>3. Inside' = Inside /\ Asking' = Asking \cup {t}
      BY <2>1, <2>2, <1>a, MovePhase DEF Locking
    <2>4. Abstract!Ask(t, "word")
      BY <2>2, <2>3, Mapped, MappedSame, NotAsking DEF Abstract!Ask, Asking
    <2> QED BY <2>4 DEF Abstract!Next
  <1>4. ASSUME NEW t \in Threads, Barge(t) PROVE Abstract!Next
    <2>1. pc[t] = "try" /\ pc' = [pc EXCEPT ![t] = "held"] /\ ~state.locked
      BY <1>4 DEF Barge, Return, Cas
    <2>2. Inside = {} /\ t \in Asking BY <2>1, InsideIsOne DEF Asking, Locking
    <2>3. Inside' = {t} /\ Asking' = Asking \ {t}
      BY <2>1, <2>2, <1>a, MovePhase DEF Locking
    <2>4. Abstract!Acquire(t, "word")
      BY <2>2, <2>3, Mapped DEF Abstract!Acquire, Inside, Asking
    <2> QED BY <2>4 DEF Abstract!Next
  <1>5. ASSUME NEW t \in Threads, Unlock(t) PROVE Abstract!Next
    <2>1. PICK l \in {"idle", "unlock_load"} : pc' = [pc EXCEPT ![t] = l]
      BY <1>5, Zenon DEF Unlock
    <2>2. pc[t] = "held" BY <1>5 DEF Unlock
    <2>3. Inside = {t} /\ t \notin Asking
      BY <2>2, InsideIsOne DEF Asking, Inside, Locking
    <2>4. Inside' = {} /\ Asking' = Asking
      BY <2>1, <2>3, <1>a, MovePhase DEF Locking
    <2>5. Abstract!Release(t, "word")
      BY <2>3, <2>4, Mapped, MappedSame, NotAsking DEF Abstract!Release, Inside
    <2> QED BY <2>5 DEF Abstract!Next
  <1>6. ASSUME NEW t \in Threads,
               \/ Spin(t) \/ LockCasFails(t) \/ GrabFails(t) \/ Sleep(t)
               \/ Interrupt(t) \/ ScanNode(t)
        PROVE  UNCHANGED Abstract!vars
    <2>1. pc' = pc
      BY <1>6 DEF Spin, LockCasFails, GrabFails, Sleep, Interrupt, ScanNode
    <2> QED BY <2>1 DEF Abstract!vars
  <1>7. ASSUME NEW t \in Threads, Enqueue(t) \/ Woken(t) PROVE UNCHANGED Abstract!vars
    <2>1. PICK l \in Locking : pc' = [pc EXCEPT ![t] = l] /\ pc[t] \in Locking
      BY <1>7 DEF Enqueue, GivesUp, Woken, Locking
    <2> QED BY <2>1, <1>a, SamePhase, Zenon DEF Locking
  <1>8. ASSUME NEW t \in Threads,
               \/ UnlockLoad(t) \/ LeaveToOther(t) \/ GrabQueue(t) \/ ScanEnd(t)
               \/ LeaveToOwner(t) \/ RemoveLast(t) \/ RemoveOnly(t) \/ Rescan(t)
               \/ UnparkLock(t) \/ Unpark(t)
        PROVE  UNCHANGED Abstract!vars
    <2>1. PICK l \in {"idle"} \cup Unlocking : pc' = [pc EXCEPT ![t] = l]
      BY <1>8 DEF UnlockLoad, LeaveToOther, GrabQueue, ScanEnd, LeaveToOwner, RemoveLast,
         RemoveOnly, Rescan, UnparkLock, Unpark, Return, Unlocking, QueueOwning, Waking
    <2>2. pc[t] \in Unlocking
      BY <1>8 DEF UnlockLoad, LeaveToOther, GrabQueue, ScanEnd, LeaveToOwner, RemoveLast,
         RemoveOnly, Rescan, UnparkLock, Unpark, Unlocking, QueueOwning, Waking
    <2> QED BY <2>1, <2>2, <1>a, SamePhase, Zenon DEF Locking, Unlocking, QueueOwning, Waking
  <1> QED
    BY <1>1, <1>2, <1>3, <1>4, <1>5, <1>6, <1>7, <1>8 DEF Next, Step

\* A WordLock is a mutex for any number of threads: the bucket locks of the
\* parking lot exclude, whatever happens on their queues.
THEOREM WordLockIsMutex == Spec => ImplementsMutexSpec
  <1>1. Init => Abstract!Init
    BY DEF Init, Abstract!Init, Locking
  <1> QED BY InitBits, NextKeepsBits, NextRefines, <1>1, PTL
          DEF Spec, ImplementsMutexSpec, Abstract!Spec
=============================================================================
