--------------------------- MODULE RawMutexProofs ---------------------------
(***************************************************************************)
(* What RawMutex guarantees for every number of threads and mutexes.       *)
(***************************************************************************)
EXTENDS RawMutex, FiniteSetTheorems, TLAPS

-----------------------------------------------------------------------------
(* The bucket's list *)

\* Taking one thread out of the list (unpark_one) shortens it by one and keeps
\* the order of the others.
LEMMA UnlinkedProperties ==
  ASSUME NEW S, NEW q \in Seq(S), NEW i \in 1..Len(q)
  PROVE  /\ Unlinked(q, i) \in Seq(S)
         /\ Len(Unlinked(q, i)) = Len(q) - 1
         /\ \A j \in 1..(Len(q) - 1) :
              Unlinked(q, i)[j] = IF j < i THEN q[j] ELSE q[j + 1]
<1> DEFINE a == SubSeq(q, 1, i - 1)
           b == SubSeq(q, i + 1, Len(q))
<1>1. /\ a \in Seq(S)
      /\ Len(a) = i - 1
      /\ \A j \in 1..(i - 1) : a[j] = q[j]
  OBVIOUS
<1>2. /\ b \in Seq(S)
      /\ Len(b) = Len(q) - i
      /\ \A j \in 1..(Len(q) - i) : b[j] = q[i + j]
  OBVIOUS
<1> HIDE DEF a, b
<1>3. /\ a \o b \in Seq(S)
      /\ Len(a \o b) = Len(a) + Len(b)
      /\ \A j \in 1..(Len(a) + Len(b)) :
           (a \o b)[j] = IF j <= Len(a) THEN a[j] ELSE b[j - Len(a)]
  <2>0. a \in Seq(S) /\ b \in Seq(S)
    BY <1>1, <1>2
  <2>1. a \o b \in Seq(S) /\ Len(a \o b) = Len(a) + Len(b)
    BY <2>0
  <2>2. ASSUME NEW j \in 1..(Len(a) + Len(b))
        PROVE  (a \o b)[j] = IF j <= Len(a) THEN a[j] ELSE b[j - Len(a)]
    BY <1>1, <1>2
  <2> QED
    BY <2>1, <2>2
<1>4. Unlinked(q, i) = a \o b
  BY Zenon DEF Unlinked, a, b
<1>5. Len(q) \in Nat
  OBVIOUS
<1>6. ASSUME NEW j \in 1..(Len(q) - 1)
      PROVE  (a \o b)[j] = IF j < i THEN q[j] ELSE q[j + 1]
  BY <1>1, <1>2, <1>3, <1>5
<1>7. Len(a \o b) = Len(q) - 1
  BY <1>1, <1>2, <1>3, <1>5
<1> QED
  BY <1>3, <1>4, <1>6, <1>7, Zenon

-----------------------------------------------------------------------------
(* Types *)

\* swap_remove shortens a Vec by one and leaves a Vec.
LEMMA SwapRemoveType ==
  ASSUME NEW S, NEW s \in Seq(S), NEW p \in 1..Len(s)
  PROVE  /\ swap_remove(s, p) \in Seq(S)
         /\ Len(swap_remove(s, p)) = Len(s) - 1
         /\ \A i \in 1..(Len(s) - 1) :
              swap_remove(s, p)[i] = IF i = p THEN s[Len(s)] ELSE s[i]
<1>1. Len(s) \in Nat /\ Len(s) >= 1 /\ Len(s) - 1 \in Nat
  OBVIOUS
<1>2. \A i \in 1..(Len(s) - 1) : (IF i = p THEN s[Len(s)] ELSE s[i]) \in S
  BY <1>1
<1> QED
  BY <1>1, <1>2 DEF swap_remove

\* The detector's list of a thread stays a list whatever is pushed or removed,
\* and nobody else's list changes.
LEMMA ResourcesType ==
  ASSUME resources \in [Threads -> Seq(Mutexes)],
         NEW t \in Threads, NEW m \in Mutexes,
         acquire_resource(t, m) \/ release_resource(t, m)
  PROVE  /\ resources' \in [Threads -> Seq(Mutexes)]
         /\ \A u \in Threads \ {t} : resources'[u] = resources[u]
<1>1. resources[t] \in Seq(Mutexes)
  OBVIOUS
<1>2. CASE acquire_resource(t, m)
  <2>1. Append(resources[t], m) \in Seq(Mutexes)
    BY <1>1
  <2> QED
    BY <1>2, <2>1 DEF acquire_resource
<1>3. CASE release_resource(t, m) /\ UNCHANGED resources
  BY <1>3
<1>4. CASE \E p \in Positions(resources[t], m) :
             resources' = [resources EXCEPT ![t] = swap_remove(@, p)]
  <2>1. PICK p \in 1..Len(resources[t]) :
          resources' = [resources EXCEPT ![t] = swap_remove(resources[t], p)]
    BY <1>4 DEF Positions
  <2>2. swap_remove(resources[t], p) \in Seq(Mutexes)
    BY <1>1, SwapRemoveType
  <2> QED
    BY <2>1, <2>2
<1> QED
  BY <1>2, <1>3, <1>4, Zenon DEF release_resource

\* What one more guard, or one less, does to the counts.
LEMMA HeldChange ==
  ASSUME held \in [Threads -> [Mutexes -> Nat]],
         NEW t \in Threads, NEW m \in Mutexes,
         Gain(t, m) \/ GiveUp(t, m)
  PROVE  /\ held' \in [Threads -> [Mutexes -> Nat]]
         /\ \A u \in Threads, n \in Mutexes : u # t \/ n # m => held'[u][n] = held[u][n]
         /\ Gain(t, m) => held'[t][m] = held[t][m] + 1
         /\ GiveUp(t, m) => held[t][m] > 0 /\ held'[t][m] = held[t][m] - 1
<1>1. held[t] \in [Mutexes -> Nat] /\ held[t][m] \in Nat
  OBVIOUS
<1>2. CASE Gain(t, m)
  <2>1. held' = [held EXCEPT ![t] = [held[t] EXCEPT ![m] = held[t][m] + 1]]
    BY <1>2 DEF Gain
  <2>2. [held[t] EXCEPT ![m] = held[t][m] + 1] \in [Mutexes -> Nat]
    BY <1>1
  <2>3. ~GiveUp(t, m)
    BY <1>1, <2>1 DEF GiveUp
  <2> QED
    BY <1>1, <2>1, <2>2, <2>3
<1>3. CASE GiveUp(t, m)
  <2>1. held[t][m] > 0 /\ held' = [held EXCEPT ![t] = [held[t] EXCEPT ![m] = held[t][m] - 1]]
    BY <1>3 DEF GiveUp
  <2>2. [held[t] EXCEPT ![m] = held[t][m] - 1] \in [Mutexes -> Nat]
    BY <1>1, <2>1
  <2>3. ~Gain(t, m)
    BY <1>1, <2>1 DEF Gain
  <2> QED
    BY <1>1, <2>1, <2>2, <2>3
<1> QED
  BY <1>2, <1>3

\* SpinWait::spin counts no further than the limit.
LEMMA SpinType ==
  ASSUME spins \in [Threads -> 0..SpinLimit], NEW t \in Threads, Spin(t)
  PROVE  spins' \in [Threads -> 0..SpinLimit]
BY SpinLimitAssumption DEF Spin, CanSpin

\* Acquired, the return of lock(), keeps the types of what it assigns.
LEMMA AcquiredType ==
  ASSUME TypeOK, NEW t \in Threads, NEW m \in Mutexes, Acquired(t, m)
  PROVE  /\ held' \in [Threads -> [Mutexes -> Nat]]
         /\ resources' \in [Threads -> Seq(Mutexes)]
         /\ pc' \in [Threads -> Labels]
         /\ seen' \in [Threads -> SUBSET Bits]
         /\ spins' \in [Threads -> 0..SpinLimit]
<1>0. held' \in [Threads -> [Mutexes -> Nat]]
  BY HeldChange, Zenon DEF TypeOK, Acquired
<1>1. resources' \in [Threads -> Seq(Mutexes)]
  BY ResourcesType, Zenon DEF TypeOK, Acquired
<1>2. pc' \in [Threads -> Labels]
  BY DEF TypeOK, Acquired, Goto, Labels
<1>3. seen' \in [Threads -> SUBSET Bits]
  BY DEF TypeOK, Acquired
<1>4. spins' \in [Threads -> 0..SpinLimit]
  BY SpinLimitAssumption DEF TypeOK, Acquired
<1> QED
  BY <1>0, <1>1, <1>2, <1>3, <1>4

\* unlock()'s first step keeps the types of what it assigns.
LEMMA UnlockByType ==
  ASSUME TypeOK, NEW t \in Threads, NEW m \in Mutexes, UnlockBy(t, m),
         held' \in [Threads -> [Mutexes -> Nat]], strayed' \subseteq Mutexes
  PROVE  TypeOK'
<1>1. resources' \in [Threads -> Seq(Mutexes)]
  BY ResourcesType, Zenon DEF TypeOK, UnlockBy
<1> QED
  BY <1>1, Zenon DEF TypeOK, UnlockBy, Goto, Labels, lotVars

\* Every step of every thread keeps the type invariant.
LEMMA TypeStep == TypeOK /\ [AnyNext]_vars => TypeOK'
<1> SUFFICES ASSUME TypeOK, [AnyNext]_vars PROVE TypeOK'
  OBVIOUS
<1> USE DEF lotVars, guardVars
<1>1. ASSUME NEW t \in Threads, NEW m \in Mutexes, LockFast(t, m) PROVE TypeOK'
  BY <1>1, AcquiredType, Zenon DEF TypeOK, LockFast, Bits
<1>2. ASSUME NEW t \in Threads, NEW m \in Mutexes, LockSlow(t, m) PROVE TypeOK'
  BY <1>2 DEF TypeOK, LockSlow, Goto, Labels
<1>3. ASSUME NEW t \in Threads, Load(t) PROVE TypeOK'
  BY <1>3 DEF TypeOK, Load, Reload, Goto, Labels
<1>4. ASSUME NEW t \in Threads, SlowAcquire(t) PROVE TypeOK'
  <2>1. key[t] \in Mutexes
    BY DEF TypeOK
  <2> QED
    BY <1>4, <2>1, AcquiredType, Zenon DEF TypeOK, SlowAcquire, Bits
<1>5. ASSUME NEW t \in Threads, SlowSpin(t) PROVE TypeOK'
  BY <1>5, SpinType, Zenon DEF TypeOK, SlowSpin, Reload
<1>6. ASSUME NEW t \in Threads, SlowSetParked(t) PROVE TypeOK'
  BY <1>6 DEF TypeOK, SlowSetParked, Goto, Labels, Bits
<1>7. ASSUME NEW t \in Threads, SlowQueued(t) PROVE TypeOK'
  BY <1>7 DEF TypeOK, SlowQueued, Goto, Labels
<1>8. ASSUME NEW t \in Threads, SlowCasFails(t) PROVE TypeOK'
  BY <1>8 DEF TypeOK, SlowCasFails, Reload
<1>9. ASSUME NEW t \in Threads, ParkLockBucket(t) PROVE TypeOK'
  BY <1>9 DEF TypeOK, ParkLockBucket, Goto, Labels
<1>10. ASSUME NEW t \in Threads, ParkInvalid(t) PROVE TypeOK'
  BY <1>10, SpinType, Zenon DEF TypeOK, ParkInvalid, Goto, Labels
<1>11. ASSUME NEW t \in Threads, ParkValid(t) PROVE TypeOK'
  BY <1>11 DEF TypeOK, ParkValid, Goto, Labels
<1>12. ASSUME NEW t \in Threads, ParkEnqueue(t) PROVE TypeOK'
  BY <1>12 DEF TypeOK, ParkEnqueue, Goto, Labels
<1>13. ASSUME NEW t \in Threads, WokenHandOff(t) PROVE TypeOK'
  <2>1. key[t] \in Mutexes
    BY DEF TypeOK
  <2> QED
    BY <1>13, <2>1, AcquiredType, Zenon DEF TypeOK, WokenHandOff
<1>14. ASSUME NEW t \in Threads, WokenNormal(t) PROVE TypeOK'
  BY <1>14, SpinType, Zenon DEF TypeOK, WokenNormal, Goto, Labels
<1>15. ASSUME NEW t \in Threads, UnparkLockBucket(t) PROVE TypeOK'
  BY <1>15 DEF TypeOK, UnparkLockBucket, Goto, Labels
<1>16. ASSUME NEW t \in Threads, Unpark(t) PROVE TypeOK'
  <2>1. PICK i \in ParkedAt(key[t]), be_fair \in BOOLEAN :
          /\ state' = [state EXCEPT ![key[t]] =
                UnlockState(@, be_fair, \E j \in ParkedAt(key[t]) : i < j)]
          /\ token' = [token EXCEPT ![queue[i]] = UnlockToken(be_fair)]
          /\ current' = [current EXCEPT ![t] = queue[i]]
          /\ queue' = Unlinked(queue, i)
    BY <1>16, Zenon DEF Unpark
  <2>2. i \in 1..Len(queue) /\ queue[i] \in Threads
    BY DEF TypeOK, ParkedAt
  <2>3. queue' \in Seq(Threads)
    BY <2>1, <2>2, UnlinkedProperties DEF TypeOK
  <2>4. state' \in [Mutexes -> SUBSET Bits]
    BY <2>1, Zenon DEF TypeOK, UnlockState, Bits
  <2> QED
    BY <1>16, <2>1, <2>2, <2>3, <2>4, Zenon DEF TypeOK, Unpark, UnlockToken, Goto, Labels
<1>17. ASSUME NEW t \in Threads, UnparkNobody(t) PROVE TypeOK'
  BY <1>17 DEF TypeOK, UnparkNobody, UnlockState, Goto, Labels, Bits
<1>18. ASSUME NEW t \in Threads, Wake(t) PROVE TypeOK'
  BY <1>18, Zenon DEF TypeOK, Wake, Goto, Labels
<1>19. ASSUME NEW t \in Threads, NEW m \in Mutexes, Unlock(t, m) PROVE TypeOK'
  <2>1. held' \in [Threads -> [Mutexes -> Nat]] /\ strayed' \subseteq Mutexes
    BY <1>19, HeldChange, Zenon DEF TypeOK, Unlock
  <2> QED
    BY <1>19, <2>1, UnlockByType DEF Unlock
<1>20. ASSUME NEW t \in Threads, NEW m \in Mutexes, TryLock(t, m) PROVE TypeOK'
  <2>1. resources' \in [Threads -> Seq(Mutexes)] /\ held' \in [Threads -> [Mutexes -> Nat]]
    BY <1>20, ResourcesType, HeldChange, Zenon DEF TypeOK, TryLock
  <2> QED
    BY <1>20, <2>1, Zenon DEF TypeOK, TryLock, Bits
<1>21. ASSUME NEW t \in Threads, NEW m \in Mutexes, MarkParkedWhenLock(t, m) PROVE TypeOK'
  BY <1>21 DEF TypeOK, MarkParkedWhenLock, Bits
<1>22. ASSUME NEW t \in Threads, NEW m \in Mutexes, MapGuard(t, m) PROVE TypeOK'
  <2>1. held' \in [Threads -> [Mutexes -> Nat]]
    BY <1>22, HeldChange, Zenon DEF TypeOK, MapGuard
  <2> QED
    BY <1>22, <2>1, Zenon DEF TypeOK, MapGuard
<1>23. ASSUME NEW t \in Threads, NEW u \in Threads, NEW m \in Mutexes, SendGuard(t, u, m)
       PROVE  TypeOK'
  <2>1. held' \in [Threads -> [Mutexes -> Nat]]
    <3>1. held \in [Threads -> [Mutexes -> Nat]] /\ t # u /\ held[t][m] > 0
      BY <1>23 DEF TypeOK, SendGuard
    <3>2. held' = [held EXCEPT ![t] = [held[t] EXCEPT ![m] = held[t][m] - 1],
                               ![u] = [held[u] EXCEPT ![m] = held[u][m] + 1]]
      BY <1>23, <3>1 DEF SendGuard
    <3>3. /\ [held[t] EXCEPT ![m] = held[t][m] - 1] \in [Mutexes -> Nat]
          /\ [held[u] EXCEPT ![m] = held[u][m] + 1] \in [Mutexes -> Nat]
      BY <3>1
    <3> QED
      BY <3>1, <3>2, <3>3
  <2> QED
    BY <1>23, <2>1, Zenon DEF TypeOK, SendGuard
<1>25. ASSUME NEW t \in Threads, NEW m \in Mutexes, ForceUnlock(t, m) PROVE TypeOK'
  <2>1. held' \in [Threads -> [Mutexes -> Nat]] /\ strayed' \subseteq Mutexes
    BY <1>25, Zenon DEF TypeOK, ForceUnlock
  <2> QED
    BY <1>25, <2>1, UnlockByType DEF ForceUnlock
<1>24. CASE UNCHANGED vars
  BY <1>24 DEF TypeOK, vars
<1> QED
  BY <1>1, <1>2, <1>3, <1>4, <1>5, <1>6, <1>7, <1>8, <1>9, <1>10, <1>11, <1>12, <1>13,
     <1>14, <1>15, <1>16, <1>17, <1>18, <1>19, <1>20, <1>21, <1>22, <1>23, <1>24, <1>25
     DEF AnyNext, TryNext, LockNext, Call

-----------------------------------------------------------------------------
(* The parking lot *)

\* A thread is in the list at most once, asleep, with its futex word set.
QueueInv == /\ \A i, j \in 1..Len(queue) : queue[i] = queue[j] => i = j
            /\ \A t \in Threads : Queued(t) => pc[t] = "parked" /\ futex[t]

\* Who works on the bucket has locked it, and who is about to be woken is no
\* longer in the list.
BucketInv == \A t \in Threads :
  /\ pc[t] \in {"validate", "enqueue", "unpark", "wake"} => bucket = t
  /\ pc[t] = "wake" => current[t] \in Threads /\ ~Queued(current[t])

LotInv == TypeOK /\ QueueInv /\ BucketInv /\ ParkedBitCoversQueue /\ NoLostWakeup

\* The list only changes in park and unpark_one.
LEMMA QueuedSame ==
  ASSUME UNCHANGED queue
  PROVE  \A u \in Threads : Queued(u)' <=> Queued(u)
BY DEF Queued

\* park appends the calling thread, which is not in the list already.
LEMMA QueuedAppend ==
  ASSUME queue \in Seq(Threads), QueueInv,
         NEW t \in Threads, ~Queued(t), queue' = Append(queue, t)
  PROVE  /\ \A u \in Threads : Queued(u)' <=> Queued(u) \/ u = t
         /\ \A i, j \in 1..Len(queue') : queue'[i] = queue'[j] => i = j
<1>1. /\ Len(queue) \in Nat
      /\ Len(queue') = Len(queue) + 1
      /\ \A i \in 1..Len(queue) : queue'[i] = queue[i]
      /\ queue'[Len(queue) + 1] = t
  OBVIOUS
<1>2. \A u \in Threads : Queued(u)' <=> Queued(u) \/ u = t
  BY <1>1 DEF Queued
<1>3. \A i \in 1..Len(queue) : queue[i] # t
  BY DEF Queued
<1>4. ASSUME NEW i \in 1..Len(queue'), NEW j \in 1..Len(queue'), queue'[i] = queue'[j]
      PROVE  i = j
  BY <1>1, <1>3, <1>4 DEF QueueInv
<1> QED
  BY <1>2, <1>4

\* unpark_one takes one thread out, and that thread is not in there twice.
LEMMA QueuedRemove ==
  ASSUME queue \in Seq(Threads), QueueInv,
         NEW i \in 1..Len(queue), queue' = Unlinked(queue, i)
  PROVE  /\ \A u \in Threads : Queued(u)' <=> Queued(u) /\ u # queue[i]
         /\ \A j, k \in 1..Len(queue') : queue'[j] = queue'[k] => j = k
<1>1. /\ Len(queue) \in Nat
      /\ Len(queue') = Len(queue) - 1
      /\ \A j \in 1..(Len(queue) - 1) :
           queue'[j] = IF j < i THEN queue[j] ELSE queue[j + 1]
  BY UnlinkedProperties, SMTT(60)
<1>2. ASSUME NEW j \in 1..Len(queue), j # i
      PROVE  \E k \in 1..Len(queue') : queue'[k] = queue[j]
  <2>1. CASE j < i
    BY <1>1, <2>1
  <2>2. CASE j > i
    <3>1. j - 1 \in 1..(Len(queue) - 1) /\ ~(j - 1 < i) /\ (j - 1) + 1 = j
      BY <1>1, <2>2
    <3> QED
      BY <1>1, <3>1, Zenon
  <2> QED
    BY <1>2, <2>1, <2>2
<1>3. ASSUME NEW k \in 1..Len(queue')
      PROVE  \E j \in 1..Len(queue) : j # i /\ queue'[k] = queue[j]
  <2>1. CASE k < i
    BY <1>1, <2>1
  <2>2. CASE ~(k < i)
    <3>1. k + 1 \in 1..Len(queue) /\ k + 1 # i
      BY <1>1, <2>2
    <3> QED
      BY <1>1, <2>2, <3>1
  <2> QED
    BY <2>1, <2>2
<1>4. \A u \in Threads : Queued(u)' <=> Queued(u) /\ u # queue[i]
  <2> SUFFICES ASSUME NEW u \in Threads
               PROVE  Queued(u)' <=> Queued(u) /\ u # queue[i]
    OBVIOUS
  <2>1. ASSUME Queued(u)' PROVE Queued(u) /\ u # queue[i]
    <3>1. PICK k \in 1..Len(queue') : queue'[k] = u
      BY <2>1 DEF Queued
    <3>2. PICK j \in 1..Len(queue) : j # i /\ queue'[k] = queue[j]
      BY <1>3, <3>1
    <3> QED
      BY <3>1, <3>2 DEF Queued, QueueInv
  <2>2. ASSUME Queued(u), u # queue[i] PROVE Queued(u)'
    <3>1. PICK j \in 1..Len(queue) : queue[j] = u /\ j # i
      BY <2>2 DEF Queued
    <3>2. PICK k \in 1..Len(queue') : queue'[k] = queue[j]
      BY <1>2, <3>1
    <3> QED
      BY <3>1, <3>2 DEF Queued
  <2> QED
    BY <2>1, <2>2
<1>5. ASSUME NEW j \in 1..Len(queue'), NEW k \in 1..Len(queue'), queue'[j] = queue'[k]
      PROVE  j = k
  BY <1>1, <1>5, SMTT(60) DEF QueueInv
<1> QED
  BY <1>4, <1>5

\* Thread t moves on and no other thread does.
Moved(t, label) == pc'[t] = label /\ \A u \in Threads \ {t} : pc'[u] = pc[u]

\* That is what the program counter of a step with Goto does.
LEMMA GotoMoves ==
  ASSUME pc \in [Threads -> Labels], NEW t \in Threads, NEW label, Goto(t, label)
  PROVE  Moved(t, label)
BY DEF Goto, Moved

\* A step beside the lot: no list, bucket or futex word changes, no parked bit
\* is cleared, and who moves is, and stays, out of the bucket and the list, or
\* leaves park() because its futex word is 0.
Away == {"idle", "load", "slow", "park", "unlock_slow"}
Aside == /\ UNCHANGED <<bucket, queue, futex, current>>
         /\ \A m \in Mutexes : PARKED_BIT \in state[m] => PARKED_BIT \in state'[m]
         /\ \A u \in Threads :
              \/ pc'[u] = pc[u] /\ key'[u] = key[u]
              \/ /\ pc[u] \in Away \/ (pc[u] = "parked" /\ ~futex[u])
                 /\ pc'[u] \in Away

\* Such a step keeps what the parking lot relies on.
LEMMA AsideStep ==
  ASSUME LotInv, TypeOK', Aside
  PROVE  LotInv'
<1>1. QueueInv /\ BucketInv /\ ParkedBitCoversQueue /\ NoLostWakeup
  BY DEF LotInv
<1>2. \A u \in Threads : key[u] \in Mutexes
  BY DEF LotInv, TypeOK
<1>3. \A u \in Threads : Queued(u)' <=> Queued(u)
  BY QueuedSame DEF Aside
<1>4. \A u \in Threads : Queued(u) => pc'[u] = pc[u] /\ key'[u] = key[u]
  BY <1>1 DEF QueueInv, Aside, Away
<1>5. \A u \in Threads :
        pc[u] \notin Away \cup {"parked"} \/ pc'[u] \notin Away
          => pc'[u] = pc[u] /\ key'[u] = key[u]
  BY DEF Aside
<1>6. QueueInv'
  BY <1>1, <1>3, <1>4 DEF QueueInv, Aside
<1>7. BucketInv'
  BY <1>1, <1>3, <1>5 DEF BucketInv, Aside, Away
<1>8. ParkedBitCoversQueue'
  <2> SUFFICES ASSUME NEW u \in Threads, Queued(u)' \/ pc'[u] = "enqueue"
               PROVE  PARKED_BIT \in state'[key'[u]]
    BY DEF ParkedBitCoversQueue
  <2>1. pc'[u] = pc[u] /\ key'[u] = key[u]
    BY <1>3, <1>4, <1>5 DEF Away
  <2>2. PARKED_BIT \in state[key[u]]
    BY <1>1, <1>3, <2>1 DEF ParkedBitCoversQueue
  <2> QED
    BY <1>2, <2>1, <2>2 DEF Aside
<1>9. NoLostWakeup'
  <2> SUFFICES ASSUME NEW u \in Threads, pc'[u] = "parked"
               PROVE  \/ Queued(u)' \/ ~futex'[u]
                      \/ \E w \in Threads : pc'[w] = "wake" /\ current'[w] = u
    BY DEF NoLostWakeup
  <2>1. pc[u] = "parked"
    BY <1>5 DEF Away
  <2>2. \A w \in Threads : pc[w] = "wake" => pc'[w] = "wake"
    BY <1>5 DEF Away
  <2> QED
    BY <1>1, <1>3, <2>1, <2>2 DEF NoLostWakeup, Aside
<1> QED
  BY <1>6, <1>7, <1>8, <1>9 DEF LotInv

\* unlock's first step: the bit it clears is not a parked bit.
LEMMA UnlockAside ==
  ASSUME TypeOK, NEW t \in Threads, NEW m \in Mutexes, UnlockBy(t, m)
  PROVE  Aside
<1>1. /\ pc \in [Threads -> Labels] /\ state \in [Mutexes -> SUBSET Bits]
      /\ key \in [Threads -> Mutexes]
  BY Zenon DEF TypeOK
<1>2. pc[t] = "idle" /\ (pc' = pc \/ Moved(t, "unlock_slow"))
  BY <1>1, GotoMoves DEF UnlockBy
<1>3. /\ UNCHANGED <<bucket, queue, futex, current>>
      /\ \/ state' = state
         \/ state[m] = {LOCKED_BIT} /\ state' = [state EXCEPT ![m] = {}]
  BY DEF UnlockBy, lotVars
<1>4. \A n \in Mutexes : PARKED_BIT \in state[n] => PARKED_BIT \in state'[n]
  BY <1>1, <1>3 DEF LOCKED_BIT, PARKED_BIT
<1>5. \A u \in Threads \ {t} : key'[u] = key[u]
  BY <1>1 DEF UnlockBy
<1> QED
  BY <1>2, <1>3, <1>4, <1>5 DEF Aside, Away, Moved

\* What the cases below need of LotInv.
LEMMA LotFacts ==
  ASSUME LotInv
  PROVE  /\ QueueInv /\ BucketInv /\ ParkedBitCoversQueue /\ NoLostWakeup
         /\ pc \in [Threads -> Labels] /\ key \in [Threads -> Mutexes]
         /\ state \in [Mutexes -> SUBSET Bits] /\ queue \in Seq(Threads)
         /\ futex \in [Threads -> BOOLEAN]
         /\ current \in [Threads -> Threads \cup {NoThread}]
BY Zenon DEF LotInv, TypeOK

\* Locking the bucket, in park or unpark_one, keeps what the lot relies on.
LEMMA LockBucketStep ==
  ASSUME LotInv, TypeOK', NEW t \in Threads, ParkLockBucket(t) \/ UnparkLockBucket(t)
  PROVE  LotInv'
<1>1. /\ pc[t] \in {"park", "unlock_slow"}
      /\ Moved(t, "validate") \/ Moved(t, "unpark")
      /\ bucket = NoThread /\ bucket' = t
      /\ UNCHANGED <<state, queue, futex, current, key>>
  BY LotFacts, GotoMoves DEF ParkLockBucket, UnparkLockBucket
<1>2. \A u \in Threads : Queued(u)' <=> Queued(u)
  BY <1>1, QueuedSame
<1>3. \A u \in Threads : pc[u] \notin {"validate", "enqueue", "unpark", "wake"}
  BY LotFacts, <1>1, NoThreadAssumption DEF BucketInv
<1>4. QueueInv'
  BY LotFacts, <1>1, <1>2 DEF QueueInv, Moved
<1>5. BucketInv'
  BY <1>1, <1>3 DEF BucketInv, Moved
<1>6. ParkedBitCoversQueue'
  BY LotFacts, <1>1, <1>2 DEF ParkedBitCoversQueue, Moved
<1>7. NoLostWakeup'
  BY LotFacts, <1>1, <1>2, <1>3 DEF NoLostWakeup, Moved
<1> QED
  BY <1>4, <1>5, <1>6, <1>7 DEF LotInv

\* So does a validation in park that fails and unlocks the bucket.
LEMMA ParkInvalidStep ==
  ASSUME LotInv, TypeOK', NEW t \in Threads, ParkInvalid(t)
  PROVE  LotInv'
<1>1. /\ pc[t] = "validate" /\ Moved(t, "load")
      /\ UNCHANGED <<state, queue, futex, current, key>>
  BY LotFacts, GotoMoves DEF ParkInvalid
<1>2. \A u \in Threads : Queued(u)' <=> Queued(u)
  BY <1>1, QueuedSame
<1>3. \A u \in Threads \ {t} : pc[u] \notin {"validate", "enqueue", "unpark", "wake"}
  BY LotFacts, <1>1 DEF BucketInv
<1>4. QueueInv'
  BY LotFacts, <1>1, <1>2 DEF QueueInv, Moved
<1>5. BucketInv'
  BY <1>1, <1>3 DEF BucketInv, Moved
<1>6. ParkedBitCoversQueue'
  BY LotFacts, <1>1, <1>2 DEF ParkedBitCoversQueue, Moved
<1>7. NoLostWakeup'
  BY LotFacts, <1>1, <1>2, <1>3 DEF NoLostWakeup, Moved
<1> QED
  BY <1>4, <1>5, <1>6, <1>7 DEF LotInv

\* A validation that succeeds has seen the parked bit.
LEMMA ParkValidStep ==
  ASSUME LotInv, TypeOK', NEW t \in Threads, ParkValid(t)
  PROVE  LotInv'
<1>1. /\ pc[t] = "validate" /\ Moved(t, "enqueue") /\ PARKED_BIT \in state[key[t]]
      /\ UNCHANGED <<state, bucket, queue, futex, current, key>>
  BY LotFacts, GotoMoves DEF ParkValid, Validated, Bits, lotVars
<1>2. \A u \in Threads : Queued(u)' <=> Queued(u)
  BY <1>1, QueuedSame
<1>4. QueueInv'
  BY LotFacts, <1>1, <1>2 DEF QueueInv, Moved
<1>5. BucketInv'
  BY LotFacts, <1>1, <1>2 DEF BucketInv, Moved
<1>6. ParkedBitCoversQueue'
  BY LotFacts, <1>1, <1>2 DEF ParkedBitCoversQueue, Moved
<1>7. NoLostWakeup'
  <2>1. \A u \in Threads : /\ pc'[u] = "parked" => pc[u] = "parked"
                           /\ pc[u] = "wake" => pc'[u] = "wake"
    BY <1>1 DEF Moved
  <2> QED
    BY LotFacts, <1>1, <1>2, <2>1 DEF NoLostWakeup
<1> QED
  BY <1>4, <1>5, <1>6, <1>7 DEF LotInv

\* Going to sleep adds a thread to the list, whose parked bit is set.
LEMMA ParkEnqueueStep ==
  ASSUME LotInv, TypeOK', NEW t \in Threads, ParkEnqueue(t)
  PROVE  LotInv'
<1>1. /\ pc[t] = "enqueue" /\ Moved(t, "parked") /\ queue' = Append(queue, t)
      /\ UNCHANGED <<state, current, key>>
  BY LotFacts, GotoMoves DEF ParkEnqueue
<1>2. futex'[t] /\ \A u \in Threads \ {t} : futex'[u] = futex[u]
  BY LotFacts DEF ParkEnqueue
<1>3. ~Queued(t) /\ \A u \in Threads \ {t} :
                      pc[u] \notin {"validate", "enqueue", "unpark", "wake"}
  BY LotFacts, <1>1 DEF QueueInv, BucketInv
<1>4. /\ \A u \in Threads : Queued(u)' <=> Queued(u) \/ u = t
      /\ \A i, j \in 1..Len(queue') : queue'[i] = queue'[j] => i = j
  BY LotFacts, <1>1, <1>3, QueuedAppend, Zenon
<1>5. QueueInv'
  BY LotFacts, <1>1, <1>2, <1>4, SMTT(60) DEF QueueInv, Moved
<1>6. BucketInv'
  BY <1>1, <1>3 DEF BucketInv, Moved
<1>7. ParkedBitCoversQueue'
  BY LotFacts, <1>1, <1>4 DEF ParkedBitCoversQueue, Moved
<1>8. NoLostWakeup'
  BY LotFacts, <1>1, <1>2, <1>3, <1>4 DEF NoLostWakeup, Moved
<1> QED
  BY <1>5, <1>6, <1>7, <1>8 DEF LotInv

\* unpark_one takes a thread off the list; the callback keeps the parked bit if
\* another thread waits for the same mutex.
LEMMA UnparkStep ==
  ASSUME LotInv, TypeOK', NEW t \in Threads, Unpark(t)
  PROVE  LotInv'
<1>0. PICK i \in ParkedAt(key[t]), be_fair \in BOOLEAN :
        /\ \A j \in ParkedAt(key[t]) : i <= j
        /\ state' = [state EXCEPT ![key[t]] =
              UnlockState(@, be_fair, \E j \in ParkedAt(key[t]) : i < j)]
        /\ current' = [current EXCEPT ![t] = queue[i]]
        /\ queue' = Unlinked(queue, i)
  BY Zenon DEF Unpark
<1>1. /\ pc[t] = "unpark" /\ Moved(t, "wake") /\ UNCHANGED <<bucket, futex, key>>
  BY LotFacts, GotoMoves DEF Unpark
<1>2. i \in 1..Len(queue) /\ queue[i] \in Threads /\ key[queue[i]] = key[t]
  BY LotFacts DEF ParkedAt
<1>3. /\ \A u \in Threads : Queued(u)' <=> Queued(u) /\ u # queue[i]
      /\ \A j, k \in 1..Len(queue') : queue'[j] = queue'[k] => j = k
  BY LotFacts, <1>0, <1>2, QueuedRemove, Zenon
<1>4. bucket = t /\ \A u \in Threads \ {t} :
                      pc[u] \notin {"validate", "enqueue", "unpark", "wake"}
  BY LotFacts, <1>1 DEF BucketInv
<1>5. current'[t] = queue[i]
  BY LotFacts, <1>0
<1>6. \A m \in Mutexes \ {key[t]} : state'[m] = state[m]
  BY LotFacts, <1>0
<1>7. ASSUME NEW u \in Threads, Queued(u)', key[u] = key[t]
      PROVE  PARKED_BIT \in state'[key[t]]
  <2>1. PICK j \in 1..Len(queue) : queue[j] = u /\ j # i
    BY <1>3, <1>7 DEF Queued
  <2>2. j \in ParkedAt(key[t])
    BY <1>7, <2>1 DEF ParkedAt
  <2>3. i < j
    BY <1>0, <1>2, <2>1, <2>2
  <2>4. PARKED_BIT \in state[key[t]]
    BY LotFacts, <1>3, <1>7 DEF ParkedBitCoversQueue
  <2>5. PARKED_BIT \in UnlockState(state[key[t]], be_fair, \E k \in ParkedAt(key[t]) : i < k)
    BY <2>2, <2>3, <2>4 DEF UnlockState
  <2>6. key[t] \in Mutexes
    BY LotFacts
  <2> QED
    BY LotFacts, <1>0, <2>5, <2>6, Zenon
<1>8. QueueInv'
  BY LotFacts, <1>1, <1>3 DEF QueueInv, Moved
<1>9. BucketInv'
  BY <1>1, <1>2, <1>3, <1>4, <1>5 DEF BucketInv, Moved
<1>10. ParkedBitCoversQueue'
  <2> SUFFICES ASSUME NEW u \in Threads, Queued(u)' \/ pc'[u] = "enqueue"
               PROVE  PARKED_BIT \in state'[key'[u]]
    BY DEF ParkedBitCoversQueue
  <2>1. Queued(u)' /\ Queued(u) /\ key' = key
    BY <1>1, <1>3, <1>4 DEF Moved
  <2>2. PARKED_BIT \in state[key[u]] /\ key[u] \in Mutexes
    BY LotFacts, <2>1 DEF ParkedBitCoversQueue
  <2> QED
    BY <1>6, <1>7, <2>1, <2>2
<1>11. NoLostWakeup'
  BY LotFacts, <1>1, <1>3, <1>4, <1>5 DEF NoLostWakeup, Moved
<1> QED
  BY <1>8, <1>9, <1>10, <1>11 DEF LotInv

\* If unpark_one finds nobody, no parked bit is needed for this mutex.
LEMMA UnparkNobodyStep ==
  ASSUME LotInv, TypeOK', NEW t \in Threads, UnparkNobody(t)
  PROVE  LotInv'
<1>1. /\ pc[t] = "unpark" /\ Moved(t, "idle") /\ UNCHANGED <<queue, futex, current, key>>
      /\ \A m \in Mutexes \ {key[t]} : state'[m] = state[m]
  BY LotFacts, GotoMoves DEF UnparkNobody
<1>2. \A u \in Threads : Queued(u)' <=> Queued(u)
  BY <1>1, QueuedSame
<1>3. \A u \in Threads \ {t} : pc[u] \notin {"validate", "enqueue", "unpark", "wake"}
  BY LotFacts, <1>1 DEF BucketInv
<1>4. \A u \in Threads : Queued(u) => key[u] # key[t]
  BY DEF UnparkNobody, ParkedAt, Queued
<1>5. QueueInv'
  BY LotFacts, <1>1, <1>2 DEF QueueInv, Moved
<1>6. BucketInv'
  BY <1>1, <1>3 DEF BucketInv, Moved
<1>7. ParkedBitCoversQueue'
  BY LotFacts, <1>1, <1>2, <1>3, <1>4 DEF ParkedBitCoversQueue, Moved
<1>8. NoLostWakeup'
  BY LotFacts, <1>1, <1>2, <1>3 DEF NoLostWakeup, Moved
<1> QED
  BY <1>5, <1>6, <1>7, <1>8 DEF LotInv

\* Clearing the futex word wakes a thread that is no longer in the list.
LEMMA WakeStep ==
  ASSUME LotInv, TypeOK', NEW t \in Threads, Wake(t)
  PROVE  LotInv'
<1>1. /\ pc[t] = "wake" /\ Moved(t, "idle") /\ UNCHANGED <<state, queue, key>>
  BY LotFacts, GotoMoves DEF Wake
<1>2. \A u \in Threads : Queued(u)' <=> Queued(u)
  BY <1>1, QueuedSame
<1>3. /\ current[t] \in Threads /\ ~Queued(current[t])
      /\ \A u \in Threads \ {t} : pc[u] \notin {"validate", "enqueue", "unpark", "wake"}
  BY LotFacts, <1>1 DEF BucketInv
<1>4. /\ futex'[current[t]] = FALSE
      /\ \A u \in Threads \ {current[t]} : futex'[u] = futex[u]
  BY LotFacts, <1>3 DEF Wake
<1>5. QueueInv'
  <2>1. \A u \in Threads : Queued(u) => (pc[u] = "parked" /\ futex[u]) /\ u # current[t]
    BY LotFacts, <1>3 DEF QueueInv
  <2>2. \A u \in Threads : Queued(u)' => (pc[u] = "parked" /\ futex[u])'
    BY <1>1, <1>2, <1>4, <2>1 DEF Moved
  <2> QED
    BY LotFacts, <1>1, <2>2 DEF QueueInv
<1>6. BucketInv'
  BY <1>1, <1>3 DEF BucketInv, Moved
<1>7. ParkedBitCoversQueue'
  BY LotFacts, <1>1, <1>2 DEF ParkedBitCoversQueue, Moved
<1>8. NoLostWakeup'
  BY LotFacts, <1>1, <1>2, <1>3, <1>4 DEF NoLostWakeup, Moved
<1> QED
  BY <1>5, <1>6, <1>7, <1>8 DEF LotInv

\* Every step of every thread, whatever it does with a mutex or a guard, keeps
\* what the parking lot relies on.
LEMMA LotStep == LotInv /\ [AnyNext]_vars => LotInv'
<1> SUFFICES ASSUME LotInv, [AnyNext]_vars PROVE LotInv'
  OBVIOUS
<1>t. TypeOK /\ TypeOK'
  BY TypeStep DEF LotInv
<1>b. /\ pc \in [Threads -> Labels] /\ key \in [Threads -> Mutexes]
      /\ state \in [Mutexes -> SUBSET Bits]
  BY LotFacts
<1>1. ASSUME NEW t \in Threads, NEW m \in Mutexes, LockFast(t, m) PROVE Aside
  BY <1>1, <1>b, GotoMoves DEF LockFast, Acquired, lotVars, Aside, Away, Moved
<1>2. ASSUME NEW t \in Threads, NEW m \in Mutexes, LockSlow(t, m) PROVE Aside
  BY <1>2, <1>b, GotoMoves DEF LockSlow, lotVars, Aside, Away, Moved
<1>3. ASSUME NEW t \in Threads, Load(t) PROVE Aside
  BY <1>3, <1>b, GotoMoves DEF Load, lotVars, Aside, Away, Moved
<1>4. ASSUME NEW t \in Threads, SlowAcquire(t) PROVE Aside
  BY <1>4, <1>b, GotoMoves DEF SlowAcquire, Acquired, lotVars, Aside, Away, Moved
<1>5. ASSUME NEW t \in Threads, SlowSpin(t) PROVE Aside
  BY <1>5 DEF SlowSpin, lotVars, Aside
<1>6. ASSUME NEW t \in Threads, SlowSetParked(t) PROVE Aside
  BY <1>6, <1>b, GotoMoves DEF SlowSetParked, lotVars, Aside, Away, Moved
<1>7. ASSUME NEW t \in Threads, SlowQueued(t) PROVE Aside
  BY <1>7, <1>b, GotoMoves DEF SlowQueued, lotVars, Aside, Away, Moved
<1>8. ASSUME NEW t \in Threads, SlowCasFails(t) PROVE Aside
  BY <1>8 DEF SlowCasFails, lotVars, Aside
<1>9. ASSUME NEW t \in Threads, ParkLockBucket(t) \/ UnparkLockBucket(t) PROVE LotInv'
  BY <1>9, <1>t, LockBucketStep
<1>10. ASSUME NEW t \in Threads, ParkInvalid(t) PROVE LotInv'
  BY <1>10, <1>t, ParkInvalidStep
<1>11. ASSUME NEW t \in Threads, ParkValid(t) PROVE LotInv'
  BY <1>11, <1>t, ParkValidStep
<1>12. ASSUME NEW t \in Threads, ParkEnqueue(t) PROVE LotInv'
  BY <1>12, <1>t, ParkEnqueueStep
<1>13. ASSUME NEW t \in Threads, WokenHandOff(t) PROVE Aside
  BY <1>13, <1>b, GotoMoves DEF WokenHandOff, Acquired, lotVars, Aside, Away, Moved
<1>14. ASSUME NEW t \in Threads, WokenNormal(t) PROVE Aside
  BY <1>14, <1>b, GotoMoves DEF WokenNormal, lotVars, Aside, Away, Moved
<1>15. ASSUME NEW t \in Threads, Unpark(t) PROVE LotInv'
  BY <1>15, <1>t, UnparkStep
<1>16. ASSUME NEW t \in Threads, UnparkNobody(t) PROVE LotInv'
  BY <1>16, <1>t, UnparkNobodyStep
<1>17. ASSUME NEW t \in Threads, Wake(t) PROVE LotInv'
  BY <1>17, <1>t, WakeStep
<1>18. ASSUME NEW t \in Threads, NEW m \in Mutexes, Unlock(t, m) \/ ForceUnlock(t, m)
       PROVE  Aside
  BY <1>18, <1>t, UnlockAside DEF Unlock, ForceUnlock
<1>19. ASSUME NEW t \in Threads, NEW m \in Mutexes, TryLock(t, m) PROVE Aside
  BY <1>19, <1>b DEF TryLock, lotVars, Aside, Away
<1>20. ASSUME NEW t \in Threads, NEW m \in Mutexes, MarkParkedWhenLock(t, m) PROVE Aside
  BY <1>20, <1>b DEF MarkParkedWhenLock, lotVars, Aside
<1>21. ASSUME NEW t \in Threads, NEW m \in Mutexes, MapGuard(t, m) PROVE Aside
  BY <1>21 DEF MapGuard, lotVars, Aside
<1>22. ASSUME NEW t \in Threads, NEW u \in Threads, NEW m \in Mutexes, SendGuard(t, u, m)
       PROVE  Aside
  BY <1>22 DEF SendGuard, lotVars, Aside
<1>23. ASSUME UNCHANGED vars PROVE Aside
  BY <1>23 DEF vars, Aside
<1>24. ASSUME Aside PROVE LotInv'
  BY <1>24, <1>t, AsideStep
<1> QED
  BY <1>1, <1>2, <1>3, <1>4, <1>5, <1>6, <1>7, <1>8, <1>9, <1>10, <1>11, <1>12,
     <1>13, <1>14, <1>15, <1>16, <1>17, <1>18, <1>19, <1>20, <1>21, <1>22, <1>23, <1>24
     DEF AnyNext, TryNext, LockNext, Call

\* They hold at the start.
LEMMA InitLot == Init => LotInv
BY NoThreadAssumption, SpinLimitAssumption DEF Init, LotInv, TypeOK, QueueInv,
   BucketInv, ParkedBitCoversQueue, NoLostWakeup, Queued, Labels

\* The parking lot's invariants hold whatever the threads do with their mutexes
\* and their guards.
LEMMA LotCorrect == AnySpec => []LotInv
BY InitLot, LotStep, PTL DEF AnySpec

\* Every variable keeps its type, lock_slow's spin counter its limit.
THEOREM TypeCorrect == AnySpec => []TypeOK
BY LotCorrect, PTL DEF LotInv

\* Whoever sleeps in the queue, or is past park's validation, is announced by
\* PARKED_BIT: for any number of threads and mutexes in the bucket, and even
\* if threads call try_lock, map or send their guards, or call force_unlock at
\* any time on a mutex they do not have.
THEOREM ParkedBitCorrect == AnySpec => []ParkedBitCoversQueue
BY LotCorrect, PTL DEF LotInv

\* A sleeping thread is queued, or is being woken, or can wake up.
THEOREM WakeupCorrect == AnySpec => []NoLostWakeup
BY LotCorrect, PTL DEF LotInv
=============================================================================
