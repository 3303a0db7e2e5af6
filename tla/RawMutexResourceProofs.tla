---------------------- MODULE RawMutexResourceProofs -----------------------
(***************************************************************************)
(* Proofs about the deadlock bookkeeping: each thread's list of resources  *)
(* stays in step with the mutexes it has to give back, for any number of   *)
(* threads and mutexes, nested and dropped in any order.                   *)
(***************************************************************************)
EXTENDS RawMutexProofs

\* How often m occurs in a Vec is a number.
LEMMA Occurrences ==
  ASSUME NEW s \in Seq(Mutexes), NEW m
  PROVE  IsFiniteSet(Positions(s, m)) /\ Cardinality(Positions(s, m)) \in Nat
<1>1. IsFiniteSet(1..Len(s))
  BY FS_Interval
<1>2. Positions(s, m) \subseteq 1..Len(s)
  BY DEF Positions
<1> QED
  BY <1>1, <1>2, FS_Subset, FS_CardinalityType

\* Without one of its occurrences m occurs once less.
LEMMA OneLess ==
  ASSUME NEW s \in Seq(Mutexes), NEW m, NEW i \in Positions(s, m)
  PROVE  /\ IsFiniteSet(Positions(s, m) \ {i})
         /\ Cardinality(Positions(s, m) \ {i}) = Cardinality(Positions(s, m)) - 1
<1> DEFINE all == Positions(s, m)
<1>1. IsFiniteSet(all)
  BY Occurrences
<1>2. i \in all
  OBVIOUS
<1> HIDE DEF all
<1>3. IsFiniteSet(all \ {i}) /\ Cardinality(all \ {i}) = Cardinality(all) - 1
  BY <1>1, <1>2, FS_RemoveElement
<1> QED
  BY <1>3 DEF all

\* push adds one occurrence of the key, and none of another one.
LEMMA PushCounts ==
  ASSUME NEW s \in Seq(Mutexes), NEW m \in Mutexes, NEW n \in Mutexes
  PROVE  Cardinality(Positions(Append(s, m), n)) =
           IF n = m THEN Cardinality(Positions(s, n)) + 1 ELSE Cardinality(Positions(s, n))
<1>1. Len(s) \in Nat /\ Len(s) + 1 \notin Positions(s, n)
  BY DEF Positions
<1>2. Positions(Append(s, m), n) =
        IF n = m THEN Positions(s, n) \cup {Len(s) + 1} ELSE Positions(s, n)
  BY DEF Positions
<1> QED
  BY <1>1, <1>2, Occurrences, FS_AddElement

\* swap_remove takes one occurrence of the entry it removes, and none of another.
LEMMA SwapRemoveCounts ==
  ASSUME NEW s \in Seq(Mutexes), NEW p \in 1..Len(s), NEW n \in Mutexes
  PROVE  Cardinality(Positions(swap_remove(s, p), n)) =
           IF n = s[p] THEN Cardinality(Positions(s, n)) - 1 ELSE Cardinality(Positions(s, n))
<1> DEFINE l == Len(s)
           r == swap_remove(s, p)
<1>0. l \in Nat /\ l >= 1
  OBVIOUS
<1>1. /\ Len(r) = l - 1
      /\ \A i \in 1..(l - 1) : r[i] = IF i = p THEN s[l] ELSE s[i]
  BY SwapRemoveType
<1> HIDE DEF l, r
<1>2. /\ Positions(r, n) = {i \in 1..(l - 1) : r[i] = n}
      /\ Positions(s, n) = {i \in 1..l : s[i] = n}
  BY <1>1 DEF Positions, l
<1>3. p \in 1..l
  BY DEF l
<1>4. CASE n = s[p] /\ n = s[l]
  <2>1. l \in Positions(s, n)
    BY <1>0, <1>2, <1>4
  <2>2. \A i \in 1..(l - 1) : r[i] = n <=> s[i] = n
    BY <1>1, <1>4
  <2>3. Positions(s, n) \ {l} = {i \in 1..(l - 1) : s[i] = n}
    BY <1>0, <1>2
  <2>4. Positions(r, n) = Positions(s, n) \ {l}
    BY <1>2, <2>2, <2>3
  <2>5. Cardinality(Positions(r, n)) = Cardinality(Positions(s, n)) - 1
    BY <2>1, <2>4, OneLess
  <2> QED
    BY <1>4, <2>5 DEF r
<1>5. CASE n = s[p] /\ n # s[l]
  <2>1. Positions(r, n) = Positions(s, n) \ {p} /\ p \in Positions(s, n)
    BY <1>0, <1>1, <1>2, <1>3, <1>5
  <2>2. Cardinality(Positions(r, n)) = Cardinality(Positions(s, n)) - 1
    BY <2>1, OneLess
  <2> QED
    BY <1>5, <2>2 DEF r
<1>6. CASE n # s[p] /\ n = s[l]
  <2> DEFINE rest == Positions(s, n) \ {l}
  <2>1. Positions(r, n) = rest \cup {p} /\ p \notin rest /\ l \in Positions(s, n)
    BY <1>0, <1>1, <1>2, <1>3, <1>6
  <2>2. IsFiniteSet(rest) /\ Cardinality(rest) = Cardinality(Positions(s, n)) - 1
    BY <2>1, OneLess
  <2> HIDE DEF rest
  <2>3. Cardinality(rest \cup {p}) = Cardinality(rest) + 1
    BY <2>1, <2>2, FS_AddElement
  <2>4. Cardinality(Positions(r, n)) = Cardinality(Positions(s, n))
    BY <2>1, <2>2, <2>3, Occurrences
  <2> QED
    BY <1>6, <2>4 DEF r
<1>7. CASE n # s[p] /\ n # s[l]
  <2>1. Positions(r, n) = Positions(s, n)
    BY <1>0, <1>1, <1>2, <1>3, <1>7
  <2> QED
    BY <1>7, <2>1 DEF r
<1> QED
  BY <1>4, <1>5, <1>6, <1>7

Count(t, m) == Cardinality(Positions(resources[t], m))

\* What acquire_resource and release_resource do to the number of entries: one
\* more or one less of the key, nothing else.
LEMMA ResourcesCount ==
  ASSUME resources \in [Threads -> Seq(Mutexes)],
         NEW t \in Threads, NEW m \in Mutexes,
         acquire_resource(t, m) \/ release_resource(t, m)
  PROVE  /\ \A u \in Threads, n \in Mutexes : u # t \/ n # m => Count(u, n)' = Count(u, n)
         /\ acquire_resource(t, m) => Count(t, m)' = Count(t, m) + 1
         /\ release_resource(t, m) /\ Count(t, m) > 0 => Count(t, m)' = Count(t, m) - 1
<1>0. /\ resources[t] \in Seq(Mutexes)
      /\ \A u \in Threads \ {t} : resources'[u] = resources[u]
  BY ResourcesType
<1>1. \A u \in Threads \ {t}, n \in Mutexes : Count(u, n)' = Count(u, n)
  BY <1>0 DEF Count
<1>2. \A n \in Mutexes : Count(t, n) \in Nat
  BY <1>0, Occurrences DEF Count
<1>3. CASE acquire_resource(t, m)
  <2>1. resources'[t] = Append(resources[t], m)
    BY <1>3 DEF acquire_resource
  <2>2. \A n \in Mutexes : Count(t, n)' = IF n = m THEN Count(t, n) + 1 ELSE Count(t, n)
    BY <1>0, <2>1, PushCounts DEF Count
  <2>3. ~(release_resource(t, m) /\ Count(t, m) > 0)
    <3>1. SUFFICES ASSUME release_resource(t, m), Count(t, m) > 0 PROVE FALSE
      OBVIOUS
    <3>2. Len(resources'[t]) = Len(resources[t]) + 1 /\ Len(resources[t]) \in Nat
      BY <1>0, <2>1
    <3>3. PICK p \in Positions(resources[t], m) :
            resources' = [resources EXCEPT ![t] = swap_remove(@, p)]
      BY <3>1, <3>2 DEF release_resource
    <3>4. p \in 1..Len(resources[t]) /\ resources'[t] = swap_remove(resources[t], p)
      BY <3>3 DEF Positions
    <3>5. Len(resources'[t]) = Len(resources[t]) - 1
      BY <1>0, <3>4, SwapRemoveType
    <3> QED
      BY <3>2, <3>5
  <2> QED
    BY <1>1, <2>2, <2>3
<1>4. CASE release_resource(t, m) /\ Positions(resources[t], m) = {}
  <2>1. resources' = resources /\ Count(t, m) = 0
    BY <1>4, FS_EmptySet DEF release_resource, Count
  <2>2. ~acquire_resource(t, m)
    <3>1. SUFFICES ASSUME acquire_resource(t, m) PROVE FALSE
      OBVIOUS
    <3>2. resources'[t] = Append(resources[t], m)
      BY <3>1 DEF acquire_resource
    <3> QED
      BY <1>0, <2>1, <3>2
  <2> QED
    BY <2>1, <2>2 DEF Count
<1>5. CASE release_resource(t, m) /\ Positions(resources[t], m) # {}
  <2>1. PICK p \in Positions(resources[t], m) :
          resources' = [resources EXCEPT ![t] = swap_remove(@, p)]
    BY <1>5 DEF release_resource
  <2>2. /\ p \in 1..Len(resources[t]) /\ resources[t][p] = m
        /\ resources'[t] = swap_remove(resources[t], p)
    BY <2>1 DEF Positions
  <2>3. \A n \in Mutexes : Count(t, n)' = IF n = m THEN Count(t, n) - 1 ELSE Count(t, n)
    BY <1>0, <2>2, SwapRemoveCounts DEF Count
  <2>4. ~acquire_resource(t, m)
    <3>1. SUFFICES ASSUME acquire_resource(t, m) PROVE FALSE
      OBVIOUS
    <3>2. resources'[t] = Append(resources[t], m)
      BY <3>1 DEF acquire_resource
    <3>3. Len(resources'[t]) = Len(resources[t]) - 1
      BY <1>0, <2>2, SwapRemoveType
    <3> QED
      BY <1>0, <3>2, <3>3
  <2> QED
    BY <1>1, <2>3, <2>4
<1> QED
  BY <1>3, <1>4, <1>5

\* What every step does to the lists, whatever the threads do.
LEMMA ResourcesStep ==
  ASSUME TypeOK, ResourcesMatch, [AnyNext]_vars
  PROVE  ResourcesMatch'
<1>b. /\ held \in [Threads -> [Mutexes -> Nat]] /\ key \in [Threads -> Mutexes]
      /\ resources \in [Threads -> Seq(Mutexes)]
  BY Zenon DEF TypeOK
<1>m. \A t \in Threads, m \in Mutexes \ strayed : Count(t, m) = held[t][m]
  BY DEF ResourcesMatch, Count
<1>0. SUFFICES \A t \in Threads, m \in Mutexes \ strayed' : Count(t, m)' = held'[t][m]
  BY DEF ResourcesMatch, Count
<1>k. ASSUME UNCHANGED <<held, resources, strayed>>
      PROVE  \A t \in Threads, m \in Mutexes \ strayed' : Count(t, m)' = held'[t][m]
  BY <1>k, <1>m DEF Count
<1>g. ASSUME NEW t \in Threads, NEW m \in Mutexes, acquire_resource(t, m), Gain(t, m),
             UNCHANGED strayed
      PROVE  \A u \in Threads, n \in Mutexes \ strayed' : Count(u, n)' = held'[u][n]
  <2>1. /\ \A u \in Threads, n \in Mutexes : u # t \/ n # m => Count(u, n)' = Count(u, n)
        /\ Count(t, m)' = Count(t, m) + 1
    BY <1>g, <1>b, ResourcesCount
  <2>2. /\ \A u \in Threads, n \in Mutexes : u # t \/ n # m => held'[u][n] = held[u][n]
        /\ held'[t][m] = held[t][m] + 1
    BY <1>g, <1>b, HeldChange
  <2> QED
    BY <1>g, <1>m, <2>1, <2>2
<1>u. ASSUME NEW t \in Threads, NEW m \in Mutexes, release_resource(t, m), GiveUp(t, m),
             UNCHANGED strayed
      PROVE  \A u \in Threads, n \in Mutexes \ strayed' : Count(u, n)' = held'[u][n]
  <2>1. /\ \A u \in Threads, n \in Mutexes : u # t \/ n # m => Count(u, n)' = Count(u, n)
        /\ Count(t, m) > 0 => Count(t, m)' = Count(t, m) - 1
    BY <1>u, <1>b, ResourcesCount
  <2>2. /\ \A u \in Threads, n \in Mutexes : u # t \/ n # m => held'[u][n] = held[u][n]
        /\ held'[t][m] = held[t][m] - 1
    BY <1>u, <1>b, HeldChange
  <2>3. m \notin strayed => Count(t, m) > 0
    BY <1>u, <1>b, <1>m DEF GiveUp
  <2> QED
    BY <1>u, <1>m, <2>1, <2>2, <2>3
<1>1. ASSUME NEW t \in Threads, NEW m \in Mutexes, LockFast(t, m) \/ TryLock(t, m)
      PROVE  \A u \in Threads, n \in Mutexes \ strayed' : Count(u, n)' = held'[u][n]
  BY <1>1, <1>g DEF LockFast, TryLock, Acquired
<1>2. ASSUME NEW t \in Threads, SlowAcquire(t) \/ WokenHandOff(t)
      PROVE  \A u \in Threads, n \in Mutexes \ strayed' : Count(u, n)' = held'[u][n]
  BY <1>2, <1>b, <1>g DEF SlowAcquire, WokenHandOff, Acquired
<1>3. ASSUME NEW t \in Threads, NEW m \in Mutexes, Unlock(t, m)
      PROVE  \A u \in Threads, n \in Mutexes \ strayed' : Count(u, n)' = held'[u][n]
  BY <1>3, <1>u DEF Unlock, UnlockBy
<1>4. ASSUME NEW t \in Threads, NEW m \in Mutexes, ForceUnlock(t, m)
      PROVE  \A u \in Threads, n \in Mutexes \ strayed' : Count(u, n)' = held'[u][n]
  <2>1. release_resource(t, m) /\ UNCHANGED held /\ strayed' = strayed \cup {m}
    BY <1>4 DEF ForceUnlock, UnlockBy
  <2> QED
    BY <2>1, <1>b, <1>m, ResourcesCount
<1>5. ASSUME NEW t \in Threads, NEW m \in Mutexes, MapGuard(t, m)
      PROVE  \A u \in Threads, n \in Mutexes \ strayed' : Count(u, n)' = held'[u][n]
  <2>1. GiveUp(t, m) /\ UNCHANGED resources /\ strayed' = strayed \cup {m}
    BY <1>5 DEF MapGuard
  <2> QED
    BY <2>1, <1>b, <1>m, HeldChange DEF Count
<1>6. ASSUME NEW t \in Threads, NEW v \in Threads, NEW m \in Mutexes, SendGuard(t, v, m)
      PROVE  \A u \in Threads, n \in Mutexes \ strayed' : Count(u, n)' = held'[u][n]
  <2>1. /\ UNCHANGED resources /\ strayed' = strayed \cup {m}
        /\ held' = [held EXCEPT ![t][m] = @ - 1, ![v][m] = @ + 1]
    BY <1>6 DEF SendGuard
  <2>2. \A u \in Threads, n \in Mutexes \ {m} : held'[u][n] = held[u][n]
    BY <2>1, <1>b
  <2>3. \A u \in Threads, n \in Mutexes : Count(u, n)' = Count(u, n)
    BY <2>1 DEF Count
  <2>4. strayed' = strayed \cup {m}
    BY <2>1
  <2> QED
    BY <1>m, <2>2, <2>3, <2>4
<1>7. ASSUME NEW t \in Threads, NEW m \in Mutexes, LockSlow(t, m) \/ MarkParkedWhenLock(t, m)
      PROVE  UNCHANGED <<held, resources, strayed>>
  BY <1>7 DEF LockSlow, MarkParkedWhenLock, guardVars
<1>8. ASSUME NEW t \in Threads,
             \/ Load(t) \/ SlowSpin(t) \/ SlowSetParked(t) \/ SlowQueued(t) \/ SlowCasFails(t)
             \/ ParkLockBucket(t) \/ ParkInvalid(t) \/ ParkValid(t) \/ ParkEnqueue(t)
             \/ WokenNormal(t) \/ UnparkLockBucket(t) \/ Unpark(t) \/ UnparkNobody(t)
             \/ Wake(t)
      PROVE  UNCHANGED <<held, resources, strayed>>
  BY <1>8, Zenon DEF Load, SlowSpin, SlowSetParked, SlowQueued, SlowCasFails, ParkLockBucket,
     ParkInvalid, ParkValid, ParkEnqueue, WokenNormal, UnparkLockBucket, Unpark,
     UnparkNobody, Wake, guardVars
<1>9. ASSUME UNCHANGED vars PROVE UNCHANGED <<held, resources, strayed>>
  BY <1>9 DEF vars
<1> QED
  BY <1>k, <1>1, <1>2, <1>3, <1>4, <1>5, <1>6, <1>7, <1>8, <1>9, Zenon
     DEF AnyNext, TryNext, LockNext, Call

\* acquire_resource and release_resource keep each thread's Vec in step with the
\* mutexes the thread has, for any number of threads and of mutexes, nested in
\* any way and dropped in any order, and even if the guards of other mutexes are
\* mapped, sent or bypassed with force_unlock.
THEOREM ResourcesCorrect == AnySpec => []ResourcesMatch
<1>1. Init => ResourcesMatch
  <2> SUFFICES ASSUME Init, NEW t \in Threads, NEW m \in Mutexes
               PROVE  Cardinality(Positions(resources[t], m)) = held[t][m]
    BY DEF ResourcesMatch
  <2>1. Positions(resources[t], m) = {} /\ held[t][m] = 0
    BY DEF Init, Positions
  <2> QED
    BY <2>1, FS_EmptySet
<1> QED
  BY <1>1, ResourcesStep, LotCorrect, PTL DEF AnySpec, LotInv

\* Nothing strays if the threads only lock and drop: then every entry counts.
THEOREM ResourcesOfLockers ==
  Spec => [](\A t \in Threads, m \in Mutexes :
               Cardinality(Positions(resources[t], m)) = held[t][m])
<1>1. Init => ResourcesMatch /\ strayed = {}
  <2> SUFFICES ASSUME Init PROVE ResourcesMatch /\ strayed = {}
    OBVIOUS
  <2>1. \A t \in Threads, m \in Mutexes : Positions(resources[t], m) = {} /\ held[t][m] = 0
    BY DEF Init, Positions
  <2> QED
    BY <2>1, FS_EmptySet DEF Init, ResourcesMatch
<1>2. strayed = {} /\ [LockNext]_vars => (strayed = {})'
  BY Zenon DEF LockNext, Call, vars, LockFast, LockSlow, Unlock, Load, SlowAcquire, SlowSpin,
     SlowSetParked, SlowQueued, SlowCasFails, ParkLockBucket, ParkInvalid, ParkValid,
     ParkEnqueue, WokenHandOff, WokenNormal, UnparkLockBucket, Unpark, UnparkNobody, Wake,
     guardVars
<1>3. TypeOK /\ ResourcesMatch /\ [LockNext]_vars => ResourcesMatch'
  BY ResourcesStep DEF AnyNext, TryNext
<1>4. ResourcesMatch /\ strayed = {} =>
        \A t \in Threads, m \in Mutexes : Cardinality(Positions(resources[t], m)) = held[t][m]
  BY DEF ResourcesMatch
<1>5. [LockNext]_vars => [AnyNext]_vars
  BY DEF AnyNext, TryNext
<1> QED
  BY <1>1, <1>2, <1>3, <1>4, <1>5, LotCorrect, PTL DEF Spec, AnySpec, LotInv
=============================================================================
