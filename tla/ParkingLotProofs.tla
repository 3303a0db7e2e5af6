-------------------------- MODULE ParkingLotProofs --------------------------
(***************************************************************************)
(* Proofs about ParkingLot, for any number of threads, keys and buckets:   *)
(* the bucket locks exclude each other and the growth of the table, and    *)
(* the table ends up large enough.                                         *)
(***************************************************************************)
EXTENDS ParkingLot, WellFoundedInduction, FiniteSetTheorems, TLAPS

-----------------------------------------------------------------------------
(* Sizes of tables *)

\* The size of a table for so many threads is the size of a table, and enough.
LEMMA TableSizeFits ==
  ASSUME NEW n \in Nat, \E s \in Sizes : s >= n * LOAD_FACTOR
  PROVE  TableSize(n) \in Sizes /\ TableSize(n) >= n * LOAD_FACTOR
<1> DEFINE S == {s \in Sizes : s >= n * LOAD_FACTOR}
<1>1. Sizes \subseteq Nat
  BY TableAssumption
<1>2. S \subseteq Nat /\ S # {}
  BY <1>1, Zenon
<1>3. PICK s \in S : \A r \in S : s <= r
  <2>1. IsWellFoundedOn({ss \in Nat \X Nat : ss[1] < ss[2]}, Nat)
    BY NatLessThanWellFounded DEF OpToRel
  <2>2. PICK s \in S : \A r \in S : ~(<<r, s>> \in {ss \in Nat \X Nat : ss[1] < ss[2]})
    BY <1>2, <2>1, WFMin, Zenon
  <2>3. ASSUME NEW r \in S
        PROVE  s <= r
    <3>1. r \in Nat /\ s \in Nat
      BY <1>1
    <3>2. ~(<<r, s>> \in {ss \in Nat \X Nat : ss[1] < ss[2]})
      BY <2>2
    <3> QED
      BY <3>1, <3>2
  <2> QED
    BY <2>3
<1>4. \E s_1 \in Sizes : /\ s_1 >= n * LOAD_FACTOR
                         /\ \A r \in Sizes : r >= n * LOAD_FACTOR => s_1 <= r
  BY <1>3
<1> QED
  BY <1>4 DEF TableSize, next_power_of_two

\* There is a table for every number of threads up to all of them.
LEMMA EnoughTables ==
  ASSUME NEW n \in Nat, n <= Cardinality(Threads)
  PROVE  TableSize(n) \in Sizes /\ TableSize(n) >= n * LOAD_FACTOR
<1>1. Cardinality(Threads) \in Nat /\ LOAD_FACTOR \in Nat /\ Sizes \subseteq Nat
  BY FS_CardinalityType, TableAssumption, ParkingLotAssumption
<1>2. n * LOAD_FACTOR <= Cardinality(Threads) * LOAD_FACTOR
  BY <1>1
<1>3. PICK s \in Sizes : s >= Cardinality(Threads) * LOAD_FACTOR
  BY TableAssumption
<1>4. s >= n * LOAD_FACTOR
  BY <1>1, <1>2, <1>3
<1> QED
  BY <1>4, TableSizeFits

\* The table that get_hashtable returns.
LEMMA CurrentIsTable ==
  ASSUME table \in Sizes \cup {0}
  PROVE  Current \in Sizes /\ Current >= table
<1>1. TableSize(LOAD_FACTOR) \in Sizes
  BY TableSizeFits, TableAssumption, ParkingLotAssumption, Zenon
<1>2. Sizes \subseteq Nat
  BY TableAssumption
<1>3. CASE table = 0
  <2>1. Current = TableSize(LOAD_FACTOR)
    BY <1>3 DEF Current
  <2>2. Current \in Sizes
    BY <1>1, <2>1
  <2>3. Current \in Nat
    BY <1>2, <2>2
  <2> QED
    BY <1>3, <2>2, <2>3
<1>4. CASE table \in Sizes
  <2>1. table # 0 /\ table \in Nat
    BY <1>4, TableAssumption
  <2> QED
    BY <1>4, <2>1 DEF Current
<1> QED
  BY <1>3, <1>4

\* The index of grow_hashtable's loops.
LEMMA LoopIndex ==
  ASSUME NEW s \in Nat, NEW i \in 0..(s - 1)
  PROVE  (i + 1) % s = IF i + 1 = s THEN 0 ELSE i + 1
OBVIOUS

-----------------------------------------------------------------------------
(* The inductive invariant *)

Labels == Growing \cup {"new", "idle", "gone", "bucket", "lock", "locked", "park", "wake"}

\* What a thread's variables are at each label.
Shape(t) ==
  /\ pc[t] \in {"lock", "locked", "grow_lock", "grow_check", "grow_undo", "grow_done"}
       => local[t] \in Sizes
  /\ pc[t] \in {"bucket", "lock", "locked", "park"} => key[t] \in Keys
  /\ next[t] \in Nat
  /\ IF pc[t] \in {"grow_lock", "grow_undo", "grow_done"}
     THEN next[t] < local[t]
     ELSE next[t] = 0
  /\ pc[t] \in {"grow_lock", "grow_check"} => local[t] < LOAD_FACTOR * wanted[t]

Shapes == /\ table \in Sizes \cup {0}
          /\ lock \in [Buckets -> Threads \cup {NoThread}]
          /\ pc \in [Threads -> Labels]
          /\ key \in [Threads -> Keys \cup {NoKey}]
          /\ local \in [Threads -> Sizes \cup {0}]
          /\ next \in [Threads -> Nat]
          /\ wanted \in [Threads -> 0..Cardinality(Threads)]
          /\ \A t \in Threads : Shape(t)

\* NUM_THREADS counts the threads that have a ThreadData.
Live == {t \in Threads : pc[t] \notin {"new", "gone"}}
Counted == num_threads = Cardinality(Live)

\* The buckets whose lock thread t has.
Mine(t, b) ==
  \/ pc[t] = "locked" /\ b = MyBucket(t)
  \/ /\ b[1] = local[t]
     /\ \/ pc[t] = "grow_lock" /\ b[2] < next[t]
        \/ pc[t] = "grow_check"
        \/ pc[t] \in {"grow_undo", "grow_done"} /\ next[t] <= b[2]

LocksHeld == \A t \in Threads, b \in Buckets : Mine(t, b) => lock[b] = t

\* The table fits, or a thread that will see to it is on its way.
ToGrow(t) == pc[t] \in {"grow", "grow_lock", "grow_check", "grow_undo"}
Fits == \/ table >= LOAD_FACTOR * num_threads
        \/ \E t \in Threads : ToGrow(t) /\ wanted[t] >= num_threads

IInv == Shapes /\ Counted /\ LocksHeld /\ Fits

-----------------------------------------------------------------------------
(* Steps, by what they do to the locks.  The critical sections of park and   *)
(* unpark_one differ in the queue and the word they write, which none of the *)
(* invariants here is about.                                                 *)

\* A step that ends a critical section.
Release(t) ==
  /\ pc[t] = "locked"
  /\ UnlockBucket(t)
  /\ \E l \in {"idle", "park", "wake", "bucket"}, k \in Keys \cup {NoKey} :
       /\ pc' = [pc EXCEPT ![t] = l]
       /\ key' = [key EXCEPT ![t] = k]
       /\ l \in {"park", "bucket"} => k \in Keys
  /\ local' = [local EXCEPT ![t] = 0]
  /\ UNCHANGED <<table, grow>>

\* A step outside of critical sections and growth.
Calm(t) ==
  /\ pc[t] \in {"idle", "park", "wake"}
  /\ \E l \in {"idle", "park", "wake", "bucket"}, k \in Keys \cup {NoKey} :
       /\ pc' = [pc EXCEPT ![t] = l]
       /\ key' = [key EXCEPT ![t] = k]
       /\ l \in {"park", "bucket"} => k \in Keys
  /\ \E s \in {0, local[t]} : local' = [local EXCEPT ![t] = s]
  /\ UNCHANGED <<table, lock, grow>>

Kinds(t) == \/ NewThreadData(t) \/ DropThreadData(t)
            \/ GrowStep(t)
            \/ LoadTable(t) \/ LockBucket(t)
            \/ Release(t) \/ Calm(t)

\* Every step is one of those.
LEMMA StepKinds ==
  ASSUME Shapes, Next
  PROVE  \E t \in Threads : Kinds(t)
<1>1. PICK t \in Threads : \/ NewThreadData(t) \/ DropThreadData(t)
                           \/ \E k \in Keys : \/ \E timeout \in BOOLEAN : Park(t, k, timeout)
                                              \/ UnparkOne(t, k)
                           \/ Interrupt(t)
                           \/ Step(t)
  BY DEF Next
<1> SUFFICES Kinds(t)
  OBVIOUS
<1>2. /\ pc \in [Threads -> Labels] /\ local \in [Threads -> Sizes \cup {0}]
      /\ key \in [Threads -> Keys \cup {NoKey}]
      /\ pc[t] \in {"locked", "park"} => key[t] \in Keys
  BY DEF Shapes, Shape
<1>3. CASE NewThreadData(t) \/ DropThreadData(t) \/ GrowStep(t)
  BY <1>3 DEF Kinds
<1>4. CASE \E k \in Keys : \/ \E timeout \in BOOLEAN : Park(t, k, timeout)
                           \/ UnparkOne(t, k)
  <2>1. Calm(t)
    BY <1>2, <1>4 DEF Park, UnparkOne, Call, Calm, Goto, lot, grow
  <2> QED
    BY <2>1 DEF Kinds
<1>5. CASE Interrupt(t) \/ Sleep(t)
  <2>1. pc[t] = "park" /\ UNCHANGED <<table, lock, grow, pc, key, local>>
    BY <1>5 DEF Interrupt, Sleep, lot, grow, call
  <2>2. Calm(t)
    BY <1>2, <2>1 DEF Calm
  <2> QED
    BY <2>2 DEF Kinds
<1>6. CASE ParkReturns(t)
  <2>1. Calm(t)
    BY <1>2, <1>6, Zenon DEF ParkReturns, Return, Calm, Goto, lot, grow
  <2> QED
    BY <2>1 DEF Kinds
<1>7. CASE Expire(t)
  <2>1. Calm(t)
    BY <1>2, <1>7 DEF Expire, Calm, Goto, lot, grow
  <2> QED
    BY <2>1 DEF Kinds
<1>8. CASE Wake(t)
  <2>1. Calm(t)
    BY <1>2, <1>8, Zenon DEF Wake, Return, Calm, Goto, lot, grow
  <2> QED
    BY <2>1 DEF Kinds
<1>9. CASE LockStep(t)
  <2>1. CASE Stale(t)
    <3>1. Release(t)
      BY <1>2, <2>1 DEF Stale, Release, Goto, call
    <3> QED
      BY <3>1 DEF Kinds
  <2> QED
    BY <1>9, <2>1 DEF LockStep, Kinds
<1>10. CASE ParkInvalid(t) \/ ExpireUnparked(t) \/ UnparkNone(t)
  <2>1. Release(t)
    BY <1>2, <1>10 DEF ParkInvalid, ExpireUnparked, UnparkNone, Inside, Return, Release, Goto
  <2> QED
    BY <2>1 DEF Kinds
<1>11. CASE ParkEnqueue(t)
  <2>1. Release(t)
    BY <1>2, <1>11 DEF ParkEnqueue, Inside, Release, Goto, call
  <2> QED
    BY <2>1 DEF Kinds
<1>12. CASE ExpireTimedOut(t)
  <2>1. Release(t)
    BY <1>2, <1>12, Zenon DEF ExpireTimedOut, LeaveQueue, Inside, Return, Release, Goto
  <2> QED
    BY <2>1 DEF Kinds
<1>13. CASE UnparkFirst(t)
  <2>1. Release(t)
    BY <1>2, <1>13 DEF UnparkFirst, Inside, Release, Goto, call
  <2> QED
    BY <2>1 DEF Kinds
<1> QED
  BY <1>1, <1>3, <1>4, <1>5, <1>6, <1>7, <1>8, <1>9, <1>10, <1>11, <1>12, <1>13
     DEF Step, ParkStep, UnparkStep

\* A step of t changes the local variables of t only.
OnlyOf(t) == \A u \in Threads \ {t} : /\ pc'[u] = pc[u] /\ key'[u] = key[u]
                                      /\ local'[u] = local[u] /\ next'[u] = next[u]
                                      /\ wanted'[u] = wanted[u]

\* Every step is local to the thread that takes it.
LEMMA StepIsLocal ==
  ASSUME Shapes, NEW t \in Threads, Kinds(t)
  PROVE  OnlyOf(t)
<1>1. /\ pc \in [Threads -> Labels] /\ local \in [Threads -> Sizes \cup {0}]
      /\ key \in [Threads -> Keys \cup {NoKey}] /\ next \in [Threads -> Nat]
      /\ wanted \in [Threads -> 0..Cardinality(Threads)]
  BY DEF Shapes
<1>2. CASE NewThreadData(t) \/ DropThreadData(t)
  BY <1>1, <1>2 DEF NewThreadData, DropThreadData, Goto, call, OnlyOf
<1>3. CASE GrowEnough(t) \/ GrowLoad(t) \/ GrowStale(t) \/ GrowPublish(t)
  BY <1>1, <1>3 DEF GrowEnough, GrowLoad, GrowStale, GrowPublish, get_hashtable, Goto,
                    grow, call, OnlyOf
<1>4. CASE GrowLock(t) \/ GrowUndo(t) \/ GrowUnlock(t)
  BY <1>1, <1>4 DEF GrowLock, GrowUndo, GrowUnlock, ForEachBucket, Goto, call, OnlyOf
<1>5. CASE LoadTable(t) \/ LockBucket(t)
  BY <1>1, <1>5 DEF LoadTable, LockBucket, get_hashtable, Goto, grow, call, OnlyOf
<1>6. CASE Release(t) \/ Calm(t)
  BY <1>1, <1>6 DEF Release, Calm, grow, OnlyOf
<1> QED
  BY <1>2, <1>3, <1>4, <1>5, <1>6 DEF Kinds, GrowStep

-----------------------------------------------------------------------------
(* NUM_THREADS *)

\* The threads that have a ThreadData are finite in number, at most all.
LEMMA LiveCount ==
  IsFiniteSet(Live) /\ Cardinality(Live) \in Nat /\ Cardinality(Live) <= Cardinality(Threads)
<1>1. Live \subseteq Threads
  BY DEF Live
<1> QED
  BY <1>1, TableAssumption, FS_Subset, FS_CardinalityType

\* A thread that is not counted makes one more.
LEMMA CountFits ==
  ASSUME Counted, NEW t \in Threads, t \notin Live
  PROVE  num_threads + 1 \in 0..Cardinality(Threads)
<1>1. Live \cup {t} \subseteq Threads
  BY DEF Live
<1>2. Cardinality(Live \cup {t}) = Cardinality(Live) + 1
  BY LiveCount, FS_AddElement
<1>3. Cardinality(Live \cup {t}) <= Cardinality(Threads)
  BY <1>1, TableAssumption, FS_Subset
<1>4. Cardinality(Threads) \in Nat
  BY TableAssumption, FS_CardinalityType
<1> QED
  BY <1>2, <1>3, <1>4, LiveCount DEF Counted

\* ThreadData::new and its drop keep NUM_THREADS right; nothing else changes it.
LEMMA CountKept ==
  ASSUME Shapes, Counted, NEW t \in Threads, Kinds(t)
  PROVE  Counted'
<1>1. pc \in [Threads -> Labels]
  BY DEF Shapes
<1>2. CASE NewThreadData(t)
  <2>1. t \notin Live /\ Live' = Live \cup {t} /\ num_threads' = num_threads + 1
    BY <1>1, <1>2 DEF NewThreadData, Goto, Live
  <2>2. Cardinality(Live \cup {t}) = Cardinality(Live) + 1
    BY <2>1, LiveCount, FS_AddElement, Zenon
  <2> QED
    BY <2>1, <2>2 DEF Counted
<1>3. CASE DropThreadData(t)
  <2>1. t \in Live /\ Live' = Live \ {t} /\ num_threads' = num_threads - 1
    BY <1>1, <1>3 DEF DropThreadData, Goto, Live
  <2>2. Cardinality(Live \ {t}) = Cardinality(Live) - 1
    BY <2>1, LiveCount, FS_RemoveElement
  <2> QED
    BY <2>1, <2>2 DEF Counted
<1>4. CASE /\ num_threads' = num_threads /\ t \in Live
           /\ \E l \in Labels \ {"new", "gone"} : pc' = [pc EXCEPT ![t] = l]
  <2>1. Live' = Live
    BY <1>1, <1>4 DEF Live
  <2> QED
    BY <1>4, <2>1 DEF Counted
<1>5. CASE GrowEnough(t) \/ GrowLoad(t) \/ GrowStale(t) \/ GrowPublish(t)
  BY <1>4, <1>5 DEF GrowEnough, GrowLoad, GrowStale, GrowPublish, Goto, grow, Live, Labels, Growing
<1>6. CASE GrowLock(t) \/ GrowUndo(t) \/ GrowUnlock(t)
  BY <1>4, <1>6 DEF GrowLock, GrowUndo, GrowUnlock, ForEachBucket, Goto, Live, Labels, Growing
<1>7. CASE LoadTable(t) \/ LockBucket(t) \/ Release(t) \/ Calm(t)
  BY <1>4, <1>7 DEF LoadTable, LockBucket, Release, Calm, Goto, grow, Live, Labels
<1> QED
  BY <1>2, <1>3, <1>5, <1>6, <1>7 DEF Kinds, GrowStep

-----------------------------------------------------------------------------
(* Shapes *)

\* A bucket that a thread locks is one of its table.
LEMMA BucketExists ==
  /\ \A k \in Keys, s \in Sizes : BucketOf(k, s) \in Buckets
  /\ \A s \in Sizes, i \in Nat : i < s => <<s, i>> \in Buckets
<1>1. ASSUME NEW s \in Sizes, NEW i \in 0..(s - 1)
      PROVE  <<s, i>> \in Buckets
  BY <1>1 DEF Buckets
<1>2. ASSUME NEW k \in Keys, NEW s \in Sizes
      PROVE  BucketOf(k, s) \in Buckets
  <2>1. hash(k, s) \in 0..(s - 1)
    BY TableAssumption
  <2> QED
    BY <1>1, <2>1 DEF BucketOf
<1>3. ASSUME NEW s \in Sizes, NEW i \in Nat, i < s
      PROVE  <<s, i>> \in Buckets
  <2>1. s \in Nat
    BY TableAssumption
  <2>2. i \in 0..(s - 1)
    BY <1>3, <2>1
  <2> QED
    BY <1>1, <2>2
<1> QED
  BY <1>2, <1>3

\* Types and the shape of the thread that moves are all there is to show.
LEMMA ShapesStep ==
  ASSUME Shapes, NEW t \in Threads, OnlyOf(t),
         table' \in Sizes \cup {0},
         lock' \in [Buckets -> Threads \cup {NoThread}],
         pc' \in [Threads -> Labels],
         key' \in [Threads -> Keys \cup {NoKey}],
         local' \in [Threads -> Sizes \cup {0}],
         next' \in [Threads -> Nat],
         wanted' \in [Threads -> 0..Cardinality(Threads)],
         Shape(t)'
  PROVE  Shapes'
<1>1. ASSUME NEW u \in Threads, u # t
      PROVE  Shape(u)'
  <2>1. Shape(u)
    BY DEF Shapes
  <2>2. /\ pc'[u] = pc[u] /\ key'[u] = key[u] /\ local'[u] = local[u]
        /\ next'[u] = next[u] /\ wanted'[u] = wanted[u]
    BY <1>1 DEF OnlyOf
  <2> QED
    BY <2>1, <2>2 DEF Shape
<1>2. \A u \in Threads : Shape(u)'
  BY <1>1
<1> QED
  BY <1>2 DEF Shapes

\* Every step keeps the shape of the thread that takes it.
LEMMA ShapesKept ==
  ASSUME Shapes, Counted, NEW t \in Threads, Kinds(t)
  PROVE  Shapes'
<1>1. /\ table \in Sizes \cup {0}
      /\ lock \in [Buckets -> Threads \cup {NoThread}]
      /\ pc \in [Threads -> Labels]
      /\ key \in [Threads -> Keys \cup {NoKey}]
      /\ local \in [Threads -> Sizes \cup {0}]
      /\ next \in [Threads -> Nat]
      /\ wanted \in [Threads -> 0..Cardinality(Threads)]
  BY DEF Shapes
<1>2. Shape(t)
  BY DEF Shapes
<1>3. OnlyOf(t)
  BY StepIsLocal
<1>4. Cardinality(Threads) \in Nat /\ Sizes \subseteq Nat \ {0} /\ LOAD_FACTOR \in Nat
  BY TableAssumption, ParkingLotAssumption, FS_CardinalityType
<1>5. Current \in Sizes
  BY <1>1, CurrentIsTable
<1>6. CASE NewThreadData(t)
  <2>1. num_threads + 1 \in 0..Cardinality(Threads)
    BY <1>6, CountFits DEF NewThreadData, Live
  <2>2. UNCHANGED <<table, lock, key, local, next>> /\ pc' = [pc EXCEPT ![t] = "grow"]
        /\ wanted' = [wanted EXCEPT ![t] = num_threads + 1]
    BY <1>6 DEF NewThreadData, Goto, lot, call
  <2>3. Shape(t)'
    BY <1>1, <1>2, <1>6, <2>2 DEF NewThreadData, Shape
  <2>4. pc' \in [Threads -> Labels] /\ wanted' \in [Threads -> 0..Cardinality(Threads)]
    BY <1>1, <2>1, <2>2 DEF Labels, Growing
  <2> QED
    BY <1>1, <1>3, <2>2, <2>3, <2>4, ShapesStep
<1>7. CASE DropThreadData(t)
  <2>1. UNCHANGED <<table, lock, key, local, next, wanted>> /\ pc' = [pc EXCEPT ![t] = "gone"]
    BY <1>7 DEF DropThreadData, Goto, lot, call
  <2>2. Shape(t)'
    BY <1>1, <1>2, <1>7, <2>1 DEF DropThreadData, Shape
  <2>3. pc' \in [Threads -> Labels]
    BY <1>1, <2>1 DEF Labels
  <2> QED
    BY <1>1, <1>3, <2>1, <2>2, <2>3, ShapesStep
<1>8. CASE GrowEnough(t)
  <2>1. /\ UNCHANGED <<lock, key, local, next>> /\ pc' = [pc EXCEPT ![t] = "idle"]
        /\ table' = Current /\ wanted' = [wanted EXCEPT ![t] = 0]
    BY <1>8 DEF GrowEnough, Goto, call
  <2>2. Shape(t)'
    BY <1>1, <1>2, <1>8, <2>1 DEF GrowEnough, Shape
  <2>3. pc' \in [Threads -> Labels] /\ wanted' \in [Threads -> 0..Cardinality(Threads)]
    BY <1>1, <1>4, <2>1 DEF Labels
  <2> QED
    BY <1>1, <1>3, <1>5, <2>1, <2>2, <2>3, ShapesStep
<1>9. CASE GrowLoad(t)
  <2>1. /\ UNCHANGED <<lock, key, next, wanted>> /\ pc' = [pc EXCEPT ![t] = "grow_lock"]
        /\ table' = Current /\ local' = [local EXCEPT ![t] = Current]
        /\ Current < LOAD_FACTOR * wanted[t]
    BY <1>9 DEF GrowLoad, get_hashtable, Goto, call, grow
  <2>2. next[t] = 0
    BY <1>2, <1>9 DEF GrowLoad, Shape
  <2>3. Current \in Nat \ {0}
    BY <1>4, <1>5
  <2>4. Shape(t)'
    BY <1>1, <1>5, <2>1, <2>2, <2>3 DEF Shape
  <2>5. pc' \in [Threads -> Labels] /\ local' \in [Threads -> Sizes \cup {0}]
    BY <1>1, <1>5, <2>1 DEF Labels, Growing
  <2> QED
    BY <1>1, <1>3, <1>5, <2>1, <2>4, <2>5, ShapesStep
<1>10. CASE GrowLock(t)
  <2>1. /\ UNCHANGED <<table, key, local, wanted>>
        /\ lock' = [lock EXCEPT ![<<local[t], next[t]>>] = t]
        /\ next' = [next EXCEPT ![t] = (next[t] + 1) % local[t]]
        /\ pc' = [pc EXCEPT ![t] = IF next[t] + 1 = local[t] THEN "grow_check" ELSE "grow_lock"]
        /\ pc[t] = "grow_lock"
    BY <1>1, <1>10 DEF GrowLock, ForEachBucket, Goto, call
  <2>2. /\ local[t] \in Sizes /\ local[t] \in Nat /\ next[t] \in Nat /\ next[t] < local[t]
        /\ local[t] < LOAD_FACTOR * wanted[t]
    BY <1>2, <1>4, <2>1, Zenon DEF Shape
  <2>3. (next[t] + 1) % local[t] = IF next[t] + 1 = local[t] THEN 0 ELSE next[t] + 1
    BY <2>2, LoopIndex
  <2>4. Shape(t)'
    BY <1>1, <2>1, <2>2, <2>3 DEF Shape
  <2>5. pc' \in [Threads -> Labels] /\ lock' \in [Buckets -> Threads \cup {NoThread}]
    BY <1>1, <2>1, Zenon DEF Labels, Growing
  <2>6. next' \in [Threads -> Nat]
    <3>1. (next[t] + 1) % local[t] \in Nat
      BY <2>2, <2>3
    <3> QED
      BY <1>1, <2>1, <3>1
  <2> QED
    BY <1>1, <1>3, <2>1, <2>4, <2>5, <2>6, ShapesStep
<1>11. CASE GrowStale(t)
  <2>1. /\ UNCHANGED <<table, lock, key, local, next, wanted>>
        /\ pc' = [pc EXCEPT ![t] = "grow_undo"]
    BY <1>11 DEF GrowStale, Goto, lot, grow, call
  <2>2. local[t] \in Sizes /\ local[t] \in Nat \ {0} /\ next[t] = 0
    BY <1>2, <1>4, <1>11, ZenonT(60) DEF GrowStale, Shape
  <2>3. Shape(t)'
    BY <1>1, <2>1, <2>2 DEF Shape
  <2>4. pc' \in [Threads -> Labels]
    BY <1>1, <2>1 DEF Labels, Growing
  <2> QED
    BY <1>1, <1>3, <2>1, <2>3, <2>4, ShapesStep
<1>12. CASE GrowPublish(t)
  <2>1. /\ UNCHANGED <<lock, key, local, next, wanted>>
        /\ pc' = [pc EXCEPT ![t] = "grow_done"]
        /\ table' = TableSize(wanted[t])
    BY <1>12 DEF GrowPublish, Goto, grow, call
  <2>2. local[t] \in Sizes /\ local[t] \in Nat \ {0} /\ next[t] = 0
    BY <1>2, <1>4, <1>12, ZenonT(60) DEF GrowPublish, Shape
  <2>3. TableSize(wanted[t]) \in Sizes
    <3>1. wanted[t] \in Nat /\ wanted[t] <= Cardinality(Threads)
      BY <1>1, <1>4
    <3> QED
      BY <3>1, EnoughTables
  <2>4. Shape(t)'
    BY <1>1, <2>1, <2>2 DEF Shape
  <2>5. pc' \in [Threads -> Labels]
    BY <1>1, <2>1 DEF Labels, Growing
  <2> QED
    BY <1>1, <1>3, <2>1, <2>3, <2>4, <2>5, ShapesStep
<1>13. CASE GrowUndo(t)
  <2>1. /\ UNCHANGED <<table, key, wanted>>
        /\ lock' = [lock EXCEPT ![<<local[t], next[t]>>] = NoThread]
        /\ next' = [next EXCEPT ![t] = (next[t] + 1) % local[t]]
        /\ pc' = [pc EXCEPT ![t] = IF next[t] + 1 = local[t] THEN "grow" ELSE "grow_undo"]
        /\ local' = [local EXCEPT ![t] = IF pc'[t] = "grow" THEN 0 ELSE local[t]]
        /\ pc[t] = "grow_undo"
    BY <1>1, <1>13 DEF GrowUndo, UnlockOld, ForEachBucket, Goto, call
  <2>2. local[t] \in Sizes /\ local[t] \in Nat /\ next[t] \in Nat /\ next[t] < local[t]
    BY <1>2, <1>4, <2>1, Zenon DEF Shape
  <2>3. (next[t] + 1) % local[t] = IF next[t] + 1 = local[t] THEN 0 ELSE next[t] + 1
    BY <2>2, LoopIndex
  <2>4. Shape(t)'
    BY <1>1, <2>1, <2>2, <2>3 DEF Shape
  <2>5. pc' \in [Threads -> Labels] /\ lock' \in [Buckets -> Threads \cup {NoThread}]
    BY <1>1, <2>1, Zenon DEF Labels, Growing
  <2>6. next' \in [Threads -> Nat]
    <3>1. (next[t] + 1) % local[t] \in Nat
      BY <2>2, <2>3
    <3> QED
      BY <1>1, <2>1, <3>1
  <2>7. local' \in [Threads -> Sizes \cup {0}]
    BY <1>1, <2>1
  <2> QED
    BY <1>1, <1>3, <2>1, <2>4, <2>5, <2>6, <2>7, ShapesStep
<1>14. CASE GrowUnlock(t)
  <2>1. /\ UNCHANGED <<table, key>>
        /\ lock' = [lock EXCEPT ![<<local[t], next[t]>>] = NoThread]
        /\ next' = [next EXCEPT ![t] = (next[t] + 1) % local[t]]
        /\ pc' = [pc EXCEPT ![t] = IF next[t] + 1 = local[t] THEN "idle" ELSE "grow_done"]
        /\ local' = [local EXCEPT ![t] = IF pc'[t] = "idle" THEN 0 ELSE local[t]]
        /\ wanted' = [wanted EXCEPT ![t] = IF pc'[t] = "idle" THEN 0 ELSE wanted[t]]
        /\ pc[t] = "grow_done"
    BY <1>1, <1>14 DEF GrowUnlock, UnlockOld, ForEachBucket, Goto, call
  <2>2. local[t] \in Sizes /\ local[t] \in Nat /\ next[t] \in Nat /\ next[t] < local[t]
    BY <1>2, <1>4, <2>1, Zenon DEF Shape
  <2>3. (next[t] + 1) % local[t] = IF next[t] + 1 = local[t] THEN 0 ELSE next[t] + 1
    BY <2>2, LoopIndex
  <2>4. Shape(t)'
    BY <1>1, <2>1, <2>2, <2>3 DEF Shape
  <2>5. pc' \in [Threads -> Labels] /\ lock' \in [Buckets -> Threads \cup {NoThread}]
    BY <1>1, <2>1, Zenon DEF Labels, Growing
  <2>6. next' \in [Threads -> Nat]
    <3>1. (next[t] + 1) % local[t] \in Nat
      BY <2>2, <2>3
    <3> QED
      BY <1>1, <2>1, <3>1
  <2>7. local' \in [Threads -> Sizes \cup {0}]
    BY <1>1, <2>1
  <2>8. wanted' \in [Threads -> 0..Cardinality(Threads)]
    BY <1>1, <1>4, <2>1, SMTT(60)
  <2> QED
    BY <1>1, <1>3, <2>1, <2>4, <2>5, <2>6, <2>7, <2>8, ShapesStep
<1>15. CASE LoadTable(t)
  <2>1. /\ UNCHANGED <<lock, key, next, wanted>> /\ pc' = [pc EXCEPT ![t] = "lock"]
        /\ table' = Current /\ local' = [local EXCEPT ![t] = Current]
    BY <1>15 DEF LoadTable, get_hashtable, Goto, call, grow
  <2>2. Shape(t)'
    BY <1>1, <1>2, <1>5, <1>15, <2>1 DEF LoadTable, Shape
  <2>3. pc' \in [Threads -> Labels] /\ local' \in [Threads -> Sizes \cup {0}]
    BY <1>1, <1>5, <2>1 DEF Labels
  <2> QED
    BY <1>1, <1>3, <1>5, <2>1, <2>2, <2>3, ShapesStep
<1>16. CASE LockBucket(t)
  <2>1. /\ UNCHANGED <<table, key, local, next, wanted>> /\ pc' = [pc EXCEPT ![t] = "locked"]
        /\ lock' = [lock EXCEPT ![BucketOf(key[t], local[t])] = t]
    BY <1>16 DEF LockBucket, Goto, call, grow
  <2>2. Shape(t)'
    BY <1>1, <1>2, <1>16, <2>1 DEF LockBucket, Shape
  <2>3. pc' \in [Threads -> Labels] /\ lock' \in [Buckets -> Threads \cup {NoThread}]
    BY <1>1, <2>1, Zenon DEF Labels
  <2> QED
    BY <1>1, <1>3, <2>1, <2>2, <2>3, ShapesStep
<1>17. CASE Release(t)
  <2>1. /\ UNCHANGED <<table, next, wanted>>
        /\ lock' = [lock EXCEPT ![MyBucket(t)] = NoThread]
    BY <1>17 DEF Release, UnlockBucket, grow
  <2>2. Shape(t)'
    BY <1>1, <1>2, <1>17, <2>1 DEF Release, Shape
  <2>3. /\ pc' \in [Threads -> Labels] /\ key' \in [Threads -> Keys \cup {NoKey}]
        /\ local' \in [Threads -> Sizes \cup {0}]
    BY <1>1, <1>17 DEF Release, Labels
  <2>4. lock' \in [Buckets -> Threads \cup {NoThread}]
    BY <1>1, <2>1, Zenon
  <2> QED
    BY <1>1, <1>3, <2>1, <2>2, <2>3, <2>4, ShapesStep
<1>18. CASE Calm(t)
  <2>1. UNCHANGED <<table, lock, next, wanted>>
    BY <1>18 DEF Calm, grow
  <2>2. Shape(t)'
    BY <1>1, <1>2, <1>18, <2>1 DEF Calm, Shape
  <2>3. /\ pc' \in [Threads -> Labels] /\ key' \in [Threads -> Keys \cup {NoKey}]
        /\ local' \in [Threads -> Sizes \cup {0}]
    BY <1>1, <1>18 DEF Calm, Labels
  <2> QED
    BY <1>1, <1>3, <2>1, <2>2, <2>3, ShapesStep
<1> QED
  BY <1>6, <1>7, <1>8, <1>9, <1>10, <1>11, <1>12, <1>13, <1>14, <1>15, <1>16, <1>17, <1>18, SMTT(30)
     DEF Kinds, GrowStep

-----------------------------------------------------------------------------
(* Who has which lock *)

\* A bucket is a table and an index in it.
LEMMA BucketParts ==
  ASSUME NEW b \in Buckets
  PROVE  /\ b[1] \in Sizes /\ b[1] \in Nat /\ b[2] \in Nat /\ b[2] < b[1]
         /\ b = <<b[1], b[2]>>
<1>1. PICK s \in Sizes : b \in {s} \X (0..(s - 1))
  BY DEF Buckets
<1>2. s \in Nat
  BY TableAssumption
<1>3. b = <<b[1], b[2]>> /\ b[1] = s /\ b[2] \in 0..(s - 1)
  BY <1>1
<1> QED
  BY <1>2, <1>3

\* A step of t gives no other thread a lock.
LEMMA MineOfOthers ==
  ASSUME NEW t \in Threads, OnlyOf(t), NEW u \in Threads, u # t, NEW b \in Buckets, Mine(u, b)'
  PROVE  Mine(u, b)
<1>1. pc'[u] = pc[u] /\ key'[u] = key[u] /\ local'[u] = local[u] /\ next'[u] = next[u]
  BY DEF OnlyOf
<1> QED
  BY <1>1 DEF Mine, MyBucket, BucketOf, hash

\* A step that leaves the locks alone.
LEMMA LocksAlone ==
  ASSUME LocksHeld, NEW t \in Threads, OnlyOf(t), lock' = lock,
         \A b \in Buckets : Mine(t, b)' => Mine(t, b)
  PROVE  LocksHeld'
BY MineOfOthers DEF LocksHeld

\* A step that takes a free lock.
LEMMA LockTaken ==
  ASSUME Shapes, LocksHeld, NEW t \in Threads, OnlyOf(t),
         NEW b \in Buckets, lock[b] = NoThread, lock' = [lock EXCEPT ![b] = t],
         \A c \in Buckets : Mine(t, c)' => c = b \/ Mine(t, c)
  PROVE  LocksHeld'
<1>1. lock \in [Buckets -> Threads \cup {NoThread}]
  BY DEF Shapes
<1> SUFFICES ASSUME NEW u \in Threads, NEW c \in Buckets, Mine(u, c)'
             PROVE  lock'[c] = u
  BY DEF LocksHeld
<1>2. CASE u = t
  BY <1>1, <1>2 DEF LocksHeld
<1>3. CASE u # t
  <2>1. lock[c] = u
    BY <1>3, MineOfOthers DEF LocksHeld
  <2>2. c # b
    BY <2>1, ParkingLotAssumption
  <2> QED
    BY <1>1, <2>1, <2>2
<1> QED
  BY <1>2, <1>3

\* A step that gives a lock of its own back.
LEMMA LockGivenBack ==
  ASSUME Shapes, LocksHeld, NEW t \in Threads, OnlyOf(t),
         NEW b \in Buckets, Mine(t, b), lock' = [lock EXCEPT ![b] = NoThread],
         \A c \in Buckets : Mine(t, c)' => c # b /\ Mine(t, c)
  PROVE  LocksHeld'
<1>1. lock \in [Buckets -> Threads \cup {NoThread}]
  BY DEF Shapes
<1> SUFFICES ASSUME NEW u \in Threads, NEW c \in Buckets, Mine(u, c)'
             PROVE  lock'[c] = u
  BY DEF LocksHeld
<1>2. CASE u = t
  BY <1>1, <1>2 DEF LocksHeld
<1>3. CASE u # t
  <2>1. lock[c] = u /\ lock[b] = t
    BY <1>3, MineOfOthers DEF LocksHeld
  <2>2. c # b
    BY <1>3, <2>1
  <2> QED
    BY <1>1, <2>1, <2>2
<1> QED
  BY <1>2, <1>3

\* Every step of t leaves the locks alone, takes a free one or gives back its own.
LEMMA LocksKept ==
  ASSUME Shapes, LocksHeld, NEW t \in Threads, Kinds(t)
  PROVE  LocksHeld'
<1>1. /\ lock \in [Buckets -> Threads \cup {NoThread}]
      /\ pc \in [Threads -> Labels]
      /\ key \in [Threads -> Keys \cup {NoKey}]
      /\ local \in [Threads -> Sizes \cup {0}]
      /\ next \in [Threads -> Nat]
  BY DEF Shapes
<1>2. Shape(t)
  BY DEF Shapes
<1>3. OnlyOf(t)
  BY StepIsLocal
<1>4. Sizes \subseteq Nat \ {0}
  BY TableAssumption
\* The steps that have no lock afterwards, or the locks they had before.
<1>5. CASE /\ lock' = lock
           /\ pc'[t] \notin {"locked", "grow_lock", "grow_check", "grow_undo", "grow_done"}
  <2>1. \A b \in Buckets : ~Mine(t, b)'
    BY <1>5 DEF Mine
  <2> QED
    BY <1>3, <1>5, <2>1, LocksAlone
<1>6. CASE NewThreadData(t) \/ DropThreadData(t) \/ GrowEnough(t)
  BY <1>1, <1>5, <1>6 DEF NewThreadData, DropThreadData, GrowEnough, Goto, lot
<1>7. CASE LoadTable(t) \/ Calm(t)
  BY <1>1, <1>5, <1>7, SMTT(30) DEF LoadTable, Calm, Goto
<1>8. CASE GrowLoad(t)
  <2>1. lock' = lock /\ pc'[t] = "grow_lock" /\ next'[t] = 0
    BY <1>1, <1>2, <1>8 DEF GrowLoad, Goto, grow, Shape
  <2>2. \A b \in Buckets : ~Mine(t, b)'
    BY <2>1, BucketParts DEF Mine
  <2> QED
    BY <1>3, <2>1, <2>2, LocksAlone, SMTT(30)
<1>9. CASE GrowStale(t) \/ GrowPublish(t)
  <2>1. /\ lock' = lock /\ local' = local /\ pc[t] = "grow_check"
        /\ pc'[t] \in {"grow_undo", "grow_done"}
    BY <1>1, <1>9 DEF GrowStale, GrowPublish, Goto, lot
  <2>2. \A b \in Buckets : Mine(t, b)' => Mine(t, b)
    BY <2>1 DEF Mine
  <2> QED
    BY <1>3, <2>1, <2>2, LocksAlone
<1>10. CASE GrowLock(t)
  <2> DEFINE b == <<local[t], next[t]>>
  <2>1. /\ lock[b] = NoThread /\ lock' = [lock EXCEPT ![b] = t]
        /\ next'[t] = (next[t] + 1) % local[t]
        /\ pc'[t] = IF next[t] + 1 = local[t] THEN "grow_check" ELSE "grow_lock"
        /\ pc[t] = "grow_lock" /\ local' = local
    BY <1>1, <1>10 DEF GrowLock, ForEachBucket, Goto
  <2>2. local[t] \in Sizes /\ local[t] \in Nat /\ next[t] \in Nat /\ next[t] < local[t]
    BY <1>2, <1>4, <2>1, Zenon DEF Shape
  <2>3. (next[t] + 1) % local[t] = IF next[t] + 1 = local[t] THEN 0 ELSE next[t] + 1
    BY <2>2, LoopIndex
  <2>4. b \in Buckets
    BY <2>2, BucketExists
  <2>5. ASSUME NEW c \in Buckets, Mine(t, c)'
        PROVE  c = b \/ Mine(t, c)
    <3>1. /\ c[1] = local[t] /\ c[2] \in Nat /\ c[2] < local[t] /\ c = <<c[1], c[2]>>
          /\ c[2] <= next[t]
      BY <2>1, <2>2, <2>3, <2>5, BucketParts DEF Mine
    <3>2. c[2] = next[t] \/ c[2] < next[t]
      BY <2>2, <3>1, SMTT(60)
    <3> QED
      BY <2>1, <3>1, <3>2 DEF Mine
  <2> QED
    BY <1>3, <2>1, <2>4, <2>5, LockTaken, Zenon
<1>11. CASE GrowUndo(t) \/ GrowUnlock(t)
  <2> DEFINE b == <<local[t], next[t]>>
  <2>1. /\ lock' = [lock EXCEPT ![b] = NoThread]
        /\ next'[t] = (next[t] + 1) % local[t]
        /\ IF next[t] + 1 = local[t]
           THEN pc'[t] \in {"grow", "idle"}
           ELSE pc'[t] = pc[t] /\ local'[t] = local[t]
        /\ pc[t] \in {"grow_undo", "grow_done"}
    BY <1>1, <1>11, SMTT(60) DEF GrowUndo, GrowUnlock, UnlockOld, ForEachBucket, Goto
  <2>2. local[t] \in Sizes /\ local[t] \in Nat /\ next[t] \in Nat /\ next[t] < local[t]
    BY <1>2, <1>4, <2>1, ZenonT(60) DEF Shape
  <2>3. (next[t] + 1) % local[t] = IF next[t] + 1 = local[t] THEN 0 ELSE next[t] + 1
    BY <2>2, LoopIndex
  <2>4. b \in Buckets
    BY <2>2, BucketExists
  <2>5. Mine(t, b)
    BY <2>1, <2>2, SMTT(60) DEF Mine
  <2>6. ASSUME NEW c \in Buckets, Mine(t, c)'
        PROVE  c # b /\ Mine(t, c)
    <3>1. pc'[t] = pc[t] /\ c[1] = local[t] /\ c[2] \in Nat /\ next[t] + 1 <= c[2]
      BY <2>1, <2>2, <2>3, <2>6, BucketParts DEF Mine
    <3>2. c[2] # next[t] /\ next[t] <= c[2]
      BY <2>2, <3>1
    <3> QED
      BY <2>1, <3>1, <3>2, SMTT(60) DEF Mine
  <2> QED
    BY <1>3, <2>1, <2>4, <2>5, <2>6, LockGivenBack, ZenonT(60)
<1>12. CASE LockBucket(t)
  <2>1. /\ lock[MyBucket(t)] = NoThread /\ lock' = [lock EXCEPT ![MyBucket(t)] = t]
        /\ pc'[t] = "locked" /\ key' = key /\ local' = local
    BY <1>1, <1>12 DEF LockBucket, MyBucket, Goto, call
  <2>2. MyBucket(t) \in Buckets
    BY <1>2, <1>12, BucketExists, Zenon DEF LockBucket, Shape, MyBucket
  <2>3. \A c \in Buckets : Mine(t, c)' => c = MyBucket(t)
    BY <2>1, Zenon DEF Mine, MyBucket, BucketOf, hash
  <2> QED
    BY <1>3, <2>1, <2>2, <2>3, LockTaken, ZenonT(60)
<1>13. CASE Release(t)
  <2>1. /\ pc[t] = "locked" /\ lock' = [lock EXCEPT ![MyBucket(t)] = NoThread]
        /\ pc'[t] \in {"idle", "park", "wake", "bucket"}
    BY <1>1, <1>13, SMTT(30) DEF Release, UnlockBucket
  <2>2. MyBucket(t) \in Buckets
    BY <1>2, <2>1, BucketExists, SMTT(30) DEF Shape, MyBucket
  <2>3. Mine(t, MyBucket(t)) /\ \A c \in Buckets : ~Mine(t, c)'
    BY <2>1 DEF Mine
  <2> QED
    BY <1>3, <2>1, <2>2, <2>3, LockGivenBack, ZenonT(60)
<1> QED
  BY <1>6, <1>7, <1>8, <1>9, <1>10, <1>11, <1>12, <1>13 DEF Kinds, GrowStep

-----------------------------------------------------------------------------
(* Whether the table fits *)

\* More threads want a larger table.
LEMMA FactorMonotone ==
  ASSUME NEW m \in Nat, NEW n \in Nat, m <= n
  PROVE  /\ LOAD_FACTOR * m \in Nat /\ LOAD_FACTOR * n \in Nat
         /\ LOAD_FACTOR * m <= LOAD_FACTOR * n /\ n * LOAD_FACTOR = LOAD_FACTOR * n
BY ParkingLotAssumption

\* Every step leaves a table that fits, or a thread that will make it fit.
LEMMA FitsKept ==
  ASSUME Shapes, Counted, Fits, NEW t \in Threads, Kinds(t)
  PROVE  Fits'
<1>1. /\ pc \in [Threads -> Labels]
      /\ wanted \in [Threads -> 0..Cardinality(Threads)]
      /\ table \in Sizes \cup {0}
  BY DEF Shapes
<1>2. num_threads \in Nat /\ Cardinality(Threads) \in Nat /\ Sizes \subseteq Nat
      /\ LOAD_FACTOR \in Nat
  BY LiveCount, TableAssumption, ParkingLotAssumption, FS_CardinalityType DEF Counted
<1>3. Shape(t) /\ OnlyOf(t)
  BY StepIsLocal DEF Shapes
<1>4. Current \in Nat /\ table \in Nat /\ Current >= table
  <2>1. Current \in Sizes /\ Current >= table
    BY <1>1, CurrentIsTable
  <2>2. Current \in Nat
    BY <1>2, <2>1
  <2>3. table \in Nat
    BY <1>1, <1>2
  <2> QED
    BY <2>1, <2>2, <2>3
<1>5. wanted[t] \in Nat
  BY <1>1, <1>2
\* The table does not shrink, the threads do not grow in number, and t goes on
\* growing the table if it was.
<1>6. CASE /\ table' \in Nat /\ table' >= table /\ num_threads' = num_threads
           /\ ToGrow(t) => ToGrow(t)' /\ wanted'[t] = wanted[t]
  <2>1. CASE table >= LOAD_FACTOR * num_threads
    <3>1. LOAD_FACTOR * num_threads \in Nat
      BY <1>2, FactorMonotone
    <3> QED
      BY <1>4, <1>6, <2>1, <3>1 DEF Fits
  <2>2. CASE \E u \in Threads : ToGrow(u) /\ wanted[u] >= num_threads
    <3>1. PICK u \in Threads : ToGrow(u) /\ wanted[u] >= num_threads
      BY <2>2
    <3>2. ToGrow(u)' /\ wanted'[u] = wanted[u]
      BY <1>3, <1>6, <3>1 DEF OnlyOf, ToGrow
    <3> QED
      BY <1>6, <3>1, <3>2 DEF Fits
  <2> QED
    BY <2>1, <2>2 DEF Fits
\* The table fits what t wanted.
<1>7. CASE /\ table' \in Nat /\ table' >= table /\ num_threads' = num_threads
           /\ table' >= LOAD_FACTOR * wanted[t]
  <2>1. CASE table >= LOAD_FACTOR * num_threads
    <3>1. LOAD_FACTOR * num_threads \in Nat
      BY <1>2, FactorMonotone
    <3> QED
      BY <1>4, <1>7, <2>1, <3>1, SMTT(60) DEF Fits
  <2>2. CASE ToGrow(t) /\ wanted[t] >= num_threads
    <3>1. /\ LOAD_FACTOR * num_threads <= LOAD_FACTOR * wanted[t]
          /\ LOAD_FACTOR * num_threads \in Nat /\ LOAD_FACTOR * wanted[t] \in Nat
      BY <1>2, <1>5, <2>2, FactorMonotone
    <3>2. table' >= LOAD_FACTOR * num_threads
      BY <1>7, <3>1
    <3> QED
      BY <1>7, <3>2 DEF Fits
  <2>3. CASE \E u \in Threads \ {t} : ToGrow(u) /\ wanted[u] >= num_threads
    <3>1. PICK u \in Threads \ {t} : ToGrow(u) /\ wanted[u] >= num_threads
      BY <2>3
    <3>2. ToGrow(u)' /\ wanted'[u] = wanted[u]
      BY <1>3, <3>1 DEF OnlyOf, ToGrow
    <3> QED
      BY <1>7, <3>1, <3>2 DEF Fits
  <2> QED
    BY <2>1, <2>2, <2>3 DEF Fits
<1>8. CASE NewThreadData(t)
  <2>1. ToGrow(t)' /\ wanted'[t] = num_threads' /\ num_threads' = num_threads + 1
    BY <1>1, <1>8 DEF NewThreadData, Goto, ToGrow
  <2>2. wanted'[t] >= num_threads'
    BY <1>2, <2>1
  <2> QED
    BY <2>1, <2>2 DEF Fits
<1>9. CASE DropThreadData(t)
  <2>1. table' = table /\ num_threads' = num_threads - 1 /\ pc[t] = "idle" /\ t \in Live
    BY <1>9 DEF DropThreadData, lot, Live
  <2>2. num_threads' \in Nat /\ num_threads' <= num_threads
    <3>1. Cardinality(Live) # 0
      BY <2>1, LiveCount, FS_EmptySet
    <3> QED
      BY <1>2, <2>1, <3>1 DEF Counted
  <2>3. CASE table >= LOAD_FACTOR * num_threads
    <3>1. /\ LOAD_FACTOR * num_threads' <= LOAD_FACTOR * num_threads
          /\ LOAD_FACTOR * num_threads' \in Nat /\ LOAD_FACTOR * num_threads \in Nat
      BY <1>2, <2>2, FactorMonotone, Zenon
    <3>2. table' >= LOAD_FACTOR * num_threads'
      BY <1>4, <2>1, <2>3, <3>1
    <3> QED
      BY <3>2 DEF Fits
  <2>4. CASE \E u \in Threads : ToGrow(u) /\ wanted[u] >= num_threads
    <3>1. PICK u \in Threads : ToGrow(u) /\ wanted[u] >= num_threads
      BY <2>4
    <3>2. u # t
      BY <2>1, <3>1 DEF ToGrow
    <3>3. ToGrow(u)' /\ wanted'[u] = wanted[u] /\ wanted[u] \in Nat
      BY <1>1, <1>2, <1>3, <3>1, <3>2 DEF OnlyOf, ToGrow
    <3>4. wanted'[u] >= num_threads'
      BY <1>2, <2>2, <3>1, <3>3
    <3> QED
      BY <3>3, <3>4 DEF Fits
  <2> QED
    BY <2>3, <2>4 DEF Fits
<1>10. CASE GrowEnough(t)
  <2>1. table' = Current /\ num_threads' = num_threads /\ Current >= LOAD_FACTOR * wanted[t]
    BY <1>10 DEF GrowEnough
  <2> QED
    BY <1>4, <1>7, <2>1
<1>11. CASE GrowLoad(t) \/ LoadTable(t)
  <2>1. /\ table' = Current /\ num_threads' = num_threads /\ wanted' = wanted
        /\ ToGrow(t) => ToGrow(t)'
    BY <1>1, <1>11 DEF GrowLoad, LoadTable, get_hashtable, Goto, grow, ToGrow
  <2> QED
    BY <1>4, <1>6, <2>1
<1>12. CASE GrowLock(t) \/ GrowStale(t) \/ GrowUndo(t)
  <2>1. /\ table' = table /\ num_threads' = num_threads /\ wanted' = wanted
        /\ ToGrow(t)'
    BY <1>1, <1>12 DEF GrowLock, GrowStale, GrowUndo, ForEachBucket, Goto, lot, grow, ToGrow
  <2> QED
    BY <1>4, <1>6, <2>1
<1>13. CASE GrowPublish(t)
  <2>1. /\ table' = TableSize(wanted[t]) /\ num_threads' = num_threads
        /\ table < LOAD_FACTOR * wanted[t]
    BY <1>3, <1>13, Zenon DEF GrowPublish, Shape, grow
  <2>2. wanted[t] <= Cardinality(Threads)
    BY <1>1, <1>2
  <2>3. TableSize(wanted[t]) \in Sizes /\ TableSize(wanted[t]) >= wanted[t] * LOAD_FACTOR
    BY <1>5, <2>2, EnoughTables
  <2>4. LOAD_FACTOR * wanted[t] \in Nat /\ wanted[t] * LOAD_FACTOR = LOAD_FACTOR * wanted[t]
    BY <1>5, FactorMonotone
  <2>5. table' \in Nat
    BY <1>2, <2>1, <2>3, Zenon
  <2>6. table' >= table /\ table' >= LOAD_FACTOR * wanted[t]
    BY <1>4, <2>1, <2>3, <2>4, <2>5
  <2> QED
    BY <1>7, <2>1, <2>5, <2>6, SMTT(60)
\* The rest does not touch the table, and t is not growing it.
<1>14. CASE table' = table /\ num_threads' = num_threads /\ ~ToGrow(t)
  <2>1. CASE table >= LOAD_FACTOR * num_threads
    BY <1>14, <2>1 DEF Fits
  <2>2. CASE \E u \in Threads : ToGrow(u) /\ wanted[u] >= num_threads
    <3>1. PICK u \in Threads \ {t} : ToGrow(u) /\ wanted[u] >= num_threads
      BY <1>14, <2>2
    <3>2. ToGrow(u)' /\ wanted'[u] = wanted[u]
      BY <1>3, <3>1 DEF OnlyOf, ToGrow
    <3> QED
      BY <1>14, <3>1, <3>2 DEF Fits
  <2> QED
    BY <2>1, <2>2 DEF Fits
<1>15. CASE GrowUnlock(t) \/ LockBucket(t) \/ Release(t) \/ Calm(t)
  BY <1>14, <1>15 DEF GrowUnlock, ForEachBucket, LockBucket, Release, Calm, grow, ToGrow
<1> QED
  BY <1>8, <1>9, <1>10, <1>11, <1>12, <1>13, <1>15, SMTT(30) DEF Kinds, GrowStep

-----------------------------------------------------------------------------
(* The theorems *)

\* No thread is counted and no bucket locked at first.
LEMMA InitIInv == Init => IInv
<1> SUFFICES ASSUME Init
             PROVE  IInv
  OBVIOUS
<1>1. Cardinality(Threads) \in Nat /\ LOAD_FACTOR \in Nat
  BY TableAssumption, ParkingLotAssumption, FS_CardinalityType
<1>2. Shapes
  BY <1>1 DEF Init, Shapes, Shape, Labels
<1>3. Counted
  <2>1. Live = {}
    BY DEF Init, Live
  <2> QED
    BY <2>1, FS_EmptySet DEF Init, Counted
<1>4. LocksHeld
  BY DEF Init, LocksHeld, Mine
<1>5. Fits
  BY <1>1 DEF Init, Fits
<1> QED
  BY <1>2, <1>3, <1>4, <1>5 DEF IInv

\* Every step keeps the inductive invariant.
LEMMA StepIInv == IInv /\ [Next]_vars => IInv'
<1> SUFFICES ASSUME IInv, [Next]_vars
             PROVE  IInv'
  OBVIOUS
<1>1. CASE Next
  <2>1. PICK t \in Threads : Kinds(t)
    BY <1>1, StepKinds DEF IInv
  <2> QED
    BY <2>1, ShapesKept, CountKept, LocksKept, FitsKept DEF IInv
<1>2. CASE UNCHANGED vars
  <2>1. UNCHANGED <<table, lock, pc, key, local, next, wanted, num_threads>>
    BY <1>2 DEF vars, lot, grow, call
  <2>2. Shapes'
    BY <2>1 DEF IInv, Shapes, Shape
  <2>3. Counted'
    BY <2>1 DEF IInv, Counted, Live
  <2>4. LocksHeld'
    BY <2>1 DEF IInv, LocksHeld, Mine, MyBucket, BucketOf, hash
  <2>5. Fits'
    BY <2>1 DEF IInv, Fits, ToGrow
  <2> QED
    BY <2>2, <2>3, <2>4, <2>5 DEF IInv
<1> QED
  BY <1>1, <1>2

\* What lock_bucket checked after it got the lock stays true: no two threads work
\* in the same bucket, and none works in a table all of whose buckets another
\* has locked to replace it; for any threads, keys, hash and load factor.
THEOREM BucketsExclude == Spec => []SectionsExclude
<1>1. IInv => SectionsExclude
  <2> SUFFICES ASSUME IInv, NEW t \in Threads, NEW u \in Threads
               PROVE  /\ pc[t] = "locked" /\ pc[u] = "locked" /\ MyBucket(t) = MyBucket(u) => t = u
                      /\ pc[t] = "locked" /\ pc[u] = "grow_check" => local[t] # local[u]
                      /\ pc[t] = "grow_check" /\ pc[u] = "grow_check" /\ local[t] = local[u] => t = u
    BY DEF SectionsExclude
  <2>1. Shape(t) /\ Shape(u) /\ Sizes \subseteq Nat \ {0}
    BY TableAssumption DEF IInv, Shapes
  <2>2. ASSUME NEW b \in Buckets, Mine(t, b), Mine(u, b)
        PROVE  t = u
    BY <2>2 DEF IInv, LocksHeld
  <2>3. CASE pc[t] = "locked"
    <3>1. MyBucket(t) \in Buckets /\ MyBucket(t)[1] = local[t]
      BY <2>1, <2>3, BucketExists, Zenon DEF Shape, MyBucket, BucketOf
    <3>2. Mine(t, MyBucket(t))
      BY <2>3 DEF Mine
    <3>3. ASSUME pc[u] = "locked", MyBucket(t) = MyBucket(u)
          PROVE  t = u
      BY <2>2, <3>1, <3>2, <3>3 DEF Mine
    <3>4. ASSUME pc[u] = "grow_check", local[t] = local[u]
          PROVE  FALSE
      <4>1. Mine(u, MyBucket(t))
        BY <3>1, <3>4 DEF Mine
      <4> QED
        BY <2>2, <2>3, <3>1, <3>2, <3>4, <4>1, SMTT(30)
    <3> QED
      BY <2>3, <3>3, <3>4
  <2>4. CASE pc[t] = "grow_check"
    <3> SUFFICES ASSUME pc[u] = "grow_check", local[t] = local[u]
                 PROVE  t = u
      BY <2>4
    <3> DEFINE b == <<local[t], 0>>
    <3>1. local[t] \in Sizes /\ local[t] \in Nat \ {0}
      BY <2>1, <2>4, Zenon DEF Shape
    <3>2. 0 < local[t] /\ 0 \in Nat
      BY <3>1
    <3>3. b \in Buckets
      BY <3>1, <3>2, BucketExists
    <3>4. Mine(t, b) /\ Mine(u, b)
      BY <2>4 DEF Mine
    <3> QED
      BY <2>2, <3>3, <3>4
  <2> QED
    BY <2>3, <2>4
<1> QED
  BY <1>1, InitIInv, StepIInv, PTL DEF Spec

\* When no growth is under way there are LOAD_FACTOR buckets for every live
\* ThreadData, in whatever order any number of threads counted themselves,
\* locked the old buckets, gave up and published.
THEOREM TableFits == Spec => []TableFitsThreads
<1>1. IInv => TableFitsThreads
  BY DEF IInv, Fits, ToGrow, TableFitsThreads, Growing
<1> QED
  BY <1>1, InitIInv, StepIInv, PTL DEF Spec
=============================================================================
