----------------------------- MODULE ParkingLot -----------------------------
(***************************************************************************)
(* The parking lot (src/mutex/deadlock.rs): park, unpark_one and the hash  *)
(* table of buckets behind them, which grows while threads are parked in   *)
(* it.  A key hashes to a bucket; a bucket has a lock and a queue of       *)
(* parked threads, of several keys.                                        *)
(*                                                                         *)
(* A table only ever grows, so its size names it: <<s, i>> is bucket i of  *)
(* the table with s buckets, and an old table keeps its buckets for ever.  *)
(* The bucket lock is a mutex (WordLockProofs proves that of WordLock), so *)
(* a critical section of a bucket is one step, and the step that takes the *)
(* lock another.                                                           *)
(*                                                                         *)
(* The callbacks are those of RawMutex (src/mutex/raw_mutex.rs): flag[k]   *)
(* is the PARKED_BIT of the mutex with key k, set before park, tested by   *)
(* validate, cleared by the callbacks that hear of an empty queue.  Unlike *)
(* RawMutex, which parks without a timeout, callers here may give one.     *)
(***************************************************************************)
EXTENDS Naturals, Sequences, FiniteSets

CONSTANTS Threads, NoThread, Keys, NoKey,
          HashBits,     \* the bits of a hash value that any table uses
          HashOf,       \* HashOf[k]: those bits, as a number
          LOAD_FACTOR,  \* buckets per thread (3 in the code)
          Parkers, Unparkers, \* the threads that call park, and unpark_one
          MaxCalls      \* bound on the calls of a thread

ASSUME ParkingLotAssumption ==
  /\ NoThread \notin Threads /\ NoKey \notin Keys
  /\ HashBits \in Nat /\ LOAD_FACTOR \in Nat \ {0} /\ MaxCalls \in Nat
  /\ Parkers \subseteq Threads /\ Unparkers \subseteq Threads
  /\ HashOf \in [Keys -> 0..(2^HashBits - 1)]

VARIABLES table,        \* HASHTABLE: the size of the current table, 0 for null
          lock,         \* lock[b]: the thread that holds bucket b's lock
          queue,        \* queue[b]: the threads in bucket b's list
          num_threads,  \* NUM_THREADS
          futex, asleep,
          flag,
          pc,
          op,           \* op[t]: "park", "expire" or "unpark", while t is at it
          key,          \* key[t]: the key of t's call, and of its ThreadData
          timed,        \* timed[t]: t's park has a timeout
          local,        \* local[t]: the table t has loaded
          next,         \* next[t]: the index of grow_hashtable's loops
          wanted,       \* wanted[t]: the argument of grow_hashtable
          chosen,       \* chosen[t]: the thread t's unpark_one is about to wake
          result,       \* result[t]: what t's last park returned
          calls

lot == <<table, lock, queue>>
grow == <<num_threads, next, wanted>>
call == <<op, key, timed, result, calls>>
vars == <<lot, grow, futex, asleep, flag, pc, call, local, chosen>>

Parker == INSTANCE ThreadParker
            WITH Threads <- Threads, futex <- futex, asleep <- asleep

Sizes == {2^b : b \in 0..HashBits}
Buckets == UNION {{s} \X (0..(s - 1)) : s \in Sizes}

next_power_of_two(n) == CHOOSE s \in Sizes : /\ s >= n
                                             /\ \A r \in Sizes : r >= n => s <= r
TableSize(threads) == next_power_of_two(threads * LOAD_FACTOR)

\* The top bits of the product of the key and the multiplier.
hash(k, size) == HashOf[k] \div (2^HashBits \div size)
BucketOf(k, size) == <<size, hash(k, size)>>

\* There is a table for all threads, and for the LOAD_FACTOR threads that the
\* first one is made for; a hash is a bucket of its table.
ASSUME TableAssumption ==
  /\ IsFiniteSet(Threads)
  /\ Sizes \subseteq Nat \ {0}
  /\ \E s \in Sizes : s >= Cardinality(Threads) * LOAD_FACTOR
  /\ \E s \in Sizes : s >= LOAD_FACTOR * LOAD_FACTOR
  /\ \A k \in Keys, s \in Sizes : hash(k, s) \in 0..(s - 1)

Init == /\ table = 0
        /\ lock = [b \in Buckets |-> NoThread]
        /\ queue = [b \in Buckets |-> <<>>]
        /\ num_threads = 0
        /\ futex = [t \in Threads |-> 0]
        /\ asleep = {}
        /\ flag = [k \in Keys |-> FALSE]
        /\ pc = [t \in Threads |-> "new"]
        /\ op = [t \in Threads |-> "none"]
        /\ key = [t \in Threads |-> NoKey]
        /\ timed = [t \in Threads |-> FALSE]
        /\ local = [t \in Threads |-> 0]
        /\ next = [t \in Threads |-> 0]
        /\ wanted = [t \in Threads |-> 0]
        /\ chosen = [t \in Threads |-> NoThread]
        /\ result = [t \in Threads |-> "none"]
        /\ calls = [t \in Threads |-> 0]

Goto(t, l) == pc' = [pc EXCEPT ![t] = l]

\* get_hashtable and create_hashtable.  A thread that loses the race to create
\* the table frees its own and takes the winner's.
Current == IF table = 0 THEN TableSize(LOAD_FACTOR) ELSE table
get_hashtable(t) == table' = Current /\ local' = [local EXCEPT ![t] = Current]

-----------------------------------------------------------------------------
\* ThreadData::new and drop, grow_hashtable

\* fault: the thread is not counted.
NewThreadDataUncounted(t) ==
  /\ pc[t] = "new"
  /\ wanted' = [wanted EXCEPT ![t] = num_threads + 1]
  /\ Goto(t, "grow")
  /\ UNCHANGED <<lot, num_threads, next, futex, asleep, flag, call, local, chosen>>

NewThreadData(t) == /\ pc[t] = "new"
                    /\ num_threads' = num_threads + 1
                    /\ wanted' = [wanted EXCEPT ![t] = num_threads + 1]
                    /\ Goto(t, "grow")
                    /\ UNCHANGED <<lot, next, futex, asleep, flag, call, local, chosen>>

\* The thread exits.
DropThreadData(t) == /\ pc[t] = "idle"
                     /\ num_threads' = num_threads - 1
                     /\ Goto(t, "gone")
                     /\ UNCHANGED <<lot, next, wanted, futex, asleep, flag, call, local, chosen>>

\* The table is big enough.
GrowEnough(t) ==
  /\ pc[t] = "grow"
  /\ Current >= LOAD_FACTOR * wanted[t]
  /\ table' = Current
  /\ wanted' = [wanted EXCEPT ![t] = 0]
  /\ Goto(t, "idle")
  /\ UNCHANGED <<lock, queue, num_threads, next, futex, asleep, flag, call, local, chosen>>

GrowLoad(t) ==
  /\ pc[t] = "grow"
  /\ Current < LOAD_FACTOR * wanted[t]
  /\ get_hashtable(t)
  /\ Goto(t, "grow_lock")
  /\ UNCHANGED <<lock, queue, grow, futex, asleep, flag, call, chosen>>

\* A loop of grow_hashtable over the buckets of the old table.
ForEachBucket(t, from, to) ==
  /\ pc[t] = from
  /\ next' = [next EXCEPT ![t] = (@ + 1) % local[t]]
  /\ Goto(t, IF next[t] + 1 = local[t] THEN to ELSE from)

\* fault: the bucket is not waited for
GrowLockBlind(t) ==
  /\ ForEachBucket(t, "grow_lock", "grow_check")
  /\ lock' = [lock EXCEPT ![<<local[t], next[t]>>] = t]
  /\ UNCHANGED <<table, queue, num_threads, wanted, futex, asleep, flag, call, local, chosen>>

GrowLock(t) ==
  LET b == <<local[t], next[t]>> IN
  /\ ForEachBucket(t, "grow_lock", "grow_check")
  /\ lock[b] = NoThread
  /\ lock' = [lock EXCEPT ![b] = t]
  /\ UNCHANGED <<table, queue, num_threads, wanted, futex, asleep, flag, call, local, chosen>>

GrowStale(t) == /\ pc[t] = "grow_check"
                /\ table # local[t]
                /\ Goto(t, "grow_undo")
                /\ UNCHANGED <<lot, grow, futex, asleep, flag, call, local, chosen>>

\* The entries of the n first buckets of the table with s buckets, in the order
\* in which rehash_bucket_into comes by them.
Entries(s) == LET upto[n \in 0..s] == IF n = 0 THEN <<>>
                                      ELSE upto[n-1] \o queue[<<s, n-1>>]
              IN  upto[s]

\* Rehash every entry into the new table, publish it.  The old buckets keep
\* their pointers to the old lists.
Rehash(old, new) ==
  queue' = [b \in Buckets |->
              IF b[1] = new
              THEN SelectSeq(Entries(old), LAMBDA u : BucketOf(key[u], new) = b)
              ELSE queue[b]]

\* fault: the table is not looked at again once its buckets are locked.
GrowPublishUnchecked(t) ==
  LET new == TableSize(wanted[t]) IN
  /\ pc[t] = "grow_check"
  /\ Rehash(local[t], new)
  /\ table' = new
  /\ Goto(t, "grow_done")
  /\ UNCHANGED <<lock, grow, futex, asleep, flag, call, local, chosen>>

GrowPublish(t) ==
  LET new == TableSize(wanted[t]) IN
  /\ pc[t] = "grow_check"
  /\ table = local[t]
  /\ Rehash(table, new)
  /\ table' = new
  /\ Goto(t, "grow_done")
  /\ UNCHANGED <<lock, grow, futex, asleep, flag, call, local, chosen>>

UnlockOld(t) == lock' = [lock EXCEPT ![<<local[t], next[t]>>] = NoThread]

\* Unlock the buckets and try again.
GrowUndo(t) ==
  /\ ForEachBucket(t, "grow_undo", "grow")
  /\ UnlockOld(t)
  /\ local' = [local EXCEPT ![t] = IF pc'[t] = "grow" THEN 0 ELSE @]
  /\ UNCHANGED <<table, queue, num_threads, wanted, futex, asleep, flag, call, chosen>>

\* Unlock the buckets of the old table and return.
GrowUnlock(t) ==
  /\ ForEachBucket(t, "grow_done", "idle")
  /\ UnlockOld(t)
  /\ local' = [local EXCEPT ![t] = IF pc'[t] = "idle" THEN 0 ELSE @]
  /\ wanted' = [wanted EXCEPT ![t] = IF pc'[t] = "idle" THEN 0 ELSE @]
  /\ UNCHANGED <<table, queue, num_threads, futex, asleep, flag, call, chosen>>

-----------------------------------------------------------------------------
\* The calls, and lock_bucket

Call(t, k, what, timeout) ==
  /\ pc[t] = "idle"
  /\ calls[t] < MaxCalls
  /\ calls' = [calls EXCEPT ![t] = @ + 1]
  /\ key' = [key EXCEPT ![t] = k]
  /\ op' = [op EXCEPT ![t] = what]
  /\ timed' = [timed EXCEPT ![t] = timeout]
  /\ Goto(t, "bucket")
  /\ UNCHANGED <<lot, grow, futex, asleep, local, chosen, result>>

\* A caller of park has set PARKED_BIT.
Park(t, k, timeout) == /\ t \in Parkers
                       /\ Call(t, k, "park", timeout)
                       /\ flag' = [flag EXCEPT ![k] = TRUE]

UnparkOne(t, k) == /\ t \in Unparkers
                   /\ Call(t, k, "unpark", FALSE)
                   /\ UNCHANGED flag

\* The top of the loop of lock_bucket and of lock_bucket_checked.  (Nothing in
\* this crate requeues a thread, so the key the latter checks cannot change.)
LoadTable(t) == /\ pc[t] = "bucket"
                /\ get_hashtable(t)
                /\ Goto(t, "lock")
                /\ UNCHANGED <<lock, queue, grow, futex, asleep, flag, call, chosen>>

LockBucket(t) ==
  LET b == BucketOf(key[t], local[t]) IN
  /\ pc[t] = "lock"
  /\ lock[b] = NoThread
  /\ lock' = [lock EXCEPT ![b] = t]
  /\ Goto(t, "locked")
  /\ UNCHANGED <<table, queue, grow, futex, asleep, flag, call, local, chosen>>

MyBucket(t) == BucketOf(key[t], local[t])
UnlockBucket(t) == lock' = [lock EXCEPT ![MyBucket(t)] = NoThread]

\* Another thread has rehashed the table before we grabbed the lock.
Stale(t) == /\ pc[t] = "locked"
            /\ table # local[t]
            /\ UnlockBucket(t)
            /\ local' = [local EXCEPT ![t] = 0]
            /\ Goto(t, "bucket")
            /\ UNCHANGED <<table, queue, grow, futex, asleep, flag, call, chosen>>

\* fault: a bucket of a table that has been replaced will do.
InsideAnyTable(t, what) == pc[t] = "locked" /\ op[t] = what

Inside(t, what) == pc[t] = "locked" /\ table = local[t] /\ op[t] = what

\* The call returns r to its caller.  Its local variables are gone.
Return(t, r) == /\ Goto(t, "idle")
                /\ op' = [op EXCEPT ![t] = "none"]
                /\ key' = [key EXCEPT ![t] = NoKey]
                /\ timed' = [timed EXCEPT ![t] = FALSE]
                /\ result' = [result EXCEPT ![t] = r]
                /\ local' = [local EXCEPT ![t] = 0]
                /\ UNCHANGED calls

-----------------------------------------------------------------------------
\* park

ParkInvalid(t) == /\ Inside(t, "park")
                  /\ ~flag[key[t]]
                  /\ UnlockBucket(t)
                  /\ Return(t, "Invalid")
                  /\ UNCHANGED <<table, queue, grow, futex, asleep, flag, chosen>>

ParkEnqueue(t) == /\ Inside(t, "park")
                  /\ flag[key[t]]
                  /\ queue' = [queue EXCEPT ![MyBucket(t)] = Append(@, t)]
                  /\ Parker!prepare_park(t)
                  /\ UnlockBucket(t)
                  /\ local' = [local EXCEPT ![t] = 0]
                  /\ Goto(t, "park")
                  /\ UNCHANGED <<table, grow, asleep, flag, call, chosen>>

Sleep(t) == /\ pc[t] = "park"
            /\ Parker!futex_wait(t)
            /\ UNCHANGED <<lot, grow, futex, flag, pc, call, local, chosen>>

\* FUTEX_WAIT ends without a wake: for no reason, or because of the timeout.
Interrupt(t) == /\ pc[t] = "park"
                /\ Parker!Interrupt(t)
                /\ UNCHANGED <<lot, grow, futex, flag, pc, call, local, chosen>>

ParkReturns(t) == /\ pc[t] = "park"
                  /\ Parker!Unparked(t)
                  /\ Return(t, "Unparked")
                  /\ UNCHANGED <<lot, grow, futex, asleep, flag, chosen>>

\* park_until returns false; the thread is still in the queue.
Expire(t) == /\ pc[t] = "park"
             /\ timed[t]
             /\ t \notin asleep
             /\ Parker!timed_out(t)
             /\ op' = [op EXCEPT ![t] = "expire"]
             /\ Goto(t, "bucket")
             /\ UNCHANGED <<lot, grow, futex, asleep, flag, key, timed, result, calls, local, chosen>>

\* "Now we need to check again if we were unparked or timed out": unparked.
ExpireUnparked(t) == /\ Inside(t, "expire")
                     /\ ~Parker!timed_out(t)
                     /\ UnlockBucket(t)
                     /\ Return(t, "Unparked")
                     /\ UNCHANGED <<table, queue, grow, futex, asleep, flag, chosen>>

WaitersOf(q, k) == SelectSeq(q, LAMBDA u : key[u] = k)

Others(t) == SelectSeq(queue[MyBucket(t)], LAMBDA u : u # t)

\* fault: the threads of the other keys of the bucket count as well.
was_last_in_bucket(t) == Others(t) = <<>>

\* Whether no other thread of the key is in the queue, before or after t.
was_last_thread(t) == WaitersOf(Others(t), key[t]) = <<>>

LeaveQueue(t) == /\ queue' = [queue EXCEPT ![MyBucket(t)] = Others(t)]
                 /\ flag' = [flag EXCEPT ![key[t]] = @ /\ ~was_last_thread(t)]
                 /\ UnlockBucket(t)
                 /\ Return(t, "TimedOut")
                 /\ UNCHANGED <<table, grow, futex, asleep, chosen>>

\* fault: whoever was unparked meanwhile is told that it timed out.
ExpireTimedOutUnchecked(t) == Inside(t, "expire") /\ LeaveQueue(t)

\* Timed out: leave the queue and tell the callback.
ExpireTimedOut(t) == /\ Inside(t, "expire")
                     /\ Parker!timed_out(t)
                     /\ LeaveQueue(t)

-----------------------------------------------------------------------------
\* unpark_one

\* The first thread of the key leaves the queue, the callback hears whether
\* more remain, and the thread's word is cleared before the bucket is unlocked.
UnparkFirst(t) ==
  LET found == WaitersOf(queue[MyBucket(t)], key[t])
      first == Head(found)
      have_more_threads == Tail(found) # <<>>
  IN
  /\ Inside(t, "unpark")
  /\ found # <<>>
  /\ queue' = [queue EXCEPT ![MyBucket(t)] = SelectSeq(@, LAMBDA u : u # first)]
  /\ flag' = [flag EXCEPT ![key[t]] = have_more_threads]
  /\ Parker!unpark_lock(first)
  /\ UnlockBucket(t)
  /\ chosen' = [chosen EXCEPT ![t] = first]
  /\ local' = [local EXCEPT ![t] = 0]
  /\ Goto(t, "wake")
  /\ UNCHANGED <<table, grow, asleep, call>>

UnparkNone(t) == /\ Inside(t, "unpark")
                 /\ WaitersOf(queue[MyBucket(t)], key[t]) = <<>>
                 /\ flag' = [flag EXCEPT ![key[t]] = FALSE]
                 /\ UnlockBucket(t)
                 /\ Return(t, result[t])
                 /\ UNCHANGED <<table, queue, grow, futex, asleep, chosen>>

\* fault: the thread is left to find its cleared word by itself.
WakeNobody(t) == /\ pc[t] = "wake"
                 /\ chosen' = [chosen EXCEPT ![t] = NoThread]
                 /\ Return(t, result[t])
                 /\ UNCHANGED <<lot, grow, futex, asleep, flag>>

\* FUTEX_WAKE, after the bucket is unlocked.
Wake(t) == /\ pc[t] = "wake"
           /\ Parker!unpark(chosen[t])
           /\ chosen' = [chosen EXCEPT ![t] = NoThread]
           /\ Return(t, result[t])
           /\ UNCHANGED <<lot, grow, futex, flag>>

-----------------------------------------------------------------------------
GrowStep(t) == \/ GrowEnough(t) \/ GrowLoad(t) \/ GrowLock(t) \/ GrowStale(t)
               \/ GrowUndo(t) \/ GrowPublish(t) \/ GrowUnlock(t)
LockStep(t) == LoadTable(t) \/ LockBucket(t) \/ Stale(t)
ParkStep(t) == \/ ParkInvalid(t) \/ ParkEnqueue(t) \/ Sleep(t) \/ ParkReturns(t)
               \/ Expire(t) \/ ExpireUnparked(t) \/ ExpireTimedOut(t)
UnparkStep(t) == UnparkFirst(t) \/ UnparkNone(t) \/ Wake(t)
Step(t) == GrowStep(t) \/ LockStep(t) \/ ParkStep(t) \/ UnparkStep(t)

Next == \E t \in Threads :
          \/ NewThreadData(t) \/ DropThreadData(t)
          \/ \E k \in Keys : \/ \E timeout \in BOOLEAN : Park(t, k, timeout)
                             \/ UnparkOne(t, k)
          \/ Interrupt(t)
          \/ Step(t)

Spec == Init /\ [][Next]_vars

\* Every thread inside a call is scheduled and a timeout expires: once the time
\* has come FUTEX_WAIT ends and park_until does not sleep again.
Fairness == \A t \in Threads : /\ WF_vars(Step(t))
                               /\ WF_vars(timed[t] /\ Interrupt(t))
                               /\ SF_vars(Expire(t))

FairSpec == Spec /\ Fairness

-----------------------------------------------------------------------------
Growing == {"grow", "grow_lock", "grow_check", "grow_undo", "grow_done"}

\* Every variable has its type; a thread that exits was counted.
TypeOK == /\ table \in Sizes \cup {0}
          /\ lock \in [Buckets -> Threads \cup {NoThread}]
          /\ queue \in [Buckets -> Seq(Threads)]
          /\ num_threads \in Nat
          /\ futex \in [Threads -> {0, 1}]
          /\ asleep \subseteq Threads
          /\ flag \in [Keys -> BOOLEAN]
          /\ pc \in [Threads -> Growing \cup {"new", "idle", "gone", "bucket", "lock",
                                             "locked", "park", "wake"}]
          /\ op \in [Threads -> {"none", "park", "expire", "unpark"}]
          /\ key \in [Threads -> Keys \cup {NoKey}]
          /\ timed \in [Threads -> BOOLEAN]
          /\ local \in [Threads -> Sizes \cup {0}]
          /\ next \in [Threads -> Nat]
          /\ wanted \in [Threads -> Nat]
          /\ chosen \in [Threads -> Threads \cup {NoThread}]
          /\ result \in [Threads -> {"none", "Invalid", "Unparked", "TimedOut"}]
          /\ calls \in [Threads -> 0..MaxCalls]

\* The threads inside park() past the queue, and those among them that nobody
\* has unparked yet.
Parked(t) == pc[t] = "park" \/ op[t] = "expire"
Waiting(t) == Parked(t) /\ Parker!timed_out(t)

WaitersInTable(k) == IF table = 0 THEN <<>>
                     ELSE WaitersOf(queue[BucketOf(k, table)], k)

Abstract == INSTANCE ParkSpec
              WITH Threads <- Threads, Keys <- Keys,
                   waiting <- [k \in Keys |-> WaitersInTable(k)],
                   picked <- {t \in Threads : Parked(t) /\ ~Parker!timed_out(t)},
                   result <- result

\* The parking lot keeps its promise while the table grows: a rehash neither
\* loses a waiting thread nor changes the order of the threads of a key, an
\* unpark_one that has picked a thread makes its park return Unparked even
\* when the timeout expires at the same time, and a thread that times out was
\* picked by nobody.
ImplementsParkSpec == Abstract!Spec

\* "create only correct linked lists. All `ThreadData` instances in these lists
\* will remain valid as long as they are present in the lists" (grow_hashtable)
\* and "no way for our thread to have been removed from the queue if we timed
\* out" (park): in the current table a list holds exactly the waiting threads
\* whose key hashes to its bucket, each once.
ListsAreSound ==
  \A t \in Threads :
    LET places == {p \in Buckets \X (1..Len(Entries(table))) :
                     /\ p[1][1] = table
                     /\ p[2] \in DOMAIN queue[p[1]]
                     /\ queue[p[1]][p[2]] = t}
    IN  table # 0 => IF Waiting(t)
                     THEN \E p \in places : places = {p} /\ p[1] = BucketOf(key[t], table)
                     ELSE places = {}

\* While a thread works in a bucket, nobody else does, and nobody has the table of
\* that bucket locked to replace it: what lock_bucket checked after it got the
\* lock stays true until the lock is given back.  Two threads never both have
\* all buckets of a table.
SectionsExclude ==
  \A t, u \in Threads :
    /\ pc[t] = "locked" /\ pc[u] = "locked" /\ MyBucket(t) = MyBucket(u) => t = u
    /\ pc[t] = "locked" /\ pc[u] = "grow_check" => local[t] # local[u]
    /\ pc[t] = "grow_check" /\ pc[u] = "grow_check" /\ local[t] = local[u] => t = u

\* PARKED_BIT tells the truth: it is set while a thread waits for the key, and
\* only while one does or is on its way to, whatever was_last_thread and
\* have_more_threads say to the callbacks.
FlagIsExact ==
  \A k \in Keys :
    /\ WaitersInTable(k) # <<>> => flag[k]
    /\ flag[k] => \/ WaitersInTable(k) # <<>>
                  \/ \E t \in Threads : op[t] = "park" /\ pc[t] # "park" /\ key[t] = k

\* The table fits the threads: when no growth is under way it has LOAD_FACTOR
\* buckets for every live ThreadData, in whichever order the threads counted
\* themselves, locked the old buckets and published.
TableFitsThreads == (\A t \in Threads : pc[t] \notin Growing)
                      => table >= LOAD_FACTOR * num_threads

\* Whoever locks the bucket of a key, or the buckets of a table to grow it,
\* gets through: every unpark_one, every growth and every park that has a
\* timeout or was unparked returns.
CallsReturn == []<>(\A t \in Threads : \/ pc[t] \in {"new", "idle", "gone"}
                                       \/ pc[t] = "park" /\ ~timed[t] /\ Waiting(t))
=============================================================================
