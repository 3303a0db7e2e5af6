# A TLA+ verification of co_queue

`co_queue` is a Rust crate with three concurrent data structures: a small mutex
on a parking lot (`Mootex`), a linked-list queue that keeps lost races and popped
nodes in "pointer guards" (`ShiftQueue`), and a queue of chunks (`CoQueue`) with a
stream, an iterator and a blocking collection on top. `src/lib.rs` compiles the
mutex and `ShiftQueue`; the `CoQueue` half is commented out there (lib.rs:8-15) but
is kept in the repository, with tests, and is modelled as it stands.

Paths below are relative to the crate (`src/src/...` in PROJECT.json is
`src/...` here).

## Inventory

| Part | Code | State | Operations | Hard part |
|---|---|---|---|---|
| RawMutex | mutex/raw_mutex.rs | `state`: LOCKED_BIT, PARKED_BIT | lock, try_lock, unlock, lock_slow, unlock_slow, mark_parked_when_lock | barging against hand-off; the parked bit against the queue |
| SmallMutex, guards | mutex/mod.rs | who holds a guard | lock, try_lock, force_unlock, drop, map | guards that are mapped, or sent to another thread |
| Parking lot | mutex/deadlock.rs | buckets, queues, tokens | park, unpark_one, growth of the table | validation under the bucket lock; several keys in one bucket; rehash; timeouts |
| WordLock, ThreadParker | mutex/deadlock.rs | a word with an intrusive queue; a futex word | lock, unlock; park, unpark | who wakes the next thread; nodes on the stacks of the waiting threads |
| Deadlock bookkeeping | mutex/deadlock.rs | per-thread `resources` | acquire_resource, release_resource | guards dropped elsewhere |
| SpinWait, FairTimeout | mutex/deadlock.rs | counter; clock, seed | spin, should_timeout | |
| ShiftQueue / RawQueue | queue/mod.rs | head, tail, list, two guards | push, try_pop, pop, is_empty, drop | an insert in two compare_sets; when nodes are freed |
| PtrGuard | queue/shift_guard.rs | slots, len, lock | push, pop, lock, Debug | len and slots change in separate steps, without the lock |
| Owned / Shared / Atomic | queue/own_ref.rs | ownership of nodes | conversions, drop | a copy of an Owned is dropped as well |
| CoQueue | lockless_queue.rs | chunks, slots, two segments | push, pop, is_empty, len, drop | chunk, index and link are published one by one; who frees a chunk |
| Stream, iterator | stream.rs, waker.rs | the channel, wake count | poll_next, next | is_empty and then pop; messages read in two places; Pending without a registered waker |
| BlockingQueue | blocking_col.rs | CoQueue in an RwLock, the channel | push, pop, len, iter | a write lock per poll; two receives per turn |
| Backoff, CachePad | backoff.rs, cahch_pad.rs | step counter; none | spin, nap | none: delay and layout |

The queue's `PtrGuard`s are locked with a `Mootex`; the mutex parks threads in the
parking lot, whose buckets are locked with a `WordLock`. The hazards of each part,
with their lines, are listed in PROJECT.json.

## Modules

| Module | What it is |
|---|---|
| `MutexSpec` | what mutexes promise: asked for, owned by one, given up or handed over |
| `RawMutex` | the mutex, its guards, and one bucket of the parking lot |
| `RawMutexProofs` | the theorems about its use of the parking lot, under all calls |
| `RawMutexOwnerProofs` | exclusion, and that `RawMutex` implements `MutexSpec` |
| `RawMutexResourceProofs` | the deadlock bookkeeping of `RawMutex` |
| `ThreadParker` | the futex word and the sleepers of the kernel, as effects for the next two |
| `WordLock` | the bucket lock: its word, its queue of ThreadData, its two bits |
| `WordLockProofs` | the theorems about `WordLock` |
| `ParkSpec` | what park and unpark_one promise |
| `ParkingLot` | park, unpark_one and the hash table that grows under them |
| `ParkingLotProofs` | the theorems about `ParkingLot` |
| `FifoQueue` | what a queue promises |
| `ShiftQueue` | RawQueue, PtrGuard and the heap of nodes |
| `CoQueue` | the queue of chunks and the heap of chunks |
| `CoQueueProofs` | the theorem about `CoQueue` |
| `BlockingQueue` | CoQueue with its RwLock, channel, iterators and stream |
| `MCRawMutex`, `MCWordLock`, `MCParkingLot`, `MCShiftQueue`, `MCCoQueue`, `MCBlockingQueue` | instances for TLC |

The mutex is verified in layers. WordLock implements MutexSpec, so ParkingLot and
RawMutex take a bucket's critical section as one step; ParkingLot implements
ParkSpec whatever the table does, so RawMutex has one bucket that never moves;
RawMutex implements MutexSpec, so ShiftQueue takes a guard's Mootex as an atomic
lock. BlockingQueue extends CoQueue: its steps inside a call are CoQueue's own.

In all of them a step is one access of shared memory, or several accesses of which
at most one can be seen by others. Definitions that carry a comment "fault" are
deliberate errors: each is what one property is there to catch.

**RawMutex.** `state[m]` is the set of bits set in the AtomicU8. The mutexes hash
to the same bucket, so they share `bucket` (the WordLock, taken here as an atomic
lock) and `queue`. `pc` follows `lock_slow`, `park`, `unlock_slow` and
`unpark_one`; `key`, `seen`, `spins` and `current` are their locals. `futex` and
`token` are the fields of ThreadData that an unlocking thread writes. `be_fair`
comes from a clock and is a free choice. A compare_exchange_weak may fail
spuriously. Clearing the futex word and unlocking the bucket are one step: the
woken thread gains nothing from coming in between, a release only enables.
A thread outside of any call may hold several mutexes and lock another one:
`held[t][m]` counts what it has to give back, `resources[t]` is its Vec, with
rposition and swap_remove as in the code. `strayed` is a history variable that no
step reads: the mutexes of which a guard was mapped or sent to another thread, or
that were force-unlocked by a thread that may not have had them. `LockNext` is the
use through guards; `TryNext` adds try_lock; `AnyNext` is everything: also
force_unlock, which is public and asks nothing of its caller, so any thread may call
it at any time, mark_parked_when_lock, and guards that are mapped or sent.

**MutexSpec.** `owners[m]` and `waiting[m]` are sets of threads. That `owners[m]` has
one member at most is a consequence of its actions, not of its type, so the mapping
of RawMutex or WordLock to it can fail.

**WordLock.** `state` is the word: LOCKED_BIT, QUEUE_LOCKED_BIT and the head of the
queue. A ThreadData is on the stack of its thread, so it lives exactly while the
thread is in `park`, and `data[t]` is then its `queue_tail`, `prev` and `next`. A
step is one access of the word. The scan of unlock_slow is one step per node, since
pushes and unlocks of others come between. A failed weak compare-exchange that met
the expected word is a stutter. One branch of the code has no action: the retry at
deadlock.rs:551 is for a word without a queue under the queue lock, which
QueueOwned, proved for any number of threads, excludes.
The mapping to MutexSpec: the owner is the thread between lock and unlock, and who is
in lock() waits.

**ParkingLot.** A table is named by its size, as a table is only ever replaced by a
larger one; `<<s, i>>` is bucket i of the table of size s, and old tables stay, with
the lists they had. `lock_bucket` is two steps, the load of HASHTABLE and the lock
with the check after it (`Stale` or one of the sections, which require
`table = local[t]`). `grow_hashtable` locks and unlocks bucket by bucket; rehash and
publication are one step, because all buckets of the old table are locked and the
new one is not published yet. `flag` is the PARKED_BIT that the callbacks of RawMutex
set and clear, so that what `was_last_thread` and `have_more_threads` say has an
effect. A park may have a timeout, which may expire at any moment; the crate itself
passes none (raw_mutex.rs:124). `unpark_requeue` does not exist in this crate, so
the key of a parked thread never changes. The branch of park_until for a timeout that
overflows time_t (deadlock.rs:164) has no action: on a 64-bit target the conversion
loses nothing.

**ShiftQueue.** Nodes are addresses, allocated, freed and used again. `Touches`
says which addresses a thread's next step reads through or frees; if one is not
allocated the step is undefined and the model does not take it, as nothing can be
said about the program from there on. MemorySafe says that this never happens; the
other properties speak of behaviours up to the first undefined step. Printing the
queue prints the two guards, the head and the tail in this order. It frees the nodes in
the guards, because the Debug of PtrGuard copies the Owned values and drops the
copies, and the Debug of a Node follows `next`, so what is printed later may go
through what was freed before (`DumpIsSafe`). A slot nobody wrote holds any word. A failed assertion ends the thread and, by
unwinding, releases the lock it holds. The guard's Mootex is an atomic lock,
which `RawMutex` implements. Dropping the queue pops what is left, as a consumer
does, and frees the head. `Next` is everything; `SoloNext` is the common path, without
the branches for lost races and full guards. `SoloTypeOK` says that one producer and one
consumer never come to a place outside of it, so the steps left out are steps they
cannot take.

**CoQueue.** An index is twice a position plus HAS_NEXT. `loc` holds the locals
(`index`, `chunk`, `next` for next_chunk or the awaited chunk, `new` for new_head
and next_idx). `claimed` is a history variable, the items in the order of their
claims; no step reads it. `len()` is three loads by an observer, and its arithmetic
an operator; where its subtraction underflows the thread panics, as in a debug build
(`LenPanics`). Backoff only delays, and is left out. LAP is a constant, 32 in the code
and 3 in the runs, so that a chunk has two slots.

**BlockingQueue.** `owned` says which of the two uses is meant: a BlockingQueue,
where `readers` and `writer` are the RwLock, or a CoQueue that its iterator or
stream has borrowed, where they are the borrows that Rust enforces. `push`, `pop`
and `len` take the read lock and run CoQueue's steps; the guard is dropped with the
last of them, or by the panic of len(), which does not poison the lock since it is a
read guard. `next()` receives, locks, polls (which for an owned queue receives
again), asks is_empty and pops. The channel is the history of all messages and the
number received. `over` are the iterators whose last answer was None. `Yield` and `Spin` messages are received and ignored, so one of
them stands for both. BlockingQueue's Receiver is not Sync, although the type claims
to be; the run has one iterating thread, which is what the Receiver allows.

## Runs

Passing runs:

| Run | Instance | Shows |
|---|---|---|
| mutex_lock | 3 threads, 1 mutex, fair | exclusion, the parked bit covers the queue, MutexSpec implemented, sleepers are woken, a wanted mutex is acquired |
| mutex_any | 2 threads, 2 mutexes, all calls, nested locks | the parked bit covers the queue; no lost wakeup; the resources of a thread are the mutexes it has |
| word_lock | 4 threads, 1 call each, fair | a mutex; one owner of the queue; no dead ThreadData is touched; nobody is lost or woken twice; calls return |
| parking_lot | 3 threads, 2 keys, tables of 1, 2 and 4 buckets, fair | ParkSpec implemented during growth; sound lists; sections exclude growth; PARKED_BIT exact; the table fits; calls return |
| shift_spsc | 1+1, room for all nodes, fair | the common path is never left; every node is owned once; FIFO; items arrive |
| chunks_fifo | 2+2 (one thread is both, one asks for len), two items each | FIFO, no freed chunk is used; a slot goes to one push and one pop; HAS_NEXT, is_empty and Drop agree with the contents; len does except in one state |
| blocking_iter | 1 producer, 1 consumer, 1 iterator, two items, one message, fair; owned and shared | messages are heeded and read, nothing else panics but len, items arrive, calls return |

Runs in which the code does something else than one of its comments, docs,
assertions or tests says (PROJECT.json quotes the lines):

| Run | What happens |
|---|---|
| mutex_try_excludes | try_lock sets PARKED_BIT, so a second thread gets the mutex |
| shift_two_producers | the assertion "swap to new tail failed" fails |
| shift_guard_full | a full pop_guard leads to the use of freed nodes, with 1+1 threads |
| chunks_leak | a chunk is never freed: nobody sets READ in its last slot |
| chunks_len | len() subtracts a lap that the tail does not have, and panics or wraps around |

What is shown of ShiftQueue is bounded by these: with one producer, one consumer and
no more pops than `Cap` the queue is right, and nothing is claimed beyond. `OwnedOnce`
is what memory safety rests on there: every allocated node is in the list, in a counted
slot of a guard or in the hands of one thread, at every step of a push that meets a pop.
With two producers a push that meets another one fails its assertion, or prints the queue
and frees the guards; two consumers free the node in use as soon as a guard is full.
Four related behaviours are in the code, without a run of their own: a mapped guard never
unlocks its mutex, although "if unused the Mutex will immediately unlock"
(mutex/mod.rs:25 and 106; `MapGuard` models it); finishing another producer's insert
leaves the tail on a node that is not linked (queue/mod.rs:168); printing the queue
after a lost race frees nodes in the guard (queue/mod.rs:248); and a guard dropped by
another thread is not among that thread's resources, although the comment at
mutex/deadlock.rs:1329 names "only one situation" in which an entry is not found
(`ResourcesMatch` leaves out exactly the mutexes in `strayed`).
`LenIsSnapshot` is what the comments of len() say: if the tail did not change, the result
is what was in the queue when the head was read. It fails in one state, when a push and a
pop have both claimed the last slot of a chunk and the tail has not moved on
(lockless_queue.rs:315). `LenFailsOnlyAtChunkEnd`, in `chunks_fifo`, says that it fails
nowhere else, however many pushes and pops run meanwhile.
`MemorySafe` of CoQueue holds in part because of `chunks_leak`: a chunk that is
never freed is never used after it was freed. Its fault (free at once) shows that
the property does see a chunk freed too early.

### Bounds

* Three threads in `mutex_lock`: one owns a mutex, one barges, one sleeps. It has one
  mutex, and MaxHeld 1: with two, a thread can lose the race for the bucket lock for
  ever against users of the other mutex, which weak fairness allows, and threads that
  nest their locks, or lock a mutex again that they have, can deadlock, as with any
  mutex. Safety for several mutexes and nested locks is proved for any number of them.
* `mutex_any` has two threads, two mutexes in the bucket and MaxHeld 2: a thread has two
  entries, of one mutex or of both, and gives them back in either order, while the other
  one locks, unlocks or sleeps. MaxHeld bounds the Vec and the guards of a thread
  (`MayAcquire`).
* Four threads in `word_lock`: one holds the lock, one works on the queue, two are
  pushed meanwhile, so that a scan meets unprocessed and processed nodes. One call
  each suffices, as a thread that is woken and overtaken queues again.
* `parking_lot` has LOAD_FACTOR 1 (3 in the code) so that three threads make the
  table grow twice, and two hash bits of which the two keys share the first: they live in one bucket until the last growth. One call per thread.
* `blocking_iter`: PokeLimit 1 (20 in the code), one message, one call of pop or len
  per thread; two items fill a chunk, so the iterator crosses to the next one.
  Its action constraint leaves out the behaviours whose first chunk is at the second
  address: each is one of the others with the two addresses renamed, and no property
  mentions addresses.
* SpinLimit 1 (10 in the code): spinning and not spinning both happen. It is 0 in
  `mutex_any`, where spinning would only multiply the states.
* Cap 1 makes `shift_guard_full` fill its guard; Cap 3 leaves room for the three pops of
  `shift_spsc`. Nodes and Chunks bound the heap; a thread that needs memory when
  there is none waits.
* MaxPush bounds the items. With LAP 3, two items fill a chunk, so that
  `chunks_fifo` goes through three chunks, with a fourth for a spare.
* A thread that both pushes and pops adds the interleavings of a second consumer
  without the states of a fourth thread.
* Symmetry (of threads and mutexes in `mutex_any`, of addresses in `chunks_fifo`) is used
  in safety runs only; the refinement in `chunks_fifo` does not mention addresses.
* CHECK_DEADLOCK is off where calls are bounded (`word_lock`, `parking_lot`) and for the queues: they may be dropped, and the model stops
  before an undefined step or when every thread panicked. It is off in `mutex_any`
  because a mapped guard is never unlocked, and nested locks may deadlock, so that
  everybody may sleep.

### Fairness

Weak fairness of a thread's steps inside a call is the operating system running
every thread. Weak fairness of Unlock says that guards are dropped. In RawMutex a
spurious failure changes nothing but the copy of the state. In CoQueue, strong
fairness of Claim and Take says that a compare_exchange_weak which could succeed
again and again does so once. WordLock and ParkingLot have weak fairness of each
thread's steps, which includes that critical sections end; a timeout that is over
ends FUTEX_WAIT and park_until (strong fairness of Expire, as unparks may come
between). Nothing is asked of EINTR: a thread may sleep until FUTEX_WAKE. In
BlockingQueue nothing is assumed of who gets the RwLock first (the standard library
promises no order), so waiting for the read lock is not counted as part of a call,
and a write lock that is free is taken in the end. An iterator is asked for the next item again as long as it does not answer None; after
None nothing is asked of its user, who may ask again (the model lets them) or stop, so
ItemsArrive and MessagesRead only promise something while somebody iterates
(`Stopped`). A stream need not be polled again. The
consumers of `shift_spsc` call pop again and again, as `ShiftQueue::pop` does; strong fairness of TryPop in
ShiftQueue is needed as is_empty calls may come in between.

## Proofs

The theorems about `RawMutex` hold for any sets of threads and mutexes, any spin limit,
and threads that hold any number of mutexes:

* `RawMutexProofs`: `TypeCorrect`, `ParkedBitCorrect`, `WakeupCorrect` (TypeOK,
  ParkedBitCoversQueue and NoLostWakeup), under AnySpec (all calls, all uses of guards);
* `RawMutexOwnerProofs`: `ExclusionCorrect`, `LockedCorrect` (MutualExclusion and
  LockedHasOwner) and `RefinementCorrect` (Spec implements MutexSpec), under Spec (they
  are false with try_lock or map; LockedHasOwner is proved only, no run checks it);
* `RawMutexResourceProofs`: `ResourcesCorrect` (ResourcesMatch), under AnySpec, and
  `ResourcesOfLockers`: under Spec the Vecs are exact for every mutex.

The assumptions are those of RawMutex: NoThread is not a thread, SpinLimit is a
natural; nothing is assumed of MaxHeld. Memory is sequentially consistent.

The argument has three inductive invariants. `LotInv` is about the parking lot:
types; no thread is queued twice, and who is queued sleeps with its futex word
set (`QueueInv`); the thread inside the bucket is the one that holds its lock, and
whom it is about to wake is asleep and off the queue (`BucketInv`). Without the
last two a thread could be dequeued twice, or its bit cleared by somebody who does
not hold the bucket. Most steps stay beside the lot (`Aside`: they touch neither the
bucket nor the queue) and are handled together by `AsideStep`; each step that
takes, uses or releases the bucket has a lemma of its own, brought together in
`LotStep`. `OwnerInv` adds that the lock bit is set exactly while
somebody owns the mutex, where a sleeper that was handed the mutex counts as owner
before it runs, and `HeldInv` that nobody has a mutex twice, or still has one that it is
giving back. Every step is then one of five kinds: ownership is kept, asked for,
gained, lost or passed on (`OwnerStep`); each kind preserves both and is a step
of MutexSpec or a stutter (`OwnerChange`, `OwnerRefines`). The bookkeeping needs no
ownership, and so holds with try_lock as well: given the types, ResourcesMatch is
inductive by itself. A push adds one occurrence of its key and no other (`PushCounts`);
rposition and swap_remove take away one occurrence of the key and, although they move
the last entry, none of another key (`SwapRemoveCounts`); and a step that changes a count
without the guard, or the other way round, puts the mutex in `strayed`
(`ResourcesCount`, `ResourcesStep`).

`WordLockProofs` proves, for any number of threads: `QueueHasOneOwner` (QueueOwned)
and `WordLockIsMutex` (Spec implements MutexSpec). The inductive invariant BitInv is
that each of the two bits is set exactly while one thread is at a place that owns
it, and that the queue is not empty while it is locked; the last is what makes the
word RemoveOnly stores right. Steps are grouped by which bit they touch. For the refinement each step either keeps
the sets of owners and of waiting threads (`SamePhase`, `SameSets`) or moves one thread
(`MovePhase`).

`ParkingLotProofs` proves, for any finite set of threads and any keys, hash and load
factor: `BucketsExclude` (SectionsExclude) and `TableFits` (TableFitsThreads). IInv
has four parts: the shape of a thread's locals at each label (`Shapes`); NUM_THREADS
is the number of threads with a ThreadData (`Counted`), which bounds what a growth
can want; a thread's share of the locks, bucket by bucket while it loops over the
table (`LocksHeld`); and `Fits`: the table fits, or a thread that wants at least as
much is on its way to grow it. A thread that saw a small count may publish after one
that saw a larger one has begun, so the last part has to name the thread. The
assumption TableAssumption states what the prover cannot derive about powers of two:
they are positive, there is one for all threads, and a hash is a bucket of its table;
TLC evaluates it for the instance.

`CoQueueProofs` proves, for any threads, chunks and items and any lap of two or more
positions, `ClaimsCorrect` (ClaimsAreExclusive). The arithmetic comes first: with a
symbolic LAP, that a position is so many laps and an offset in one way only, and so
that the next position has one more slot before it unless this one is the last of
its lap (`SlotsStep`). IInv then says: the tail counts the claims; a push that passed
the check of its offset holds an index with a slot; who claimed the last slot of a
chunk is the only one that moves the tail, and until it did the index there has no
slot, so nobody can claim meanwhile; the same for the head, where the places of the
pops are also all before it. Without the part on who moves an index, a second claim
could come between the two stores of `NextChunk` and `NextIndex`. Four steps move an
index (`Claim`, `NextIndex`, `Take`, `HeadIndex`) and have lemmas of their own; all
others keep or give up what they own (`KeepStep`, `FreeStep`). The assumptions: a lap
has at least two positions, and who calls len() is one of the threads. That HAS_NEXT
is right and that the head stays behind the tail depend on which chunk belongs to
which lap, with addresses used again, and are not part of this proof.

Only model-checked: liveness (fairness is out of the prover's reach); the queue of
WordLock (MemorySafe, NoneLostNorWokenTwice) and the lists of ParkingLot
(ListsAreSound, FlagIsExact, ImplementsParkSpec), whose proofs would need induction
over the linked lists; the memory and the contents of CoQueue; and all of ShiftQueue
and BlockingQueue.

## Not modelled

* Weak memory. `lock_slow` acquires with Relaxed where lock() uses Acquire
  (raw_mutex.rs:79); the models cannot tell these apart.
* The clock and the random numbers of FairTimeout: be_fair is a free choice.
  on_unpark's branch is never taken: nothing sets `deadlocked`.
* The waker. `poll_next` returns Pending without keeping it (stream.rs:104), and the
  one of waker.rs does nothing, so no step of the code ever wakes a task; there is
  nothing to model but the polls.
* Two iterators on one BlockingQueue: its `recv` is a std Receiver, which may not be
  shared between threads, so what two of them do with it is not defined.
* Tag bits, alignment and pointer conversions of own_ref.rs: the queue uses no tags,
  and what remains, who drops a node, is in ShiftQueue. Backoff only delays,
  CachePad is layout; the code in tests and logging is left out.
