--------------------------- MODULE BlockingQueue ---------------------------
(***************************************************************************)
(* The two ways to consume a CoQueue as an iterator, on top of the steps   *)
(* of the queue itself.  BlockingQueue (src/blocking_col.rs) shares it     *)
(* behind a RwLock: push, pop and len read-lock it, BlockingIter::next     *)
(* write-locks it for each poll.  CoQueIntoIter and Stream (src/stream.rs) *)
(* borrow it exclusively.  Both stop on a message sent to the queue.       *)
(***************************************************************************)
EXTENDS CoQueue

CONSTANTS Iterators,   \* the consumers that iterate
          NoThread,
          PokeLimit,   \* empty polls before next() returns Poke (20 in the code)
          MaxCalls,    \* bound: calls of pop() and len() per thread
          MaxSend      \* bound: messages sent

ASSUME IteratorAssumption == /\ Iterators \subseteq Consumers
                             /\ Observers \subseteq Consumers
                             /\ NoThread \notin Threads
                             /\ PokeLimit \in Nat

VARIABLES
  owned,            \* a CoQueue borrowed by its iterator, or a BlockingQueue
  readers, writer,  \* the RwLock; for an owned queue, the borrows of it
  sent, received,   \* the channel: all messages, and how many were received
  at,               \* where each thread is in a call of this module
  wake_count,       \* the local of next()
  calls,
  over,             \* the iterators whose last next() or poll_next() was None
  ended             \* history: how many next() and poll_next() returned None

lock == <<readers, writer>>
channel == <<sent, received>>
answers == <<over, ended>>
outer == <<owned, lock, channel, at, wake_count, calls, answers>>
allVars == <<vars, outer>>

\* QueueState: Spin and Yield are received and ignored.
Messages == {"Terminate", "Error", "Spin"}

SharedInit == /\ Init
              /\ owned \in BOOLEAN
              /\ readers = {} /\ writer = NoThread
              /\ sent = <<>> /\ received = 0
              /\ at = [t \in Threads |-> "out"]
              /\ wake_count = [c \in Iterators |-> 0]
              /\ calls = [t \in Threads |-> 0]
              /\ over = {} /\ ended = 0

Moves(t, label) == at' = [at EXCEPT ![t] = label]
Released(c) == IF writer = c THEN NoThread ELSE writer

\* send() on a clone of the Sender.
Send(m) == /\ Len(sent) < MaxSend
           /\ sent' = Append(sent, m)
           /\ UNCHANGED <<vars, owned, lock, received, at, wake_count, calls, answers>>

\* try_recv()
Message == IF received < Len(sent) THEN sent[received + 1] ELSE "Empty"
Receives == /\ received' = received + IF Message = "Empty" THEN 0 ELSE 1
            /\ UNCHANGED sent

-----------------------------------------------------------------------------
(* push, pop and len *)

\* self.que.read().unwrap(), and the call on the queue starts.
ReadLock(t) == /\ at[t] = "out"
               /\ writer = NoThread
               /\ readers' = readers \cup {t}
               /\ Moves(t, "reading")
               /\ UNCHANGED <<owned, writer, channel, wake_count, answers>>

CountCall(t) == /\ calls[t] < MaxCalls
                /\ calls' = [calls EXCEPT ![t] = @ + 1]

SharedPush(p) == ReadLock(p) /\ Push(p) /\ UNCHANGED calls
SharedPop(c) == ReadLock(c) /\ TryPop(c) /\ CountCall(c)
SharedLen(c) == ReadLock(c) /\ CallLen(c) /\ CountCall(c)

\* The call on the queue goes on; the read guard is dropped when it returns, and
\* when len() panics, which does not poison the lock.
ReadStep(t) == /\ at[t] = "reading"
               /\ \/ t \in Producers /\ PushStep(t)
                  \/ t \in Consumers /\ PopStep(t)
                  \/ t \in Observers /\ LenStep(t)
               /\ IF pc'[t] \in {"idle", "panic"}
                    THEN /\ readers' = readers \ {t}
                         /\ Moves(t, IF pc'[t] = "idle" THEN "out" ELSE "panicked")
                    ELSE UNCHANGED <<readers, at>>
               /\ UNCHANGED <<owned, writer, channel, wake_count, calls, answers>>

-----------------------------------------------------------------------------
(* next and poll_next *)

\* into_iter() and poll_next() take &mut self: nobody else uses the queue until
\* the iterator is dropped.  BlockingQueue::iter() takes &self.
Borrow(c) == /\ c \in Iterators
             /\ pc[c] = "idle"
             /\ \/ at[c] = "out" /\ (owned => readers = {} /\ writer = NoThread)
                \/ at[c] = "held"
             /\ writer' = IF owned THEN c ELSE writer
             /\ over' = over \ {c}
             /\ UNCHANGED <<vars, owned, readers, channel, wake_count, calls, ended>>

NextCall(c) == Borrow(c) /\ Moves(c, "recv")
StreamCall(c) == owned /\ Borrow(c) /\ Moves(c, "stream")

DropIter(c) == /\ at[c] = "held"
               /\ writer' = NoThread
               /\ Moves(c, "out")
               /\ UNCHANGED <<vars, owned, readers, channel, wake_count, calls, answers>>

\* How a call ends: with something (Item, Poke or Pending), with None, or with
\* a panic; the write guard of a BlockingIter is dropped in every case.
ReturnsSome(c) == /\ writer' = IF owned THEN writer ELSE NoThread
                  /\ Moves(c, IF owned THEN "held" ELSE "out")
                  /\ wake_count' = [wake_count EXCEPT ![c] = 0]
                  /\ UNCHANGED answers
ReturnsNone(c) == /\ writer' = Released(c)
                  /\ Moves(c, "out")
                  /\ wake_count' = [wake_count EXCEPT ![c] = 0]
                  /\ over' = over \cup {c}
                  /\ ended' = ended + 1
Panics(c) == /\ writer' = Released(c)
             /\ Moves(c, "panicked")
             /\ wake_count' = [wake_count EXCEPT ![c] = 0]
             /\ UNCHANGED answers

\* The message decides; without one that ends the call, go on.
Stops(c, message) == \/ message = "Terminate" /\ ReturnsNone(c)
                     \/ message = "Error" /\ Panics(c)
GoesOn(message) == message \notin {"Terminate", "Error"}

\* fault: the receive is left to poll_next
RecvLater(c) == /\ at[c] = "recv"
                /\ Moves(c, IF owned THEN "poll" ELSE "lock")
                /\ UNCHANGED <<vars, owned, lock, channel, wake_count, calls, answers>>

Recv(c) == /\ at[c] = "recv"
           /\ Receives
           /\ \/ Stops(c, Message)
              \/ /\ GoesOn(Message)
                 /\ Moves(c, IF owned THEN "poll" ELSE "lock")
                 /\ UNCHANGED <<writer, wake_count, answers>>
           /\ UNCHANGED <<vars, owned, readers, calls>>

\* fault: a read lock
WriteLockShared(c) == /\ at[c] = "lock"
                      /\ writer = NoThread
                      /\ writer' = c
                      /\ Moves(c, "poll")
                      /\ UNCHANGED <<vars, owned, readers, channel, wake_count, calls, answers>>

\* self.0.que.write().unwrap()
WriteLock(c) == /\ at[c] = "lock"
                /\ writer = NoThread /\ readers = {}
                /\ writer' = c
                /\ Moves(c, "poll")
                /\ UNCHANGED <<vars, owned, readers, channel, wake_count, calls, answers>>

\* fault: the limit is missed
PendingForever(c) == /\ wake_count' = [wake_count EXCEPT ![c] = @ + 1]
                     /\ writer' = IF owned THEN writer ELSE NoThread
                     /\ Moves(c, "recv")
                     /\ UNCHANGED answers

\* Nothing to yield.  next() polls again, at most PokeLimit times; the guard of
\* a BlockingIter is dropped in between.
Pending(c) ==
  IF at[c] = "stream" \/ wake_count[c] = PokeLimit
    THEN ReturnsSome(c)
    ELSE /\ wake_count' = [wake_count EXCEPT ![c] = @ + 1]
         /\ writer' = IF owned THEN writer ELSE NoThread
         /\ Moves(c, "recv")
         /\ UNCHANGED answers

\* poll_next reads the queue's own channel, which for a BlockingQueue is inside
\* the lock and has no sender anybody could get; then it asks is_empty().
PollMessage == IF owned THEN Message ELSE "Empty"

PollNext(c) ==
  /\ at[c] \in {"poll", "stream"}
  /\ IF owned THEN Receives ELSE UNCHANGED channel
  /\ \/ Stops(c, PollMessage) /\ UNCHANGED vars
     \/ /\ GoesOn(PollMessage) /\ is_empty(head.index, tail.index)
        /\ Pending(c) /\ UNCHANGED vars
     \/ /\ GoesOn(PollMessage) /\ ~is_empty(head.index, tail.index)
        /\ TryPop(c) /\ Moves(c, "yield")
        /\ UNCHANGED <<writer, wake_count, answers>>
  /\ UNCHANGED <<owned, readers, calls>>

\* The pop of FutureStreamOwn::poll: its Err is QueueState::Error, a panic.
YieldStep(c) == /\ at[c] = "yield"
                /\ PopStep(c)
                /\ IF pc'[c] # "idle" THEN UNCHANGED <<writer, at, wake_count, answers>>
                   ELSE IF ret'[c] = None THEN Panics(c) ELSE ReturnsSome(c)
                /\ UNCHANGED <<owned, readers, channel, calls>>

\* The last owner drops the queue.
SharedDrop == /\ \A t \in Threads : at[t] \in {"out", "panicked"}
              /\ DropQueue
              /\ UNCHANGED outer

-----------------------------------------------------------------------------
(* Specification *)

NextStep(c) == Recv(c) \/ WriteLock(c) \/ PollNext(c) \/ YieldStep(c)

SharedNext == \/ \E m \in Messages : Send(m)
              \/ \E p \in Producers : SharedPush(p)
              \/ \E c \in Consumers : SharedPop(c)
              \/ \E c \in Observers : SharedLen(c)
              \/ \E t \in Threads : ReadStep(t)
              \/ \E c \in Iterators :
                   NextCall(c) \/ StreamCall(c) \/ DropIter(c) \/ NextStep(c)
              \/ SharedDrop

\* Threads keep running; a compare_exchange_weak that could succeed again and
\* again does so in the end; an iterator is asked for the next item again until
\* it says None, as a for loop does.  Nothing is assumed of who gets the lock
\* first, nor that a stream is polled.
FairSharedSpec ==
  /\ SharedInit /\ [][SharedNext]_allVars
  /\ \A t \in Threads : WF_allVars(ReadStep(t))
  /\ \A p \in Producers : SF_allVars(ReadStep(p) /\ Claim(p))
  /\ \A c \in Consumers : SF_allVars(ReadStep(c) /\ Take(c))
  /\ \A c \in Iterators : /\ WF_allVars(NextStep(c))
                          /\ WF_allVars(c \notin over /\ NextCall(c))
                          /\ SF_allVars(YieldStep(c) /\ Take(c))

-----------------------------------------------------------------------------
(* Properties *)

\* Every variable has its type; next() polls PokeLimit + 1 times at most.
SharedTypeOK == /\ TypeOK
                /\ owned \in BOOLEAN
                /\ readers \subseteq Threads
                /\ writer \in Iterators \cup {NoThread}
                /\ received \in 0..Len(sent)
                /\ at \in [Threads -> {"out", "reading", "recv", "lock", "poll",
                                       "stream", "yield", "held", "panicked"}]
                /\ wake_count \in [Iterators -> 0..PokeLimit]
                /\ over \subseteq Iterators
                /\ ended \in 0..MaxSend

Count(message) == Cardinality({i \in 1..received : sent[i] = message})
Panicked == {c \in Iterators : at[c] = "panicked"}
PanickedInLen == {c \in Iterators : pc[c] = "panic"}

\* next() and poll_next() read the same channel in turn, and yet each Terminate
\* ends one call and each Error panics one.  Nothing else panics but len(), which
\* has a read guard: a pop after is_empty() said no finds its item, so the RwLock
\* is never poisoned either.
MessagesHeeded == /\ ended = Count("Terminate")
                  /\ Cardinality(Panicked \ PanickedInLen) = Count("Error")

Gone == \A t \in Threads : pc[t] = "gone"

\* Nobody iterates any more: each iterator has said None, or panicked.
Stopped == Iterators \subseteq over \cup Panicked

\* No item stays in the queue: somebody claims it, unless the queue is dropped
\* or nobody iterates any more.  (Pushes are bounded, so to be empty again and
\* again is to have handed over every item.)
ItemsArrive == []<>(fifo = <<>> \/ Gone \/ Stopped)

\* Every call returns: nobody waits for ever for a slot to be written, a chunk
\* to be linked, a segment to move on or the lock to be free, and next() comes
\* back from an empty queue.
CallsReturn == \A t \in Threads : []<>(at[t] \in {"out", "held", "panicked"})

\* A message is not left in the channel while somebody iterates.
MessagesRead == []<>(received = Len(sent) \/ Gone \/ Stopped)
=============================================================================
