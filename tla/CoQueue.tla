------------------------------ MODULE CoQueue ------------------------------
(***************************************************************************)
(* CoQueue (src/lockless_queue.rs): a queue of chunks of slots for any     *)
(* number of producers and consumers.  A push claims a position by moving  *)
(* the tail index, then writes its slot; a pop claims one by moving the    *)
(* head index, then waits for the slot.  Who claims the last slot of a     *)
(* chunk moves the segment to the next one.  A step is one access of       *)
(* shared memory.                                                          *)
(***************************************************************************)
EXTENDS Integers, Sequences, FiniteSets

CONSTANTS Producers, Consumers,
          Chunks,    \* addresses for chunks: the bound on the heap
          Null,
          LAP,       \* positions per chunk (32 in the code)
          MaxPush,   \* bound: items a producer pushes
          None,      \* pop() returned Err(())
          Observers  \* the threads that call len()

ASSUME ChunkAssumption == Null \notin Chunks
ASSUME LapAssumption == LAP \in Nat /\ LAP >= 2

Threads == Producers \cup Consumers
ASSUME ObserverAssumption == Observers \subseteq Threads
Items == Producers \X (1..MaxPush)

VARIABLES
  live,        \* the chunks that are allocated
  next,        \* Chunk::next
  value, bits, \* Slot::value and the bits set in Slot::state
  head, tail,  \* the two Segments: index and chunk
  pc, loc,     \* where each thread is, and its locals
  pushed,      \* pushed[p]: how many items p has pushed or is pushing
  ret,         \* ret[c]: what the last pop() of c read
  claimed      \* history: the items in the order of their claims

mem == <<live, next, value, bits>>
vars == <<mem, head, tail, pc, loc, pushed, ret, claimed>>

CHUNK_CAP == LAP - 1
Offsets == 0..CHUNK_CAP - 1
WRITE == "WRITE"
READ == "READ"
DESTROY == "DESTROY"

\* An index is a position, shifted by one for the HAS_NEXT bit.  The last
\* position of a lap has no slot: an index there means "wait for the next chunk".
Pos(index) == index \div 2
Offset(index) == Pos(index) % LAP
Lap(index) == Pos(index) \div LAP
HAS_NEXT(index) == index % 2

Blank == [index |-> 0, chunk |-> Null, next |-> Null, new |-> 0, i |-> 0]

Init == /\ live = {}
        /\ next = [a \in Chunks |-> Null]
        /\ value = [a \in Chunks |-> [o \in Offsets |-> None]]
        /\ bits = [a \in Chunks |-> [o \in Offsets |-> {}]]
        /\ head = [index |-> 0, chunk |-> Null]
        /\ tail = [index |-> 0, chunk |-> Null]
        /\ pc = [t \in Threads |-> "idle"]
        /\ loc = [t \in Threads |-> Blank]
        /\ pushed = [p \in Producers |-> 0]
        /\ ret = [c \in Consumers |-> None]
        /\ claimed = <<>>

At(t, label) == pc[t] = label
Goto(t, label) == pc' = [pc EXCEPT ![t] = label]

\* A step that only changes the thread's locals.
Local(t, label, locals) == /\ Goto(t, label)
                           /\ loc' = [loc EXCEPT ![t] = locals]
                           /\ UNCHANGED <<mem, head, tail, pushed, ret, claimed>>

Return(t) == Goto(t, "idle") /\ loc' = [loc EXCEPT ![t] = Blank]

\* The loop starts over: only push's next_chunk is kept.
Again(t, label) == Local(t, label, [Blank EXCEPT !.next = loc[t].next])

offset(t) == Offset(loc[t].index)
IsLast(t) == offset(t) + 1 = CHUNK_CAP
slotBits(t) == bits[loc[t].chunk][offset(t)]

\* Box::new(Chunk::new()) at a, while the chunks in freed are dropped.
NewChunk(a, freed) ==
  /\ live' = (live \ freed) \cup {a}
  /\ next' = [next EXCEPT ![a] = Null]
  /\ value' = [value EXCEPT ![a] = [o \in Offsets |-> None]]
  /\ bits' = [bits EXCEPT ![a] = [o \in Offsets |-> {}]]

-----------------------------------------------------------------------------
(* push *)

Push(p) == /\ At(p, "idle")
           /\ pushed[p] < MaxPush
           /\ pushed' = [pushed EXCEPT ![p] = @ + 1]
           /\ Goto(p, "push_index")
           /\ UNCHANGED <<mem, head, tail, loc, ret, claimed>>

PushIndex(p) == /\ At(p, "push_index")
                /\ Local(p, "push_chunk", [loc[p] EXCEPT !.index = tail.index])

PushChunk(p) == /\ At(p, "push_chunk")
                /\ Local(p, "push", [loc[p] EXCEPT !.chunk = tail.chunk])

\* The chunk is full, and whoever filled it has not moved the tail yet.
PushFull(p) == /\ At(p, "push")
               /\ offset(p) = CHUNK_CAP
               /\ Again(p, "push_index")

\* For the last slot, have the next chunk ready before the claim.
PushReady(p) == /\ At(p, "push")
                /\ offset(p) # CHUNK_CAP
                /\ IF IsLast(p) /\ loc[p].next = Null
                     THEN \E a \in Chunks \ live :
                            /\ NewChunk(a, {})
                            /\ loc' = [loc EXCEPT ![p].next = a]
                     ELSE UNCHANGED <<mem, loc>>
                /\ Goto(p, IF loc[p].chunk = Null THEN "install" ELSE "claim")
                /\ UNCHANGED <<head, tail, pushed, ret, claimed>>

\* The first chunk: compare_and_swap(null, new), or keep new as next_chunk.
Install(p) == /\ At(p, "install")
              /\ \E a \in Chunks \ live :
                   IF tail.chunk = Null
                     THEN /\ NewChunk(a, {})
                          /\ tail' = [tail EXCEPT !.chunk = a]
                          /\ loc' = [loc EXCEPT ![p].chunk = a]
                          /\ Goto(p, "install_head")
                     ELSE /\ NewChunk(a, {loc[p].next})
                          /\ loc' = [loc EXCEPT ![p] = [Blank EXCEPT !.next = a]]
                          /\ Goto(p, "push_index")
                          /\ UNCHANGED tail
              /\ UNCHANGED <<head, pushed, ret, claimed>>

\* fault: the head does not get the chunk
InstallNoHead(p) == /\ At(p, "install_head")
                    /\ Local(p, "claim", loc[p])

InstallHead(p) == /\ At(p, "install_head")
                  /\ head' = [head EXCEPT !.chunk = loc[p].chunk]
                  /\ Goto(p, "claim")
                  /\ UNCHANGED <<mem, tail, loc, pushed, ret, claimed>>

\* Move the tail index forward.
Claim(p) == /\ At(p, "claim")
            /\ tail.index = loc[p].index
            /\ tail' = [tail EXCEPT !.index = @ + 2]
            /\ claimed' = Append(claimed, <<p, pushed[p]>>)
            /\ Goto(p, IF IsLast(p) THEN "next_chunk" ELSE "write")
            /\ UNCHANGED <<mem, head, loc, pushed, ret>>

\* compare_exchange_weak fails, because the tail moved or spuriously.
ClaimFails(p) == /\ At(p, "claim")
                 /\ Local(p, "push_chunk", [loc[p] EXCEPT !.index = tail.index,
                                                          !.chunk = Null])

\* fault: the chunks are not linked
NextNoLink(p) == /\ At(p, "next_link")
                 /\ Local(p, "write", [loc[p] EXCEPT !.next = Null])

\* The last slot is claimed: publish the next chunk, let the others go on,
\* link the chunks.
NextChunk(p) == /\ At(p, "next_chunk")
                /\ tail' = [tail EXCEPT !.chunk = loc[p].next]
                /\ Goto(p, "next_index")
                /\ UNCHANGED <<mem, head, loc, pushed, ret, claimed>>
NextIndex(p) == /\ At(p, "next_index")
                /\ tail' = [tail EXCEPT !.index = loc[p].index + 4]
                /\ Goto(p, "next_link")
                /\ UNCHANGED <<mem, head, loc, pushed, ret, claimed>>
NextLink(p) == /\ At(p, "next_link")
               /\ next' = [next EXCEPT ![loc[p].chunk] = loc[p].next]
               /\ loc' = [loc EXCEPT ![p].next = Null]
               /\ Goto(p, "write")
               /\ UNCHANGED <<live, value, bits, head, tail, pushed, ret, claimed>>

Write(p) == /\ At(p, "write")
            /\ value' = [value EXCEPT ![loc[p].chunk][offset(p)] = <<p, pushed[p]>>]
            /\ Goto(p, "mark")
            /\ UNCHANGED <<live, next, bits, head, tail, loc, pushed, ret, claimed>>

\* Set WRITE and return; a next_chunk that was not needed is dropped.
Mark(p) == /\ At(p, "mark")
           /\ bits' = [bits EXCEPT ![loc[p].chunk][offset(p)] = @ \cup {WRITE}]
           /\ live' = live \ {loc[p].next}
           /\ Return(p)
           /\ UNCHANGED <<next, value, head, tail, pushed, ret, claimed>>

-----------------------------------------------------------------------------
(* pop *)

TryPop(c) == /\ At(c, "idle")
             /\ Local(c, "pop_index", loc[c])

PopIndex(c) == /\ At(c, "pop_index")
               /\ Local(c, "pop_chunk", [loc[c] EXCEPT !.index = head.index])

PopChunk(c) == /\ At(c, "pop_chunk")
               /\ Local(c, "pop", [loc[c] EXCEPT !.chunk = head.chunk])

\* The last slot was claimed, and who claimed it has not moved the head yet.
PopFull(c) == /\ At(c, "pop")
              /\ offset(c) = CHUNK_CAP
              /\ Again(c, "pop_index")

\* Without HAS_NEXT the tail decides: nothing to pop, or go on.
SeesEmpty(c) == HAS_NEXT(loc[c].index) = 0 /\ Pos(loc[c].index) = Pos(tail.index)

PopEmpty(c) == /\ At(c, "pop")
               /\ offset(c) # CHUNK_CAP
               /\ SeesEmpty(c)
               /\ ret' = [ret EXCEPT ![c] = None]
               /\ Return(c)
               /\ UNCHANGED <<mem, head, tail, pushed, claimed>>

\* new_head gets HAS_NEXT if the tail is in another chunk; try again if the
\* first chunk is not there yet.
PopReady(c) == /\ At(c, "pop")
               /\ offset(c) # CHUNK_CAP
               /\ ~SeesEmpty(c)
               /\ IF loc[c].chunk = Null
                    THEN Again(c, "pop_index")
                    ELSE Local(c, "take", [loc[c] EXCEPT !.new = loc[c].index + 2 +
                       IF HAS_NEXT(loc[c].index) = 0 /\ Lap(loc[c].index) # Lap(tail.index)
                         THEN 1 ELSE 0])

\* fault: the head is stored, not compared and exchanged
TakeBlind(c) == /\ At(c, "take")
                /\ head' = [head EXCEPT !.index = loc[c].new]
                /\ Goto(c, IF IsLast(c) THEN "wait_next" ELSE "wait_write")
                /\ loc' = [loc EXCEPT ![c].new = IF IsLast(c) THEN @ ELSE 0]
                /\ UNCHANGED <<mem, tail, pushed, ret, claimed>>

\* Move the head index forward.
Take(c) == /\ At(c, "take")
           /\ head.index = loc[c].index
           /\ head' = [head EXCEPT !.index = loc[c].new]
           /\ Goto(c, IF IsLast(c) THEN "wait_next" ELSE "wait_write")
           /\ loc' = [loc EXCEPT ![c].new = IF IsLast(c) THEN @ ELSE 0]
           /\ UNCHANGED <<mem, tail, pushed, ret, claimed>>

TakeFails(c) == /\ At(c, "take")
                /\ Local(c, "pop_chunk", [Blank EXCEPT !.index = head.index])

\* The last slot is claimed: wait until the chunks are linked, look whether the
\* next chunk has a next one too, move the head.
WaitNext(c) == /\ At(c, "wait_next")
               /\ next[loc[c].chunk] # Null
               /\ Local(c, "peek", [loc[c] EXCEPT !.next = next[loc[c].chunk]])

\* fault: HAS_NEXT is always set
PeekAlways(c) == /\ At(c, "peek")
                 /\ Local(c, "head_chunk", [loc[c] EXCEPT !.new = @ - HAS_NEXT(@) + 3])

Peek(c) == /\ At(c, "peek")
           /\ Local(c, "head_chunk", [loc[c] EXCEPT !.new =
                @ - HAS_NEXT(@) + 2 + IF next[loc[c].next] # Null THEN 1 ELSE 0])
HeadChunk(c) == /\ At(c, "head_chunk")
                /\ head' = [head EXCEPT !.chunk = loc[c].next]
                /\ Goto(c, "head_index")
                /\ UNCHANGED <<mem, tail, loc, pushed, ret, claimed>>
HeadIndex(c) == /\ At(c, "head_index")
                /\ head' = [head EXCEPT !.index = loc[c].new]
                /\ Goto(c, "wait_write")
                /\ loc' = [loc EXCEPT ![c].new = 0, ![c].next = Null]
                /\ UNCHANGED <<mem, tail, pushed, ret, claimed>>

\* fault: the slot is read whether it is written or not
WaitNot(c) == /\ At(c, "wait_write")
              /\ ret' = [ret EXCEPT ![c] = value[loc[c].chunk][offset(c)]]
              /\ Goto(c, "done")
              /\ UNCHANGED <<mem, head, tail, loc, pushed, claimed>>

\* Slot::wait_write, then the read; the value does not change any more.
WaitWrite(c) == /\ At(c, "wait_write")
                /\ WRITE \in slotBits(c)
                /\ ret' = [ret EXCEPT ![c] = value[loc[c].chunk][offset(c)]]
                /\ Goto(c, "done")
                /\ UNCHANGED <<mem, head, tail, loc, pushed, claimed>>

\* Chunk::destroy(chunk, start)
DestroyFrom(c, start) == /\ loc' = [loc EXCEPT ![c].i = start]
                         /\ Goto(c, "destroy")

\* Destroy the chunk after its last slot, or if a thread that wanted to
\* destroy it left that to us.
Done(c) == /\ At(c, "done")
           /\ IF IsLast(c)
                THEN DestroyFrom(c, 0) /\ UNCHANGED bits
                ELSE /\ bits' = [bits EXCEPT ![loc[c].chunk][offset(c)] = @ \cup {READ}]
                     /\ IF DESTROY \in slotBits(c)
                          THEN DestroyFrom(c, offset(c) + 1)
                          ELSE Return(c)
           /\ UNCHANGED <<live, next, value, head, tail, pushed, ret, claimed>>

\* fault: the slots are not asked
DestroyAtOnce(c) == /\ At(c, "destroy")
                    /\ live' = live \ {loc[c].chunk}
                    /\ Return(c)
                    /\ UNCHANGED <<next, value, bits, head, tail, pushed, ret, claimed>>

\* Past the last slot the chunk is freed; a slot that is READ is skipped.
Destroy(c) == /\ At(c, "destroy")
              /\ IF loc[c].i = CHUNK_CAP
                   THEN live' = live \ {loc[c].chunk} /\ Return(c)
                   ELSE /\ IF READ \in bits[loc[c].chunk][loc[c].i]
                             THEN DestroyFrom(c, loc[c].i + 1)
                             ELSE Goto(c, "destroy_or") /\ UNCHANGED loc
                        /\ UNCHANGED live
              /\ UNCHANGED <<next, value, bits, head, tail, pushed, ret, claimed>>

\* fetch_or(DESTROY): the slot is in use, so its reader goes on, or it was
\* read in the meantime.
DestroyOr(c) == LET old == bits[loc[c].chunk][loc[c].i] IN
                /\ At(c, "destroy_or")
                /\ bits' = [bits EXCEPT ![loc[c].chunk][loc[c].i] = @ \cup {DESTROY}]
                /\ IF READ \in old THEN DestroyFrom(c, loc[c].i + 1) ELSE Return(c)
                /\ UNCHANGED <<live, next, value, head, tail, pushed, ret, claimed>>

-----------------------------------------------------------------------------
(* is_empty, len and drop *)

is_empty(h, t) == Pos(h) = Pos(t)

\* The arithmetic of len() on a tail and a head index: both relative to the
\* lap of the head, fixed up at the ends of chunks, less one per chunk between.
\* `tail -= LAP` is where the unsigned subtraction can fail.
LenHead(h) == Offset(h)
LenTail(h, t) == Pos(t) - Lap(h) * LAP
LenUnderflows(h, t) == LenHead(h) = CHUNK_CAP /\ LenTail(h, t) < LAP

len_without_laps(h, t) == LenTail(h, t) - LenHead(h)    \* fault
len(h, t) ==
  LET atEnd == LenHead(h) = CHUNK_CAP
      hh == IF atEnd THEN 0 ELSE LenHead(h)
      unwrapped == IF atEnd THEN LenTail(h, t) - LAP ELSE LenTail(h, t)
      last == IF unwrapped = CHUNK_CAP THEN unwrapped + 1 ELSE unwrapped
  IN last - hh - last \div LAP

\* len() reads the tail, the head, and the tail again: if that did not move it
\* computes the length and returns, otherwise it starts over.
CallLen(c) == /\ At(c, "idle")
              /\ Local(c, "len_tail", loc[c])
LenLoadTail(c) == /\ At(c, "len_tail")
                  /\ Local(c, "len_head", [loc[c] EXCEPT !.index = tail.index])
LenLoadHead(c) == /\ At(c, "len_head")
                  /\ Local(c, "len_check", [loc[c] EXCEPT !.new = head.index])
ConsistentAtOnce(c) == At(c, "len_check")    \* fault
Consistent(c) == At(c, "len_check") /\ tail.index = loc[c].index
LenReturns(c) == /\ Consistent(c)
                 /\ Local(c, "idle", Blank)

\* A debug build checks `tail -= LAP`; in a release build it wraps around, and
\* len() returns a number that counts nothing.
LenPanics(c) == /\ Consistent(c)
                /\ LenUnderflows(loc[c].new, loc[c].index)
                /\ Local(c, "panic", Blank)
LenAgain(c) == /\ At(c, "len_check")
               /\ ~Consistent(c)
               /\ Local(c, "len_tail", Blank)

\* The chunks from the head on.
Walk == LET w[j \in 0..Cardinality(Chunks)] ==
              IF j = 0 THEN head.chunk
              ELSE IF w[j - 1] = Null THEN Null ELSE next[w[j - 1]]
        IN w
Laps == Lap(tail.index) - Lap(head.index)

Quiet == \A t \in Threads : pc[t] \in {"idle", "panic"}

\* Drop: nobody else has the queue.  The values between the indices are dropped,
\* and every chunk from the head's to the tail's.
DropQueue == /\ Quiet
             /\ live' = live \ {Walk[j] : j \in 0..Laps}
             /\ pc' = [t \in Threads |-> "gone"]
             /\ UNCHANGED <<next, value, bits, head, tail, loc, pushed, ret, claimed>>

-----------------------------------------------------------------------------
(* Specification *)

PushStep(p) == \/ PushIndex(p) \/ PushChunk(p) \/ PushFull(p) \/ PushReady(p)
               \/ Install(p) \/ InstallHead(p) \/ Claim(p) \/ ClaimFails(p)
               \/ NextChunk(p) \/ NextIndex(p) \/ NextLink(p) \/ Write(p) \/ Mark(p)

PopStep(c) == \/ PopIndex(c) \/ PopChunk(c) \/ PopFull(c) \/ PopEmpty(c)
              \/ PopReady(c) \/ Take(c) \/ TakeFails(c) \/ WaitNext(c) \/ Peek(c)
              \/ HeadChunk(c) \/ HeadIndex(c) \/ WaitWrite(c) \/ Done(c)
              \/ Destroy(c) \/ DestroyOr(c)

LenStep(c) == \/ LenLoadTail(c) \/ LenLoadHead(c)
              \/ LenReturns(c) \/ LenPanics(c) \/ LenAgain(c)

Next == \/ \E p \in Producers : Push(p) \/ PushStep(p)
        \/ \E c \in Consumers : TryPop(c) \/ PopStep(c)
        \/ \E c \in Observers : CallLen(c) \/ LenStep(c)
        \/ DropQueue

Spec == Init /\ [][Next]_vars

-----------------------------------------------------------------------------
(* Properties *)

\* How many slots there are before a position.
Slots(index) == Pos(index) - Lap(index)
Total == Cardinality(Items)
Index == 0..2 * (Total + Total \div CHUNK_CAP) + 1
Segment == [index : Index, chunk : Chunks \cup {Null}]

\* Every variable has its type; the indices stay within the positions that so
\* many pushes need, one per item and one per chunk.
TypeOK == /\ live \subseteq Chunks
          /\ next \in [Chunks -> Chunks \cup {Null}]
          /\ value \in [Chunks -> [Offsets -> Items \cup {None}]]
          /\ bits \in [Chunks -> [Offsets -> SUBSET {WRITE, READ, DESTROY}]]
          /\ head \in Segment /\ tail \in Segment
          /\ DOMAIN pc = Threads
          /\ loc \in [Threads -> [index : Index, chunk : Chunks \cup {Null},
                                  next : Chunks \cup {Null}, new : Nat, i : 0..CHUNK_CAP]]
          /\ pushed \in [Producers -> 0..MaxPush]
          /\ ret \in [Consumers -> Items \cup {None}]
          /\ Len(claimed) <= Total

\* The chunks a thread's next step reads or writes.
Touches(t) ==
  CASE pc[t] \in {"next_link", "write", "mark", "wait_next", "wait_write", "done",
                  "destroy", "destroy_or"} -> {loc[t].chunk}
    [] pc[t] = "peek" -> {loc[t].next}
    [] OTHER -> {}

\* No thread reads or writes a chunk that was freed: neither the chunk of a slot
\* it claimed long ago, nor a next_chunk another thread did not need.
MemorySafe == \A t \in Threads : Touches(t) \subseteq live

\* HAS_NEXT in the head index is never wrong: pop() trusts it and does not look
\* at the tail, so there must be an item left in the chunk, or a next chunk.
HasNextIsRight == HAS_NEXT(head.index) = 1 => Lap(head.index) < Lap(tail.index)

\* The calls that have claimed a slot and not yet finished with it.
PushOwns == {"next_chunk", "next_index", "next_link", "write", "mark"}
PopOwns == {"wait_next", "peek", "head_chunk", "head_index", "wait_write", "done"}

\* However many calls race for an index, each slot goes to one push and to one
\* pop: the tail counts the claims, a push writes at the place its own claim has
\* in their order, and no two pops read at the same place.
ClaimsAreExclusive ==
  /\ Len(claimed) = Slots(tail.index)
  /\ \A p \in Producers : pc[p] \in PushOwns =>
       claimed[Slots(loc[p].index) + 1] = <<p, pushed[p]>>
  /\ \A c, d \in Consumers :
       c # d /\ pc[c] \in PopOwns /\ pc[d] \in PopOwns =>
         Slots(loc[c].index) # Slots(loc[d].index)

fifo == SubSeq(claimed, Slots(head.index) + 1, Len(claimed))

\* When no call is running, the two indices alone tell is_empty() and len() what
\* is in the queue, across any number of chunks.
IndicesCountItems == Quiet => /\ is_empty(head.index, tail.index) <=> fifo = <<>>
                              /\ ~LenUnderflows(head.index, tail.index)
                              /\ len(head.index, tail.index) = Len(fifo)

\* len() on head index h and tail index t counts what was in the queue when it
\* read the head.
Counts(h, t) == ~LenUnderflows(h, t) /\ len(h, t) = Len(claimed) - Slots(h)

\* "If the tail index didn't change, we've got consistent indices to work with"
\* and "Return the difference minus the number of blocks between tail and head":
\* a len() that saw the tail twice counts what was in the queue.
LenIsSnapshot == \A c \in Observers : Consistent(c) => Counts(loc[c].new, loc[c].index)

\* It does, however many pushes and pops ran meanwhile, in all cases but one:
\* `tail -= LAP` fails only if the head and the tail are both past the last slot
\* of the same chunk: the push of that slot has not moved the tail to the next
\* chunk yet, and its pop waits for that chunk.
LenFailsOnlyAtChunkEnd == \A c \in Observers : Consistent(c) =>
  \/ Counts(loc[c].new, loc[c].index)
  \/ /\ Pos(loc[c].new) = Pos(loc[c].index)
     /\ Offset(loc[c].new) = CHUNK_CAP
     /\ \E p \in Producers : pc[p] \in {"next_chunk", "next_index"}
     /\ \E d \in Consumers : pc[d] = "wait_next"

\* When no call is running, what Drop walks over is there: each chunk up to the
\* tail's is linked and allocated, and each slot between the indices holds the
\* value that is due, written and not taken.
DropIsSafe == Quiet =>
  /\ tail.chunk = Walk[Laps]
  /\ \A j \in 0..Laps : Walk[j] \in live \/ head.chunk = Null
  /\ \A i \in Pos(head.index)..Pos(tail.index) - 1 : i % LAP # CHUNK_CAP =>
       LET a == Walk[i \div LAP - Lap(head.index)]
       IN /\ WRITE \in bits[a][i % LAP] /\ READ \notin bits[a][i % LAP]
          /\ value[a][i % LAP] = claimed[Slots(2 * i) + 1]

\* "Destroy the chunk if we've reached the end, or if another thread wanted to
\* destroy": when no call is running, only the chunks from the head on are left.
NoLeak == Quiet => live \subseteq {Walk[j] : j \in 0..Laps}

result == [c \in Consumers |->
             IF pc[c] \in {"wait_next", "peek", "head_chunk", "head_index", "wait_write"}
               THEN claimed[Slots(loc[c].index) + 1] ELSE ret[c]]

\* The chunks are a FIFO queue for many producers and consumers: a push takes
\* effect when it claims its position, a pop when it claims one, and the value
\* read much later is the one that was claimed.
Fifo == INSTANCE FifoQueue WITH fifo <- fifo, result <- result
ImplementsFifo == Fifo!Spec
=============================================================================
