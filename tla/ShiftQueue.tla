----------------------------- MODULE ShiftQueue -----------------------------
(***************************************************************************)
(* ShiftQueue (src/queue/mod.rs): a linked list with a dummy head, and two *)
(* PtrGuards (shift_guard.rs), one for pushes that lost a race and one for *)
(* the nodes that were popped.  Nodes are addresses of a heap: they are    *)
(* allocated, freed and allocated again.  A step is one access of shared   *)
(* memory.  A thread whose next step is undefined, because it uses memory  *)
(* it must not use, does not take it: the behaviours of the model are      *)
(* those of the program up to its first undefined step.  A thread whose    *)
(* assertion fails ends in "panic", and the others go on.                  *)
(***************************************************************************)
EXTENDS Integers, SequencesExt

CONSTANTS Producers, Consumers,
          Nodes,      \* addresses for nodes: the bound on the heap
          Null,       \* the null pointer; in a guard, a slot nobody wrote
          NoThread,   \* nobody: a free lock
          Cap,        \* capacity of the PtrGuards (`threads`)
          MaxPush,    \* bound: items a producer pushes
          None        \* try_pop() returned None

ASSUME NullAssumption == Null \notin Nodes
ASSUME CapAssumption == Cap \in Nat

Threads == Producers \cup Consumers
Items == Producers \X (1..MaxPush)

VARIABLES
  live,       \* the addresses that are allocated
  item, next, \* item[a], next[a]: the fields of the node at a
  head, tail, \* RawQueue::head and RawQueue::tail
  push_guard, \* PtrGuards: the slots written so far, the atomic len, and
  pop_guard,  \* the thread that holds the lock
  pc, loc,    \* where each thread is, and its local pointers and lengths
  pushed,     \* pushed[p]: how many items p has pushed or is pushing
  ret         \* ret[c]: what the last try_pop() of c returned

mem == <<live, item, next>>
ends == <<head, tail>>
guards == <<push_guard, pop_guard>>
vars == <<mem, ends, guards, pc, loc, pushed, ret>>

Word == Nodes \cup {Null}

\* RawQueue::with_threads: an empty node is head and tail, two empty guards.
\* There is a word past the last slot, but it is not the guard's.
EmptyGuard == [slot |-> [i \in 0..Cap |-> Null], len |-> 0, lock |-> NoThread]

Blank == [node |-> Null, ptr |-> Null, nxt |-> Null, expected |-> Null, len |-> 0]

Init == /\ \E dummy \in Nodes : live = {dummy} /\ head = dummy
        /\ tail = head
        /\ item = [a \in Nodes |-> Null]
        /\ next = [a \in Nodes |-> Null]
        /\ push_guard = EmptyGuard
        /\ pop_guard = EmptyGuard
        /\ pc = [t \in Threads |-> "idle"]
        /\ loc = [t \in Threads |-> Blank]
        /\ pushed = [p \in Producers |-> 0]
        /\ ret = [c \in Consumers |-> None]

Goto(t, label) == pc' = [pc EXCEPT ![t] = label]

\* A step that only changes the thread's locals.
Local(t, label, locals) == /\ Goto(t, label)
                           /\ loc' = [loc EXCEPT ![t] = locals]
                           /\ UNCHANGED <<mem, ends, guards, pushed, ret>>

\* What a read of slot i of a guard may return: any word, if nobody wrote it.
SlotWord(guard, i) == IF guard.slot[i] = Null THEN Word ELSE {guard.slot[i]}

\* A call returns, or panics: the thread's locals are gone.
Leave(t, label) == Goto(t, label) /\ loc' = [loc EXCEPT ![t] = Blank]
Return(t) == Leave(t, "idle")

\* _push or _pop returns to its loop: only push's new node is kept.
Again(t, label) == /\ Goto(t, label)
                   /\ loc' = [loc EXCEPT ![t] = [Blank EXCEPT !.node = loc[t].node]]

ptr(t) == loc[t].ptr

-----------------------------------------------------------------------------
(* Memory *)

\* What {:#?} of the queue reads: push_guard, pop_guard, head and tail, in this
\* order.  The Debug of a node prints the node its next points to, and so on.
\* The Debug of PtrGuard copies each slot below len into an Owned and drops the
\* copies, so the nodes of one guard are freed before the next field is printed.
Slots(guard) == [i \in 1..guard.len |-> guard.slot[i - 1]]
Guarded == Slots(push_guard) \o Slots(pop_guard)
DumpFrees == ToSet(Guarded)

\* S and all that is reached from it by next.
Follow(S) == LET f[i \in 0..Cardinality(Nodes)] ==
                   IF i = 0 THEN S
                   ELSE f[i - 1] \cup ({next[a] : a \in f[i - 1] \ {Null}} \ {Null})
             IN f[Cardinality(Nodes)]

DumpIsSafe == /\ Follow(ToSet(Slots(push_guard))) \subseteq live
              /\ Follow(ToSet(Slots(pop_guard))) \subseteq live \ ToSet(Slots(push_guard))
              /\ Follow({head, tail}) \subseteq live \ DumpFrees
              /\ IsInjective(Guarded)

\* The addresses a thread's next step reads through or frees.
Touches(t) ==
  CASE pc[t] \in {"next", "link_check", "link", "steal_check", "steal_expect",
                  "steal", "head_next", "is_empty"} -> {ptr(t)}
    [] pc[t] = "retire" /\ pop_guard.len = Cap -> {ptr(t)}
    [] pc[t] = "stash" /\ push_guard.len = Cap -> {loc[t].node}
    [] pc[t] = "gc_free" -> {loc[t].expected}
    [] pc[t] = "read" -> {loc[t].nxt}
    [] OTHER -> {}

Dumps(t) == pc[t] \in {"dump", "steal_dump", "pop_dump", "stash_panic"}

Safe(t) == Touches(t) \subseteq live /\ (Dumps(t) => DumpIsSafe)

\* t is about to do the step named label, and the step is defined.
At(t, label) == pc[t] = label /\ Safe(t)

-----------------------------------------------------------------------------
(* push: _push(new) until it returns true *)

\* Box::new(Node::new(val)): any address that is not allocated.
Push(p) == /\ At(p, "idle")
           /\ pushed[p] < MaxPush
           /\ \E a \in Nodes \ live :
                /\ live' = live \cup {a}
                /\ item' = [item EXCEPT ![a] = <<p, pushed[p] + 1>>]
                /\ next' = [next EXCEPT ![a] = Null]
                /\ loc' = [loc EXCEPT ![p].node = a]
           /\ pushed' = [pushed EXCEPT ![p] = @ + 1]
           /\ Goto(p, "tail")
           /\ UNCHANGED <<ends, guards, ret>>

LoadTail(p) == /\ At(p, "tail")
               /\ Local(p, "next", [loc[p] EXCEPT !.ptr = tail])

\* Half way through somebody's insert, or the common path.
LoadNext(p) == /\ At(p, "next")
               /\ Local(p, IF next[ptr(p)] # Null THEN "finish" ELSE "guarded", loc[p])

\* "Finish" the insert: make the tail point to new_node.
Finish(p) == /\ At(p, "finish")
             /\ IF tail = ptr(p)
                  THEN tail' = loc[p].node /\ Return(p)
                  ELSE Goto(p, "stash") /\ UNCHANGED <<tail, loc>>
             /\ UNCHANGED <<mem, head, guards, pushed, ret>>

GuardIsEmpty(p) == /\ At(p, "guarded")
                   /\ Local(p, IF push_guard.len = 0 THEN "link_check" ELSE "lock", loc[p])

LinkCheck(p) == /\ At(p, "link_check")
                /\ Local(p, IF next[ptr(p)] = Null THEN "link" ELSE "lock", loc[p])

\* fault: the tail is left behind
LinkNoSwing(p) == /\ At(p, "link")
                  /\ next' = [next EXCEPT ![ptr(p)] = loc[p].node]
                  /\ Return(p)
                  /\ UNCHANGED <<live, item, ends, guards, pushed, ret>>

\* compare_set(null, new_node) on the tail's next.
Link(p) == /\ At(p, "link")
           /\ IF next[ptr(p)] = Null
                THEN /\ next' = [next EXCEPT ![ptr(p)] = loc[p].node]
                     /\ Goto(p, "swing")
                ELSE Goto(p, "stash") /\ UNCHANGED next
           /\ UNCHANGED <<live, item, ends, guards, loc, pushed, ret>>

\* Shift the tail; the code asserts that this cannot fail.
Swing(p) == /\ At(p, "swing")
            /\ IF tail = ptr(p)
                 THEN tail' = loc[p].node /\ Return(p)
                 ELSE Leave(p, "panic") /\ UNCHANGED tail
            /\ UNCHANGED <<mem, head, guards, pushed, ret>>

\* push_guard.push(new_node): the push is tried again with the same node.
\* If there is no room, is_err() drops the node and the queue is printed.
Stash(p) == /\ At(p, "stash")
            /\ IF push_guard.len = Cap
                 THEN /\ live' = live \ {loc[p].node}
                      /\ Leave(p, "stash_panic")
                 ELSE /\ loc' = [loc EXCEPT ![p].len = push_guard.len]
                      /\ Goto(p, "stash_write")
                      /\ UNCHANGED live
            /\ UNCHANGED <<item, next, ends, guards, pushed, ret>>
StashWrite(p) == /\ At(p, "stash_write")
                 /\ push_guard' = [push_guard EXCEPT !.slot[loc[p].len] = loc[p].node]
                 /\ Goto(p, "stash_len")
                 /\ UNCHANGED <<mem, ends, pop_guard, loc, pushed, ret>>
StashLen(p) == /\ At(p, "stash_len")
               /\ push_guard' = [push_guard EXCEPT !.len =
                                   IF @ = loc[p].len THEN @ + 1 ELSE @]
               /\ Again(p, "tail")
               /\ UNCHANGED <<mem, ends, pop_guard, pushed, ret>>
StashPanic(p) == /\ At(p, "stash_panic")
                 /\ live' = live \ DumpFrees
                 /\ Goto(p, "panic")
                 /\ UNCHANGED <<item, next, ends, guards, loc, pushed, ret>>

\* There are failed pushes: lock the guard, print the queue, take one of them.
LockGuard(p) == /\ At(p, "lock")
                /\ push_guard.lock = NoThread
                /\ push_guard' = [push_guard EXCEPT !.lock = p]
                /\ Goto(p, "dump")
                /\ UNCHANGED <<mem, ends, pop_guard, loc, pushed, ret>>
Dump(p) == /\ At(p, "dump")
           /\ live' = live \ DumpFrees
           /\ Goto(p, "unstash")
           /\ UNCHANGED <<item, next, ends, guards, loc, pushed, ret>>

\* _push returns false with the lock: it is released, push tries again.
Retry(p) == /\ push_guard' = [push_guard EXCEPT !.lock = NoThread]
            /\ Again(p, "tail")

\* push_guard.pop(): len is lowered, the slot at the OLD len is read.
Unstash(p) == /\ At(p, "unstash")
              /\ IF push_guard.len = 0
                   THEN Retry(p)
                   ELSE /\ loc' = [loc EXCEPT ![p].len = push_guard.len]
                        /\ Goto(p, "unstash_len")
                        /\ UNCHANGED push_guard
              /\ UNCHANGED <<mem, ends, pop_guard, pushed, ret>>
UnstashLen(p) == /\ At(p, "unstash_len")
                 /\ push_guard' = [push_guard EXCEPT !.len =
                                     IF @ = loc[p].len THEN @ - 1 ELSE @]
                 /\ Goto(p, "unstash_read")
                 /\ UNCHANGED <<mem, ends, pop_guard, loc, pushed, ret>>
UnstashRead(p) == /\ At(p, "unstash_read")
                  /\ \E w \in SlotWord(push_guard, loc[p].len) :
                       loc' = [loc EXCEPT ![p].nxt = w]
                  /\ Goto(p, "steal_check")
                  /\ UNCHANGED <<mem, ends, guards, pushed, ret>>

\* Push the stolen node: next is read, read again as the expected value, set.
StealCheck(p) == /\ At(p, "steal_check")
                 /\ IF next[ptr(p)] = Null
                      THEN Goto(p, "steal_expect") /\ UNCHANGED <<push_guard, loc>>
                      ELSE Retry(p)
                 /\ UNCHANGED <<mem, ends, pop_guard, pushed, ret>>
StealExpect(p) == /\ At(p, "steal_expect")
                  /\ Local(p, "steal", [loc[p] EXCEPT !.expected = next[ptr(p)]])
Steal(p) == /\ At(p, "steal")
            /\ IF next[ptr(p)] = loc[p].expected
                 THEN /\ next' = [next EXCEPT ![ptr(p)] = loc[p].nxt]
                      /\ Goto(p, "steal_swing")
                 ELSE Goto(p, "steal_dump") /\ UNCHANGED next
            /\ UNCHANGED <<live, item, ends, guards, loc, pushed, ret>>
StealSwing(p) == /\ At(p, "steal_swing")
                 /\ IF tail = ptr(p)
                      THEN tail' = loc[p].nxt /\ Retry(p)
                      ELSE /\ Leave(p, "panic")
                           /\ push_guard' = [push_guard EXCEPT !.lock = NoThread]
                           /\ UNCHANGED tail
                 /\ UNCHANGED <<mem, head, pop_guard, pushed, ret>>
StealDump(p) == /\ At(p, "steal_dump")
                /\ live' = live \ DumpFrees
                /\ Retry(p)
                /\ UNCHANGED <<item, next, ends, pop_guard, pushed, ret>>

-----------------------------------------------------------------------------
(* try_pop: _pop() until it returns Ok; pop() calls it until it is Some *)

TryPop(c) == /\ At(c, "idle")
             /\ Local(c, "head", loc[c])

LoadHead(c) == /\ At(c, "head")
               /\ Local(c, "head_next", [loc[c] EXCEPT !.ptr = head])

\* fault: the last item waits for another one
HeadNextWaits(c) == /\ At(c, "head_next")
                    /\ IF next[ptr(c)] = Null
                         THEN ret' = [ret EXCEPT ![c] = None] /\ Return(c)
                         ELSE /\ loc' = [loc EXCEPT ![c].nxt = next[ptr(c)]]
                              /\ Goto(c, IF next[next[ptr(c)]] = Null THEN "head"
                                                                     ELSE "advance")
                              /\ UNCHANGED ret
                    /\ UNCHANGED <<mem, ends, guards, pushed>>

HeadNext(c) == /\ At(c, "head_next")
               /\ IF next[ptr(c)] = Null
                    THEN ret' = [ret EXCEPT ![c] = None] /\ Return(c)
                    ELSE /\ loc' = [loc EXCEPT ![c].nxt = next[ptr(c)]]
                         /\ Goto(c, "advance")
                         /\ UNCHANGED ret
               /\ UNCHANGED <<mem, ends, guards, pushed>>

\* fault: the consumer moves the tail, too
AdvanceBoth(c) == /\ At(c, "advance")
                  /\ head = ptr(c) /\ head' = loc[c].nxt
                  /\ tail' = IF tail = ptr(c) THEN loc[c].nxt ELSE tail
                  /\ Goto(c, "retire")
                  /\ UNCHANGED <<mem, guards, loc, pushed, ret>>

\* compare_set(head, next); if it fails the queue is printed.
Advance(c) == /\ At(c, "advance")
              /\ IF head = ptr(c)
                   THEN head' = loc[c].nxt /\ Goto(c, "retire")
                   ELSE Goto(c, "pop_dump") /\ UNCHANGED head
              /\ UNCHANGED <<mem, tail, guards, loc, pushed, ret>>
PopDump(c) == /\ At(c, "pop_dump")
              /\ live' = live \ DumpFrees
              /\ Again(c, "head")
              /\ UNCHANGED <<item, next, ends, guards, pushed, ret>>

\* fault: the length is raised before the slot is written
RetireCounts(c) == /\ At(c, "retire")
                   /\ pop_guard.len < Cap
                   /\ loc' = [loc EXCEPT ![c].len = pop_guard.len]
                   /\ pop_guard' = [pop_guard EXCEPT !.len = @ + 1]
                   /\ Goto(c, "retire_write")
                   /\ UNCHANGED <<mem, ends, push_guard, pushed, ret>>

\* pop_guard.push(old_head).  If there is no room, is_err() drops old_head,
\* the guard is locked and emptied, and old_head is pushed again; if there is
\* no room then either, is_ok() drops old_head and the assertion fails.
Retire(c) == /\ At(c, "retire")
             /\ IF pop_guard.len = Cap
                  THEN /\ live' = live \ {ptr(c)}
                       /\ IF pop_guard.lock = c
                            THEN /\ Leave(c, "panic")
                                 /\ pop_guard' = [pop_guard EXCEPT !.lock = NoThread]
                            ELSE Goto(c, "gc_lock") /\ UNCHANGED <<pop_guard, loc>>
                  ELSE /\ loc' = [loc EXCEPT ![c].len = pop_guard.len]
                       /\ Goto(c, "retire_write")
                       /\ UNCHANGED <<live, pop_guard>>
             /\ UNCHANGED <<item, next, ends, push_guard, pushed, ret>>
RetireWrite(c) == /\ At(c, "retire_write")
                  /\ pop_guard' = [pop_guard EXCEPT !.slot[loc[c].len] = ptr(c)]
                  /\ Goto(c, "retire_len")
                  /\ UNCHANGED <<mem, ends, push_guard, loc, pushed, ret>>
RetireLen(c) == /\ At(c, "retire_len")
                /\ pop_guard' = [pop_guard EXCEPT
                      !.len = IF @ = loc[c].len THEN @ + 1 ELSE @,
                      !.lock = IF @ = c THEN NoThread ELSE @]
                /\ Goto(c, "read")
                /\ loc' = [loc EXCEPT ![c].len = 0]
                /\ UNCHANGED <<mem, ends, push_guard, pushed, ret>>

GcLock(c) == /\ At(c, "gc_lock")
             /\ pop_guard.lock = NoThread
             /\ pop_guard' = [pop_guard EXCEPT !.lock = c]
             /\ Goto(c, "gc")
             /\ UNCHANGED <<mem, ends, push_guard, loc, pushed, ret>>
Gc(c) == /\ At(c, "gc")
         /\ Goto(c, IF pop_guard.len = 0 THEN "retire" ELSE "gc_len")
         /\ loc' = [loc EXCEPT ![c].len = pop_guard.len]
         /\ UNCHANGED <<mem, ends, guards, pushed, ret>>
GcLen(c) == /\ At(c, "gc_len")
            /\ pop_guard' = [pop_guard EXCEPT !.len = IF @ = loc[c].len THEN @ - 1 ELSE @]
            /\ Goto(c, "gc_read")
            /\ UNCHANGED <<mem, ends, push_guard, loc, pushed, ret>>
GcRead(c) == /\ At(c, "gc_read")
             /\ \E w \in SlotWord(pop_guard, loc[c].len) :
                  loc' = [loc EXCEPT ![c].expected = w]
             /\ Goto(c, "gc_free")
             /\ UNCHANGED <<mem, ends, guards, pushed, ret>>
GcFree(c) == /\ At(c, "gc_free")
             /\ live' = live \ {loc[c].expected}
             /\ loc' = [loc EXCEPT ![c].expected = Null]
             /\ Goto(c, "gc")
             /\ UNCHANGED <<item, next, ends, guards, pushed, ret>>

\* fault: the data of the old head
ReadOldHead(c) == /\ At(c, "read")
                  /\ ret' = [ret EXCEPT ![c] = item[ptr(c)]]
                  /\ Return(c)
                  /\ UNCHANGED <<mem, ends, guards, pushed>>

\* ptr::read((*next).data)
ReadItem(c) == /\ At(c, "read")
               /\ ret' = [ret EXCEPT ![c] = item[loc[c].nxt]]
               /\ Return(c)
               /\ UNCHANGED <<mem, ends, guards, pushed>>

-----------------------------------------------------------------------------
(* is_empty, and the drop of the queue *)

IsEmpty(t) == /\ At(t, "idle")
              /\ Local(t, "is_empty", [loc[t] EXCEPT !.ptr = head])
IsEmptyNext(t) == /\ At(t, "is_empty")
                  /\ Return(t)
                  /\ UNCHANGED <<mem, ends, guards, pushed, ret>>

\* Drop calls try_pop until it returns None, then frees the head.  Nobody else
\* has the queue by then, and nobody will.
DropQueue == /\ \A t \in Threads : pc[t] = "idle"
             /\ head \in live /\ next[head] = Null
             /\ live' = live \ {head}
             /\ pc' = [t \in Threads |-> "gone"]
             /\ UNCHANGED <<item, next, ends, guards, loc, pushed, ret>>

-----------------------------------------------------------------------------
(* Specification *)

\* The common path of a push and of a pop.
SoloPush(p) == \/ LoadTail(p) \/ LoadNext(p) \/ GuardIsEmpty(p)
               \/ LinkCheck(p) \/ Link(p) \/ Swing(p)
SoloPop(c) == \/ LoadHead(c) \/ HeadNext(c) \/ Advance(c)
              \/ Retire(c) \/ RetireWrite(c) \/ RetireLen(c) \/ ReadItem(c)

PushStep(p) == \/ SoloPush(p) \/ Finish(p)
               \/ Stash(p) \/ StashWrite(p) \/ StashLen(p) \/ StashPanic(p)
               \/ LockGuard(p) \/ Dump(p) \/ Unstash(p) \/ UnstashLen(p)
               \/ UnstashRead(p) \/ StealCheck(p) \/ StealExpect(p) \/ Steal(p)
               \/ StealSwing(p) \/ StealDump(p)

PopStep(c) == \/ SoloPop(c) \/ PopDump(c)
              \/ GcLock(c) \/ Gc(c) \/ GcLen(c) \/ GcRead(c) \/ GcFree(c)

Calls == \/ \E p \in Producers : Push(p)
         \/ \E c \in Consumers : TryPop(c)
         \/ \E t \in Threads : IsEmpty(t) \/ IsEmptyNext(t)
         \/ DropQueue

Next == \/ Calls
        \/ \E p \in Producers : PushStep(p)
        \/ \E c \in Consumers : PopStep(c)

Spec == Init /\ [][Next]_vars

\* All that one producer and one consumer can do while pop_guard has room: they
\* stay on the common path, which SoloTypeOK states.  Threads keep running, and
\* the consumer calls pop(), which tries again and again.
SoloNext == \/ Calls
            \/ \E p \in Producers : SoloPush(p)
            \/ \E c \in Consumers : SoloPop(c)

SoloSpec == /\ Init /\ [][SoloNext]_vars
            /\ \A t \in Threads : WF_vars(IsEmptyNext(t))
            /\ \A p \in Producers : WF_vars(SoloPush(p))
            /\ \A c \in Consumers : WF_vars(SoloPop(c)) /\ SF_vars(TryPop(c))

-----------------------------------------------------------------------------
(* Properties *)

Guard == [slot : [0..Cap -> Word], len : 0..Cap, lock : Threads \cup {NoThread}]

SoloLabels == {"idle", "tail", "next", "guarded", "link_check", "link", "swing",
               "head", "head_next", "advance", "retire", "retire_write",
               "retire_len", "read", "is_empty", "gone"}

\* Every variable has its type, the guards never count past their capacity, and
\* one producer and one consumer stay on the common path: no push finds another
\* half done, loses a compare_set or fails its assertion, no pop prints the
\* queue or empties a guard.  So SoloNext leaves out no step they could take.
SoloTypeOK == /\ live \subseteq Nodes
              /\ item \in [Nodes -> Items \cup {Null}]
              /\ next \in [Nodes -> Word]
              /\ head \in Word /\ tail \in Word
              /\ push_guard \in Guard /\ pop_guard \in Guard
              /\ pc \in [Threads -> SoloLabels]
              /\ loc \in [Threads -> [node : Word, ptr : Word, nxt : Word,
                                      expected : Word, len : 0..Cap]]
              /\ pushed \in [Producers -> 0..MaxPush]
              /\ ret \in [Consumers -> Items \cup {Null, None}]

\* No thread reads or frees a node that is not allocated, whatever the other
\* threads retire, free or print in the meantime.
MemorySafe == \A t \in Threads : Safe(t)

\* "swap to new tail failed" never happens: who links a node moves the tail.
NoPanic == \A t \in Threads : pc[t] # "panic"

\* The addresses from the head on, as far as they can be followed.
Walk == LET w[i \in 0..Cardinality(Nodes)] ==
              IF i = 0 THEN head
              ELSE IF w[i - 1] = Null THEN Null ELSE next[w[i - 1]]
        IN w
Reached == {i \in 1..Cardinality(Nodes) : Walk[i] # Null}

\* The node that only t's locals refer to: one that is not linked yet, or one
\* that is unlinked and not counted by the guard yet.
InHand(t) ==
  CASE pc[t] \in {"tail", "next", "guarded", "link_check", "link"} -> {loc[t].node}
    [] pc[t] \in {"retire", "retire_write", "retire_len"} -> {ptr(t)}
    [] OTHER -> {}

\* Every allocated node is owned once, at every step of a push that meets a pop:
\* it is in the list, in a slot that a guard counts, or in the hands of one
\* thread.  None is lost, none is in two places and would be freed twice, and
\* what a guard counts was written, so that the guard can be printed or emptied.
OwnedOnce ==
  (\E t \in Threads : pc[t] # "gone") =>
    LET listed == {Walk[i] : i \in 0..Cardinality(Reached)}
        inHand == UNION {InHand(t) : t \in Threads}
    IN /\ live = listed \cup ToSet(Guarded) \cup inHand
       /\ IsInjective(Guarded)
       /\ Cardinality(live) = Cardinality(listed) + Len(Guarded)
                                + Cardinality({t \in Threads : InHand(t) # {}})

\* Between pushes the tail is the last node of the list: a push that returned
\* left its item where a pop finds it.
TailIsLast == (\A p \in Producers : pc[p] \in {"idle", "panic"}) =>
                 tail = Walk[Cardinality(Reached)]

fifo == [i \in 1..Cardinality(Reached) |-> item[Walk[i]]]
result == [c \in Consumers |->
             IF pc[c] \in {"retire", "retire_write", "retire_len", "read",
                           "gc_lock", "gc", "gc_len", "gc_read", "gc_free"}
               THEN item[loc[c].nxt] ELSE ret[c]]

\* The list, the dummy and the guards are a FIFO queue: a push takes effect
\* when its node is linked, a pop when the head moves.
Fifo == INSTANCE FifoQueue WITH fifo <- fifo, result <- result
ImplementsFifo == Fifo!Spec

\* An item in the queue reaches a consumer.
ItemsArrive == \A v \in Items :
  (\E i \in 1..Len(fifo) : fifo[i] = v) ~> (\E c \in Consumers : ret[c] = v)
=============================================================================
