--------------------------- MODULE CoQueueProofs ---------------------------
(***************************************************************************)
(* Each slot of CoQueue goes to one push and to one pop, for every number  *)
(* of threads, chunks and items, and every length of a lap.                *)
(***************************************************************************)
EXTENDS CoQueue, TLAPS

-----------------------------------------------------------------------------
(* The arithmetic of positions *)

\* A position is so many laps and an offset: what \div and % are for a lap.
LEMMA Divided ==
  ASSUME NEW x \in Nat
  PROVE  /\ x \div LAP \in Nat
         /\ x % LAP \in 0..LAP - 1
         /\ x = LAP * (x \div LAP) + (x % LAP)
  BY LapAssumption

\* A number of laps is at least one lap.
LEMMA OneLap ==
  ASSUME NEW n \in Int, n >= 1
  PROVE  LAP * n \in Int /\ LAP * n >= LAP
  BY LapAssumption

\* Two ways to write one position as laps and an offset do not differ in laps.
LEMMA LapsAgree ==
  ASSUME NEW q1 \in Int, NEW q2 \in Int,
         NEW r1 \in 0..LAP - 1, NEW r2 \in 0..LAP - 1,
         LAP * q1 + r1 = LAP * q2 + r2
  PROVE  ~(q1 > q2)
<1> SUFFICES ASSUME q1 > q2 PROVE FALSE
  OBVIOUS
<1>1. q1 - q2 \in Int /\ q1 - q2 >= 1
  OBVIOUS
<1>2. LAP * (q1 - q2) >= LAP
  BY <1>1, OneLap
<1>3. LAP * (q1 - q2) = LAP * q1 - LAP * q2
  BY LapAssumption
<1>4. LAP * q1 \in Int /\ LAP * q2 \in Int
  BY LapAssumption
<1> QED
  BY <1>2, <1>3, <1>4, LapAssumption

\* They are the same.
LEMMA DividedOneWay ==
  ASSUME NEW q1 \in Int, NEW q2 \in Int,
         NEW r1 \in 0..LAP - 1, NEW r2 \in 0..LAP - 1,
         LAP * q1 + r1 = LAP * q2 + r2
  PROVE  q1 = q2 /\ r1 = r2
<1>1. q1 = q2
  BY LapsAgree
<1>2. LAP * q1 = LAP * q2 /\ LAP * q1 \in Int
  BY <1>1, LapAssumption
<1> QED
  BY <1>1, <1>2, LapAssumption

\* The next position is in the same lap, unless this one is the last of it.
LEMMA NextInLap ==
  ASSUME NEW x \in Nat, x % LAP # LAP - 1
  PROVE  (x + 1) \div LAP = x \div LAP /\ (x + 1) % LAP = (x % LAP) + 1
<1> DEFINE q == x \div LAP
           r == x % LAP
           p == (x + 1) \div LAP
           s == (x + 1) % LAP
<1>1. q \in Int /\ r \in 0..LAP - 1 /\ x = LAP * q + r
  BY Divided
<1>2. p \in Int /\ s \in 0..LAP - 1 /\ x + 1 = LAP * p + s
  BY Divided
<1>3. r + 1 \in 0..LAP - 1
  BY <1>1, LapAssumption
<1>4. LAP * q \in Int
  BY <1>1, LapAssumption
<1> HIDE DEF q, r, p, s
<1>5. LAP * p + s = LAP * q + (r + 1)
  BY <1>1, <1>2, <1>3, <1>4
<1>6. p = q /\ s = r + 1
  BY <1>1, <1>2, <1>3, <1>5, DividedOneWay
<1> QED
  BY <1>6 DEF q, r, p, s

\* After the last position of a lap comes the first of the next.
LEMMA NextLap ==
  ASSUME NEW x \in Nat, x % LAP = LAP - 1
  PROVE  (x + 1) \div LAP = x \div LAP + 1 /\ (x + 1) % LAP = 0
<1> DEFINE q == x \div LAP
           r == x % LAP
           p == (x + 1) \div LAP
           s == (x + 1) % LAP
<1>1. q \in Int /\ r = LAP - 1 /\ x = LAP * q + r
  BY Divided
<1>2. p \in Int /\ s \in 0..LAP - 1 /\ x + 1 = LAP * p + s
  BY Divided
<1>3. LAP * q \in Int /\ LAP * (q + 1) = LAP * q + LAP
  BY <1>1, LapAssumption
<1> HIDE DEF q, r, p, s
<1>4. LAP * p + s = LAP * (q + 1) + 0
  BY <1>1, <1>2, <1>3, LapAssumption
<1>5. p = q + 1 /\ s = 0
  BY <1>1, <1>2, <1>4, DividedOneWay, LapAssumption
<1> QED
  BY <1>5 DEF q, r, p, s

\* There are never fewer positions than laps.
LEMMA SlotsNat ==
  ASSUME NEW i \in Nat
  PROVE  Pos(i) \in Nat /\ Offset(i) \in 0..CHUNK_CAP /\ Slots(i) \in Nat
<1> DEFINE x == Pos(i)
           q == x \div LAP
           r == x % LAP
<1>1. x \in Nat
  BY DEF Pos
<1> HIDE DEF x
<1>2. q \in Nat /\ r \in 0..LAP - 1 /\ x = LAP * q + r
  BY <1>1, Divided
<1>3. LAP * q \in Int /\ LAP * q >= q
  BY <1>2, LapAssumption
<1> HIDE DEF q, r
<1>4. x - q \in Nat
  BY <1>1, <1>2, <1>3, LapAssumption
<1> QED
  BY <1>1, <1>2, <1>4, LapAssumption DEF Offset, Slots, Lap, CHUNK_CAP, x, q, r

\* What adding to an index does to its position.
LEMMA PosStep ==
  ASSUME NEW i \in Nat
  PROVE  /\ Pos(i + 2) = Pos(i) + 1
         /\ Pos(i + 4) = Pos(i) + 2
         /\ HAS_NEXT(i) \in {0, 1}
         /\ HAS_NEXT(i) = 0 => Pos(i + 3) = Pos(i) + 1
         /\ i - HAS_NEXT(i) \in Nat
         /\ Pos(i - HAS_NEXT(i) + 2) = Pos(i) + 1
         /\ Pos(i - HAS_NEXT(i) + 3) = Pos(i) + 1
  BY DEF Pos, HAS_NEXT

\* From one position to the next there is one more slot, but the last position
\* of a lap has none.
LEMMA SlotsStep ==
  ASSUME NEW i \in Nat, NEW j \in Nat, Pos(j) = Pos(i) + 1
  PROVE  /\ Offset(i) # CHUNK_CAP => Offset(j) = Offset(i) + 1 /\ Slots(j) = Slots(i) + 1
         /\ Offset(i) = CHUNK_CAP => Offset(j) = 0 /\ Slots(j) = Slots(i)
<1>1. Pos(i) \in Nat
  BY SlotsNat
<1>2. Pos(i) \div LAP \in Nat
  BY <1>1, Divided
<1>3. CASE Offset(i) # CHUNK_CAP
  <2>1. /\ (Pos(i) + 1) \div LAP = Pos(i) \div LAP
        /\ (Pos(i) + 1) % LAP = (Pos(i) % LAP) + 1
    BY <1>1, <1>3, NextInLap DEF Offset, CHUNK_CAP
  <2> QED
    BY <1>1, <1>2, <1>3, <2>1 DEF Offset, Slots, Lap
<1>4. CASE Offset(i) = CHUNK_CAP
  <2>1. /\ (Pos(i) + 1) \div LAP = Pos(i) \div LAP + 1
        /\ (Pos(i) + 1) % LAP = 0
    BY <1>1, <1>4, NextLap DEF Offset, CHUNK_CAP
  <2> QED
    BY <1>1, <1>2, <1>4, <2>1, LapAssumption DEF Offset, Slots, Lap, CHUNK_CAP
<1> QED
  BY <1>3, <1>4

-----------------------------------------------------------------------------
(* The inductive invariant *)

\* Where a thread owns nothing and knows nothing of the indices.
Free == {"idle", "push_index", "push_chunk", "push", "pop_index", "pop_chunk", "pop",
         "destroy", "destroy_or", "len_tail", "len_head", "len_check", "panic"}

\* Where a push has checked that its index has a slot, where it is the one that
\* moves the tail, and where a pop is the one that moves the head.
PushChecked == {"install", "install_head", "claim"}
PushMoves == {"next_chunk", "next_index"}
PopMoves == {"wait_next", "peek", "head_chunk", "head_index"}

Labels == Free \cup PushChecked \cup PushOwns \cup {"take"} \cup PopOwns \cup {"gone"}

Locals == [index : Nat, chunk : Chunks \cup {Null}, next : Chunks \cup {Null},
           new : Nat, i : Nat]

\* The types that the two indices and the claims depend on.
Typed ==
  /\ next \in [Chunks -> Chunks \cup {Null}]
  /\ head \in [index : Nat, chunk : Chunks \cup {Null}]
  /\ tail \in [index : Nat, chunk : Chunks \cup {Null}]
  /\ pc \in [Threads -> Labels]
  /\ loc \in [Threads -> Locals]
  /\ pushed \in [Producers -> Nat]
  /\ claimed \in Seq(Producers \X Nat)
  /\ \A t \in Threads : pc[t] \in {"take", "wait_next"} => loc[t].chunk # Null

\* A push with a claim finds its item at its place.  Who claimed the last slot
\* moves the tail: until then the index there has no slot.
PushOf(p) ==
  /\ pc[p] \in PushChecked => Offset(loc[p].index) # CHUNK_CAP
  /\ pc[p] \in PushMoves => /\ Offset(loc[p].index) + 1 = CHUNK_CAP
                            /\ tail.index = loc[p].index + 2
  /\ pc[p] \in PushOwns => /\ p \in Producers
                           /\ Slots(loc[p].index) < Len(claimed)
                           /\ claimed[Slots(loc[p].index) + 1] = <<p, pushed[p]>>

\* A pop with a claim has a place before the head, and knows where the head
\* goes next.
PopOf(c) ==
  /\ pc[c] = "take" => Offset(loc[c].index) # CHUNK_CAP
  /\ pc[c] \in {"take", "wait_next", "peek"} => Pos(loc[c].new) = Pos(loc[c].index) + 1
  /\ pc[c] \in {"head_chunk", "head_index"} => Pos(loc[c].new) = Pos(loc[c].index) + 2
  /\ pc[c] \in PopMoves => /\ Offset(loc[c].index) + 1 = CHUNK_CAP
                           /\ Pos(head.index) = Pos(loc[c].index) + 1
  /\ pc[c] \in PopOwns => Slots(loc[c].index) < Slots(head.index)

\* At most one push moves the tail, at most one pop moves the head, and no two
\* pops have the same place.
Apart(t, u) ==
  /\ ~(pc[t] \in PushMoves /\ pc[u] \in PushMoves)
  /\ ~(pc[t] \in PopMoves /\ pc[u] \in PopMoves)
  /\ pc[t] \in PopOwns /\ pc[u] \in PopOwns => Slots(loc[t].index) # Slots(loc[u].index)

IInv == /\ Typed
        /\ Len(claimed) = Slots(tail.index)
        /\ \A t \in Threads : PushOf(t) /\ PopOf(t)
        /\ \A t, u \in Threads : t # u => Apart(t, u)

\* The invariant holds when the queue is new.
LEMMA InitInv == Init => IInv
<1> SUFFICES ASSUME Init PROVE IInv
  OBVIOUS
<1> USE DEF Init
<1>1. Typed
  <2>1. Blank \in Locals
    BY DEF Blank, Locals
  <2>2. loc \in [Threads -> Locals]
    BY <2>1
  <2>7. pc \in [Threads -> Labels]
    BY DEF Labels, Free
  <2>3. \A t \in Threads : pc[t] \notin {"take", "wait_next"}
    OBVIOUS
  <2>4. claimed \in Seq(Producers \X Nat)
    OBVIOUS
  <2>5. next \in [Chunks -> Chunks \cup {Null}] /\ pushed \in [Producers -> Nat]
    OBVIOUS
  <2>6. /\ head \in [index : Nat, chunk : Chunks \cup {Null}]
        /\ tail \in [index : Nat, chunk : Chunks \cup {Null}]
    OBVIOUS
  <2> QED
    BY <2>2, <2>3, <2>4, <2>5, <2>6, <2>7 DEF Typed
<1>2. Slots(0) = 0
  BY LapAssumption, SlotsNat DEF Slots, Pos, Lap
<1>3. \A t \in Threads : PushOf(t) /\ PopOf(t)
  BY DEF PushOf, PopOf, PushChecked, PushMoves, PushOwns, PopMoves, PopOwns
<1>4. \A t, u \in Threads : Apart(t, u)
  BY DEF Apart, PushMoves, PopMoves, PopOwns
<1> QED
  BY <1>1, <1>2, <1>3, <1>4 DEF IInv

-----------------------------------------------------------------------------
(* The steps *)

\* The other threads of a step of t are where they were.
Others(t) == \A u \in Threads \ {t} : /\ pc'[u] = pc[u]
                                      /\ loc'[u] = loc[u]
                                      /\ u \in Producers => pushed'[u] = pushed[u]

\* A step of t that assigns its program counter and its locals.
LEMMA Assigned ==
  ASSUME Typed, NEW t \in Threads, NEW l \in Labels, NEW r \in Locals,
         pc' = [pc EXCEPT ![t] = l], loc' = [loc EXCEPT ![t] = r],
         l \in {"take", "wait_next"} => r.chunk # Null,
         next' \in [Chunks -> Chunks \cup {Null}],
         head' \in [index : Nat, chunk : Chunks \cup {Null}],
         tail' \in [index : Nat, chunk : Chunks \cup {Null}],
         pushed' = pushed, claimed' \in Seq(Producers \X Nat)
  PROVE  Typed' /\ Others(t) /\ pc'[t] = l /\ loc'[t] = r
<1>1. pc' \in [Threads -> Labels] /\ loc' \in [Threads -> Locals]
  BY DEF Typed
<1>2. pc'[t] = l /\ loc'[t] = r
  BY DEF Typed
<1>3. \A u \in Threads \ {t} : pc'[u] = pc[u] /\ loc'[u] = loc[u]
  BY DEF Typed
<1>4. \A u \in Threads : pc'[u] \in {"take", "wait_next"} => loc'[u].chunk # Null
  BY <1>2, <1>3 DEF Typed
<1> QED
  BY <1>1, <1>2, <1>3, <1>4 DEF Typed, Others

\* A step that moves no index and claims nothing need only be right for its own
\* thread, if that does not begin to own anything.
LEMMA Frame ==
  ASSUME IInv, NEW t \in Threads, Others(t), Typed',
         head'.index = head.index, tail'.index = tail.index, claimed' = claimed,
         PushOf(t)', PopOf(t)',
         pc'[t] \in PushMoves => pc[t] \in PushMoves,
         pc'[t] \in PopMoves => pc[t] \in PopMoves,
         pc'[t] \in PopOwns => pc[t] \in PopOwns /\ loc'[t].index = loc[t].index
  PROVE  IInv'
<1>1. Len(claimed)' = Slots(tail.index)'
  BY DEF IInv
<1>2. ASSUME NEW u \in Threads PROVE PushOf(u)' /\ PopOf(u)'
  <2>1. CASE u = t
    BY <2>1
  <2>2. CASE u # t
    BY <2>2, Zenon DEF IInv, Others, PushOf, PopOf, PushOwns
  <2> QED
    BY <2>1, <2>2
<1>3. ASSUME NEW u \in Threads, NEW v \in Threads, u # v PROVE Apart(u, v)'
  <2>1. Apart(u, v) 
    BY <1>3 DEF IInv
  <2> QED
    BY <1>3, <2>1 DEF Others, Apart
<1> QED
  BY <1>1, <1>2, <1>3 DEF IInv

\* A step to such a place.
LEMMA ToFree ==
  ASSUME IInv, NEW t \in Threads, Others(t), Typed', pc'[t] \in Free,
         head'.index = head.index, tail'.index = tail.index, claimed' = claimed
  PROVE  IInv'
<1>1. PushOf(t)' /\ PopOf(t)'
  BY DEF PushOf, PopOf, Free, PushChecked, PushMoves, PushOwns, PopMoves, PopOwns
<1> QED
  BY <1>1, Frame DEF Free, PushMoves, PopMoves, PopOwns

\* A step that only assigns locals and goes to such a place.
LEMMA FreeStep ==
  ASSUME IInv, NEW t \in Threads, NEW l \in Free, NEW r \in Locals,
         pc' = [pc EXCEPT ![t] = l], loc' = [loc EXCEPT ![t] = r],
         UNCHANGED <<head, tail, pushed, claimed>>,
         next' \in [Chunks -> Chunks \cup {Null}]
  PROVE  IInv'
<1>1. l \in Labels /\ l \notin {"take", "wait_next"}
  BY DEF Labels, Free
<1>2. Typed' /\ Others(t) /\ pc'[t] = l
  BY <1>1, Assigned, Zenon DEF IInv, Typed
<1> QED
  BY <1>2, ToFree

\* What the locals of a thread may become.
LEMMA LocalsTyped ==
  ASSUME Typed, NEW t \in Threads
  PROVE  /\ loc[t] \in Locals
         /\ Blank \in Locals
         /\ [Blank EXCEPT !.next = loc[t].next] \in Locals
         /\ \A n \in Nat : /\ [loc[t] EXCEPT !.index = n] \in Locals
                           /\ [loc[t] EXCEPT !.index = n, !.chunk = Null] \in Locals
                           /\ [Blank EXCEPT !.index = n] \in Locals
                           /\ [loc[t] EXCEPT !.new = n] \in Locals
                           /\ [loc[t] EXCEPT !.i = n] \in Locals
         /\ \A a \in Chunks \cup {Null} : /\ [loc[t] EXCEPT !.chunk = a] \in Locals
                                          /\ [loc[t] EXCEPT !.next = a] \in Locals
                                          /\ [Blank EXCEPT !.next = a] \in Locals
         /\ [loc[t] EXCEPT !.new = 0, !.next = Null] \in Locals
         /\ loc = [loc EXCEPT ![t] = loc[t]]
<1>1. loc[t] \in Locals
  BY DEF Typed
<1>2. loc = [loc EXCEPT ![t] = loc[t]]
  BY SMTT(60) DEF Typed
<1> QED
  BY <1>1, <1>2, Zenon DEF Locals, Blank

\* A call begins, looks at the indices, gives up or starts over.
LEMMA ReadSteps ==
  ASSUME IInv, NEW t \in Threads,
         \/ PushIndex(t) \/ PushChunk(t) \/ PushFull(t) \/ ClaimFails(t)
         \/ TryPop(t) \/ PopIndex(t) \/ PopChunk(t) \/ PopFull(t) \/ PopEmpty(t)
         \/ TakeFails(t) \/ CallLen(t) \/ LenStep(t)
  PROVE  IInv'
<1> USE LocalsTyped, FreeStep DEF Local, Goto, mem
<1>t. Typed
  BY Zenon DEF IInv
<1>n. /\ head.index \in Nat /\ tail.index \in Nat
      /\ head.chunk \in Chunks \cup {Null} /\ tail.chunk \in Chunks \cup {Null}
      /\ next \in [Chunks -> Chunks \cup {Null}]
  BY <1>t, Zenon DEF Typed
<1>1. CASE PushIndex(t)
  BY <1>1, <1>t, <1>n, Zenon DEF PushIndex, Free
<1>2. CASE PushChunk(t)
  BY <1>2, <1>t, <1>n, Zenon DEF PushChunk, Free
<1>3. CASE PushFull(t)
  BY <1>3, <1>t, <1>n, Zenon DEF PushFull, Again, Free
<1>4. CASE ClaimFails(t)
  BY <1>4, <1>t, <1>n, Zenon DEF ClaimFails, Free
<1>5. CASE TryPop(t)
  BY <1>5, <1>t, <1>n, Zenon DEF TryPop, Free
<1>6. CASE PopIndex(t)
  BY <1>6, <1>t, <1>n, Zenon DEF PopIndex, Free
<1>7. CASE PopChunk(t)
  BY <1>7, <1>t, <1>n, Zenon DEF PopChunk, Free
<1>8. CASE PopFull(t)
  BY <1>8, <1>t, <1>n, Zenon DEF PopFull, Again, Free
<1>9. CASE PopEmpty(t)
  BY <1>9, <1>t, <1>n, Zenon DEF PopEmpty, Return, Free
<1>10. CASE TakeFails(t)
  BY <1>10, <1>t, <1>n, Zenon DEF TakeFails, Free
<1>11. CASE CallLen(t)
  BY <1>11, <1>t, <1>n, Zenon DEF CallLen, Free
<1>12. CASE LenLoadTail(t)
  BY <1>12, <1>t, <1>n, Zenon DEF LenLoadTail, Free
<1>13. CASE LenLoadHead(t)
  BY <1>13, <1>t, <1>n, Zenon DEF LenLoadHead, Free
<1>14. CASE LenReturns(t)
  BY <1>14, <1>t, <1>n, Zenon DEF LenReturns, Free
<1>15. CASE LenAgain(t)
  BY <1>15, <1>t, <1>n, Zenon DEF LenAgain, Free
<1>16. CASE LenPanics(t)
  BY <1>16, <1>t, <1>n, Zenon DEF LenPanics, Free
<1> QED
  BY <1>1, <1>2, <1>3, <1>4, <1>5, <1>6, <1>7, <1>8, <1>9, <1>10, <1>11, <1>12,
     <1>13, <1>14, <1>15, <1>16, ZenonT(60) DEF LenStep
\* What lets t go on to l with locals r, when it keeps its index and the shared
\* indices stay: a slot was found, or t owned its place already.
GoesOn(t, l, r) ==
  \/ l \in PushChecked /\ Offset(r.index) # CHUNK_CAP
  \/ l = "take" /\ Offset(r.index) # CHUNK_CAP /\ Pos(r.new) = Pos(r.index) + 1
  \/ l \in PushMoves /\ pc[t] \in PushMoves
  \/ l \in PushOwns \ PushMoves /\ pc[t] \in PushOwns
  \/ l = "peek" /\ pc[t] = "wait_next" /\ r.new = loc[t].new
  \/ l = "head_chunk" /\ pc[t] = "peek" /\ Pos(r.new) = Pos(r.index) + 2
  \/ l = "head_index" /\ pc[t] = "head_chunk" /\ r.new = loc[t].new
  \/ l \in {"wait_write", "done"} /\ pc[t] \in PopOwns

\* A step of that kind.
LEMMA KeepStep ==
  ASSUME IInv, NEW t \in Threads, NEW l \in Labels, NEW r \in Locals,
         pc' = [pc EXCEPT ![t] = l], loc' = [loc EXCEPT ![t] = r],
         r.index = loc[t].index, GoesOn(t, l, r),
         l = "take" => r.chunk # Null,
         next' \in [Chunks -> Chunks \cup {Null}],
         head' \in [index : Nat, chunk : Chunks \cup {Null}],
         tail' \in [index : Nat, chunk : Chunks \cup {Null}],
         head'.index = head.index, tail'.index = tail.index,
         UNCHANGED <<pushed, claimed>>
  PROVE  IInv'
<1> USE DEF PushChecked, PushMoves, PushOwns, PopMoves, PopOwns
<1>1. l # "wait_next"
  BY DEF GoesOn
<1>2. Typed' /\ Others(t) /\ pc'[t] = l /\ loc'[t] = r
  BY <1>1, Assigned, ZenonT(60) DEF IInv, Typed
<1>3. PushOf(t) /\ PopOf(t)
  BY DEF IInv
<1>4. PushOf(t)'
  BY <1>2, <1>3 DEF PushOf, GoesOn
<1>5. PopOf(t)'
  BY <1>2, <1>3 DEF PopOf, GoesOn
<1>6. /\ pc'[t] \in PushMoves => pc[t] \in PushMoves
      /\ pc'[t] \in PopMoves => pc[t] \in PopMoves
      /\ pc'[t] \in PopOwns => pc[t] \in PopOwns /\ loc'[t].index = loc[t].index
  BY <1>2 DEF GoesOn
<1> QED
  BY <1>2, <1>4, <1>5, <1>6, Frame
\* push begins.
LEMMA PushInv ==
  ASSUME IInv, NEW p \in Producers, Push(p)
  PROVE  IInv'
<1>1. p \in Threads /\ Typed
  BY DEF Threads, IInv
<1>2. pushed' \in [Producers -> Nat]
  BY <1>1 DEF Push, Typed
<1>3. /\ pc' \in [Threads -> Labels] /\ pc'[p] = "push_index"
      /\ \A u \in Threads \ {p} : pc'[u] = pc[u]
  BY <1>1 DEF Push, Goto, Typed, Labels, Free
<1>4. Typed'
  BY <1>1, <1>2, <1>3 DEF Push, mem, Typed
<1>5. Others(p)
  BY <1>1, <1>3 DEF Push, Typed, Others
<1> QED
  BY <1>1, <1>3, <1>4, <1>5, ToFree DEF Push, Free

\* push has a slot in view: it gets its next chunk ready, installs the first
\* chunk, or finds that it was installed.
LEMMA ReadyInv ==
  ASSUME IInv, NEW p \in Producers, PushReady(p) \/ Install(p) \/ InstallHead(p)
  PROVE  IInv'
<1>1. p \in Threads /\ Typed
  BY DEF Threads, IInv
<1>2. /\ loc[p] \in Locals /\ loc = [loc EXCEPT ![p] = loc[p]]
      /\ \A a \in Chunks : /\ [loc[p] EXCEPT !.next = a] \in Locals
                           /\ [loc[p] EXCEPT !.chunk = a] \in Locals
                           /\ [Blank EXCEPT !.next = a] \in Locals
  BY <1>1, LocalsTyped, Zenon
<1>3. /\ next \in [Chunks -> Chunks \cup {Null}]
      /\ head \in [index : Nat, chunk : Chunks \cup {Null}]
      /\ tail \in [index : Nat, chunk : Chunks \cup {Null}]
  BY <1>1 DEF Typed
<1>4. ASSUME NEW a \in Chunks, NEW freed, NewChunk(a, freed)
      PROVE  next' \in [Chunks -> Chunks \cup {Null}]
  BY <1>3, <1>4 DEF NewChunk
<1>5. \A l, r : l \in PushChecked /\ Offset(r.index) # CHUNK_CAP => GoesOn(p, l, r)
  BY DEF GoesOn
<1>6. \A l \in PushChecked : l \in Labels /\ l # "take"
  BY DEF Labels, PushChecked
<1>7. pc[p] \in PushChecked => Offset(loc[p].index) # CHUNK_CAP
  BY <1>1 DEF IInv, PushOf
<1>8. CASE PushReady(p)
  <2> DEFINE l == IF loc[p].chunk = Null THEN "install" ELSE "claim"
  <2>1. l \in PushChecked /\ pc' = [pc EXCEPT ![p] = l]
    BY <1>8 DEF PushReady, Goto, PushChecked
  <2>2. UNCHANGED <<head, tail, pushed, claimed>> /\ Offset(loc[p].index) # CHUNK_CAP
    BY <1>8 DEF PushReady, offset
  <2>3. PICK r \in Locals : /\ loc' = [loc EXCEPT ![p] = r] /\ r.index = loc[p].index
                            /\ next' \in [Chunks -> Chunks \cup {Null}]
    <3>1. CASE IsLast(p) /\ loc[p].next = Null
      <4>1. PICK a \in Chunks : NewChunk(a, {}) /\ loc' = [loc EXCEPT ![p].next = a]
        BY <1>8, <3>1 DEF PushReady
      <4>2. next' \in [Chunks -> Chunks \cup {Null}]
        BY <1>4, <4>1
      <4>3. /\ loc' = [loc EXCEPT ![p] = [loc[p] EXCEPT !.next = a]]
            /\ [loc[p] EXCEPT !.next = a].index = loc[p].index
        BY <1>2, <4>1 DEF Locals
      <4> QED
        BY <1>2, <4>2, <4>3, Zenon
    <3>2. CASE ~(IsLast(p) /\ loc[p].next = Null)
      BY <1>2, <1>3, <1>8, <3>2 DEF PushReady, mem
    <3> QED
      BY <3>1, <3>2
  <2> HIDE DEF l
  <2>4. GoesOn(p, l, r) /\ l \in Labels /\ l # "take"
    BY <1>5, <1>6, <2>1, <2>2, <2>3
  <2> QED
    BY <1>1, <1>3, <2>1, <2>2, <2>3, <2>4, KeepStep, Zenon
<1>9. CASE Install(p)
  <2>1. PICK a \in Chunks :
          IF tail.chunk = Null
            THEN /\ NewChunk(a, {})
                 /\ tail' = [tail EXCEPT !.chunk = a]
                 /\ loc' = [loc EXCEPT ![p].chunk = a]
                 /\ Goto(p, "install_head")
            ELSE /\ NewChunk(a, {loc[p].next})
                 /\ loc' = [loc EXCEPT ![p] = [Blank EXCEPT !.next = a]]
                 /\ Goto(p, "push_index")
                 /\ UNCHANGED tail
    BY <1>9 DEF Install
  <2>2. next' \in [Chunks -> Chunks \cup {Null}]
    BY <1>4, <2>1
  <2>3. UNCHANGED <<head, pushed, claimed>> /\ pc[p] = "install"
    BY <1>9 DEF Install, At
  <2>4. CASE tail.chunk = Null
    <3> DEFINE r == [loc[p] EXCEPT !.chunk = a]
    <3>1. loc' = [loc EXCEPT ![p] = r] /\ r \in Locals /\ r.index = loc[p].index
      BY <1>2, <2>1, <2>4 DEF Locals
    <3>2. pc' = [pc EXCEPT ![p] = "install_head"]
      BY <2>1, <2>4 DEF Goto
    <3>3. tail' \in [index : Nat, chunk : Chunks \cup {Null}] /\ tail'.index = tail.index
      BY <1>3, <2>1, <2>4
    <3> HIDE DEF r
    <3>4. GoesOn(p, "install_head", r) /\ "install_head" \in Labels
      BY <1>5, <1>6, <1>7, <2>3, <3>1 DEF PushChecked
    <3> QED
      BY <1>1, <1>3, <2>2, <2>3, <3>1, <3>2, <3>3, <3>4, KeepStep, Zenon
  <2>5. CASE tail.chunk # Null
    BY <1>1, <1>2, <2>1, <2>2, <2>3, <2>5, FreeStep, Zenon DEF Goto, Free
  <2> QED
    BY <2>4, <2>5
<1>10. CASE InstallHead(p)
  <2>1. /\ pc[p] = "install_head" /\ pc' = [pc EXCEPT ![p] = "claim"]
        /\ UNCHANGED <<next, tail, loc, pushed, claimed>>
    BY <1>10 DEF InstallHead, At, Goto, mem
  <2>2. head' \in [index : Nat, chunk : Chunks \cup {Null}] /\ head'.index = head.index
    BY <1>2, <1>3, <1>10 DEF InstallHead, Locals
  <2>3. GoesOn(p, "claim", loc[p]) /\ "claim" \in Labels
    BY <1>5, <1>6, <1>7, <2>1 DEF PushChecked
  <2> QED
    BY <1>1, <1>2, <1>3, <2>1, <2>2, <2>3, KeepStep, Zenon
<1> QED
  BY <1>8, <1>9, <1>10

\* push has claimed its slot: it publishes and links the next chunk, writes, and
\* returns.
LEMMA OwnedPushInv ==
  ASSUME IInv, NEW p \in Producers,
         NextChunk(p) \/ NextLink(p) \/ Write(p) \/ Mark(p)
  PROVE  IInv'
<1>1. p \in Threads /\ Typed
  BY DEF Threads, IInv
<1>2. /\ loc[p] \in Locals /\ loc = [loc EXCEPT ![p] = loc[p]]
      /\ [loc[p] EXCEPT !.next = Null] \in Locals /\ Blank \in Locals
  BY <1>1, LocalsTyped, Zenon
<1>3. /\ next \in [Chunks -> Chunks \cup {Null}]
      /\ head \in [index : Nat, chunk : Chunks \cup {Null}]
      /\ tail \in [index : Nat, chunk : Chunks \cup {Null}]
  BY <1>1 DEF Typed
<1>4. \A l \in PushOwns : l \in Labels /\ l # "take"
  BY DEF Labels, PushOwns
<1>5. CASE NextChunk(p)
  <2>1. /\ pc' = [pc EXCEPT ![p] = "next_index"]
        /\ UNCHANGED <<next, head, loc, pushed, claimed>>
    BY <1>5 DEF NextChunk, Goto, mem
  <2>2. tail' \in [index : Nat, chunk : Chunks \cup {Null}] /\ tail'.index = tail.index
    BY <1>2, <1>3, <1>5 DEF NextChunk, Locals
  <2>3. GoesOn(p, "next_index", loc[p]) /\ "next_index" \in Labels
    BY <1>4, <1>5 DEF NextChunk, At, GoesOn, PushMoves, PushOwns
  <2> QED
    BY <1>1, <1>2, <1>3, <2>1, <2>2, <2>3, KeepStep, Zenon
<1>6. CASE NextLink(p)
  <2> DEFINE r == [loc[p] EXCEPT !.next = Null]
  <2>1. /\ pc' = [pc EXCEPT ![p] = "write"] /\ loc' = [loc EXCEPT ![p] = r]
        /\ UNCHANGED <<head, tail, pushed, claimed>>
        /\ next' = [next EXCEPT ![loc[p].chunk] = loc[p].next]
    BY <1>6 DEF NextLink, Goto
  <2>2. next' \in [Chunks -> Chunks \cup {Null}]
    BY <1>2, <1>3, <2>1, Zenon DEF Locals
  <2>3. r \in Locals /\ r.index = loc[p].index
    BY <1>2 DEF Locals
  <2> HIDE DEF r
  <2>4. GoesOn(p, "write", r) /\ "write" \in Labels
    BY <1>4, <1>6 DEF NextLink, At, GoesOn, PushMoves, PushOwns
  <2> QED
    BY <1>1, <1>3, <2>1, <2>2, <2>3, <2>4, KeepStep, Zenon
<1>7. CASE Write(p)
  <2>1. /\ pc' = [pc EXCEPT ![p] = "mark"]
        /\ UNCHANGED <<next, head, tail, loc, pushed, claimed>>
    BY <1>7 DEF Write, Goto
  <2>2. GoesOn(p, "mark", loc[p]) /\ "mark" \in Labels
    BY <1>4, <1>7 DEF Write, At, GoesOn, PushMoves, PushOwns
  <2> QED
    BY <1>1, <1>2, <1>3, <2>1, <2>2, KeepStep, Zenon
<1>8. CASE Mark(p)
  BY <1>1, <1>2, <1>3, <1>8, FreeStep, Zenon DEF Mark, Return, Goto, Free
<1> QED
  BY <1>5, <1>6, <1>7, <1>8
\* A push moves the tail index to a slot's end: nobody is moving the tail, as its
\* index has a slot; the claim comes last in the order.
LEMMA ClaimInv ==
  ASSUME IInv, NEW p \in Producers, Claim(p)
  PROVE  IInv'
<1> DEFINE l == IF IsLast(p) THEN "next_chunk" ELSE "write"
           item == <<p, pushed[p]>>
<1>1. p \in Threads /\ Typed
  BY DEF Threads, IInv
<1>2. /\ pc[p] = "claim" /\ tail.index = loc[p].index
      /\ tail' = [tail EXCEPT !.index = tail.index + 2]
      /\ claimed' = Append(claimed, item)
      /\ pc' = [pc EXCEPT ![p] = l]
      /\ UNCHANGED <<next, head, loc, pushed>>
  BY DEF Claim, At, Goto, mem
<1>3. /\ tail.index \in Nat /\ tail' \in [index : Nat, chunk : Chunks \cup {Null}]
      /\ tail'.index = tail.index + 2
  <2>1. tail \in [index : Nat, chunk : Chunks \cup {Null}]
    BY <1>1 DEF Typed
  <2> QED
    BY <1>2, <2>1
<1>4. item \in Producers \X Nat /\ claimed \in Seq(Producers \X Nat)
  BY <1>1 DEF Typed
<1> HIDE DEF item
<1>5. /\ claimed' \in Seq(Producers \X Nat) /\ Len(claimed') = Len(claimed) + 1
      /\ claimed'[Len(claimed) + 1] = item /\ Len(claimed) \in Nat
      /\ \A k \in 1..Len(claimed) : claimed'[k] = claimed[k]
  BY <1>2, <1>4
<1>6. l \in {"next_chunk", "write"} /\ l \in Labels /\ l \notin {"take", "wait_next"}
  BY DEF Labels, PushOwns
<1>7. l = "next_chunk" => Offset(loc[p].index) + 1 = CHUNK_CAP
  BY DEF IsLast, offset
<1> HIDE DEF l
<1>8. Typed' /\ Others(p) /\ pc'[p] = l /\ loc'[p] = loc[p]
  <2>1. loc[p] \in Locals /\ loc' = [loc EXCEPT ![p] = loc[p]]
    BY <1>1, <1>2, LocalsTyped, Zenon
  <2>2. /\ next' \in [Chunks -> Chunks \cup {Null}]
        /\ head' \in [index : Nat, chunk : Chunks \cup {Null}]
    BY <1>1, <1>2 DEF Typed
  <2>3. pc' = [pc EXCEPT ![p] = l] /\ pushed' = pushed
    BY <1>2
  <2> QED
    BY <1>1, <1>3, <1>5, <1>6, <2>1, <2>2, <2>3, Assigned, ZenonT(60)
<1>9. Offset(tail.index) # CHUNK_CAP
  BY <1>1, <1>2 DEF IInv, PushOf, PushChecked
<1>10. Len(claimed) = Slots(tail.index)
  BY DEF IInv
<1>11. Slots(tail'.index) = Slots(tail.index) + 1
  BY <1>3, <1>9, PosStep, SlotsStep, ZenonT(60)
<1>12. ASSUME NEW u \in Threads
       PROVE  Slots(loc[u].index) \in Nat /\ loc[u].index \in Nat
  BY <1>1, SlotsNat, Zenon DEF Typed, Locals
<1>13. ASSUME NEW u \in Threads, u # p
       PROVE  pc[u] \notin PushMoves /\ PushOf(u)' /\ PopOf(u)'
  <2>1. PushOf(u) /\ PopOf(u)
    BY DEF IInv
  <2>2. pc[u] \notin PushMoves
    <3> SUFFICES ASSUME pc[u] \in PushMoves PROVE FALSE
      OBVIOUS
    <3>1. Offset(loc[u].index) + 1 = CHUNK_CAP /\ tail.index = loc[u].index + 2
      BY <2>1 DEF PushOf
    <3>2. Offset(loc[u].index) \in Nat /\ Offset(loc[u].index) # CHUNK_CAP
      BY <1>12, <3>1, SlotsNat, LapAssumption DEF CHUNK_CAP
    <3>3. Pos(tail.index) = Pos(loc[u].index) + 1
      BY <1>12, <3>1, PosStep
    <3>4. Offset(tail.index) = Offset(loc[u].index) + 1
      BY <1>3, <1>12, <3>2, <3>3, SlotsStep
    <3> QED
      BY <1>9, <3>1, <3>4
  <2>3. /\ pc'[u] = pc[u] /\ loc'[u] = loc[u]
        /\ u \in Producers => pushed'[u] = pushed[u]
    BY <1>8, <1>13 DEF Others
  <2>4. PushOf(u)'
    <3>1. pc[u] \in PushOwns => Slots(loc[u].index) + 1 \in 1..Len(claimed)
      BY <1>5, <1>12, <2>1 DEF PushOf
    <3> QED
      BY <1>5, <1>12, <2>1, <2>2, <2>3, <3>1 DEF PushOf
  <2>5. PopOf(u)'
    BY <1>2, <2>1, <2>3 DEF PopOf
  <2> QED
    BY <2>2, <2>4, <2>5
<1>14. PushOf(p)'
  <2>1. Slots(loc[p].index) + 1 = Len(claimed) + 1
    BY <1>2, <1>10
  <2> QED
    BY <1>1, <1>2, <1>3, <1>5, <1>6, <1>7, <1>8, <1>12, <2>1
    DEF PushOf, PushChecked, PushMoves, PushOwns, item
<1>15. PopOf(p)'
  BY <1>6, <1>8 DEF PopOf, PopMoves, PopOwns
<1>16. ASSUME NEW u \in Threads, NEW v \in Threads, u # v PROVE Apart(u, v)'
  <2>1. Apart(u, v)
    BY <1>16 DEF IInv
  <2>2. pc'[p] \notin PopOwns /\ pc'[p] \notin PopMoves
    BY <1>6, <1>8 DEF PopOwns, PopMoves
  <2>3. \A w \in Threads : w # p => pc'[w] = pc[w] /\ loc'[w] = loc[w]
    BY <1>8 DEF Others
  <2>4. \A w \in Threads : w # p => pc'[w] \notin PushMoves
    BY <1>13, <2>3
  <2> QED
    BY <1>16, <2>1, <2>2, <2>3, <2>4 DEF Apart
<1>17. Len(claimed)' = Slots(tail.index)'
  BY <1>5, <1>10, <1>11
<1> QED
  BY <1>8, <1>13, <1>14, <1>15, <1>16, <1>17 DEF IInv
\* Who claimed the last slot moves the tail to the next lap: the index it leaves
\* had no slot, so the claims are counted as before.
LEMMA NextIndexInv ==
  ASSUME IInv, NEW p \in Producers, NextIndex(p)
  PROVE  IInv'
<1>1. p \in Threads /\ Typed
  BY DEF Threads, IInv
<1>2. /\ pc[p] = "next_index" /\ tail' = [tail EXCEPT !.index = loc[p].index + 4]
      /\ pc' = [pc EXCEPT ![p] = "next_link"]
      /\ next' = next /\ head' = head /\ loc' = loc /\ pushed' = pushed
      /\ claimed' = claimed
  BY DEF NextIndex, At, Goto, mem
<1>3. /\ loc[p].index \in Nat /\ tail.index \in Nat
      /\ tail' \in [index : Nat, chunk : Chunks \cup {Null}]
      /\ tail'.index = loc[p].index + 4
  <2>1. tail \in [index : Nat, chunk : Chunks \cup {Null}] /\ loc[p].index \in Nat
    BY <1>1 DEF Typed, Locals
  <2> QED
    BY <1>2, <2>1
<1>4. Typed' /\ Others(p) /\ pc'[p] = "next_link" /\ loc'[p] = loc[p]
  <2>1. loc[p] \in Locals /\ loc' = [loc EXCEPT ![p] = loc[p]]
    BY <1>1, <1>2, LocalsTyped, Zenon
  <2>2. /\ next' \in [Chunks -> Chunks \cup {Null}]
        /\ head' \in [index : Nat, chunk : Chunks \cup {Null}]
        /\ claimed' \in Seq(Producers \X Nat)
    BY <1>1, <1>2 DEF Typed
  <2>3. "next_link" \in Labels /\ "next_link" \notin {"take", "wait_next"}
    BY DEF Labels, PushOwns
  <2> QED
    BY <1>1, <1>2, <1>3, <2>1, <2>2, <2>3, Assigned, Zenon
<1>5. PushOf(p) /\ PopOf(p)
  BY <1>1 DEF IInv
<1>6. Slots(tail'.index) = Slots(tail.index)
  <2>1. Offset(loc[p].index) + 1 = CHUNK_CAP /\ tail.index = loc[p].index + 2
    BY <1>2, <1>5 DEF PushOf, PushMoves
  <2>2. Offset(loc[p].index) \in Nat /\ Offset(loc[p].index) # CHUNK_CAP
    BY <1>3, <2>1, SlotsNat, LapAssumption DEF CHUNK_CAP
  <2>3. Pos(tail.index) = Pos(loc[p].index) + 1
    BY <1>3, <2>1, PosStep
  <2>4. Offset(tail.index) = CHUNK_CAP
    BY <1>3, <2>1, <2>2, <2>3, SlotsStep
  <2>5. tail'.index = tail.index + 2 /\ Pos(tail'.index) = Pos(tail.index) + 1
    BY <1>3, <2>1, PosStep
  <2> QED
    BY <1>3, <2>4, <2>5, SlotsStep
<1>7. ASSUME NEW u \in Threads PROVE PushOf(u)' /\ PopOf(u)'
  <2>1. CASE u = p
    BY <1>2, <1>4, <1>5, <2>1
    DEF PushOf, PopOf, PushChecked, PushMoves, PushOwns, PopMoves, PopOwns
  <2>2. CASE u # p
    <3>1. PushOf(u) /\ PopOf(u) /\ pc[u] \notin PushMoves
      BY <1>1, <1>2, <2>2 DEF IInv, Apart, PushMoves
    <3>2. pc'[u] = pc[u] /\ loc'[u] = loc[u]
      BY <1>4, <2>2 DEF Others
    <3> QED
      BY <1>2, <3>1, <3>2 DEF PushOf, PopOf
  <2> QED
    BY <2>1, <2>2
<1>8. ASSUME NEW u \in Threads, NEW v \in Threads, u # v PROVE Apart(u, v)'
  <2>1. Apart(u, v)
    BY <1>8 DEF IInv
  <2>2. pc'[p] \notin PushMoves \cup PopMoves \cup PopOwns
    BY <1>4 DEF PushMoves, PopMoves, PopOwns
  <2>3. \A w \in Threads : w # p => pc'[w] = pc[w] /\ loc'[w] = loc[w]
    BY <1>4 DEF Others
  <2> QED
    BY <1>8, <2>1, <2>2, <2>3 DEF Apart
<1>9. Len(claimed)' = Slots(tail.index)'
  BY <1>2, <1>6 DEF IInv
<1> QED
  BY <1>4, <1>7, <1>8, <1>9 DEF IInv

\* While a pop moves the head, the index there has no slot.
LEMMA HeadHasNoSlot ==
  ASSUME IInv, NEW c \in Threads, pc[c] \in PopMoves
  PROVE  Offset(head.index) = CHUNK_CAP
<1>1. loc[c].index \in Nat /\ head.index \in Nat
  BY DEF IInv, Typed, Locals
<1>2. Offset(loc[c].index) + 1 = CHUNK_CAP /\ Pos(head.index) = Pos(loc[c].index) + 1
  BY DEF IInv, PopOf
<1>3. Offset(loc[c].index) \in Nat /\ Offset(loc[c].index) # CHUNK_CAP
  BY <1>1, <1>2, SlotsNat, LapAssumption DEF CHUNK_CAP
<1> QED
  BY <1>1, <1>2, <1>3, SlotsStep

\* A pop moves the head index past a slot: nobody is moving the head, as its index
\* has a slot, and the places of the other pops are before it.
LEMMA TakeInv ==
  ASSUME IInv, NEW c \in Threads, Take(c)
  PROVE  IInv'
<1> DEFINE l == IF IsLast(c) THEN "wait_next" ELSE "wait_write"
           r == [loc[c] EXCEPT !.new = IF IsLast(c) THEN loc[c].new ELSE 0]
<1>1. Typed /\ PushOf(c) /\ PopOf(c)
  BY DEF IInv
<1>2. /\ pc[c] = "take" /\ head.index = loc[c].index
      /\ head' = [head EXCEPT !.index = loc[c].new]
      /\ pc' = [pc EXCEPT ![c] = l]
      /\ next' = next /\ tail' = tail /\ pushed' = pushed /\ claimed' = claimed
  BY DEF Take, At, Goto, mem
<1>3. loc[c] \in Locals /\ loc[c].index \in Nat /\ loc[c].new \in Nat /\ loc[c].chunk # Null
  BY <1>1, <1>2 DEF Typed, Locals
<1>4. loc' = [loc EXCEPT ![c] = r]
  BY <1>1 DEF Take, Typed
<1>5. /\ r \in Locals /\ r.index = loc[c].index /\ r.chunk # Null
      /\ IsLast(c) => r.new = loc[c].new
  BY <1>3 DEF Locals
<1>6. /\ head.index \in Nat /\ head' \in [index : Nat, chunk : Chunks \cup {Null}]
      /\ head'.index = loc[c].new
  <2>1. head \in [index : Nat, chunk : Chunks \cup {Null}]
    BY <1>1 DEF Typed
  <2> QED
    BY <1>2, <1>3, <2>1
<1>7. /\ l \in {"wait_next", "wait_write"} /\ l \in Labels
      /\ l = "wait_next" => IsLast(c)
  BY DEF Labels, PopOwns
<1> HIDE DEF l, r
<1>8. Typed' /\ Others(c) /\ pc'[c] = l /\ loc'[c] = r
  <2>1. /\ next' \in [Chunks -> Chunks \cup {Null}]
        /\ tail' \in [index : Nat, chunk : Chunks \cup {Null}]
        /\ claimed' \in Seq(Producers \X Nat)
    BY <1>1, <1>2 DEF Typed
  <2>2. Typed /\ l \in Labels /\ r \in Locals /\ r.chunk # Null
    BY <1>1, <1>5, <1>7
  <2>3. pc' = [pc EXCEPT ![c] = l] /\ pushed' = pushed
    BY <1>2
  <2>4. head' \in [index : Nat, chunk : Chunks \cup {Null}]
    BY <1>6
  <2> QED
    BY <1>4, <2>1, <2>2, <2>3, <2>4, Assigned, Zenon
<1>9. Offset(head.index) # CHUNK_CAP /\ Pos(head'.index) = Pos(head.index) + 1
  BY <1>1, <1>2, <1>6 DEF PopOf
<1>10. Slots(head'.index) = Slots(head.index) + 1 /\ Slots(head.index) \in Nat
  BY <1>3, <1>6, <1>9, SlotsStep, SlotsNat, Zenon
<1>11. ASSUME NEW u \in Threads PROVE Slots(loc[u].index) \in Nat
  BY <1>1, SlotsNat, Zenon DEF Typed, Locals
<1>12. ASSUME NEW u \in Threads, u # c
       PROVE  /\ PushOf(u)' /\ PopOf(u)' /\ pc'[u] \notin PopMoves
              /\ pc'[u] \in PopOwns => Slots(loc'[u].index) # Slots(loc'[c].index)
  <2>1. PushOf(u) /\ PopOf(u)
    BY DEF IInv
  <2>2. pc[u] \notin PopMoves
    BY <1>9, HeadHasNoSlot
  <2>3. pc'[u] = pc[u] /\ loc'[u] = loc[u]
    BY <1>8, <1>12 DEF Others
  <2>4. PushOf(u)'
    BY <1>2, <2>1, <2>3 DEF PushOf
  <2>5. pc[u] \in PopOwns => Slots(loc[u].index) < Slots(head.index)
    BY <2>1 DEF PopOf
  <2>6. pc[u] \in PopOwns => Slots(loc[u].index) < Slots(head'.index)
    BY <1>10, <1>11, <2>5
  <2>7. PopOf(u)'
    BY <2>1, <2>2, <2>3, <2>6 DEF PopOf
  <2>8. pc[u] \in PopOwns => Slots(loc[u].index) # Slots(loc[c].index)
    BY <1>2, <1>10, <1>11, <2>5
  <2> QED
    BY <1>5, <1>8, <2>2, <2>3, <2>4, <2>7, <2>8
<1>13. PushOf(c)'
  BY <1>7, <1>8 DEF PushOf, PushChecked, PushMoves, PushOwns
<1>14. PopOf(c)'
  <2>1. Slots(r.index) < Slots(head'.index) /\ Pos(head'.index) = Pos(r.index) + 1
    BY <1>2, <1>5, <1>9, <1>10
  <2>2. l = "wait_next" => /\ Offset(r.index) + 1 = CHUNK_CAP
                           /\ Pos(r.new) = Pos(r.index) + 1
    BY <1>5, <1>6, <1>7, <2>1 DEF IsLast, offset
  <2> QED
    BY <1>7, <1>8, <2>1, <2>2 DEF PopOf, PopMoves, PopOwns
<1>15. ASSUME NEW u \in Threads, NEW v \in Threads, u # v PROVE Apart(u, v)'
  <2>1. Apart(u, v)
    BY <1>15 DEF IInv
  <2>2. pc'[c] \notin PushMoves
    BY <1>7, <1>8 DEF PushMoves
  <2>3. \A w \in Threads : w # c => pc'[w] = pc[w] /\ loc'[w] = loc[w]
    BY <1>8 DEF Others
  <2>4. CASE u = c
    BY <1>12, <1>15, <2>2, <2>4 DEF Apart
  <2>5. CASE v = c
    BY <1>12, <1>15, <2>2, <2>5 DEF Apart
  <2>6. CASE u # c /\ v # c
    BY <2>1, <2>3, <2>6 DEF Apart
  <2> QED
    BY <2>4, <2>5, <2>6
<1>16. Len(claimed)' = Slots(tail.index)'
  BY <1>2 DEF IInv
<1> QED
  BY <1>8, <1>12, <1>13, <1>14, <1>15, <1>16 DEF IInv
\* Who claimed the last slot moves the head to the next lap: the index it leaves
\* had no slot, so there are as many places before the head as there were.
LEMMA HeadIndexInv ==
  ASSUME IInv, NEW c \in Threads, HeadIndex(c)
  PROVE  IInv'
<1> DEFINE r == [loc[c] EXCEPT !.new = 0, !.next = Null]
<1>1. Typed /\ PushOf(c) /\ PopOf(c)
  BY DEF IInv
<1>2. /\ pc[c] = "head_index" /\ head' = [head EXCEPT !.index = loc[c].new]
      /\ pc' = [pc EXCEPT ![c] = "wait_write"]
      /\ next' = next /\ tail' = tail /\ pushed' = pushed /\ claimed' = claimed
  BY DEF HeadIndex, At, Goto, mem
<1>3. loc[c] \in Locals /\ loc[c].index \in Nat /\ loc[c].new \in Nat
  BY <1>1 DEF Typed, Locals
<1>4. loc' = [loc EXCEPT ![c] = r]
  BY <1>1, Zenon DEF HeadIndex, Typed
<1>5. r \in Locals /\ r.index = loc[c].index
  BY <1>3, Zenon DEF Locals
<1>6. /\ head.index \in Nat /\ head' \in [index : Nat, chunk : Chunks \cup {Null}]
      /\ head'.index = loc[c].new
  <2>1. head \in [index : Nat, chunk : Chunks \cup {Null}]
    BY <1>1 DEF Typed
  <2> QED
    BY <1>2, <1>3, <2>1
<1> HIDE DEF r
<1>7. Typed' /\ Others(c) /\ pc'[c] = "wait_write" /\ loc'[c] = r
  <2>1. /\ next' \in [Chunks -> Chunks \cup {Null}]
        /\ tail' \in [index : Nat, chunk : Chunks \cup {Null}]
        /\ claimed' \in Seq(Producers \X Nat)
    BY <1>1, <1>2 DEF Typed
  <2>2. "wait_write" \in Labels /\ "wait_write" \notin {"take", "wait_next"}
    BY DEF Labels, PopOwns
  <2>3. Typed /\ pc' = [pc EXCEPT ![c] = "wait_write"] /\ pushed' = pushed
    BY <1>1, <1>2
  <2>4. r \in Locals /\ head' \in [index : Nat, chunk : Chunks \cup {Null}]
    BY <1>5, <1>6
  <2> QED
    BY <1>4, <2>1, <2>2, <2>3, <2>4, Assigned, Zenon
<1>8. Slots(head'.index) = Slots(head.index)
  <2>1. Offset(head.index) = CHUNK_CAP
    BY <1>2, HeadHasNoSlot DEF PopMoves
  <2>2. /\ Pos(head.index) = Pos(loc[c].index) + 1
        /\ Pos(loc[c].new) = Pos(loc[c].index) + 2
    BY <1>1, <1>2 DEF PopOf, PopMoves
  <2>3. Pos(head'.index) = Pos(head.index) + 1
    BY <1>3, <1>6, <2>2, SlotsNat
  <2> QED
    BY <1>3, <1>6, <2>1, <2>3, SlotsStep
<1>9. ASSUME NEW u \in Threads PROVE PushOf(u)' /\ PopOf(u)'
  <2>1. CASE u = c
    <3>1. Slots(loc[c].index) < Slots(head.index)
      BY <1>1, <1>2 DEF PopOf, PopOwns
    <3>2. Slots(loc'[c].index) < Slots(head'.index)
      BY <1>5, <1>7, <1>8, <3>1
    <3> QED
      BY <1>7, <2>1, <3>2
      DEF PushOf, PopOf, PushChecked, PushMoves, PushOwns, PopMoves
  <2>2. CASE u # c
    <3>1. PushOf(u) /\ PopOf(u) /\ pc[u] \notin PopMoves
      BY <1>2, <2>2 DEF IInv, Apart, PopMoves
    <3>2. pc'[u] = pc[u] /\ loc'[u] = loc[u]
      BY <1>7, <2>2 DEF Others
    <3>3. PushOf(u)'
      BY <1>2, <3>1, <3>2 DEF PushOf
    <3>4. PopOf(u)'
      BY <1>8, <3>1, <3>2 DEF PopOf
    <3> QED
      BY <3>3, <3>4
  <2> QED
    BY <2>1, <2>2
<1>10. ASSUME NEW u \in Threads, NEW v \in Threads, u # v PROVE Apart(u, v)'
  <2>1. Apart(u, v)
    BY <1>10 DEF IInv
  <2>2. pc'[c] \notin PushMoves \cup PopMoves /\ pc[c] \in PopOwns
    BY <1>2, <1>7 DEF PushMoves, PopMoves, PopOwns
  <2>3. \A w \in Threads : loc'[w].index = loc[w].index /\ (w # c => pc'[w] = pc[w])
    BY <1>5, <1>7 DEF Others
  <2> QED
    BY <1>10, <2>1, <2>2, <2>3 DEF Apart
<1>11. Len(claimed)' = Slots(tail.index)'
  BY <1>2 DEF IInv
<1> QED
  BY <1>7, <1>9, <1>10, <1>11 DEF IInv

\* pop has an item in view.
LEMMA PopReadyInv ==
  ASSUME IInv, NEW c \in Threads, PopReady(c)
  PROVE  IInv'
<1>1. Typed
  BY DEF IInv
<1>2. /\ loc[c] \in Locals /\ loc[c].index \in Nat
      /\ [Blank EXCEPT !.next = loc[c].next] \in Locals
  BY <1>1, LocalsTyped, Zenon DEF Locals
<1>3. /\ next \in [Chunks -> Chunks \cup {Null}]
      /\ head \in [index : Nat, chunk : Chunks \cup {Null}]
      /\ tail \in [index : Nat, chunk : Chunks \cup {Null}]
  BY <1>1 DEF Typed
<1>4. CASE loc[c].chunk = Null
  <2>1. /\ pc' = [pc EXCEPT ![c] = "pop_index"]
        /\ loc' = [loc EXCEPT ![c] = [Blank EXCEPT !.next = loc[c].next]]
        /\ UNCHANGED <<next, head, tail, pushed, claimed>>
    BY <1>4 DEF PopReady, Again, Local, Goto, mem
  <2>2. next' \in [Chunks -> Chunks \cup {Null}] /\ UNCHANGED <<head, tail, pushed, claimed>>
    BY <1>3, <2>1
  <2>3. "pop_index" \in Free
    BY DEF Free
  <2> QED
    BY <1>2, <2>1, <2>2, <2>3, FreeStep, Zenon
<1>5. CASE loc[c].chunk # Null
  <2> DEFINE flag == IF HAS_NEXT(loc[c].index) = 0 /\ Lap(loc[c].index) # Lap(tail.index)
                       THEN 1 ELSE 0
             n == loc[c].index + 2 + flag
             r == [loc[c] EXCEPT !.new = n]
  <2>1. /\ pc' = [pc EXCEPT ![c] = "take"] /\ loc' = [loc EXCEPT ![c] = r]
        /\ UNCHANGED <<next, head, tail, pushed, claimed>>
        /\ Offset(loc[c].index) # CHUNK_CAP
    BY <1>5 DEF PopReady, Local, Goto, mem, offset
  <2>2. flag \in {0, 1} /\ (flag = 1 => HAS_NEXT(loc[c].index) = 0)
    OBVIOUS
  <2> HIDE DEF flag
  <2>3. n \in Nat /\ Pos(n) = Pos(loc[c].index) + 1
    <3>1. CASE flag = 0
      <4>1. n = loc[c].index + 2
        BY <1>2, <3>1
      <4> QED
        BY <1>2, <4>1, PosStep
    <3>2. CASE flag = 1
      <4>1. n = loc[c].index + 3
        BY <1>2, <3>2
      <4> QED
        BY <1>2, <2>2, <3>2, <4>1, PosStep
    <3> QED
      BY <2>2, <3>1, <3>2
  <2> HIDE DEF n
  <2>4. r \in Locals /\ r.index = loc[c].index /\ r.new = n /\ r.chunk = loc[c].chunk
    BY <1>2, <2>3 DEF Locals
  <2> HIDE DEF r
  <2>5. GoesOn(c, "take", r) /\ "take" \in Labels
    BY <2>1, <2>3, <2>4 DEF GoesOn, Labels
  <2>6. next' \in [Chunks -> Chunks \cup {Null}] /\ r.chunk # Null
    BY <1>3, <1>5, <2>1, <2>4
  <2>7. /\ head' \in [index : Nat, chunk : Chunks \cup {Null}]
        /\ tail' \in [index : Nat, chunk : Chunks \cup {Null}]
        /\ head'.index = head.index /\ tail'.index = tail.index
        /\ UNCHANGED <<pushed, claimed>>
    BY <1>3, <2>1
  <2> QED
    BY <2>1, <2>4, <2>5, <2>6, <2>7, KeepStep, Zenon
<1> QED
  BY <1>4, <1>5
\* pop has claimed its slot: it finds the next chunk and moves the head there,
\* waits for the slot and reads it.
LEMMA OwnedPopInv ==
  ASSUME IInv, NEW c \in Threads,
         WaitNext(c) \/ Peek(c) \/ HeadChunk(c) \/ WaitWrite(c)
  PROVE  IInv'
<1>1. Typed /\ PopOf(c)
  BY DEF IInv
<1>2. /\ loc[c] \in Locals /\ loc = [loc EXCEPT ![c] = loc[c]]
      /\ loc[c].index \in Nat /\ loc[c].new \in Nat
      /\ loc[c].next \in Chunks \cup {Null} /\ loc[c].chunk \in Chunks \cup {Null}
  BY <1>1, LocalsTyped, Zenon DEF Locals
<1>3. /\ next \in [Chunks -> Chunks \cup {Null}]
      /\ head \in [index : Nat, chunk : Chunks \cup {Null}]
      /\ tail \in [index : Nat, chunk : Chunks \cup {Null}]
  BY <1>1 DEF Typed
<1>4. \A l \in PopOwns : l \in Labels /\ l # "take"
  BY DEF Labels, PopOwns
<1>5. CASE WaitNext(c)
  <2> DEFINE r == [loc[c] EXCEPT !.next = next[loc[c].chunk]]
  <2>1. /\ pc[c] = "wait_next" /\ pc' = [pc EXCEPT ![c] = "peek"]
        /\ loc' = [loc EXCEPT ![c] = r]
        /\ UNCHANGED <<next, head, tail, pushed, claimed>>
    BY <1>5 DEF WaitNext, At, Local, Goto, mem
  <2>2. next[loc[c].chunk] \in Chunks \cup {Null}
    BY <1>1, <1>2, <1>3, <2>1 DEF Typed
  <2>3. r \in Locals /\ r.index = loc[c].index /\ r.new = loc[c].new
    BY <1>2, <2>2 DEF Locals
  <2> HIDE DEF r
  <2>4. GoesOn(c, "peek", r) /\ "peek" \in Labels
    BY <1>4, <2>1, <2>3 DEF GoesOn, PopOwns
  <2> QED
    BY <1>3, <2>1, <2>3, <2>4, KeepStep, Zenon
<1>6. CASE Peek(c)
  <2> DEFINE flag == IF next[loc[c].next] # Null THEN 1 ELSE 0
             n == loc[c].new - HAS_NEXT(loc[c].new) + 2 + flag
             r == [loc[c] EXCEPT !.new = n]
  <2>1. /\ pc[c] = "peek" /\ pc' = [pc EXCEPT ![c] = "head_chunk"]
        /\ loc' = [loc EXCEPT ![c] = r]
        /\ UNCHANGED <<next, head, tail, pushed, claimed>>
    BY <1>6 DEF Peek, At, Local, Goto, mem
  <2>2. flag \in {0, 1}
    OBVIOUS
  <2> HIDE DEF flag
  <2>3. n \in Nat /\ Pos(n) = Pos(loc[c].new) + 1
    <3>1. loc[c].new - HAS_NEXT(loc[c].new) \in Nat
      BY <1>2, PosStep
    <3>2. n \in Nat /\ n \in {loc[c].new - HAS_NEXT(loc[c].new) + 2,
                              loc[c].new - HAS_NEXT(loc[c].new) + 3}
      BY <2>2, <3>1
    <3> HIDE DEF n
    <3> QED
      BY <1>2, <3>2, PosStep
  <2> HIDE DEF n
  <2>4. r \in Locals /\ r.index = loc[c].index /\ r.new = n
    BY <1>2, <2>3 DEF Locals
  <2> HIDE DEF r
  <2>5. Pos(r.new) = Pos(r.index) + 2
    <3>1. Pos(loc[c].new) = Pos(loc[c].index) + 1 /\ Pos(loc[c].index) \in Nat
      BY <1>1, <1>2, <2>1, SlotsNat DEF PopOf
    <3> QED
      BY <2>3, <2>4, <3>1
  <2>6. GoesOn(c, "head_chunk", r) /\ "head_chunk" \in Labels
    BY <1>4, <2>1, <2>5 DEF GoesOn, PopOwns
  <2> QED
    BY <1>3, <2>1, <2>4, <2>6, KeepStep, Zenon
<1>7. CASE HeadChunk(c)
  <2>1. /\ pc[c] = "head_chunk" /\ pc' = [pc EXCEPT ![c] = "head_index"]
        /\ UNCHANGED <<next, tail, loc, pushed, claimed>>
    BY <1>7 DEF HeadChunk, At, Goto, mem
  <2>2. head' \in [index : Nat, chunk : Chunks \cup {Null}] /\ head'.index = head.index
    BY <1>2, <1>3, <1>7 DEF HeadChunk
  <2>3. GoesOn(c, "head_index", loc[c]) /\ "head_index" \in Labels
    BY <1>4, <2>1 DEF GoesOn, PopOwns
  <2> QED
    BY <1>2, <1>3, <2>1, <2>2, <2>3, KeepStep, Zenon
<1>8. CASE WaitWrite(c)
  <2>1. /\ pc[c] = "wait_write" /\ pc' = [pc EXCEPT ![c] = "done"]
        /\ UNCHANGED <<next, head, tail, loc, pushed, claimed>>
    BY <1>8 DEF WaitWrite, At, Goto, mem
  <2>2. GoesOn(c, "done", loc[c]) /\ "done" \in Labels
    BY <1>4, <2>1 DEF GoesOn, PopOwns
  <2> QED
    BY <1>2, <1>3, <2>1, <2>2, KeepStep, ZenonT(60)
<1> QED
  BY <1>5, <1>6, <1>7, <1>8

\* pop has read its slot: it returns, or destroys the chunk slot by slot.
LEMMA DestroyInv ==
  ASSUME IInv, NEW c \in Threads, Done(c) \/ Destroy(c) \/ DestroyOr(c)
  PROVE  IInv'
<1>1. Typed
  BY DEF IInv
<1>2. /\ next' = next /\ head' = head /\ tail' = tail /\ pushed' = pushed
      /\ claimed' = claimed
  BY DEF Done, Destroy, DestroyOr
<1>3. /\ loc[c] \in Locals /\ loc = [loc EXCEPT ![c] = loc[c]] /\ Blank \in Locals
      /\ \A n \in Nat : [loc[c] EXCEPT !.i = n] \in Locals
  BY <1>1, LocalsTyped, Zenon
<1>4. loc[c].i \in Nat /\ offset(c) \in Nat
  <2>1. loc[c].i \in Nat /\ loc[c].index \in Nat
    BY <1>3 DEF Locals
  <2>2. Offset(loc[c].index) \in 0..CHUNK_CAP
    BY <2>1, SlotsNat
  <2> QED
    BY <2>1, <2>2 DEF offset
<1>5. ASSUME NEW n \in Nat, DestroyFrom(c, n)
      PROVE  /\ pc' = [pc EXCEPT ![c] = "destroy"]
             /\ loc' = [loc EXCEPT ![c] = [loc[c] EXCEPT !.i = n]]
  BY <1>1, <1>5 DEF DestroyFrom, Goto, Typed
<1>6. \E l \in Free, r \in Locals :
        pc' = [pc EXCEPT ![c] = l] /\ loc' = [loc EXCEPT ![c] = r]
  <2>1. \/ \E n \in Nat : DestroyFrom(c, n)
        \/ Return(c)
        \/ Goto(c, "destroy_or") /\ loc' = loc
    <3>1. 0 \in Nat /\ loc[c].i + 1 \in Nat /\ offset(c) + 1 \in Nat
      BY <1>4
    <3> QED
      BY <3>1 DEF Done, Destroy, DestroyOr
  <2>2. "idle" \in Free /\ "destroy" \in Free /\ "destroy_or" \in Free
    BY DEF Free
  <2>3. CASE \E n \in Nat : DestroyFrom(c, n)
    <3>1. PICK n \in Nat : DestroyFrom(c, n)
      BY <2>3
    <3>2. /\ pc' = [pc EXCEPT ![c] = "destroy"]
          /\ loc' = [loc EXCEPT ![c] = [loc[c] EXCEPT !.i = n]]
      BY <1>5, <3>1
    <3> QED
      BY <1>3, <2>2, <3>2, Zenon
  <2>4. CASE Return(c)
    BY <1>3, <2>2, <2>4, Zenon DEF Return, Goto
  <2>5. CASE Goto(c, "destroy_or") /\ loc' = loc
    BY <1>3, <2>2, <2>5, Zenon DEF Goto
  <2> QED
    BY <2>1, <2>3, <2>4, <2>5
<1>7. next' \in [Chunks -> Chunks \cup {Null}] /\ UNCHANGED <<head, tail, pushed, claimed>>
  BY <1>1, <1>2 DEF Typed
<1> QED
  BY <1>6, <1>7, FreeStep, Zenon

\* The queue is dropped: no thread is in a call.
LEMMA DropInv == ASSUME IInv, DropQueue PROVE IInv'
<1>1. /\ pc' = [t \in Threads |-> "gone"]
      /\ UNCHANGED <<next, head, tail, loc, pushed, claimed>>
  BY DEF DropQueue
<1>2. /\ pc' \in [Threads -> Labels]
      /\ \A t \in Threads : pc'[t] = "gone"
  BY <1>1 DEF Labels
<1>3. Typed'
  BY <1>1, <1>2 DEF IInv, Typed
<1>4. \A t \in Threads : PushOf(t)' /\ PopOf(t)'
  BY <1>2 DEF PushOf, PopOf, PushChecked, PushMoves, PushOwns, PopMoves, PopOwns
<1>5. \A t, u \in Threads : Apart(t, u)'
  BY <1>2 DEF Apart, PushMoves, PopMoves, PopOwns
<1> QED
  BY <1>1, <1>3, <1>4, <1>5 DEF IInv

-----------------------------------------------------------------------------
(* The theorem *)

\* Every step keeps the invariant.
LEMMA NextInv == IInv /\ [Next]_vars => IInv'
<1> SUFFICES ASSUME IInv, [Next]_vars PROVE IInv'
  OBVIOUS
<1>1. ASSUME NEW p \in Producers, Push(p) \/ PushStep(p) PROVE IInv'
  <2>1. p \in Threads
    BY DEF Threads
  <2> QED
    BY <1>1, <2>1, PushInv, ReadSteps, ReadyInv, ClaimInv, NextIndexInv, OwnedPushInv
    DEF PushStep
<1>2. ASSUME NEW c \in Consumers, TryPop(c) \/ PopStep(c) PROVE IInv'
  <2>1. c \in Threads
    BY DEF Threads
  <2> QED
    BY <1>2, <2>1, ReadSteps, PopReadyInv, TakeInv, OwnedPopInv, HeadIndexInv, DestroyInv
    DEF PopStep
<1>3. ASSUME NEW c \in Observers, CallLen(c) \/ LenStep(c) PROVE IInv'
  BY <1>3, ObserverAssumption, ReadSteps
<1>4. CASE UNCHANGED vars
  BY <1>4, ZenonT(60) DEF vars, mem, IInv, Typed, PushOf, PopOf, Apart
<1> QED
  BY <1>1, <1>2, <1>3, <1>4, DropInv DEF Next

\* The invariant says that the claims are exclusive.
LEMMA InvExclusive == IInv => ClaimsAreExclusive
  BY Zenon DEF IInv, PushOf, Apart, ClaimsAreExclusive, Threads

\* However many threads push and pop, each slot goes to one push and to one pop:
\* push writes where its own claim is in the order of all claims, and no two
\* pops that are still waiting or reading have the same place.
THEOREM ClaimsCorrect == Spec => []ClaimsAreExclusive
<1>1. Spec => []IInv
  BY InitInv, NextInv, PTL DEF Spec
<1> QED
  BY <1>1, InvExclusive, PTL
=============================================================================
