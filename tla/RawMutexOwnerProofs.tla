------------------------ MODULE RawMutexOwnerProofs ------------------------
(***************************************************************************)
(* Proofs about who owns a mutex: that lock() and the guard's drop exclude *)
(* each other, and that they implement MutexSpec, for any number of        *)
(* threads and of mutexes that share a bucket.  They rest on LotInv, the   *)
(* inductive invariant of RawMutexProofs.                                  *)
(***************************************************************************)
EXTENDS RawMutexProofs

(* Ownership *)

\* The lock bit says exactly that the mutex has an owner, and there is one.
OwnerInv == /\ \A t \in Threads, m \in Mutexes : Owns(t, m) => LOCKED_BIT \in state[m]
            /\ MutualExclusion
            /\ LockedHasOwner

\* t owns m without a guard: it is in unlock_slow, or was handed the mutex.
Between(t, m) ==
  key[t] = m /\ (pc[t] \in {"unlock_slow", "unpark"} \/ HandedOff(t))

\* A thread that only locks and drops has one guard of a mutex at most, and none
\* while it gives the mutex back or is about to get it.
HeldInv == \A t \in Threads, m \in Mutexes :
             held[t][m] \in {0, 1} /\ (Between(t, m) => held[t][m] = 0)

Calm(t) == \A m \in Mutexes : ~Waits(t, m)

SameBits == \A m \in Mutexes : LOCKED_BIT \in state'[m] <=> LOCKED_BIT \in state[m]

\* To the callers a step does one of five things.  Nobody gets or loses a mutex,
\* and no call begins or ends:
Kept == /\ \A u \in Threads, n \in Mutexes :
             (Owns(u, n)' <=> Owns(u, n)) /\ (Waits(u, n)' <=> Waits(u, n))
        /\ SameBits

\* thread t begins to wait for m:
Asked(t, m) == /\ Calm(t)
               /\ \A u \in Threads, n \in Mutexes :
                    /\ Owns(u, n)' <=> Owns(u, n)
                    /\ Waits(u, n)' <=> Waits(u, n) \/ (u = t /\ n = m)
               /\ SameBits

\* thread t gets m, which was free:
Gained(t, m) == /\ Waits(t, m) \/ Calm(t)
                /\ LOCKED_BIT \notin state[m]
                /\ \A u \in Threads, n \in Mutexes :
                     /\ Owns(u, n)' <=> Owns(u, n) \/ (u = t /\ n = m)
                     /\ Waits(u, n)' <=> Waits(u, n) /\ ~(u = t /\ n = m)
                /\ \A n \in Mutexes :
                     LOCKED_BIT \in state'[n] <=> LOCKED_BIT \in state[n] \/ n = m

\* thread t gives m up:
Lost(t, m) == /\ Calm(t)
              /\ Owns(t, m)
              /\ \A u \in Threads, n \in Mutexes :
                   /\ Owns(u, n)' <=> Owns(u, n) /\ ~(u = t /\ n = m)
                   /\ Waits(u, n)' <=> Waits(u, n)
              /\ \A n \in Mutexes :
                   LOCKED_BIT \in state'[n] <=> LOCKED_BIT \in state[n] /\ n # m

\* thread t hands m to w.
Passed(t, w, m) == /\ Calm(t)
                   /\ Owns(t, m) /\ Waits(w, m) /\ t # w
                   /\ \A u \in Threads, n \in Mutexes :
                        /\ Owns(u, n)' <=> \/ Owns(u, n) /\ ~(u = t /\ n = m)
                                           \/ u = w /\ n = m
                        /\ Waits(u, n)' <=> Waits(u, n) /\ ~(u = w /\ n = m)
                   /\ SameBits

OwnersChange == \/ Kept
                \/ \E t \in Threads, m \in Mutexes :
                     \/ Asked(t, m) \/ Gained(t, m) \/ Lost(t, m)
                     \/ \E w \in Threads : Passed(t, w, m)

\* Each of the five keeps the ownership invariant.
LEMMA OwnerStep ==
  ASSUME OwnerInv, OwnersChange
  PROVE  OwnerInv'
<1> USE DEF OwnerInv, MutualExclusion, LockedHasOwner, SameBits
<1>1. CASE Kept
  BY <1>1 DEF Kept
<1>2. ASSUME NEW t \in Threads, NEW m \in Mutexes, Gained(t, m) PROVE OwnerInv'
  BY <1>2, SMTT(30) DEF Gained
<1>3. ASSUME NEW t \in Threads, NEW m \in Mutexes, Lost(t, m) PROVE OwnerInv'
  BY <1>3, SMTT(30) DEF Lost
<1>4. ASSUME NEW t \in Threads, NEW w \in Threads, NEW m \in Mutexes, Passed(t, w, m)
      PROVE  OwnerInv'
  BY <1>4, SMTT(30) DEF Passed
<1>5. ASSUME NEW t \in Threads, NEW m \in Mutexes, Asked(t, m) PROVE OwnerInv'
  BY <1>5 DEF Asked
<1> QED
  BY <1>1, <1>2, <1>3, <1>4, <1>5 DEF OwnersChange

InCall == {"load", "slow", "park", "validate", "enqueue"}

\* What a thread that does not move, or is not handed a mutex, owns and waits for.
LEMMA Stays ==
  ASSUME NEW u \in Threads, NEW n \in Mutexes,
         pc'[u] = pc[u], key'[u] = key[u], held'[u][n] = held[u][n],
         token'[u] = token[u], Queued(u)' <=> Queued(u)
  PROVE  /\ Owns(u, n)' <=> Owns(u, n)
         /\ Waits(u, n)' <=> Waits(u, n)
         /\ Between(u, n)' <=> Between(u, n)
BY DEF Owns, Waits, Between, HandedOff

\* Where a thread is says what it owns and waits for.
LEMMA Where ==
  ASSUME NEW u \in Threads, NEW n \in Mutexes
  PROVE  /\ pc[u] \in {"idle", "wake"} =>
              (Owns(u, n) <=> held[u][n] > 0) /\ ~Waits(u, n) /\ ~Between(u, n)
         /\ pc[u] \in InCall =>
              /\ Owns(u, n) <=> held[u][n] > 0
              /\ Waits(u, n) <=> key[u] = n
              /\ ~Between(u, n)
         /\ pc[u] \in {"unlock_slow", "unpark"} =>
              /\ Owns(u, n) <=> held[u][n] > 0 \/ key[u] = n
              /\ ~Waits(u, n)
              /\ Between(u, n) <=> key[u] = n
         /\ pc[u] = "parked" =>
              /\ Owns(u, n) <=> held[u][n] > 0 \/ (key[u] = n /\ HandedOff(u))
              /\ Waits(u, n) <=> key[u] = n /\ ~HandedOff(u)
              /\ Between(u, n) <=> key[u] = n /\ HandedOff(u)
BY DEF Owns, Waits, Between, HandedOff, InCall

\* The same of the next state.
LEMMA WhereNext ==
  ASSUME NEW u \in Threads, NEW n \in Mutexes
  PROVE  /\ pc'[u] \in {"idle", "wake"} =>
              (Owns(u, n)' <=> held'[u][n] > 0) /\ ~Waits(u, n)' /\ ~Between(u, n)'
         /\ pc'[u] \in InCall =>
              /\ Owns(u, n)' <=> held'[u][n] > 0
              /\ Waits(u, n)' <=> key'[u] = n
              /\ ~Between(u, n)'
         /\ pc'[u] \in {"unlock_slow", "unpark"} =>
              /\ Owns(u, n)' <=> held'[u][n] > 0 \/ key'[u] = n
              /\ ~Waits(u, n)'
              /\ Between(u, n)' <=> key'[u] = n
         /\ pc'[u] = "parked" =>
              /\ Owns(u, n)' <=> held'[u][n] > 0 \/ (key'[u] = n /\ HandedOff(u)')
              /\ Waits(u, n)' <=> key'[u] = n /\ ~HandedOff(u)'
              /\ Between(u, n)' <=> key'[u] = n /\ HandedOff(u)'
BY DEF Owns, Waits, Between, HandedOff, InCall

\* If no guard, queue, token or key changes and no lock bit, and a thread only
\* moves within lock(), within unlock() or outside, then ownership is kept.
LEMMA OwnersKept ==
  ASSUME HeldInv, UNCHANGED <<held, queue, token, key>>, SameBits,
         \A u \in Threads :
           \/ pc'[u] = pc[u]
           \/ pc[u] \in {"unlock_slow", "unpark"} /\ pc'[u] \in {"unlock_slow", "unpark"}
           \/ pc[u] \in InCall /\ pc'[u] \in InCall
           \/ pc[u] \in {"idle", "wake"} /\ pc'[u] \in {"idle", "wake"}
  PROVE  Kept /\ HeldInv'
<1>1. ASSUME NEW u \in Threads, NEW n \in Mutexes
      PROVE  /\ Owns(u, n)' <=> Owns(u, n)
             /\ Waits(u, n)' <=> Waits(u, n)
             /\ Between(u, n)' <=> Between(u, n)
  <2>1. CASE pc'[u] = pc[u]
    BY <2>1, Stays, QueuedSame
  <2>2. CASE pc'[u] # pc[u]
    BY <2>2, Where, WhereNext
  <2> QED
    BY <2>1, <2>2
<1> QED
  BY <1>1 DEF Kept, HeldInv

\* A thread that sets the lock bit of a free mutex and returns from lock() gains it.
LEMMA OwnerGains ==
  ASSUME TypeOK, TypeOK', OwnerInv, HeldInv, NEW t \in Threads, NEW m \in Mutexes,
         pc[t] \in {"idle", "slow"}, Moved(t, "idle"), UNCHANGED <<queue, token>>,
         pc[t] = "slow" => key[t] = m,
         key'[t] = m, \A u \in Threads \ {t} : key'[u] = key[u],
         LOCKED_BIT \notin state[m],
         state' = [state EXCEPT ![m] = @ \cup {LOCKED_BIT}],
         Gain(t, m)
  PROVE  Gained(t, m) /\ HeldInv'
<1>0. state \in [Mutexes -> SUBSET Bits] /\ held \in [Threads -> [Mutexes -> Nat]]
  BY Zenon DEF TypeOK
<1>1. /\ \A u \in Threads, n \in Mutexes : u # t \/ n # m => held'[u][n] = held[u][n]
      /\ held'[t][m] = held[t][m] + 1
  BY <1>0, HeldChange
<1>2. ~Owns(t, m) /\ held[t][m] = 0
  BY DEF OwnerInv, HeldInv, Owns
<1>3. ASSUME NEW u \in Threads \ {t}, NEW n \in Mutexes
      PROVE  /\ Owns(u, n)' <=> Owns(u, n)
             /\ Waits(u, n)' <=> Waits(u, n)
             /\ Between(u, n)' <=> Between(u, n)
  BY <1>1, Stays, QueuedSame DEF Moved
<1>4. ASSUME NEW n \in Mutexes
      PROVE  /\ Owns(t, n)' <=> Owns(t, n) \/ n = m
             /\ ~Waits(t, n)' /\ ~Between(t, n)'
             /\ Waits(t, n) => n = m
             /\ pc[t] = "idle" => ~Waits(t, n)
             /\ pc[t] = "slow" => Waits(t, m)
  BY <1>1, <1>2, Where, WhereNext DEF Moved, InCall
<1>5. \A n \in Mutexes : LOCKED_BIT \in state'[n] <=> LOCKED_BIT \in state[n] \/ n = m
  BY <1>0
<1>6. Waits(t, m) \/ Calm(t)
  BY <1>4 DEF Calm
<1>7. Gained(t, m)
  BY <1>3, <1>4, <1>5, <1>6 DEF Gained
<1>8. HeldInv'
  BY <1>1, <1>2, <1>3, <1>4 DEF HeldInv
<1> QED
  BY <1>7, <1>8

\* The fast path of unlock(), and the slow one if nobody is queued: the lock bit
\* is cleared and the mutex handed to nobody.
LEMMA OwnerLoses ==
  ASSUME TypeOK, TypeOK', HeldInv, NEW t \in Threads, NEW m \in Mutexes,
         Moved(t, "idle"), UNCHANGED <<queue, token>>,
         \A u \in Threads \ {t} : key'[u] = key[u],
         \/ pc[t] = "idle" /\ GiveUp(t, m)
         \/ pc[t] = "unpark" /\ key[t] = m /\ UNCHANGED held,
         LOCKED_BIT \notin state'[m],
         \A n \in Mutexes \ {m} : state'[n] = state[n]
  PROVE  Lost(t, m) /\ HeldInv'
<1>0. held \in [Threads -> [Mutexes -> Nat]]
  BY Zenon DEF TypeOK
<1>1. \A u \in Threads, n \in Mutexes : u # t \/ n # m => held'[u][n] = held[u][n]
  BY <1>0, HeldChange
<1>2. held'[t][m] = 0
  BY <1>0, HeldChange DEF HeldInv, Between
<1>3. ASSUME NEW u \in Threads \ {t}, NEW n \in Mutexes
      PROVE  /\ Owns(u, n)' <=> Owns(u, n)
             /\ Waits(u, n)' <=> Waits(u, n)
             /\ Between(u, n)' <=> Between(u, n)
  BY <1>1, Stays, QueuedSame DEF Moved
<1>4. Owns(t, m)
  BY <1>0, HeldChange DEF Owns
<1>5. ASSUME NEW n \in Mutexes
      PROVE  /\ Owns(t, n)' <=> Owns(t, n) /\ n # m
             /\ ~Waits(t, n) /\ ~Waits(t, n)' /\ ~Between(t, n)'
  BY <1>1, <1>2, Where, WhereNext DEF Moved
<1>6. Lost(t, m)
  BY <1>3, <1>4, <1>5 DEF Lost, Calm
<1>7. HeldInv'
  BY <1>1, <1>2, <1>3, <1>5 DEF HeldInv
<1> QED
  BY <1>6, <1>7

\* unlock() finds more than the lock bit: the guard is gone, and the mutex stays
\* with the thread until unlock_slow has stored the state.
LEMMA OwnerKeeps ==
  ASSUME TypeOK, HeldInv, NEW t \in Threads, NEW m \in Mutexes,
         pc[t] = "idle", Moved(t, "unlock_slow"), UNCHANGED <<state, queue, token>>,
         key'[t] = m, \A u \in Threads \ {t} : key'[u] = key[u],
         GiveUp(t, m)
  PROVE  Kept /\ HeldInv'
<1>0. held \in [Threads -> [Mutexes -> Nat]]
  BY Zenon DEF TypeOK
<1>1. \A u \in Threads, n \in Mutexes : u # t \/ n # m => held'[u][n] = held[u][n]
  BY <1>0, HeldChange
<1>2. held[t][m] > 0 /\ held'[t][m] = 0
  BY <1>0, HeldChange DEF HeldInv
<1>3. ASSUME NEW u \in Threads \ {t}, NEW n \in Mutexes
      PROVE  /\ Owns(u, n)' <=> Owns(u, n)
             /\ Waits(u, n)' <=> Waits(u, n)
             /\ Between(u, n)' <=> Between(u, n)
  BY <1>1, Stays, QueuedSame DEF Moved
<1>4. ASSUME NEW n \in Mutexes
      PROVE  /\ Owns(t, n)' <=> Owns(t, n)
             /\ ~Waits(t, n) /\ ~Waits(t, n)'
             /\ Between(t, n)' <=> n = m
  BY <1>1, <1>2, Where, WhereNext DEF Moved
<1> QED
  BY <1>1, <1>2, <1>3, <1>4 DEF Kept, HeldInv, SameBits

\* unlock_slow with somebody in the list: be_fair decides whether that thread
\* becomes the owner or the mutex is free.
LEMMA UnparkPasses ==
  ASSUME LotInv, OwnerInv, HeldInv, NEW t \in Threads, Unpark(t)
  PROVE  /\ \/ Lost(t, key[t])
            \/ \E w \in Threads : Passed(t, w, key[t])
         /\ HeldInv'
<1>b. /\ pc \in [Threads -> Labels] /\ key \in [Threads -> Mutexes]
      /\ state \in [Mutexes -> SUBSET Bits] /\ queue \in Seq(Threads)
      /\ QueueInv
  BY LotFacts
<1>c. token \in [Threads -> {TOKEN_NORMAL, TOKEN_HANDOFF}]
  BY Zenon DEF LotInv, TypeOK
<1>m. PICK m \in Mutexes : m = key[t]
  BY <1>b
<1>0. PICK i \in ParkedAt(m), be_fair \in BOOLEAN :
        /\ state' = [state EXCEPT ![m] =
              UnlockState(@, be_fair, \E j \in ParkedAt(m) : i < j)]
        /\ token' = [token EXCEPT ![queue[i]] = UnlockToken(be_fair)]
        /\ queue' = Unlinked(queue, i)
  BY <1>m, Zenon DEF Unpark
<1>1. i \in 1..Len(queue) /\ queue[i] \in Threads /\ key[queue[i]] = m
  BY <1>b DEF ParkedAt
<1>w. PICK w \in Threads : w = queue[i] /\ key[w] = m
  BY <1>1
<1>2. \A u \in Threads : Queued(u)' <=> Queued(u) /\ u # w
  BY <1>b, <1>0, <1>1, <1>w, QueuedRemove, Zenon
<1>3. pc[t] = "unpark" /\ Moved(t, "wake") /\ UNCHANGED <<held, key>>
  BY <1>b, GotoMoves DEF Unpark, guardVars
<1>4. Queued(w) /\ pc[w] = "parked" /\ w # t
  BY <1>b, <1>1, <1>3, <1>w DEF Queued, QueueInv
<1>5. token'[w] = UnlockToken(be_fair) /\ \A u \in Threads \ {w} : token'[u] = token[u]
  BY <1>c, <1>0, <1>w
<1>6. \A n \in Mutexes \ {m} : state'[n] = state[n]
  BY <1>b, <1>0
<1>7. state'[m] = UnlockState(state[m], be_fair, \E j \in ParkedAt(m) : i < j)
  BY <1>b, <1>0, Zenon
<1>8. ASSUME NEW u \in Threads \ {t, w}, NEW n \in Mutexes
      PROVE  /\ Owns(u, n)' <=> Owns(u, n)
             /\ Waits(u, n)' <=> Waits(u, n)
             /\ Between(u, n)' <=> Between(u, n)
  BY <1>2, <1>3, <1>5, Stays DEF Moved
<1>9. Owns(t, m) /\ held[t][m] = 0 /\ LOCKED_BIT \in state[m]
  BY <1>m, <1>3 DEF Owns, HeldInv, Between, OwnerInv
<1>10. ASSUME NEW n \in Mutexes
       PROVE  /\ Owns(t, n)' <=> Owns(t, n) /\ n # m
              /\ ~Waits(t, n) /\ ~Waits(t, n)' /\ ~Between(t, n)'
  <2>1. ~Waits(t, n) /\ (Owns(t, n) <=> held[t][n] > 0 \/ n = m)
    BY <1>m, <1>3, Where
  <2>2. ~Waits(t, n)' /\ ~Between(t, n)' /\ (Owns(t, n)' <=> held[t][n] > 0)
    BY <1>3, WhereNext DEF Moved
  <2> QED
    BY <1>9, <2>1, <2>2
<1>11. ~Owns(w, m) /\ held[w][m] = 0
  BY <1>4, <1>9 DEF OwnerInv, MutualExclusion, Owns, HeldInv
<1>12. ~HandedOff(w) /\ pc'[w] = "parked" /\ (HandedOff(w)' <=> be_fair)
  <2>1. be_fair <=> token'[w] = TOKEN_HANDOFF
    BY <1>5 DEF UnlockToken, TOKEN_NORMAL, TOKEN_HANDOFF
  <2> QED
    BY <1>2, <1>3, <1>4, <2>1 DEF HandedOff, Moved
<1>13. ASSUME NEW n \in Mutexes
       PROVE  /\ Owns(w, n)' <=> Owns(w, n) \/ (n = m /\ be_fair)
              /\ Waits(w, n) <=> n = m
              /\ Waits(w, n)' <=> n = m /\ ~be_fair
              /\ Between(w, n)' <=> n = m /\ be_fair
  BY <1>w, <1>3, <1>4, <1>12, Where, WhereNext
<1>14. HeldInv'
  BY <1>3, <1>8, <1>10, <1>11, <1>13 DEF HeldInv
<1>15. CASE be_fair = TRUE
  <2>1. LOCKED_BIT \in state'[m]
    BY <1>7, <1>9, <1>15, SMTT(60) DEF UnlockState
  <2>2. SameBits
    BY <1>6, <1>9, <2>1 DEF SameBits
  <2>3. Passed(t, w, m)
    BY <1>4, <1>8, <1>9, <1>10, <1>13, <1>15, <2>2 DEF Passed, Calm
  <2> QED
    BY <1>m, <1>14, <2>3
<1>16. CASE be_fair = FALSE
  <2>1. LOCKED_BIT \notin state'[m]
    BY <1>7, <1>16 DEF UnlockState, LOCKED_BIT, PARKED_BIT
  <2>2. Lost(t, m)
    BY <1>6, <1>8, <1>9, <1>10, <1>13, <1>16, <2>1 DEF Lost, Calm
  <2> QED
    BY <1>m, <1>14, <2>2
<1> QED
  BY <1>15, <1>16, ZenonT(60)

\* What every step of a thread does to the owners.
LEMMA OwnerChange ==
  ASSUME LotInv, LotInv', OwnerInv, HeldInv, [LockNext]_vars
  PROVE  OwnersChange /\ HeldInv'
<1>t. TypeOK /\ TypeOK'
  BY DEF LotInv
<1>b. /\ pc \in [Threads -> Labels] /\ key \in [Threads -> Mutexes]
      /\ state \in [Mutexes -> SUBSET Bits]
  BY LotFacts
<1>s. UNCHANGED state => SameBits
  BY DEF SameBits
<1> USE DEF guardVars
<1>1. ASSUME NEW t \in Threads, NEW m \in Mutexes, LockFast(t, m)
      PROVE  Gained(t, m) /\ HeldInv'
  <2>1. /\ pc[t] = "idle" /\ Moved(t, "idle") /\ UNCHANGED <<queue, token>>
        /\ key'[t] = m /\ \A u \in Threads \ {t} : key'[u] = key[u]
        /\ LOCKED_BIT \notin state[m] /\ Gain(t, m)
    BY <1>1, <1>b, GotoMoves DEF LockFast, Acquired, lotVars
  <2>2. state' = [state EXCEPT ![m] = @ \cup {LOCKED_BIT}]
    BY <1>1, <1>b DEF LockFast
  <2> QED
    BY <1>t, <2>1, <2>2, OwnerGains
<1>2. ASSUME NEW t \in Threads, NEW m \in Mutexes, LockSlow(t, m)
      PROVE  Asked(t, m) /\ HeldInv'
  <2>1. /\ pc[t] = "idle" /\ Moved(t, "load") /\ UNCHANGED <<state, queue, token, held>>
        /\ key'[t] = m /\ \A u \in Threads \ {t} : key'[u] = key[u]
    BY <1>2, <1>b, GotoMoves DEF LockSlow, lotVars
  <2>2. ASSUME NEW u \in Threads \ {t}, NEW n \in Mutexes
        PROVE  /\ Owns(u, n)' <=> Owns(u, n)
               /\ Waits(u, n)' <=> Waits(u, n)
               /\ Between(u, n)' <=> Between(u, n)
    BY <2>1, Stays, QueuedSame DEF Moved
  <2>3. ASSUME NEW n \in Mutexes
        PROVE  /\ Owns(t, n)' <=> Owns(t, n)
               /\ ~Waits(t, n) /\ (Waits(t, n)' <=> n = m) /\ ~Between(t, n)'
    BY <2>1, Where, WhereNext DEF Moved, InCall
  <2> QED
    BY <1>s, <2>1, <2>2, <2>3 DEF Asked, Calm, HeldInv
<1>3. ASSUME NEW t \in Threads, Load(t) PROVE Kept /\ HeldInv'
  BY <1>3, <1>b, <1>s, GotoMoves, OwnersKept DEF Load, lotVars, Moved, InCall
<1>4. ASSUME NEW t \in Threads, SlowAcquire(t) PROVE Gained(t, key[t]) /\ HeldInv'
  <2>m. PICK m \in Mutexes : m = key[t]
    BY <1>b
  <2>1. /\ pc[t] = "slow" /\ Moved(t, "idle") /\ UNCHANGED <<queue, token, key>>
        /\ LOCKED_BIT \notin state[m]
        /\ state' = [state EXCEPT ![m] = @ \cup {LOCKED_BIT}]
        /\ Gain(t, m)
    BY <1>4, <1>b, <2>m, GotoMoves DEF SlowAcquire, Acquired, lotVars
  <2>2. Gained(t, m) /\ HeldInv'
    BY <1>t, <2>m, <2>1, OwnerGains
  <2> QED
    BY <2>m, <2>2
<1>5. ASSUME NEW t \in Threads, SlowSpin(t) PROVE Kept /\ HeldInv'
  BY <1>5, <1>s, OwnersKept DEF SlowSpin, lotVars
<1>6. ASSUME NEW t \in Threads, SlowSetParked(t) PROVE Kept /\ HeldInv'
  <2>1. /\ pc[t] = "slow" /\ Moved(t, "park") /\ UNCHANGED <<queue, token, key, held>>
        /\ SameBits
    BY <1>6, <1>b, GotoMoves DEF SlowSetParked, lotVars, LOCKED_BIT, PARKED_BIT, SameBits
  <2> QED
    BY <2>1, OwnersKept DEF Moved, InCall
<1>7. ASSUME NEW t \in Threads, SlowQueued(t) PROVE Kept /\ HeldInv'
  BY <1>7, <1>b, <1>s, GotoMoves, OwnersKept DEF SlowQueued, lotVars, Moved, InCall
<1>8. ASSUME NEW t \in Threads, SlowCasFails(t) PROVE Kept /\ HeldInv'
  BY <1>8, <1>s, OwnersKept DEF SlowCasFails, lotVars
<1>9. ASSUME NEW t \in Threads, ParkLockBucket(t) PROVE Kept /\ HeldInv'
  BY <1>9, <1>b, <1>s, GotoMoves, OwnersKept DEF ParkLockBucket, Moved, InCall
<1>10. ASSUME NEW t \in Threads, ParkInvalid(t) PROVE Kept /\ HeldInv'
  BY <1>10, <1>b, <1>s, GotoMoves, OwnersKept DEF ParkInvalid, Moved, InCall
<1>11. ASSUME NEW t \in Threads, ParkValid(t) PROVE Kept /\ HeldInv'
  BY <1>11, <1>b, <1>s, GotoMoves, OwnersKept DEF ParkValid, lotVars, Moved, InCall
<1>12. ASSUME NEW t \in Threads, ParkEnqueue(t) PROVE Kept /\ HeldInv'
  <2>1. /\ pc[t] = "enqueue" /\ Moved(t, "parked") /\ queue' = Append(queue, t)
        /\ UNCHANGED <<state, token, key, held>>
    BY <1>12, <1>b, GotoMoves DEF ParkEnqueue
  <2>2. ~Queued(t) /\ \A u \in Threads : Queued(u)' <=> Queued(u) \/ u = t
    BY <2>1, LotFacts, QueuedAppend DEF QueueInv
  <2>3. ASSUME NEW u \in Threads \ {t}, NEW n \in Mutexes
        PROVE  /\ Owns(u, n)' <=> Owns(u, n)
               /\ Waits(u, n)' <=> Waits(u, n)
               /\ Between(u, n)' <=> Between(u, n)
    BY <2>1, <2>2, Stays DEF Moved
  <2>4. pc'[t] = "parked" /\ ~HandedOff(t)'
    BY <2>1, <2>2 DEF Moved, HandedOff
  <2>5. ASSUME NEW n \in Mutexes
        PROVE  /\ Owns(t, n)' <=> Owns(t, n)
               /\ Waits(t, n)' <=> Waits(t, n)
               /\ ~Between(t, n)'
    BY <2>1, <2>4, Where, WhereNext DEF InCall
  <2> QED
    BY <1>s, <2>1, <2>3, <2>5 DEF Kept, HeldInv
<1>13. ASSUME NEW t \in Threads, WokenHandOff(t) PROVE Kept /\ HeldInv'
  <2>m. PICK m \in Mutexes : m = key[t]
    BY <1>b
  <2>1. /\ pc[t] = "parked" /\ token[t] = TOKEN_HANDOFF /\ Moved(t, "idle")
        /\ UNCHANGED <<state, queue, token, key>> /\ Gain(t, m)
    BY <1>13, <1>b, <2>m, GotoMoves DEF WokenHandOff, Acquired, lotVars
  <2>2. HandedOff(t)
    BY <1>13, <2>1, LotFacts DEF WokenHandOff, QueueInv, HandedOff
  <2>3. held[t][m] = 0
    BY <2>m, <2>2 DEF HeldInv, Between
  <2>4. /\ \A u \in Threads, n \in Mutexes : u # t \/ n # m => held'[u][n] = held[u][n]
        /\ held'[t][m] = 1
    <3>1. held \in [Threads -> [Mutexes -> Nat]]
      BY <1>t, Zenon DEF TypeOK
    <3> QED
      BY <2>1, <2>3, <3>1, HeldChange
  <2>5. ASSUME NEW u \in Threads \ {t}, NEW n \in Mutexes
        PROVE  /\ Owns(u, n)' <=> Owns(u, n)
               /\ Waits(u, n)' <=> Waits(u, n)
               /\ Between(u, n)' <=> Between(u, n)
    BY <2>1, <2>4, Stays, QueuedSame DEF Moved
  <2>6. ASSUME NEW n \in Mutexes
        PROVE  /\ Owns(t, n)' <=> Owns(t, n)
               /\ ~Waits(t, n) /\ ~Waits(t, n)'
               /\ ~Between(t, n)'
    <3>1. ~Waits(t, n) /\ (Owns(t, n) <=> held[t][n] > 0 \/ n = m)
      BY <2>m, <2>1, <2>2, Where
    <3>2. ~Waits(t, n)' /\ ~Between(t, n)' /\ (Owns(t, n)' <=> held'[t][n] > 0)
      BY <2>1, WhereNext DEF Moved
    <3> QED
      BY <2>4, <3>1, <3>2
  <2> QED
    BY <1>s, <2>1, <2>3, <2>4, <2>5, <2>6, SMTT(30) DEF Kept, HeldInv
<1>14. ASSUME NEW t \in Threads, WokenNormal(t) PROVE Kept /\ HeldInv'
  <2>1. /\ pc[t] = "parked" /\ token[t] = TOKEN_NORMAL /\ Moved(t, "load")
        /\ UNCHANGED <<state, queue, token, key, held>>
    BY <1>14, <1>b, GotoMoves DEF WokenNormal, lotVars
  <2>2. ~HandedOff(t)
    BY <2>1 DEF HandedOff, TOKEN_NORMAL, TOKEN_HANDOFF
  <2>3. ASSUME NEW u \in Threads \ {t}, NEW n \in Mutexes
        PROVE  /\ Owns(u, n)' <=> Owns(u, n)
               /\ Waits(u, n)' <=> Waits(u, n)
               /\ Between(u, n)' <=> Between(u, n)
    BY <2>1, Stays, QueuedSame DEF Moved
  <2>4. ASSUME NEW n \in Mutexes
        PROVE  /\ Owns(t, n)' <=> Owns(t, n)
               /\ Waits(t, n)' <=> Waits(t, n)
               /\ ~Between(t, n)'
    BY <2>1, <2>2, Where, WhereNext DEF Moved, InCall
  <2> QED
    BY <1>s, <2>1, <2>3, <2>4 DEF Kept, HeldInv
<1>15. ASSUME NEW t \in Threads, UnparkLockBucket(t) PROVE Kept /\ HeldInv'
  BY <1>15, <1>b, <1>s, GotoMoves, OwnersKept DEF UnparkLockBucket, Moved
<1>16. ASSUME NEW t \in Threads, Unpark(t)
       PROVE  /\ Lost(t, key[t]) \/ \E w \in Threads : Passed(t, w, key[t])
              /\ HeldInv'
  BY <1>16, UnparkPasses
<1>17. ASSUME NEW t \in Threads, UnparkNobody(t) PROVE Lost(t, key[t]) /\ HeldInv'
  <2>m. PICK m \in Mutexes : m = key[t]
    BY <1>b
  <2>1. /\ pc[t] = "unpark" /\ Moved(t, "idle") /\ UNCHANGED <<queue, token, key, held>>
        /\ state' = [state EXCEPT ![m] = {}]
    BY <1>17, <1>b, <2>m, GotoMoves DEF UnparkNobody, UnlockState
  <2>2. LOCKED_BIT \notin state'[m] /\ \A n \in Mutexes \ {m} : state'[n] = state[n]
    BY <1>b, <2>1
  <2>3. Lost(t, m) /\ HeldInv'
    BY <1>t, <2>m, <2>1, <2>2, OwnerLoses
  <2> QED
    BY <2>m, <2>3
<1>18. ASSUME NEW t \in Threads, Wake(t) PROVE Kept /\ HeldInv'
  BY <1>18, <1>b, <1>s, GotoMoves, OwnersKept DEF Wake, Moved
<1>19. ASSUME NEW t \in Threads, NEW m \in Mutexes, Unlock(t, m)
       PROVE  (Kept \/ Lost(t, m)) /\ HeldInv'
  <2>1. /\ pc[t] = "idle" /\ GiveUp(t, m) /\ UNCHANGED <<queue, token>>
        /\ key'[t] = m /\ \A u \in Threads \ {t} : key'[u] = key[u]
    BY <1>19, <1>b DEF Unlock, UnlockBy, lotVars
  <2>2. CASE state[m] = {LOCKED_BIT}
    <3>1. Moved(t, "idle") /\ state' = [state EXCEPT ![m] = {}]
      BY <1>19, <2>1, <2>2 DEF Unlock, UnlockBy, Moved
    <3>2. LOCKED_BIT \notin state'[m] /\ \A n \in Mutexes \ {m} : state'[n] = state[n]
      BY <1>b, <3>1
    <3> QED
      BY <1>t, <2>1, <3>1, <3>2, OwnerLoses
  <2>3. CASE state[m] # {LOCKED_BIT}
    <3>1. Moved(t, "unlock_slow") /\ state' = state
      BY <1>19, <1>b, <2>3, GotoMoves DEF Unlock, UnlockBy
    <3> QED
      BY <1>t, <2>1, <3>1, OwnerKeeps
  <2> QED
    BY <2>2, <2>3
<1>20. ASSUME UNCHANGED vars PROVE Kept /\ HeldInv'
  BY <1>20, <1>s, OwnersKept DEF vars
<1>21. \A t \in Threads : key[t] \in Mutexes
  BY <1>b
<1> HIDE DEF guardVars
<1> QED
  BY <1>1, <1>2, <1>3, <1>4, <1>5, <1>6, <1>7, <1>8, <1>9, <1>10, <1>11, <1>12, <1>13,
     <1>14, <1>15, <1>16, <1>17, <1>18, <1>19, <1>20, <1>21, Zenon
     DEF LockNext, Call, OwnersChange

\* Threads that lock and unlock keep these invariants.
LEMMA OwnerCorrect == Spec => [](LotInv /\ OwnerInv /\ HeldInv)
<1>1. Init => LotInv
  BY InitLot
<1>2. Init => OwnerInv /\ HeldInv
  BY DEF Init, OwnerInv, HeldInv, MutualExclusion, LockedHasOwner, Owns, Between, HandedOff
<1>3. LotInv /\ OwnerInv /\ HeldInv /\ [LockNext]_vars => LotInv' /\ OwnerInv' /\ HeldInv'
  <2> SUFFICES ASSUME LotInv, OwnerInv, HeldInv, [LockNext]_vars
               PROVE  LotInv' /\ OwnerInv' /\ HeldInv'
    OBVIOUS
  <2>1. LotInv'
    BY LotStep DEF AnyNext, TryNext
  <2> QED
    BY <2>1, OwnerChange, OwnerStep
<1> QED
  BY <1>1, <1>2, <1>3, PTL DEF Spec

\* lock() and the guard's drop keep two threads from owning one mutex, for any
\* number of threads and of mutexes that share the bucket, however a thread nests
\* its locks.
THEOREM ExclusionCorrect == Spec => []MutualExclusion
BY OwnerCorrect, PTL DEF OwnerInv

\* A mutex whose lock bit is set has an owner that will unlock it.
THEOREM LockedCorrect == Spec => []LockedHasOwner
BY OwnerCorrect, PTL DEF OwnerInv

-----------------------------------------------------------------------------
(* RawMutex implements MutexSpec *)

\* owners and waiting, when they change in one place only.
LEMMA SetChange ==
  ASSUME NEW m \in Mutexes, NEW S
  PROVE  /\ (\A n \in Mutexes : {u \in Threads : Owns(u, n)}' =
               IF n = m THEN S ELSE owners[n])
              => owners' = [owners EXCEPT ![m] = S]
         /\ (\A n \in Mutexes : {u \in Threads : Waits(u, n)}' =
               IF n = m THEN S ELSE waiting[n])
              => waiting' = [waiting EXCEPT ![m] = S]
BY DEF owners, waiting

\* Each of the five is a step of MutexSpec, or invisible in it.
LEMMA OwnerRefines ==
  ASSUME OwnerInv, OwnersChange
  PROVE  [Abstract!Next]_(Abstract!vars)
<1>0. /\ \A n \in Mutexes : owners[n] = {u \in Threads : Owns(u, n)}
      /\ \A n \in Mutexes : waiting[n] = {u \in Threads : Waits(u, n)}
  BY DEF owners, waiting
<1>c. ASSUME NEW t \in Threads, Calm(t) PROVE Abstract!Out(t)
  BY <1>0, <1>c DEF Calm, Abstract!Out
<1>o. ASSUME NEW t \in Threads, NEW m \in Mutexes, Owns(t, m) PROVE owners[m] = {t}
  BY <1>0, <1>o DEF OwnerInv, MutualExclusion
<1>f. ASSUME NEW m \in Mutexes, LOCKED_BIT \notin state[m] PROVE owners[m] = {}
  BY <1>0, <1>f DEF OwnerInv
<1>1. CASE Kept
  <2>1. owners' = owners /\ waiting' = waiting
    BY <1>1, Zenon DEF Kept, owners, waiting
  <2> QED
    BY <2>1 DEF Abstract!vars
<1>2. ASSUME NEW t \in Threads, NEW m \in Mutexes, Asked(t, m) PROVE Abstract!Next
  <2>1. owners' = owners
    BY <1>2, Zenon DEF Asked, owners
  <2>2. \A n \in Mutexes : {u \in Threads : Waits(u, n)}' =
                             IF n = m THEN waiting[m] \cup {t} ELSE waiting[n]
    BY <1>0, <1>2 DEF Asked
  <2>3. waiting' = [waiting EXCEPT ![m] = waiting[m] \cup {t}]
    BY <2>2, SetChange, Zenon
  <2>4. Abstract!Ask(t, m)
    BY <1>2, <1>c, <2>1, <2>3 DEF Abstract!Ask, Asked
  <2> QED
    BY <2>4 DEF Abstract!Next
<1>3. ASSUME NEW t \in Threads, NEW m \in Mutexes, Gained(t, m) PROVE Abstract!Next
  <2>1. owners[m] = {}
    BY <1>3, <1>f DEF Gained
  <2>2. \A n \in Mutexes : {u \in Threads : Owns(u, n)}' = IF n = m THEN {t} ELSE owners[n]
    BY <1>0, <1>3, <2>1 DEF Gained
  <2>3. owners' = [owners EXCEPT ![m] = {t}]
    BY <2>2, SetChange, Zenon
  <2>4. CASE Waits(t, m)
    <3>1. \A n \in Mutexes : {u \in Threads : Waits(u, n)}' =
                               IF n = m THEN waiting[m] \ {t} ELSE waiting[n]
      BY <1>0, <1>3 DEF Gained
    <3>2. waiting' = [waiting EXCEPT ![m] = waiting[m] \ {t}]
      BY <3>1, SetChange, Zenon
    <3>3. Abstract!Acquire(t, m)
      BY <1>0, <2>1, <2>3, <2>4, <3>2 DEF Abstract!Acquire
    <3> QED
      BY <3>3 DEF Abstract!Next
  <2>5. CASE Calm(t)
    <3>1. \A u \in Threads, n \in Mutexes : Waits(u, n)' <=> Waits(u, n)
      BY <1>3, <2>5 DEF Gained, Calm
    <3>2. waiting' = waiting
      BY <3>1, Zenon DEF waiting
    <3>3. Abstract!AskAcquire(t, m)
      BY <1>c, <2>1, <2>3, <2>5, <3>2 DEF Abstract!AskAcquire
    <3> QED
      BY <3>3 DEF Abstract!Next
  <2> QED
    BY <1>3, <2>4, <2>5 DEF Gained
<1>4. ASSUME NEW t \in Threads, NEW m \in Mutexes, Lost(t, m) PROVE Abstract!Next
  <2>1. owners[m] = {t}
    BY <1>4, <1>o DEF Lost
  <2>2. \A n \in Mutexes : {u \in Threads : Owns(u, n)}' = IF n = m THEN {} ELSE owners[n]
    BY <1>0, <1>4, <2>1 DEF Lost
  <2>3. owners' = [owners EXCEPT ![m] = {}]
    BY <2>2, SetChange, Zenon
  <2>4. waiting' = waiting
    BY <1>4, Zenon DEF Lost, waiting
  <2>5. Abstract!Release(t, m)
    BY <1>4, <1>c, <2>1, <2>3, <2>4 DEF Abstract!Release, Lost
  <2> QED
    BY <2>5 DEF Abstract!Next
<1>5. ASSUME NEW t \in Threads, NEW w \in Threads, NEW m \in Mutexes, Passed(t, w, m)
      PROVE  Abstract!Next
  <2>1. owners[m] = {t} /\ w \in waiting[m]
    BY <1>0, <1>5, <1>o DEF Passed
  <2>2. \A n \in Mutexes : {u \in Threads : Owns(u, n)}' = IF n = m THEN {w} ELSE owners[n]
    BY <1>0, <1>5, <2>1, SMTT(30) DEF Passed
  <2>3. owners' = [owners EXCEPT ![m] = {w}]
    BY <2>2, SetChange, Zenon
  <2>4. \A n \in Mutexes : {u \in Threads : Waits(u, n)}' =
                             IF n = m THEN waiting[m] \ {w} ELSE waiting[n]
    BY <1>0, <1>5 DEF Passed
  <2>5. waiting' = [waiting EXCEPT ![m] = waiting[m] \ {w}]
    BY <2>4, SetChange, Zenon
  <2>6. Abstract!HandOff(t, w, m)
    BY <1>5, <1>c, <2>1, <2>3, <2>5 DEF Abstract!HandOff, Passed
  <2> QED
    BY <2>6 DEF Abstract!Next
<1> QED
  BY <1>1, <1>2, <1>3, <1>4, <1>5 DEF OwnersChange

\* What lock() and the guard's drop do with bits, queue, tokens and futexes is,
\* seen from outside, MutexSpec: for any number of threads and mutexes, and for
\* threads that hold several of them.
THEOREM RefinementCorrect == Spec => ImplementsMutexSpec
<1>1. Init => Abstract!Init
  BY DEF Init, Abstract!Init, owners, waiting, Owns, Waits, HandedOff
<1>2. LotInv /\ OwnerInv /\ HeldInv /\ (LotInv /\ OwnerInv /\ HeldInv)' /\ [LockNext]_vars
        => [Abstract!Next]_(Abstract!vars)
  BY OwnerChange, OwnerRefines
<1> QED
  BY <1>1, <1>2, OwnerCorrect, PTL DEF Spec, ImplementsMutexSpec, Abstract!Spec
=============================================================================
