------------------------------ MODULE ParkSpec ------------------------------
(***************************************************************************)
(* What the parking lot promises its callers (park and unpark_one of       *)
(* src/mutex/deadlock.rs): the threads parked on a key wait in the order   *)
(* in which they parked.  unpark_one(key) picks the first of them, and     *)
(* that thread's park returns Unparked, even when its timeout has expired  *)
(* by then; park returns TimedOut only to a thread nobody has picked.      *)
(* There is no bucket, no table and no hash in it.                         *)
(***************************************************************************)
EXTENDS Sequences

CONSTANTS Threads, Keys

VARIABLES waiting,  \* waiting[k]: the threads parked on k, oldest first
          picked,   \* the threads unpark_one has picked whose park goes on
          result    \* result[t]: what t's last park returned

vars == <<waiting, picked, result>>

Init == /\ waiting = [k \in Keys |-> <<>>]
        /\ picked = {}
        /\ result = [t \in Threads |-> "none"]

Waits(t, k) == \E i \in DOMAIN waiting[k] : waiting[k][i] = t

Park(t, k) == /\ t \notin picked
              /\ \A j \in Keys : ~Waits(t, j)
              /\ waiting' = [waiting EXCEPT ![k] = Append(@, t)]
              /\ UNCHANGED <<picked, result>>

UnparkOne(k) == /\ waiting[k] # <<>>
                /\ picked' = picked \cup {Head(waiting[k])}
                /\ waiting' = [waiting EXCEPT ![k] = Tail(@)]
                /\ UNCHANGED result

ReturnUnparked(t) == /\ t \in picked
                     /\ picked' = picked \ {t}
                     /\ result' = [result EXCEPT ![t] = "Unparked"]
                     /\ UNCHANGED waiting

ReturnTimedOut(t, k) == /\ Waits(t, k)
                        /\ waiting' = [waiting EXCEPT ![k] =
                                         SelectSeq(@, LAMBDA u : u # t)]
                        /\ result' = [result EXCEPT ![t] = "TimedOut"]
                        /\ UNCHANGED picked

\* validate() said no: the thread never waited.
ReturnInvalid(t) == /\ t \notin picked
                    /\ \A k \in Keys : ~Waits(t, k)
                    /\ result' = [result EXCEPT ![t] = "Invalid"]
                    /\ UNCHANGED <<waiting, picked>>

Next == \/ \E t \in Threads, k \in Keys : Park(t, k) \/ ReturnTimedOut(t, k)
        \/ \E k \in Keys : UnparkOne(k)
        \/ \E t \in Threads : ReturnUnparked(t) \/ ReturnInvalid(t)

Spec == Init /\ [][Next]_vars
=============================================================================
