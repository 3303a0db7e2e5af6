----------------------------- MODULE MCWordLock -----------------------------
(* The instance of WordLock for TLC: one thread can work on the queue while *)
(* another holds the lock and two more push themselves, sleep and are woken.    *)
EXTENDS WordLock

CONSTANTS t1, t2, t3, t4

FourThreads == {t1, t2, t3, t4}
=============================================================================
