----------------------------- MODULE MCRawMutex -----------------------------
(* Instances of RawMutex for TLC.  Threads only meet in the queue and in the *)
(* values the actions assign, so permuting them (or the mutexes) is sound.   *)
EXTENDS RawMutex, TLC

CONSTANTS t1, t2, t3, m1, m2

ThreeThreads == {t1, t2, t3}
TwoThreads == {t1, t2}
TwoMutexes == {m1, m2}
OneMutex == {m1}

Symmetry == Permutations(Threads) \cup Permutations(Mutexes)
=============================================================================
