----------------------------- MODULE MCCoQueue -----------------------------
(* Instances of CoQueue for TLC.  Chunk addresses are only compared, so      *)
(* permuting them is sound, also for the refinement, which does not see them. *)
EXTENDS CoQueue, TLC

CONSTANTS t1, t2, t3, k1, k2, k3, k4

\* t1 pushes, t3 pops, t2 does both.
Pushers == {t1, t2}
Poppers == {t2, t3}
OnePusher == {t1}
OnePopper == {t3}
NoObserver == {}
TwoChunks == {k1, k2}
ThreeChunks == {k1, k2, k3}
FourChunks == {k1, k2, k3, k4}

Symmetry == Permutations(Chunks)
=============================================================================
