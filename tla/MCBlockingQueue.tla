-------------------------- MODULE MCBlockingQueue --------------------------
(* An instance of BlockingQueue for TLC: t1 pushes, t2 pops and asks for the *)
(* length, t3 pops and iterates.                                             *)
EXTENDS BlockingQueue

CONSTANTS t1, t2, t3, k1, k2

OnePusher == {t1}
Poppers == {t2, t3}
OneObserver == {t2}
OneIterator == {t3}
TwoChunks == {k1, k2}

\* Addresses are only compared, so renaming them in a behaviour gives another one:
\* it is enough to look at those in which the first chunk is at k1.
FirstChunkAtK1 == tail.chunk = Null => tail'.chunk \in {Null, k1}
=============================================================================
