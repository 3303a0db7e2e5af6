---------------------------- MODULE MCShiftQueue ----------------------------
(* Instances of ShiftQueue for TLC. *)
EXTENDS ShiftQueue

CONSTANTS t1, t2, n0, n1, n2, n3

OnePusher == {t1}
OnePopper == {t2}
Both == {t1, t2}
NoPopper == {}
ThreeNodes == {n0, n1, n2}
FourNodes == {n0, n1, n2, n3}
=============================================================================
