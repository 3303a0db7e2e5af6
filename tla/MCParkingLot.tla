---------------------------- MODULE MCParkingLot ----------------------------
(* The instance of ParkingLot for TLC.  With one bucket per thread the three *)
(* threads make the table grow from one bucket to two and to four; the keys  *)
(* share a bucket until the last growth separates them.                      *)
EXTENDS ParkingLot, TLC

CONSTANTS t1, t2, t3, k1, k2

ThreeThreads == {t1, t2, t3}
TwoThreads == {t1, t2}
OtherThreads == {t2, t3}
TwoKeys == {k1, k2}
HashValues == (k1 :> 2) @@ (k2 :> 3)
=============================================================================
