---------------------------- MODULE MCLcecPhase ----------------------------
(* LcecPhase with a period of 400 units: the lock window is 4, the unlock  *)
(* window 20 and the largest target 50.  The thread starts on both sides   *)
(* of the boundary of the cycle, at the target and half a period away.     *)
EXTENDS LcecPhase

MCStartPositions == {0, 5, 200, 398, 399}
=============================================================================
