----------------------------- MODULE MCLcecPll -----------------------------
(* LcecPll with a period of 60 units.  The clocks start a fraction of a    *)
(* period apart, just beyond half a period on either side, and more than   *)
(* one and a half periods.  Of the two thresholds one is a period, as it   *)
(* is by default, and one below half of it.                                *)
EXTENDS LcecPll

MCStartOffsets == {-91, -31, 0, 18, 31, 91}

(* Clocks more than two periods apart, before dc_ref has got as far.       *)
MCFarOffsets == {-150, 150}
=============================================================================
