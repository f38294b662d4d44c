--------------------------- MODULE MCLcecMaster ---------------------------
(* LcecMaster on two masters: master 1 with a unit of every cycle, one of  *)
(* every second and one of every fourth cycle, master 2 with one unit of   *)
(* every third cycle.                                                      *)
EXTENDS LcecMaster

CONSTANTS base, half, quarter, third

drive == 1
io == 2
remote == 3

MCUnits == {base, half, quarter, third}
MCMasterOf == [u \in MCUnits |-> IF u = third THEN 2 ELSE 1]
MCDivider ==
  [u \in MCUnits |-> CASE u = base -> 1 [] u = half -> 2 [] u = quarter -> 4 [] u = third -> 3]
MCHyperperiod == <<4, 3>>
MCSlaves == {drive, remote}
MCUnitOf == [s \in MCSlaves |-> IF s = drive THEN base ELSE third]

(* One period is adopted at run time, one differs from that of the thread. *)
MCXmlPeriod == <<0, 3>>

(* A bus for the state pins of one master, the refinement and the liveness *)
(* properties: master 1 with two slaves in units whose cycles have no      *)
(* common divisor, master 2 without a slave.                               *)
SmallUnits == {half, third}
SmallMasterOf == [u \in SmallUnits |-> 1]
SmallDivider == [u \in SmallUnits |-> IF u = half THEN 2 ELSE 3]
SmallHyperperiod == <<6, 1>>
SmallSlaves == {drive, io}
SmallUnitOf == [s \in SmallSlaves |-> IF s = drive THEN half ELSE third]
=============================================================================
