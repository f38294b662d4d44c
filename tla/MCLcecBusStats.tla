-------------------------- MODULE MCLcecBusStats --------------------------
(* LcecBusStats on a master with two Sync Units, one with a drive that is  *)
(* read and written (working counter 3), one with an input (1).            *)
EXTENDS LcecBusStats

CONSTANTS drives, inputs

MCUnits == {drives, inputs}
MCExpected == [u \in MCUnits |-> IF u = drives THEN 3 ELSE 1]
=============================================================================
