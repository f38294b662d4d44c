------------------------- MODULE MCLcecSdoInFlight -------------------------
(* LcecSdoPolling with two channels of diagnosis and two of information    *)
(* for the EL7332, where the comment about its requests stands.            *)
EXTENDS LcecSdoPolling

MCDiag == <<"d1", "d2">>
MCInfo == <<"i1", "i2">>
MCInfosRO == <<"m1", "m2">>
=============================================================================
