---------------------------- MODULE MCLcecSlaves ----------------------------
(* Integers of a few values, axes of a few positions, lists of a few slots *)
(* and connections for LcecSlaves; the bounds are explained in the README. *)
EXTENDS LcecSlaves

MCReach == -1..2
MCSteps == {-1, 1}
MCEncReach == -3..3
MCEncSteps == {-1, 1, 2}
MCBases == {7, -2, 3}
MCDutyValues == {-6, 6}
MCOffsets == {-1}
MCLimits == {<<-6, 6>>, <<2, 1>>, <<-5, -6>>, <<1, 3>>}
MCAutoresets == {<<2, 1>>, <<1, 2>>, <<1, 0>>}
MCCommands == {-9, 9}
MCDiag == <<"d1">>
MCInfo == <<"i1">>
MCInfosRO == <<"m1", "m2">>
MCOrders == {<<"EL1904", "AX5805", "EK1914", "logic", "AX5000", "EL2904", "plain">>,
             <<"logic", "EL2904", "EL1904", "EK1914", "AX5000", "AX5805">>}
MCLinks == {<<"EL1904", "AX5805">>, <<"AX5805", "EK1914">>, <<"EL2904", "EL2904">>,
            <<"AX5000">>, <<"plain">>, <<"missing">>}
=============================================================================
