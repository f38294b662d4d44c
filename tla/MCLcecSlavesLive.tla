-------------------------- MODULE MCLcecSlavesLive --------------------------
\* The drivers that wait for an answer, one at a time over the variables of
\* LcecSlave, with a thread that goes on and a terminal that answers.
EXTENDS LcecSlave

Polling == INSTANCE LcecSdoPolling
  WITH Diag <- <<"d1">>, Info <- <<>>, InfosRO <- <<"m1", "m2">>, Interval <- 2, StartDelay <- 2
Serial == INSTANCE LcecSerial WITH Messages <- 3

Init == Polling!Init \/ Serial!Init
Next == \/ device \in Polling!Pollers /\ Polling!Next
        \/ device = "EL6002" /\ Serial!Next

FairSpec == Init /\ [][Next]_slaveVars /\ Polling!Fairness /\ Serial!Fairness

\* EL7332, FC302, EL5021: each object is asked for again and again, and EL6002:
\* what is handed over arrives in the end (e.g. lcec_el7332.c 1116-1160,
\* lcec_el6002.c 285-380).
RequestsAreAnswered == Polling!PollingGoesOn /\ Serial!MessagesGetThrough
=============================================================================
