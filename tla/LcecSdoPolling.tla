--------------------------- MODULE LcecSdoPolling ---------------------------
(***************************************************************************)
(* Drivers that read objects of their terminal over the mailbox while they *)
(* run: EL7332, FC302 and EL5021.  A request is started with               *)
(* ecrt_sdo_request_read and looked at in later cycles.  What is copied    *)
(* between process data and pins is left out, and so are the values read.  *)
(***************************************************************************)
EXTENDS LcecSlave, SequencesExt

CONSTANTS Diag, Info,  \* EL7332: diagnosis of the channels, optional information
          InfosRO,     \* FC302: the channels of Infos-RO that are enabled
          Interval,    \* SDO_READ_INTERVAL
          StartDelay   \* FC302_MON_STARTDELAY

EL7332Slots(ok, info) ==
  (IF ok THEN <<"temp", "supply">> ELSE <<>>) \o Diag \o (IF info THEN Info ELSE <<>>)

EL5021Slots == <<"freq_err", "amp_err">>

lcec_el7332_init ==
  /\ device = "EL7332"
  /\ \E info \in BOOLEAN :
       drv = [info |-> info, timer |-> Interval - 1, index |-> 1, current |-> "temp"]
lcec_danfoss_fc302_init ==
  /\ device = "FC302"
  /\ \E n \in 0..Len(InfosRO) :
       drv = [count |-> n, delay |-> StartDelay, modes |-> FALSE, running |-> FALSE,
              current |-> 1]
lcec_el5021_init == device = "EL5021" /\ drv = [timer |-> 0]

Objects == CASE device = "EL7332" -> ToSet(EL7332Slots(TRUE, TRUE))
             [] device = "FC302" -> {"modes"} \cup ToSet(InfosRO)
             [] device = "EL5021" -> ToSet(EL5021Slots)

\* sdo: the requests; taken: answers that are on their pins; astray: open
\* when the list of slots changed; lost: an answer was, with no such change.
Init ==
  /\ lcec_el7332_init \/ lcec_danfoss_fc302_init \/ lcec_el5021_init
  /\ phase = "bus" /\ up = FALSE
  /\ hal = [busy |-> FALSE] /\ in = [error |-> FALSE] /\ out = <<>>
  /\ env = [sdo |-> [s \in Objects |-> "unused"], taken |-> {}, astray |-> {}, lost |-> FALSE]

Busy == {s \in Objects : env.sdo[s] = "busy"}

Answer(s) ==
  /\ s \in Busy
  /\ \E answer \in {"success", "error"} :
       env' = [env EXCEPT !.sdo[s] = answer, !.taken = @ \ {s}]

\* The mailbox answers one request, or none.
Bus ==
  /\ Turn("bus", "read") /\ UNCHANGED <<hal, drv, out>>
  /\ up' \in BOOLEAN
  /\ IF device = "EL7332" THEN \E e \in BOOLEAN : in' = [error |-> e] ELSE UNCHANGED in
  /\ UNCHANGED env \/ \E s \in Objects : Answer(s)

\* The requests of the set started are started, answers of the set shown have
\* been copied to their pins, and those of strays are in flight out of turn.
Mailbox(started, shown, strays) ==
  env' = [env EXCEPT
            !.sdo = [s \in Objects |-> IF s \in started THEN "busy" ELSE @[s]],
            !.taken = @ \cup shown,
            !.astray = (@ \cup strays) \ started,
            !.lost = @ \/ \E s \in started \ UNION {env.taken, shown, env.astray, strays} :
                            env.sdo[s] = "success"]

\* slip: the last of n is passed over
AfterShort(i, n) == IF i + 1 < n THEN i + 1 ELSE 1
After(i, n) == (i % n) + 1

\* Requests whose answer has not reached its pin.
Open == {s \in Objects : env.sdo[s] = "busy" \/ (env.sdo[s] = "success" /\ s \notin env.taken)}

Asleep == ~up /\ UNCHANGED <<hal, drv, env>>

(***************************************************************************)
(* EL7332: one list of slots, which has no temperature and no supply while *)
(* a channel is in error.                                                  *)
(***************************************************************************)
\* slip: the next slot is started without waiting for an answer
EndedNever(s) == env.sdo[s] # "unused"
Ended(s) == env.sdo[s] \in {"success", "error"}

Answered(s) == {t \in {s} : env.sdo[t] = "success"}

lcec_el7332_read ==
  LET slots == EL7332Slots(~in.error, drv.info)
      index == IF drv.index > Len(slots) THEN 1 ELSE drv.index
      next == After(index, Len(slots))
      s == slots[index]
      strays == IF s = drv.current THEN {} ELSE Open \ {s}
      fires == drv.timer + 1 >= Interval
      Keep(i, timer) == drv' = [drv EXCEPT !.index = i, !.current = slots[i], !.timer = timer]
  IN  /\ device = "EL7332"
      /\ \/ Asleep
         \/ /\ up /\ ~fires
            /\ Keep(index, drv.timer + 1) /\ Mailbox({}, {}, strays) /\ UNCHANGED hal
         \/ /\ up /\ fires /\ UNCHANGED hal
            /\ \/ env.sdo[s] = "unused" /\ Keep(index, 0) /\ Mailbox({s}, {}, strays)
               \/ Ended(s) /\ Keep(next, 0) /\ Mailbox({slots[next]}, Answered(s), strays)
               \/ /\ env.sdo[s] = "busy" /\ ~Ended(s)
                  /\ Keep(index, Interval) /\ Mailbox({}, {}, strays)

(***************************************************************************)
(* FC302: the mode of operation on its own, and Infos-RO in turn.          *)
(***************************************************************************)
lcec_danfoss_fc302_read ==
  LET modes == IF drv.delay = 0 /\ (~drv.modes \/ Ended("modes")) THEN {"modes"} ELSE {}
      shown == IF drv.delay = 0 /\ drv.modes THEN Answered("modes") ELSE {}
      cur == InfosRO[drv.current]
      next == After(drv.current, drv.count)
      Polled == [drv EXCEPT !.modes = TRUE]
  IN  /\ device = "FC302"
      /\ \/ Asleep
         \/ /\ up /\ drv.delay > 0
            /\ drv' = [drv EXCEPT !.delay = @ - 1]
            /\ UNCHANGED <<hal, env>>
         \/ /\ up /\ drv.delay = 0 /\ drv.count = 0
            /\ drv' = Polled /\ Mailbox(modes, shown, {}) /\ UNCHANGED hal
         \/ /\ up /\ drv.delay = 0 /\ drv.count > 0 /\ ~drv.running
            /\ drv' = [Polled EXCEPT !.running = TRUE]
            /\ Mailbox(modes \cup {InfosRO[1]}, shown, {})
            /\ hal' = [busy |-> TRUE]
         \/ /\ up /\ drv.delay = 0 /\ drv.running
            /\ IF Ended(cur)
               THEN /\ drv' = [Polled EXCEPT !.current = next]
                    /\ Mailbox(modes \cup {InfosRO[next]}, shown \cup Answered(cur), {})
                    /\ hal' = [busy |-> TRUE]
               ELSE /\ drv' = Polled
                    /\ Mailbox(modes, shown, {})
                    /\ hal' = [busy |-> env.sdo[cur] = "busy"]

(***************************************************************************)
(* EL5021: both counters of errors are looked at in the same cycle.        *)
(***************************************************************************)
lcec_el5021_read ==
  /\ device = "EL5021" /\ UNCHANGED hal
  /\ \/ Asleep
     \/ up /\ drv.timer + 1 < Interval /\ drv' = [timer |-> drv.timer + 1] /\ UNCHANGED env
     \/ /\ up /\ drv.timer + 1 >= Interval /\ drv' = [timer |-> 0]
        /\ Mailbox({s \in Objects : env.sdo[s] = "unused" \/ Ended(s)},
                   UNION {Answered(s) : s \in Objects}, {})

Read == /\ Turn("read", "bus") /\ UNCHANGED <<up, in, out>>
        /\ lcec_el7332_read \/ lcec_danfoss_fc302_read \/ lcec_el5021_read

Next == Bus \/ Read
Spec == Init /\ [][Next]_slaveVars

AllObjects == ToSet(EL7332Slots(TRUE, TRUE)) \cup {"modes"} \cup ToSet(InfosRO) \cup ToSet(EL5021Slots)
Pollers == {"EL7332", "FC302", "EL5021"}

Main == CASE device = "EL7332" -> drv.current
          [] device = "FC302" -> InfosRO[drv.current]
          [] device = "EL5021" -> "freq_err"

\* The thread is periodic, and the mailbox answers in the end: the request whose
\* turn it is, and one of the others.
Fairness ==
  /\ WF_slaveVars(device \in Pollers /\ (Bus \/ Read))
  /\ SF_slaveVars(device \in Pollers /\ Bus /\ Answer(Main))
  /\ SF_slaveVars(device \in Pollers /\ Bus /\ \E s \in Objects \ {Main} : Answer(s))

-----------------------------------------------------------------------------
\* A driver asks in turn and one at a time.  EL7332: only a request that was
\* in flight when the list of slots changed is in flight beside the current
\* one (lcec_el7332.c 1116-1160).  FC302: of Infos-RO the current one alone
\* (lcec_fc302.c 1089-1139), which is never one that was not started, where
\* polling would stop.  And an answer is on its pin before the next is asked
\* for.
PollsInTurn ==
  /\ device = "EL7332" => Busy \subseteq {drv.current} \cup env.astray
  /\ device = "FC302" =>
       /\ Busy \subseteq {"modes"} \cup {InfosRO[i] : i \in {drv.current}}
       /\ drv.running => env.sdo[InfosRO[drv.current]] # "unused" /\ hal.busy
  /\ ~env.lost

\* The comment at lcec_el7332.c 1041-1045 says that advancing slot by slot
\* "guarantees that at most ONE SDO upload is in flight at any time".
OneInFlight == device = "EL7332" => Cardinality(Busy) <= 1

Shows(error) == device = "EL7332" => in.error = error

Due(s) == \/ device = "EL7332" /\ s \in ToSet(EL7332Slots(~in.error, drv.info))
          \/ device = "FC302" /\ s \in {"modes"} \cup {InfosRO[i] : i \in 1..drv.count}
          \/ device = "EL5021" /\ s \in Objects

\* A slave that is operational again and again is asked for each of its objects
\* again and again, whatever answers it gives; EL7332 when its error bits have
\* become steady (lcec_el7332.c 1116-1160, lcec_fc302.c 1089-1139, lcec_el5021.c
\* 464-492).
PollingGoesOn ==
  []<>(device \in Pollers => phase = "read" /\ up) /\ (<>[]Shows(TRUE) \/ <>[]Shows(FALSE))
    => \A s \in AllObjects : []<>(Due(s) => env.sdo[s] = "busy")
=============================================================================
