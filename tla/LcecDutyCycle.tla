--------------------------- MODULE LcecDutyCycle ---------------------------
(***************************************************************************)
(* Outputs that drive a motor or a valve with a duty cycle: the class of   *)
(* analog outputs (lcec_class_aout.c), EL41x2, and the output stages of    *)
(* EL7041, EL7342 and EM7004.  One channel; EL7041 adds the reset of a     *)
(* fault when the drive is enabled again.  Duty cycles are integers,       *)
(* Unit of them being 1.0.                                                 *)
(***************************************************************************)
EXTENDS LcecSlave

CONSTANTS Unit,      \* the duty cycle 1.0
          Values,    \* values of the command, Scales of its scale
          Scales, Offsets, Limits,
          Requests   \* bound: how often the user acts

Outputs == {"aout", "EL41x2", "EM7004 aout", "EL7342 dcm", "EL7041 dcm"}

Pins == [enable |-> FALSE, abs |-> FALSE, value |-> 0, scale |-> 1, offset |-> 0,
         min |-> -Unit, max |-> Unit, curr |-> 0, sign |-> 0, velo |-> 0,
         fault |-> FALSE, fault_reset |-> FALSE, reset |-> FALSE]

Private == [old |-> 2, by |-> 1, fault |-> FALSE, retry |-> 0, state |-> FALSE,
            cycle |-> 0, enable |-> FALSE]

lcec_aout_register_channel == device = "aout" /\ hal = Pins /\ drv = Private
lcec_el41x2_init == device = "EL41x2" /\ hal = Pins /\ drv = Private
lcec_em7004_init == device = "EM7004 aout" /\ hal = Pins /\ drv = Private
lcec_el7342_init == device = "EL7342 dcm" /\ hal = Pins /\ drv = Private
lcec_el7041_init == device = "EL7041 dcm" /\ hal = Pins /\ drv = Private

\* since: reads since the drive was last enabled, up to 5; twice: every write yet
\* has found a scale of 2.
Init ==
  /\ \/ lcec_aout_register_channel \/ lcec_el41x2_init \/ lcec_em7004_init
     \/ lcec_el7342_init \/ lcec_el7041_init
  /\ phase = "bus" /\ up = FALSE
  /\ in = [error |-> FALSE]
  /\ out = [duty |-> 0, enable |-> FALSE, reset |-> FALSE]
  /\ env = [left |-> Requests, since |-> 5, twice |-> TRUE]

\* The terminal keeps an error until it is reset, and may keep it then.
Bus == /\ Turn("bus", "read") /\ UNCHANGED <<hal, drv, out, env>>
       /\ up' \in BOOLEAN
       /\ IF device = "EL7041 dcm"
          THEN \E e \in {TRUE, in.error /\ ~out.reset} : in' = [error |-> e]
          ELSE UNCHANGED in

(***************************************************************************)
(* The read callbacks.                                                     *)
(***************************************************************************)
\* The velocity is scaled as the last write callback scaled the command.
lcec_el7342_set_info == hal' = [hal EXCEPT !.velo = drv.old]

lcec_el7342_read ==
  /\ device = "EL7342 dcm" /\ UNCHANGED <<drv, env>>
  /\ \/ up /\ lcec_el7342_set_info
     \/ ~up /\ UNCHANGED hal

\* While a reset is tried the fault is not shown; it takes two periods of two
\* cycles.
lcec_el7041_read ==
  /\ device = "EL7041 dcm"
  /\ \/ /\ up
        /\ LET retry == IF in.error THEN drv.retry ELSE 0
               turns == retry > 0 /\ drv.cycle = 1
               state == IF turns THEN ~drv.state ELSE drv.state
           IN  /\ drv' = [drv EXCEPT !.fault = in.error, !.state = state,
                            !.retry = IF turns /\ state THEN retry - 1 ELSE retry,
                            !.cycle = IF retry > 0 THEN 1 - @ ELSE @]
               /\ hal' = [hal EXCEPT !.fault = in.error /\ retry = 0]
        /\ env' = [env EXCEPT !.since = IF @ < 5 THEN @ + 1 ELSE 5]
     \/ ~up /\ UNCHANGED <<hal, drv, env>>

Read == /\ Turn("read", "user") /\ UNCHANGED <<up, in, out>>
        /\ \/ lcec_el7342_read
           \/ lcec_el7041_read
           \/ device \in {"aout", "EL41x2", "EM7004 aout"} /\ UNCHANGED <<hal, drv, env>>

(***************************************************************************)
(* The user.                                                               *)
(***************************************************************************)
Put(pins) == env.left > 0 /\ hal' = pins /\ env' = [env EXCEPT !.left = @ - 1]

User == /\ Turn("user", "write") /\ UNCHANGED <<up, drv, in, out>>
        /\ \/ UNCHANGED <<hal, env>>
           \/ Put([hal EXCEPT !.enable = ~@])
           \/ Put([hal EXCEPT !.abs = ~@])
           \/ \E v \in Values : Put([hal EXCEPT !.value = v])
           \/ \E s \in Scales : Put([hal EXCEPT !.scale = s])
           \/ \E o \in Offsets : Put([hal EXCEPT !.offset = o])
           \/ \E l \in Limits : Put([hal EXCEPT !.min = l[1], !.max = l[2]])
           \/ device = "EL7041 dcm" /\ Put([hal EXCEPT !.fault_reset = TRUE])

(***************************************************************************)
(* The write callbacks, which do not ask for the state of the slave.       *)
(***************************************************************************)
Low(a, b) == IF a < b THEN a ELSE b
High(a, b) == IF a > b THEN a ELSE b

\* max is limited by 1, min by max and -1, and max again by min.
MinDc == High(Low(hal.min, Low(hal.max, Unit)), -Unit)
MaxDc == High(Low(hal.max, Unit), MinDc)

Scale == IF hal.scale # drv.old /\ hal.scale = 0 THEN 1 ELSE hal.scale
\* slip: the reciprocal is not renewed
ByStale == drv.by
By == IF hal.scale # drv.old THEN Scale ELSE drv.by

Command == (IF hal.abs /\ hal.value < 0 THEN -hal.value ELSE hal.value) \div By + hal.offset
Duty == IF hal.enable THEN Low(High(Command, MinDc), MaxDc) ELSE 0

Sign == CASE hal.enable /\ hal.value > 0 -> 1
          [] hal.enable /\ hal.value < 0 -> -1
          [] OTHER -> 0

Limited == [hal EXCEPT !.min = MinDc, !.max = MaxDc, !.scale = Scale, !.curr = Duty]
Noted == [env EXCEPT !.twice = @ /\ hal.scale = 2]
Scaled == [drv EXCEPT !.old = Scale, !.by = By]

DriveAnalog == /\ hal' = [Limited EXCEPT !.sign = Sign]
               /\ drv' = Scaled
               /\ out' = [out EXCEPT !.duty = Duty]
               /\ env' = Noted

lcec_aout_write == device = "aout" /\ DriveAnalog
lcec_el41x2_write == device = "EL41x2" /\ DriveAnalog
lcec_em7004_write == device = "EM7004 aout" /\ DriveAnalog

lcec_el7342_write ==
  /\ device = "EL7342 dcm"
  /\ hal' = Limited /\ drv' = Scaled
  /\ out' = [duty |-> Duty, enable |-> hal.enable, reset |-> hal.reset]
  /\ env' = Noted

\* The drive being enabled with a fault resets it, for two periods; fault-reset
\* reaches the terminal only while the drive is not enabled.
lcec_el7041_write ==
  LET edge == hal.enable /\ ~drv.enable
      tries == IF edge /\ drv.fault THEN 1 ELSE drv.retry
      state == (edge /\ drv.fault) \/ drv.state
      reset == CASE tries > 0 -> hal.reset \/ hal.fault_reset \/ state
                 [] tries = 0 /\ hal.enable -> FALSE
                 [] OTHER -> hal.reset \/ hal.fault_reset
  IN  /\ device = "EL7041 dcm"
      /\ hal' = [Limited EXCEPT !.reset = reset, !.fault_reset = @ /\ tries > 0]
      /\ drv' = [Scaled EXCEPT !.enable = hal.enable, !.retry = tries, !.state = state,
                               !.cycle = IF edge /\ drv.fault THEN 0 ELSE @]
      /\ out' = [duty |-> Duty, enable |-> hal.enable, reset |-> reset]
      /\ env' = [Noted EXCEPT !.since = IF edge THEN 0 ELSE @]

Write == /\ Turn("write", "bus") /\ UNCHANGED <<up, in>>
         /\ \/ lcec_aout_write \/ lcec_el41x2_write \/ lcec_em7004_write
            \/ lcec_el7342_write \/ lcec_el7041_write

Next == Bus \/ Read \/ User \/ Write
Spec == Init /\ [][Next]_slaveVars

-----------------------------------------------------------------------------
\* The duty cycle of a command by a scale, within the limits on the pins.
Within(d) == CASE d < hal.min -> hal.min [] d > hal.max -> hal.max [] OTHER -> d
DutyBy(scale) ==
  IF ~hal.enable THEN 0
  ELSE Within((IF hal.abs /\ hal.value < 0 THEN -hal.value ELSE hal.value) \div scale + hal.offset)

\* What goes to the bus is what the pins say at that moment, whatever was set
\* before: the command by the scale on its pin within limits in order, nothing
\* when not enabled (e.g. lcec_class_aout.c 141-212); but a scale that has been 2 since
\* before the first cycle counts as 1 until it changes, as the initial scale plus 1
\* is taken for the one that the reciprocal is of (128, 162-173), where el4xxx.md 86
\* says "curr_dc = (value / scale) + offset".  The limits are between -1.0 and 1.0,
\* and not from 0.0 on as the comment at 146-147 says.  A fault of EL7041 is hidden for no more than
\* four reads after the drive was enabled, by when the reset is withdrawn
\* (lcec_el7041.c 664-685, 734-739, 805-820).
DriveAsTold ==
  /\ phase = "bus" =>
       /\ -Unit <= hal.min /\ hal.min <= hal.max /\ hal.max <= Unit
       /\ hal.scale # 0
       /\ out.duty = DutyBy(IF env.twice THEN 1 ELSE hal.scale)
  /\ device = "EL7041 dcm" /\ phase = "user" /\ up /\ env.since = 5 => hal.fault = in.error
  /\ device = "EL7041 dcm" /\ phase = "bus" /\ hal.enable /\ env.since >= 4 => ~out.reset
=============================================================================
