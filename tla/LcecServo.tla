----------------------------- MODULE LcecServo -----------------------------
(***************************************************************************)
(* Control and status word of three servo drives: DeASDA (lcec_deasda.c),  *)
(* OMRG5 (lcec_omrg5.c) and EL7211 (lcec_el7211.c).  Each leads the drive  *)
(* through the states of CiA 402 and hides a fault for the time that a     *)
(* reset of its own may take.                                              *)
(***************************************************************************)
EXTENDS LcecSlave

CONSTANTS Autoresets,  \* pairs of srv-fault-autoreset-retries and -cycles
          Window,      \* periods of the thread in 100 ms
          Speed, Ramp, \* highest speed, its change in a period
          Commands,    \* values on the velocity pin
          Requests     \* bound: how often the user acts

Asda == {"DeASDA CSV", "DeASDA CSP"}
Servos == Asda \cup {"OMRG5", "EL7211 servo"}

lcec_deasda_init ==
  /\ device \in Asda
  /\ \E a \in Autoresets :
       drv = [retries |-> a[1], cycles |-> a[2], retry |-> 0, cycle |-> 0, state |-> FALSE,
              fault |-> FALSE, old |-> FALSE, timer |-> 0]
lcec_omrg5_init ==
  /\ device = "OMRG5"
  /\ drv = [retries |-> 0, cycles |-> 0, retry |-> 0, cycle |-> 0, state |-> FALSE,
            fault |-> FALSE, old |-> FALSE, timer |-> 0]
lcec_el7211_init ==
  /\ device = "EL7211 servo"
  /\ drv = [retries |-> 0, cycles |-> 0, retry |-> 0, cycle |-> 0, state |-> FALSE,
            fault |-> FALSE, old |-> FALSE, timer |-> 0]

\* on: srv-switch-on of DeASDA, enable of the others; auto: auto-fault-reset of
\* OMRG5; shown: state on the pins.
\* hidden: reads since the driver may hide a fault; asked: the user has asked
\* for a reset of the present fault; off: writes since the drive was disabled.
Init ==
  /\ lcec_deasda_init \/ lcec_omrg5_init \/ lcec_el7211_init
  /\ hal = [on |-> FALSE, enable |-> FALSE, reset |-> FALSE, cmd |-> 0,
            auto |-> TRUE, shown |-> "none", fault |-> FALSE, velo |-> 0]
  /\ phase = "bus" /\ up = FALSE
  /\ in = [state |-> "none"]
  /\ out = [ctl |-> {}, velo |-> 0]
  /\ env = [left |-> Requests, hidden |-> 0, asked |-> FALSE, off |-> 0]

(***************************************************************************)
(* The drive: where the control word allows it to go, at once or later.  A *)
(* fault may come at any time, and go when it is reset.                    *)
(***************************************************************************)
States == {"disabled", "ready", "on", "op", "fault"}

Leads(state, ctl) ==
  CASE state = "disabled" -> IF "volt" \in ctl THEN "ready" ELSE "disabled"
    [] state = "ready" -> IF {"volt", "on"} \subseteq ctl THEN "on"
                          ELSE IF "volt" \in ctl THEN "ready" ELSE "disabled"
    [] state \in {"on", "op"} -> IF {"volt", "on", "op"} \subseteq ctl THEN "op"
                                 ELSE IF {"volt", "on"} \subseteq ctl THEN "on"
                                 ELSE IF "volt" \in ctl THEN "ready" ELSE "disabled"
    [] state = "fault" -> IF "reset" \in ctl THEN "disabled" ELSE "fault"

Bus == /\ Turn("bus", "read") /\ UNCHANGED <<hal, drv, out, env>>
       /\ up' \in BOOLEAN
       /\ \E s \in IF up THEN {in.state, Leads(in.state, out.ctl), "fault"} ELSE States :
            in' = IF up' THEN [state |-> s] ELSE in

(***************************************************************************)
(* The read callbacks.                                                     *)
(***************************************************************************)
Faulty == in.state = "fault"

\* Reads for which a fault may be hidden.
MayHide == IF device \in Asda THEN 2 * drv.retries * (drv.cycles + 1) ELSE Window
Remember == [env EXCEPT !.hidden = IF @ <= MayHide THEN @ + 1 ELSE @, !.asked = @ /\ Faulty]

\* A reset is tried for as many periods as there are retries, off for half of
\* each; meanwhile the fault is not shown.
Retry == IF Faulty THEN drv.retry ELSE 0
Turns == Retry > 0 /\ drv.cycle >= drv.cycles

lcec_deasda_read ==
  /\ device \in Asda
  /\ \/ /\ ~up /\ UNCHANGED <<drv, env>>
        /\ hal' = [hal EXCEPT !.shown = "none", !.fault = TRUE]
     \/ /\ up /\ env' = Remember
        /\ drv' = [drv EXCEPT !.fault = Faulty,
                     !.state = IF Turns THEN ~@ ELSE @,
                     !.retry = IF Turns /\ ~drv.state THEN Retry - 1 ELSE Retry,
                     !.cycle = CASE Turns -> 0
                                 [] ~Turns /\ Retry > 0 -> @ + 1
                                 [] OTHER -> @]
        /\ hal' = [hal EXCEPT !.shown = in.state, !.fault = Faulty /\ Retry = 0]

\* This driver reads the image in any state of its slave.
lcec_omrg5_read ==
  /\ device = "OMRG5" /\ env' = Remember
  /\ hal' = [hal EXCEPT !.shown = in.state, !.fault = drv.timer = 0 /\ Faulty /\ hal.on]
  /\ drv' = [drv EXCEPT !.timer = IF @ > 0 THEN @ - 1 ELSE 0]

\* A fault is hidden while the timer runs, which starts when the fault comes.
lcec_el7211_read ==
  /\ device = "EL7211 servo"
  /\ \/ /\ ~up /\ UNCHANGED <<drv, env>>
        /\ hal' = [hal EXCEPT !.shown = "fault"]  \* fault stays as it was
     \/ /\ up
        /\ hal' = [hal EXCEPT !.shown = in.state,
                              !.fault = hal.on /\ Faulty /\ drv.timer = 0]
        /\ drv' = [drv EXCEPT !.timer = CASE ~(hal.on /\ Faulty) -> Window
                                          [] hal.on /\ Faulty /\ @ > 0 -> @ - 1
                                          [] OTHER -> 0]
        /\ env' = [Remember EXCEPT !.hidden = IF hal.on /\ Faulty THEN @ ELSE 0]

Read == /\ Turn("read", "user") /\ UNCHANGED <<up, in, out>>
        /\ lcec_deasda_read \/ lcec_omrg5_read \/ lcec_el7211_read

(***************************************************************************)
(* The user.  fault-reset of OMRG5 is an output pin that nothing sets.     *)
(***************************************************************************)
Put(pins) == /\ env.left > 0 /\ hal' = pins
             /\ env' = [env EXCEPT !.left = @ - 1,
                                   !.asked = @ \/ (Faulty /\ ((pins.on /\ ~hal.on) \/ pins.reset))]

User == /\ Turn("user", "write") /\ UNCHANGED <<up, drv, in, out>>
        /\ \/ UNCHANGED <<hal, env>>
           \/ Put([hal EXCEPT !.on = ~@])
           \/ device \in Asda /\ Put([hal EXCEPT !.enable = ~@])
           \/ device \in Asda /\ Put([hal EXCEPT !.reset = ~@])
           \/ device = "OMRG5" /\ Put([hal EXCEPT !.auto = ~@])
           \/ device = "EL7211 servo" /\ \E v \in Commands : Put([hal EXCEPT !.cmd = v])

(***************************************************************************)
(* The write callbacks, which do not ask for the state of the slave.       *)
(***************************************************************************)
\* slip: the level in the place of the edge
EdgeLevel == hal.on
Edge == hal.on /\ ~drv.old

\* srv-enable-volt is taken as set, quick stop as not.
DeasdaControl ==
  LET tries == Edge /\ drv.fault /\ drv.retries > 0 /\ drv.cycles > 0
      retry == IF tries THEN drv.retries ELSE drv.retry
      state == tries \/ drv.state
  IN  /\ drv' = [drv EXCEPT !.old = hal.on, !.retry = retry, !.state = state,
                            !.cycle = IF tries THEN 0 ELSE @]
      /\ out' = [out EXCEPT !.ctl = {"volt"}
                   \cup (IF hal.reset \/ (retry > 0 /\ state) THEN {"reset"} ELSE {})
                   \cup (IF retry = 0 /\ hal.on THEN {"on"} ELSE {})
                   \cup (IF retry = 0 /\ hal.enable /\ hal.shown \in {"on", "op"} THEN {"op"} ELSE {})]
      /\ env' = IF tries THEN [env EXCEPT !.hidden = 0] ELSE env
      /\ UNCHANGED hal

lcec_deasda_write_csv == device = "DeASDA CSV" /\ DeasdaControl
lcec_deasda_write_csp == device = "DeASDA CSP" /\ DeasdaControl

lcec_omrg5_write ==
  LET resets == hal.shown = "fault" /\ hal.auto /\ Edge
  IN  /\ device = "OMRG5" /\ UNCHANGED hal
      /\ drv' = [drv EXCEPT !.old = hal.on, !.timer = IF resets THEN Window ELSE @]
      /\ out' = [out EXCEPT !.ctl =
                   CASE resets -> {"reset"}
                     [] hal.shown # "fault" /\ hal.on ->
                          {"volt"} \cup (IF hal.shown \in {"ready", "on", "op"} THEN {"on"} ELSE {})
                                   \cup (IF hal.shown \in {"on", "op"} THEN {"op"} ELSE {})
                     [] OTHER -> {}]
      /\ env' = IF resets THEN [env EXCEPT !.hidden = 0] ELSE env

Clamp(v, low, high) == IF v < low THEN low ELSE IF v > high THEN high ELSE v

\* The drive is led until the ramp has brought its command to 0.
lcec_el7211_write ==
  LET aim == IF hal.on THEN Clamp(hal.cmd, -Speed, Speed) ELSE 0
      velo == Clamp(aim, hal.velo - Ramp, hal.velo + Ramp)
  IN  /\ device = "EL7211 servo" /\ UNCHANGED drv
      /\ hal' = [hal EXCEPT !.velo = velo]
      /\ out' = [velo |-> velo,
                 ctl |-> CASE ~(hal.on \/ velo # 0) -> {}
                           [] (hal.on \/ velo # 0) /\ hal.shown = "fault" -> {"reset"}
                           [] (hal.on \/ velo # 0) /\ hal.shown = "disabled" -> {"volt"}
                           [] (hal.on \/ velo # 0) /\ hal.shown = "ready" -> {"volt", "on"}
                           [] (hal.on \/ velo # 0) /\ hal.shown \in {"on", "op"} -> {"volt", "on", "op"}
                           [] OTHER -> {}]
      /\ env' = [env EXCEPT !.off = CASE hal.on -> 0 [] ~hal.on /\ @ < Speed -> @ + 1 [] OTHER -> @]

Write == /\ Turn("write", "bus") /\ UNCHANGED <<up, in>>
         /\ \/ lcec_deasda_write_csv \/ lcec_deasda_write_csp
            \/ lcec_omrg5_write \/ lcec_el7211_write

Next == Bus \/ Read \/ User \/ Write
Spec == Init /\ [][Next]_slaveVars

-----------------------------------------------------------------------------
\* A fault pin is never TRUE without a fault, and a fault is hidden no longer
\* than a reset may take (lcec_deasda.c 484-500, lcec_omrg5.c 368-374,
\* lcec_el7211.c 403-412).
FaultIsShown ==
  phase = "user" /\ up =>
    /\ hal.fault => Faulty
    /\ Faulty /\ (device \in Asda \/ hal.on) /\ env.hidden > MayHide => hal.fault

\* A fault is reset only when the user asked for it after it had come, by enabling
\* the drive anew; save that srv-fault-reset of DeASDA goes to the drive as long as
\* it is set, and EL7211 resets each fault while it is enabled or still slows down
\* (lcec_deasda.c 547-575, lcec_omrg5.c 385-397, lcec_el7211.c 472-475).
ResetWhenAsked ==
  phase = "bus" /\ "reset" \in out.ctl =>
    CASE device \in Asda -> hal.reset \/ env.asked
      [] device = "OMRG5" -> env.asked
      [] device = "EL7211 servo" -> hal.on \/ hal.velo # 0

\* What is written leads the drive on to operation from wherever it is, while
\* it is enabled and without a fault; disabled, EL7211 has stopped in time, and
\* OMRG5 asks for nothing but the quick stop it does not support
\* (lcec_omrg5.c 388-409, lcec_el7211.c 464-485).
DriveIsLed ==
  phase = "bus" /\ up =>
    /\ hal.on /\ (device \in Asda => hal.enable) /\ ~Faulty
         => Leads(in.state, out.ctl) = CASE in.state = "disabled" -> "ready"
                                         [] in.state = "ready" -> "on"
                                         [] OTHER -> "op"
    /\ device = "OMRG5" /\ ~hal.on => out.ctl = {}
    /\ device = "EL7211 servo" /\ env.off * Ramp >= Speed => out = [ctl |-> {}, velo |-> 0]
=============================================================================
