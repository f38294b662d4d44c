---------------------------- MODULE LcecEncoders ----------------------------
(***************************************************************************)
(* The encoder class (lcec_class_enc.c) in the drivers that use it:        *)
(* StMDS5k, EL7211, the AX5000 family, DeASDA and Ph3LM2RM.  The class     *)
(* extends the counter of the encoder to 64 bits, counts from raw-home,    *)
(* and gives a position that an index, a latch, a reset or the start sets  *)
(* to zero.  Scaling is left out.                                          *)
(***************************************************************************)
EXTENDS LcecSlave

CONSTANTS M24, M32, M64,  \* number of values of an integer of that width
          Reach,          \* bound: positions of the axis
          Steps,          \* travel of the axis in a cycle
          Bases, Homes,   \* raw count where the axis starts, raw-home
          Requests        \* bound: how often the user acts

\* raw: values of the counter; pprev: pulses per revolution, 0 when unknown.
StMDS5k == [raw |-> M24, pprev |-> M24]
EL7211 == [raw |-> M32, pprev |-> M32 \div 2]
AX5 == [raw |-> M32, pprev |-> M32 \div 2]
DeASDA == [raw |-> M32, pprev |-> 6]
DeASDA3 == [raw |-> M32, pprev |-> M32 \div 2]
ExtEnc == [raw |-> M32, pprev |-> 1]
Ph3LM2RM == [raw |-> M32, pprev |-> 0]

Encoding == {"StMDS5k", "EL7211", "AX5", "DeASDA", "DeASDA3", "DeASDA extenc", "Ph3LM2RM"}

Drives == [d \in Encoding |->
             CASE d = "StMDS5k" -> StMDS5k [] d = "EL7211" -> EL7211 [] d = "AX5" -> AX5
               [] d = "DeASDA" -> DeASDA [] d = "DeASDA3" -> DeASDA3
               [] d = "DeASDA extenc" -> ExtEnc [] d = "Ph3LM2RM" -> Ph3LM2RM]

pprev == Drives[device].pprev
RawDiff(a, b) == Signed(a - b, Drives[device].raw)

class_enc_init ==
  /\ \E home \in Homes :
       hal = [ext |-> 0, ref |-> 0, home |-> home, index |-> FALSE, reset |-> FALSE,
              pos |-> 0, arm |-> FALSE, valid |-> FALSE]
  /\ drv = [init |-> TRUE, raw |-> 0, sign |-> 0]

\* One drive with an encoder: seen is the position behind the image, from which
\* the counter is base away, by the range in which the driver first sees it;
\* zero, met: as in LcecCounters.
Init ==
  /\ device \in Encoding /\ class_enc_init
  /\ phase = "bus" /\ up = FALSE
  /\ out = [arm |-> FALSE]
  /\ \E base \in Bases :
       /\ in = [raw |-> base % Drives[device].raw, valid |-> FALSE, latch |-> 0]
       /\ env = [pos |-> 0, seen |-> 0, base |-> base, zero |-> 0, at |-> 0, met |-> {},
                 left |-> Requests]

(***************************************************************************)
(* The axis.  The image stays as it was while the slave does not answer,   *)
(* and the axis then goes less than half of what its encoder counts.       *)
(***************************************************************************)
Turned(p) == p + env.base - hal.home
Mark(p) == pprev > 0 /\ Turned(p) % pprev = 0
Half(p) == pprev > 0 /\ Turned(p) % pprev = pprev \div 2

\* The axis goes from p to p + 1 or back.
Over(d, p) == (env.pos <= p /\ p < env.pos + d) \/ (env.pos + d <= p /\ p < env.pos)

\* A revolution begins; the second half of one does; the axis is where a negative
\* number is divided by one of pulses that is not a power of two.
Passed(d) == \E p \in Reach : Over(d, p) /\ Mark(p + 1)
Turns(d) == \E p \in Reach : Over(d, p) /\ Half(p)
Astray(d) == pprev > 0 /\ M64 % pprev # 0 /\ (Turned(env.pos) < 0 \/ Turned(env.pos + d) < 0)

\* What the axis does for an index that is asked for.
Way(d) == (IF Passed(d) \/ pprev \div 4 = 0 THEN {"index"} ELSE {})
          \cup (IF Turns(d) THEN {"half"} ELSE {}) \cup (IF Astray(d) THEN {"astray"} ELSE {})

Bus ==
  /\ Turn("bus", "read") /\ UNCHANGED <<hal, drv, out>>
  /\ up' \in BOOLEAN
  /\ \E d \in Steps, caught \in {FALSE, out.arm /\ up' /\ ~in.valid} :
       LET pos == env.pos + d
           half == Drives[device].raw \div 2
           raw(p) == (p + env.base) % Drives[device].raw
       IN  /\ pos \in Reach /\ pos - env.seen \in -half..half - 1
           /\ in' = IF ~up' THEN in
                    ELSE [raw |-> raw(pos),
                          valid |-> caught \/ (in.valid /\ out.arm),
                          latch |-> IF caught THEN raw(pos) ELSE in.latch]
           /\ env' = [env EXCEPT !.pos = pos, !.seen = IF up' THEN pos ELSE @,
                                 !.at = IF caught THEN pos ELSE @,
                                 !.met = @ \cup Way(d) \cup (IF caught THEN {"latch"} ELSE {})]

(***************************************************************************)
(* class_enc_update.                                                       *)
(***************************************************************************)
\* The remainder is one of unsigned numbers of 64 bits.
SignedMod(val) == LET rem == (val % M64) % pprev
                  IN  IF rem > pprev \div 2 THEN rem - pprev ELSE rem

Window == pprev \div 4

SignBefore == IF drv.init THEN 0 ELSE drv.sign

\* slip: the side of the mark is kept while no index is asked for
SideKept(sign) == IF hal.index /\ Window > 0 THEN sign ELSE drv.sign
Side(sign) == IF hal.index /\ Window > 0 THEN sign ELSE 0

Nearest(p) == CHOOSE q \in (p - pprev)..(p + pprev) :
                Mark(q) /\ 2 * q \in (2 * p - pprev)..(2 * p + pprev)

\* slip: the difference is not folded
ExtendPlain == hal.ext + in.raw - (IF drv.init THEN hal.ext ELSE drv.raw)
Extend == hal.ext + RawDiff(in.raw, IF drv.init THEN hal.ext ELSE drv.raw)

class_enc_update(latched) ==
  LET pos == Extend + RawDiff(0, hal.home)
      mod == SignedMod(pos)
      sign == IF mod >= 0 THEN 1 ELSE -1
      atOnce == hal.index /\ Window = 0
      passes == /\ hal.index /\ Window > 0
                /\ SignBefore # 0 /\ sign # SignBefore /\ mod <= Window
      zeroed == drv.init \/ hal.reset
      ref == CASE zeroed -> pos
               [] ~zeroed /\ latched -> pos + RawDiff(in.latch, in.raw)
               [] ~zeroed /\ ~latched /\ atOnce -> pos
               [] ~zeroed /\ ~latched /\ passes -> pos - mod
               [] OTHER -> hal.ref
      exact == M64 % pprev = 0 \/ Turned(env.seen) >= 0
  IN  /\ hal' = [hal EXCEPT !.ext = Extend, !.ref = ref, !.pos = pos - ref,
                            !.index = @ /\ ~atOnce /\ ~passes,
                            !.valid = latched, !.arm = @ /\ ~latched]
      /\ drv' = [init |-> FALSE, raw |-> in.raw, sign |-> Side(sign)]
      /\ env' = [env EXCEPT !.base = IF drv.init THEN Extend - env.seen ELSE @,
                                !.met = IF hal.index /\ ~atOnce /\ ~passes THEN @ ELSE @ \cap {"latch"},
                                !.zero =
                   CASE zeroed -> env.seen
                     [] ~zeroed /\ latched -> env.at
                     [] ~zeroed /\ ~latched /\ atOnce -> env.seen
                     [] ~zeroed /\ ~latched /\ passes ->
                          IF exact THEN Nearest(env.seen) ELSE env.seen - mod
                     [] OTHER -> env.zero]

Wait == ~up /\ UNCHANGED <<hal, drv, env>>

lcec_stmds5k_read == device = "StMDS5k" /\ (Wait \/ (up /\ class_enc_update(FALSE)))
lcec_el7211_read == device = "EL7211" /\ (Wait \/ (up /\ class_enc_update(FALSE)))
lcec_deasda_read == /\ device \in {"DeASDA", "DeASDA3", "DeASDA extenc"}
                    /\ Wait \/ (up /\ class_enc_update(FALSE))
\* The encoder starts anew behind an outage.
lcec_class_ax5_read ==
  /\ device = "AX5"
  /\ \/ ~up /\ drv' = [drv EXCEPT !.init = TRUE] /\ UNCHANGED <<hal, env>>
     \/ up /\ class_enc_update(FALSE)
\* This driver reads the image in any state of its slave.
lcec_ph3lm2rm_enc_read == device = "Ph3LM2RM" /\ class_enc_update(in.valid)

Read == /\ Turn("read", "user") /\ UNCHANGED <<up, in, out>>
        /\ \/ lcec_stmds5k_read \/ lcec_el7211_read \/ lcec_deasda_read
           \/ lcec_class_ax5_read \/ lcec_ph3lm2rm_enc_read

(***************************************************************************)
(* The user.  A latch is armed again when its valid pin has fallen.        *)
(***************************************************************************)
Put(pins, forget) == /\ hal' = pins /\ env.left > 0
                     /\ env' = [env EXCEPT !.left = @ - 1, !.met = @ \ forget]

User ==
  /\ Turn("user", "write") /\ UNCHANGED <<up, drv, in, out>>
  /\ \/ UNCHANGED <<hal, env>>
     \/ ~hal.index /\ Put([hal EXCEPT !.index = TRUE], {})
     \/ hal.index /\ Put([hal EXCEPT !.index = FALSE], {})
     \/ Put([hal EXCEPT !.reset = ~@], {})
     \/ device = "Ph3LM2RM" /\ ~hal.valid /\ Put([hal EXCEPT !.arm = ~@], {"latch"})

lcec_ph3lm2rm_enc_write == device = "Ph3LM2RM" /\ out' = [arm |-> hal.arm]

Write == /\ Turn("write", "bus") /\ UNCHANGED <<up, hal, drv, in, env>>
         /\ \/ lcec_ph3lm2rm_enc_write
            \/ device # "Ph3LM2RM" /\ UNCHANGED out  \* outputs of the drive only

Next == Bus \/ Read \/ User \/ Write
Spec == Init /\ [][Next]_slaveVars

-----------------------------------------------------------------------------
\* Through wraps of the counter and outages shorter than half its range the
\* extended count follows the axis, and the position is the travel since the
\* last start, reset, latch or index; an index is the mark of a revolution, that
\* which is nearest (lcec_class_enc.c 80-158), save where a negative position
\* is divided by a number of pulses that is not a power of two.
PositionIsTravel ==
  phase = "user" /\ ~drv.init =>
    /\ hal.ext = env.seen + env.base
    /\ hal.pos = env.seen - env.zero

\* index-ena is taken back only when the axis has passed a mark since the last image
\* before it was raised, and a latch when it has latched (lcec_class_enc.c 122-141,
\* lcec_ph3lm2rm.c 307-313).  Two other things count as a mark: the axis went through
\* the middle between two marks (on the way down only by more than a quarter of a
\* revolution from one image to the next), since mod <= ovfl_win (133) holds of every
\* negative mod where the comment at 124 speaks of a window of a quarter; or, with
\* DeASDA, it was on the negative side, where the marks of the driver are not those
\* of the encoder.
IndexWhenMet ==
  phase = "read" =>
    /\ hal.index /\ ~hal'.index => env.met \cap {"index", "half", "astray"} # {}
    /\ hal.arm /\ ~hal'.arm => "latch" \in env.met
=============================================================================
