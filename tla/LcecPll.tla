------------------------------ MODULE LcecPll ------------------------------
(***************************************************************************)
(* Clock discipline in M2R mode (sync_to_ref_clock = 1), the second half   *)
(* of lcec_write_master (src/src/lcec_main.c): the app time is held to the *)
(* DC reference clock by a bang-bang PLL on the thread, and by a resync of *)
(* dc_ref when the offset has grown too large.                             *)
(*                                                                         *)
(* One step is one write cycle.  The offset between the two clocks is the  *)
(* plant: it follows the correction of the previous cycle and the drift of *)
(* the clocks, and the program sees it one cycle late, because a frame     *)
(* brings back the DC time of the cycle in which it was sent.              *)
(***************************************************************************)
EXTENDS Integers

CONSTANTS
  Period,           \* app_time_period
  Step,             \* the pll-step parameter
  MaxErrs,          \* the values of the pll-max-error parameter that are tried
  AutoDriftDelay,   \* auto_drift_delay after a start and after a resync
  DriftModes,       \* the values of the drift-mode pin that are tried
  WrapResidue,      \* 2^64 modulo Period
  Latency,          \* external: the latency of the thread
  Drift,            \* external: the largest constant drift of the clocks in a cycle
  Noise,            \* external: the largest deviation from it in a single cycle
  StartOffsets,     \* external: the offset the clocks may start with
  MaxOffset,        \* bound: the offset between the clocks
  Far,              \* bound: a dc_ref above Far is kept modulo Period
  Quiet             \* bound: where the model stops counting cycles after one

ASSUME PeriodAssumption ==
  /\ Period \in Nat \ {0} /\ Period % 2 = 0 /\ WrapResidue \in 0 .. Period - 1
ASSUME ParameterAssumption ==
  /\ Step \in Nat /\ MaxErrs \subseteq Nat /\ AutoDriftDelay \in Nat
  /\ DriftModes \subseteq {0, 1}
ASSUME PlantAssumption ==
  /\ Latency \in Nat /\ Drift \in Nat /\ Noise \in Nat /\ MaxOffset \in Nat
  /\ StartOffsets \subseteq -MaxOffset .. MaxOffset 
  /\ Far \in Nat /\ Far % Period = 0 /\ Quiet \in Nat \ {0}

VARIABLES
  off,        \* external: app time minus DC time in the cycle before
  rate,       \* external: the constant part of the drift
  calm,       \* external: from now on no jitter, and no read of the DC time fails
  dcRef,      \* master->dc_ref, as the number it stands for
  jump,       \* what the last cycle took off dc_ref in a resync
  validLast,  \* master->dc_time_valid_last
  maxErr,     \* hal_data->pll_max_err
  mode,       \* the drift-mode pin
  autoDelay,  \* hal_data->auto_drift_delay
  phase,      \* the app-phase pin
  pllErr, pllOut, dcPhased,
  elapsed,    \* history: app_time - dc_ref_time of this cycle
  sinceReset  \* history: cycles since pll-reset-count was raised, up to Quiet

plantVars == <<off, rate, calm>>
vars == <<plantVars, dcRef, jump, validLast, maxErr, mode, autoDelay, phase, pllErr, pllOut,
          dcPhased, elapsed, sinceReset>>

Abs(x) == IF x < 0 THEN -x ELSE x
Smaller(a, b) == IF a < b THEN a ELSE b
Half == Period \div 2

TypeOK ==
  /\ off \in Int /\ rate \in -Drift .. Drift /\ calm \in BOOLEAN
  /\ maxErr \in MaxErrs /\ dcRef \in Int /\ jump \in Int
  /\ validLast \in BOOLEAN /\ mode \in DriftModes
  /\ autoDelay \in 0 .. AutoDriftDelay
  /\ phase \in 0 .. Period - 1
  /\ pllErr \in Int /\ pllOut \in {-Step, 0, Step} /\ dcPhased \in BOOLEAN
  /\ elapsed \in Int /\ sinceReset \in 0 .. Quiet

Init ==
  /\ off \in StartOffsets /\ rate \in -Drift .. Drift /\ calm = FALSE
  /\ maxErr \in MaxErrs /\ dcRef = 0 /\ jump = 0
  /\ validLast = FALSE /\ mode \in DriftModes /\ autoDelay = AutoDriftDelay
  /\ phase = 0 /\ pllErr = 0 /\ pllOut = 0 /\ dcPhased = FALSE
  /\ elapsed = 0 /\ sinceReset = Quiet

---------------------------------------------------------------------------
(* (app_time - dc_ref_time) % app_time_period on 64 bit unsigned numbers:  *)
(* below zero the difference has wrapped and 2^64 is not a multiple of the *)
(* period.                                                                 *)
AppPhase(t) == IF t >= 0 THEN t % Period ELSE (t + WrapResidue) % Period

(* Mode 0: what is left of the cycle after the app phase, once the delay   *)
(* has run out.                                                            *)
Compensation(p) ==
  IF mode = 0 /\ autoDelay = 0 THEN (Period - p) % Period ELSE 0

FoldOnceDown(e) == IF e < -Half THEN e + Period ELSE e  \* slip: one side only

FoldOnce(e) ==
  IF e > Half THEN e - Period ELSE IF e < -Half THEN e + Period ELSE e

Fold(e) == FoldOnce(FoldOnce(e))

(* The watchdog on the raw offset.                                         *)
Threshold == Smaller(maxErr, Half)

NearestPeriodsDown(raw) ==  \* slip: rounded towards zero
  IF raw >= 0 THEN (raw \div Period) * Period ELSE -(((-raw) \div Period) * Period)

NearestPeriods(raw) ==
  IF raw >= 0 THEN ((raw + Half) \div Period) * Period
              ELSE -(((-raw + Half) \div Period) * Period)

(* Slips: the plain jump always; nothing for less than a period.           *)
CorrectionPlain(raw) == raw
CorrectionNone(raw) == NearestPeriods(raw)

Correction(raw) == IF NearestPeriods(raw) = 0 THEN raw ELSE NearestPeriods(raw)

Trips(raw) == Abs(raw) > Threshold

(* A resync makes the next cycle skip its control.                         *)
ValidAfterResyncStill == TRUE  \* slip: no skip
ValidAfterResync == FALSE

Resync(raw) ==
  /\ Trips(raw)
  /\ jump' = Correction(raw)
  /\ validLast' = ValidAfterResync
  /\ sinceReset' = 0
  /\ autoDelay' = IF mode = 0 THEN AutoDriftDelay ELSE autoDelay
  /\ pllOut' = 0

Delay == IF mode = 0 /\ autoDelay > 0 THEN autoDelay - 1 ELSE autoDelay

CorrectionAway(err) == IF err < 0 THEN Step ELSE -Step  \* slip: the sign
BangBang(err) == IF err < 0 THEN -Step ELSE Step

Steer(raw) ==
  /\ ~Trips(raw)
  /\ pllOut' = BangBang(pllErr')
  /\ autoDelay' = Delay
  /\ jump' = 0 /\ validLast' = TRUE
  /\ sinceReset' = Smaller(sinceReset + 1, Quiet)

(* Two successive reads of the DC time are needed for an offset.           *)
Control(raw, p) ==
  /\ pllErr' = Fold(raw + Compensation(p))
  /\ dcPhased' = (Abs(pllErr') < Period \div 10)
  /\ Resync(raw) \/ Steer(raw)

NoOffset(valid) ==
  /\ pllErr' = 0 /\ pllOut' = 0 /\ dcPhased' = FALSE
  /\ jump' = 0 /\ validLast' = valid
  /\ sinceReset' = Smaller(sinceReset + 1, Quiet)
  /\ UNCHANGED autoDelay

(* dc_ref advances by a period in every cycle and gives way to a resync.   *)
KeepNear(ref) == IF ref > Far THEN Far + (ref % Period) ELSE ref

Cycle(valid, latency, noise) ==
  /\ elapsed' = dcRef + latency
  /\ phase' = AppPhase(dcRef + latency)
  /\ IF valid /\ validLast THEN Control(off, phase') ELSE NoOffset(valid)
  /\ dcRef' = KeepNear(dcRef + Period - jump')
  /\ off' = off - pllOut - jump + rate + noise
  /\ UNCHANGED <<mode, maxErr, rate>>

Next ==
  \/ /\ ~calm
     /\ \E valid \in BOOLEAN, latency \in 0 .. Latency, noise \in -Noise .. Noise :
          Cycle(valid, latency, noise)
     /\ Abs(off') <= MaxOffset /\ UNCHANGED calm
  \/ Cycle(TRUE, Latency, 0) /\ calm' = TRUE

Spec == Init /\ [][Next]_vars
FairSpec == Spec /\ WF_vars(Next)

---------------------------------------------------------------------------
(* Properties.                                                             *)

(* The thread is only ever steered along the shorter way round: whenever a *)
(* correction is given the folded error is at most half a period, jumps of *)
(* the compensation included.                                              *)
SteersTheShortWay == pllOut # 0 => Abs(pllErr) <= Half

(* Every resync that is counted does move dc_ref, and leaves at most half  *)
(* a period of the offset it has measured.                                 *)
ResyncRemovesOffset ==
  [][sinceReset' = 0 => jump' # 0 /\ Abs(off - jump') <= Half]_vars

(* The cycle after a resync still sees the offset from before it.  It      *)
(* neither steers nor resyncs by that, so no offset is removed twice.      *)
NoOffsetRemovedTwice ==
  [][jump # 0 => jump' = 0 /\ pllOut' = 0 /\ sinceReset' # 0]_vars

(* Resyncs by whole periods do not disturb the compensation: unless the    *)
(* threshold is below half a period, app-phase stays the latency of the    *)
(* thread once dc_ref counts up from zero again.                           *)
PhaseIsLatency ==
  maxErr >= Half /\ elapsed >= 0 => phase <= Latency

(* Liveness: wherever the clocks have got to, once latency and drift are   *)
(* steady and the DC time readable, the PLL ends up phased for good and    *)
(* stops resyncing.  Two exceptions: a threshold below half a period, and  *)
(* clocks that run exactly alike.  Those the dead time of one cycle can    *)
(* keep at half a period, where the two ways round are equally short.      *)
PllSettles ==
  maxErr >= Half /\ rate # 0 /\ <>calm => <>[]dcPhased /\ <>[](sinceReset = Quiet)

---------------------------------------------------------------------------
(* What the comments say, refuted by the code.                             *)

(* "app_phase = (app_time - dc_ref_time) % period": where we are within    *)
(* the current cycle since activation.                                     *)
PhaseIsElapsedModPeriod == phase = elapsed % Period
=============================================================================
