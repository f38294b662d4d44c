----------------------------- MODULE LcecPhase -----------------------------
(***************************************************************************)
(* Clock discipline in R2M mode (sync_to_ref_clock = 0), the second half   *)
(* of lcec_write_master (src/src/lcec_main.c): the calibration of the app  *)
(* phase, the bang-bang controller that moves it away from the boundary of *)
(* the cycle, the dwell filter behind the dc-phased pin, and the push of   *)
(* the reference clock.                                                    *)
(*                                                                         *)
(* One step is one write cycle.  The thread is the plant: it wakes up at   *)
(* position in its period, its latency is up to Latency, and a correction  *)
(* given to rtapi_task_pll_set_correction moves the next wake-up.          *)
(***************************************************************************)
EXTENDS Integers

CONSTANTS
  Period,          \* app_time_period, the period of the thread
  Latency,         \* external: the largest latency of the thread
  Step,            \* the pll-step parameter
  MeasureCycles,   \* PHASE_MEASURE_CYCLES
  Dwell,           \* phase_lock_dwell, about 200 ms worth of cycles
  SyncRefCycles,   \* refClockSyncCycles, 0 when free running
  StartPositions,  \* external: where the thread may wake up at first
  InitfModes       \* the possible values of master->initf_activated

ASSUME PeriodAssumption == Period \in Nat \ {0} /\ Latency \in Nat
ASSUME ParameterAssumption ==
  /\ Step \in Nat /\ Dwell \in Nat
  /\ MeasureCycles \in Nat \ {0} /\ SyncRefCycles \in Nat
  /\ InitfModes \subseteq BOOLEAN /\ StartPositions \subseteq 0 .. Period - 1

VARIABLES
  position,     \* external: where in the period the thread wakes up
  initf,        \* master->initf_activated
  phase,        \* app_phase of the last cycle
  measured,     \* phase_measure_cnt
  lo, hi, last, \* phase_min, phase_max, phase_last
  calibrated, jitter, target,
  locked, lockCnt, unlockCnt,
  dcPhased,     \* the dc-phased pin
  pllErr, pllOut, pllFinal,
  syncRefCnt,   \* sync_ref_cnt
  lockedFor, unlockedFor  \* history: cycles in a row since calibration, to Dwell + 1

measureVars == <<measured, lo, hi, last, calibrated, jitter, target>>
lockVars == <<locked, lockCnt, unlockCnt, dcPhased, lockedFor, unlockedFor>>
outVars == <<pllErr, pllOut, pllFinal>>
vars == <<position, initf, phase, measureVars, lockVars, outVars, syncRefCnt>>

Phases == 0 .. Period - 1
Abs(x) == IF x < 0 THEN -x ELSE x
Smaller(a, b) == IF a < b THEN a ELSE b
Larger(a, b) == IF a > b THEN a ELSE b

(* The windows of the controller.                                          *)
LockWin == Period \div 100
UnlockWin == Period \div 20
MaxTarget == Period \div 8

TypeOK ==
  /\ position \in Phases /\ initf \in BOOLEAN /\ phase \in Phases
  /\ measured \in 0 .. MeasureCycles
  /\ lo \in Int /\ hi \in Int /\ last \in Phases
  /\ calibrated \in BOOLEAN /\ jitter \in Int /\ target \in Int
  /\ locked \in BOOLEAN /\ lockCnt \in 0 .. Dwell /\ unlockCnt \in 0 .. Dwell
  /\ dcPhased \in BOOLEAN
  /\ pllErr \in Int /\ pllOut \in {-Step, 0, Step} /\ pllFinal \in {-Step, 0, Step}
  /\ syncRefCnt \in 0 .. SyncRefCycles
  /\ lockedFor \in 0 .. Dwell + 1 /\ unlockedFor \in 0 .. Dwell + 1

Init ==
  /\ position \in StartPositions /\ initf \in InitfModes /\ phase = 0
  /\ measured = 0 /\ lo = 0 /\ hi = 0 /\ last = 0
  /\ calibrated = FALSE /\ jitter = 0 /\ target = 0
  /\ locked = FALSE /\ lockCnt = 0 /\ unlockCnt = 0 /\ dcPhased = FALSE
  /\ pllErr = 0 /\ pllOut = 0 /\ pllFinal = 0
  /\ syncRefCnt = 0
  /\ lockedFor = 0 /\ unlockedFor = 0

---------------------------------------------------------------------------
(* The reference clock is pushed when the counter has run out.             *)
Reload == SyncRefCycles - 1

PushReference ==
  \/ SyncRefCycles = 0 /\ UNCHANGED syncRefCnt
  \/ SyncRefCycles > 0 /\ syncRefCnt = 0 /\ syncRefCnt' = Reload
  \/ syncRefCnt > 0 /\ syncRefCnt' = syncRefCnt - 1

(* Phase 1: measure.  A jump of more than half a period is taken for a     *)
(* wrap of the phase and undone against the previous raw sample.           *)
Unwrap(now) ==
  IF now - last > Period \div 2 THEN now - Period
  ELSE IF now - last < -(Period \div 2) THEN now + Period
  ELSE now

Measure(now) ==
  /\ ~calibrated /\ measured < MeasureCycles
  /\ \/ measured = 0 /\ lo' = now /\ hi' = now
     \/ measured > 0 /\ lo' = Smaller(lo, Unwrap(now)) /\ hi' = Larger(hi, Unwrap(now))
  /\ last' = now /\ measured' = measured + 1
  /\ dcPhased' = FALSE /\ pllErr' = 0 /\ pllOut' = 0
  /\ UNCHANGED <<calibrated, jitter, target, locked, lockCnt, unlockCnt,
                 lockedFor, unlockedFor>>

(* Slip: no limit on the target.                                           *)
TargetUnlimited(j) == j + j \div 2

(* Phase 2: the target position is one and a half times the jitter, at     *)
(* most an eighth of the period.                                           *)
Target(j) == Smaller(j + j \div 2, MaxTarget)

Calibrate ==
  /\ ~calibrated /\ measured = MeasureCycles
  /\ calibrated' = TRUE
  /\ jitter' = hi - lo /\ target' = Target(hi - lo)
  /\ locked' = FALSE /\ lockCnt' = 0 /\ unlockCnt' = 0
  /\ dcPhased' = FALSE /\ pllErr' = 0 /\ pllOut' = 0
  /\ lockedFor' = 0 /\ unlockedFor' = 0
  /\ UNCHANGED <<measured, lo, hi, last>>

(* Phase 3: bang-bang towards the target, with hysteresis on the lock.     *)
LockState(err) ==
  IF Abs(err) < LockWin THEN TRUE
  ELSE IF Abs(err) > UnlockWin THEN FALSE ELSE locked

BangBang(err) ==
  IF err > 0 THEN -Step ELSE IF err < 0 THEN Step ELSE 0

(* dc-phased follows the lock only after it has stood for the dwell.       *)
Count(count) == Smaller(count + 1, Dwell)

StoodShort(count) == count >= Dwell - 1  \* slip: a cycle early
StoodNever(count) == count > Dwell       \* slip: > for >=
Stood(count) == count >= Dwell

DwellFilter(isLocked) ==
  \/ /\ isLocked
     /\ unlockCnt' = 0 /\ lockCnt' = Count(lockCnt)
     /\ dcPhased' = (dcPhased \/ Stood(lockCnt))
     /\ lockedFor' = Smaller(lockedFor + 1, Dwell + 1) /\ unlockedFor' = 0
  \/ /\ ~isLocked
     /\ lockCnt' = 0 /\ unlockCnt' = Count(unlockCnt)
     /\ dcPhased' = (dcPhased /\ ~Stood(unlockCnt))
     /\ unlockedFor' = Smaller(unlockedFor + 1, Dwell + 1) /\ lockedFor' = 0

Control(now) ==
  LET err == now - target
  IN /\ calibrated /\ ~initf
     /\ pllErr' = err
     /\ locked' = LockState(err)
     /\ pllOut' = IF locked' THEN 0 ELSE BangBang(err)
     /\ DwellFilter(locked')
     /\ UNCHANGED <<measured, lo, hi, last, calibrated, jitter, target>>

(* A master activated through initf is taken to be phased as it is.        *)
TrustInitf ==
  /\ calibrated /\ initf
  /\ pllErr' = 0 /\ pllOut' = 0 /\ dcPhased' = TRUE
  /\ UNCHANGED <<measured, lo, hi, last, calibrated, jitter, target, locked,
                 lockCnt, unlockCnt, lockedFor, unlockedFor>>

(* One write cycle: the app phase is where the thread woke up plus its     *)
(* latency, and the correction moves the next wake-up.                     *)
Cycle(latency) ==
  LET now == (position + latency) % Period
  IN /\ phase' = now
     /\ PushReference
     /\ Measure(now) \/ Calibrate \/ Control(now) \/ TrustInitf
     /\ pllFinal' = IF locked' THEN 0 ELSE pllOut'
     /\ position' = (position + pllFinal') % Period
     /\ UNCHANGED initf

Next == \E latency \in 0 .. Latency : Cycle(latency)

Spec == Init /\ [][Next]_vars
FairSpec == Spec /\ WF_vars(Next)

---------------------------------------------------------------------------
(* Properties.                                                             *)

(* Whatever was measured, wraps included, the target lies between the      *)
(* boundary of the cycle and an eighth of the period.                      *)
TargetInRange == calibrated => target \in 0 .. MaxTarget /\ jitter >= 0

(* dc-phased is wired into machine enables: after the calibration it only  *)
(* rises when the lock has held for more than the dwell without a break,   *)
(* and only falls when it has been lost for as long.                       *)
NoStrobe ==
  [][calibrated /\ ~initf /\ dcPhased' # dcPhased =>
       IF dcPhased' THEN lockedFor' > Dwell ELSE unlockedFor' > Dwell]_vars

(* dc-phased and the lock differ only for the length of the dwell.         *)
FilterFollowsLock ==
  calibrated /\ ~initf =>
    /\ lockedFor > Dwell => dcPhased
    /\ unlockedFor > Dwell => ~dcPhased

(* Liveness: from every start position, whatever the latencies, the phase  *)
(* is finally locked for good and dc-phased with it.                       *)
PhaseSettles == <>[]dcPhased /\ (~initf => <>[]locked)

=============================================================================
