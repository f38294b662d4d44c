-------------------------- MODULE LcecPhaseProofs --------------------------
(***************************************************************************)
(* Theorems about LcecPhase, for every period, latency, step, dwell and    *)
(* number of measuring cycles.                                             *)
(***************************************************************************)
EXTENDS LcecPhase, TLAPS

(* A position of the thread is reduced to its period.                      *)
LEMMA PhaseType == \A n \in Int : n % Period \in Phases
BY PeriodAssumption DEF Phases

(* A position is an integer.                                               *)
LEMMA PhaseInt == \A p \in Phases : p \in Int /\ Unwrap(p) \in Int
<1>1. \A p \in Phases : p \in Int
  BY PeriodAssumption DEF Phases
<1> QED
  BY <1>1, PeriodAssumption DEF Unwrap

(* One and a half times a jitter, at most an eighth of the period, is      *)
(* never negative: the target lies inside the cycle.                       *)
LEMMA TargetType ==
  /\ \A j \in Int : Target(j) \in Int
  /\ \A j \in Nat : Target(j) \in 0 .. MaxTarget
<1>1. MaxTarget \in Nat
  BY PeriodAssumption DEF MaxTarget
<1> QED
  BY <1>1 DEF Target, Smaller

(* The counter of the reference clock stays in its cycle.                  *)
LEMMA PushType ==
  ASSUME TypeOK, PushReference
  PROVE  syncRefCnt' \in 0 .. SyncRefCycles
BY ParameterAssumption DEF TypeOK, PushReference, Reload

(* The types of what the branch of a cycle assigns.                        *)
BranchType ==
  /\ measured \in 0 .. MeasureCycles
  /\ lo \in Int /\ hi \in Int /\ last \in Phases
  /\ calibrated \in BOOLEAN /\ jitter \in Int /\ target \in Int
  /\ locked \in BOOLEAN /\ lockCnt \in 0 .. Dwell /\ unlockCnt \in 0 .. Dwell
  /\ dcPhased \in BOOLEAN
  /\ pllErr \in Int /\ pllOut \in {-Step, 0, Step}
  /\ lockedFor \in 0 .. Dwell + 1 /\ unlockedFor \in 0 .. Dwell + 1

(* Measuring keeps the types.                                              *)
LEMMA MeasureType ==
  ASSUME TypeOK, NEW now \in Phases, Measure(now)
  PROVE  BranchType'
<1>1. now \in Int /\ Unwrap(now) \in Int
  BY PhaseInt
<1>2. lo' \in Int /\ hi' \in Int
  BY <1>1 DEF TypeOK, Measure, Smaller, Larger
<1>3. measured' \in 0 .. MeasureCycles
  BY ParameterAssumption DEF TypeOK, Measure
<1>4. pllErr' \in Int /\ pllOut' \in {-Step, 0, Step}
  BY DEF Measure
<1> QED
  BY <1>2, <1>3, <1>4 DEF TypeOK, Measure, BranchType

(* The calibration keeps the types.                                        *)
LEMMA CalibrateType == TypeOK /\ Calibrate => BranchType'
<1> SUFFICES ASSUME TypeOK, Calibrate
             PROVE  BranchType'
  OBVIOUS
<1>1. jitter' \in Int /\ target' \in Int
  BY TargetType DEF TypeOK, Calibrate
<1>2. 0 \in 0 .. Dwell /\ 0 \in 0 .. Dwell + 1
  BY ParameterAssumption
<1>3. pllErr' \in Int /\ pllOut' \in {-Step, 0, Step}
  BY DEF Calibrate
<1> QED
  BY <1>1, <1>2, <1>3 DEF TypeOK, Calibrate, BranchType

(* The dwell filter keeps the types of its counters.                       *)
LEMMA DwellType ==
  ASSUME TypeOK, NEW l \in BOOLEAN, DwellFilter(l)
  PROVE  /\ lockCnt' \in 0 .. Dwell /\ unlockCnt' \in 0 .. Dwell
         /\ lockedFor' \in 0 .. Dwell + 1 /\ unlockedFor' \in 0 .. Dwell + 1
         /\ dcPhased' \in BOOLEAN
<1>1. \A n \in 0 .. Dwell : Count(n) \in 0 .. Dwell
  BY ParameterAssumption DEF Count, Smaller
<1>2. \A n \in 0 .. Dwell + 1 : Smaller(n + 1, Dwell + 1) \in 0 .. Dwell + 1
  BY ParameterAssumption DEF Smaller
<1>3. 0 \in 0 .. Dwell /\ 0 \in 0 .. Dwell + 1
  BY ParameterAssumption
<1>4. CASE l
  BY <1>1, <1>2, <1>3, <1>4 DEF TypeOK, DwellFilter
<1>5. CASE ~l
  BY <1>1, <1>2, <1>3, <1>5 DEF TypeOK, DwellFilter
<1> QED
  BY <1>4, <1>5

(* The controller keeps the types.                                         *)
LEMMA ControlType ==
  ASSUME TypeOK, NEW now \in Phases, Control(now)
  PROVE  BranchType'
<1> DEFINE err == now - target
<1>1. err \in Int
  BY PhaseInt DEF TypeOK
<1>2. locked' \in BOOLEAN
  BY DEF TypeOK, Control, LockState
<1>3. pllOut' \in {-Step, 0, Step}
  BY DEF Control, BangBang
<1>4. /\ lockCnt' \in 0 .. Dwell /\ unlockCnt' \in 0 .. Dwell
      /\ lockedFor' \in 0 .. Dwell + 1 /\ unlockedFor' \in 0 .. Dwell + 1
      /\ dcPhased' \in BOOLEAN
  BY <1>2, DwellType DEF Control
<1> QED
  BY <1>1, <1>2, <1>3, <1>4 DEF TypeOK, Control, BranchType

(* So does a cycle of a master that was activated through initf.           *)
LEMMA TrustType == TypeOK /\ TrustInitf => BranchType'
BY DEF TypeOK, TrustInitf, BranchType

(* The phases the thread starts from have their types.                     *)
LEMMA TypeInit == Init => TypeOK
<1>1. /\ 0 \in Phases /\ 0 \in 0 .. MeasureCycles /\ 0 \in 0 .. Dwell
      /\ 0 \in 0 .. Dwell + 1 /\ 0 \in 0 .. SyncRefCycles
  BY PeriodAssumption, ParameterAssumption DEF Phases
<1>2. StartPositions \subseteq Phases
  BY ParameterAssumption DEF Phases
<1>3. 0 \in Int /\ 0 \in {-Step, 0, Step} /\ InitfModes \subseteq BOOLEAN
  BY ParameterAssumption
<1> QED
  BY <1>1, <1>2, <1>3 DEF Init, TypeOK

(* Every cycle keeps the types.                                            *)
LEMMA TypeStep == TypeOK /\ [Next]_vars => TypeOK'
<1> SUFFICES ASSUME TypeOK, [Next]_vars
             PROVE  TypeOK'
  OBVIOUS
<1>1. CASE UNCHANGED vars
  BY <1>1 DEF TypeOK, vars, measureVars, lockVars, outVars
<1>2. ASSUME NEW latency \in 0 .. Latency, Cycle(latency)
      PROVE  TypeOK'
  <2> DEFINE now == (position + latency) % Period
  <2>1. position + latency \in Int /\ latency \in Int
    BY PhaseInt, PeriodAssumption DEF TypeOK
  <2>2. now \in Phases
    BY <2>1, PhaseType
  <2>3. BranchType'
    BY <1>2, <2>2, MeasureType, CalibrateType, ControlType, TrustType DEF Cycle
  <2>4. pllFinal' \in {-Step, 0, Step}
    BY <1>2, <2>3 DEF Cycle, BranchType
  <2>5. position + pllFinal' \in Int
    BY <2>4, PhaseInt, ParameterAssumption DEF TypeOK
  <2>6. position' \in Phases
    BY <1>2, <2>5, PhaseType DEF Cycle
  <2>7. syncRefCnt' \in 0 .. SyncRefCycles
    BY <1>2, PushType DEF Cycle
  <2>8. phase' \in Phases /\ initf' \in BOOLEAN
    BY <1>2, <2>2 DEF Cycle, TypeOK
  <2> QED
    BY <2>3, <2>4, <2>6, <2>7, <2>8 DEF TypeOK, BranchType
<1> QED
  BY <1>1, <1>2 DEF Next

(* Type correctness: in particular every wake-up stays inside the period,  *)
(* and no counter of the dwell filter passes the dwell.                    *)
THEOREM TypeCorrect == Spec => []TypeOK
BY TypeInit, TypeStep, PTL DEF Spec

---------------------------------------------------------------------------
(* The smallest unwrapped sample never exceeds the largest, and before the *)
(* target is set there is at least one sample.                             *)
Measured ==
  /\ measured > 0 => lo <= hi
  /\ calibrated => target \in 0 .. MaxTarget /\ jitter >= 0

(* No sample has been taken.                                               *)
LEMMA MeasuredInit == Init => Measured
BY DEF Init, Measured

(* Measuring only widens the range; the calibration takes its width.       *)
LEMMA MeasuredStep == TypeOK /\ Measured /\ [Next]_vars => Measured'
<1> SUFFICES ASSUME TypeOK, Measured, [Next]_vars
             PROVE  Measured'
  OBVIOUS
<1>1. CASE UNCHANGED vars
  BY <1>1 DEF Measured, vars, measureVars
<1>2. ASSUME NEW latency \in 0 .. Latency, Cycle(latency)
      PROVE  Measured'
  <2> DEFINE now == (position + latency) % Period
  <2>1. now \in Phases
    BY PhaseInt, PhaseType, PeriodAssumption DEF TypeOK
  <2>2. now \in Int /\ Unwrap(now) \in Int
    BY <2>1, PhaseInt
  <2>3. CASE Measure(now)
    BY <2>2, <2>3 DEF Measure, Measured, TypeOK, Smaller, Larger
  <2>4. CASE Calibrate
    <3>1. measured > 0 /\ lo <= hi
      BY <2>4, ParameterAssumption DEF Calibrate, Measured
    <3>2. hi - lo \in Nat
      BY <3>1 DEF TypeOK
    <3> QED
      BY <2>4, <3>1, <3>2, TargetType DEF Calibrate, Measured
  <2>5. CASE Control(now) \/ TrustInitf
    BY <2>5 DEF Control, TrustInitf, Measured
  <2> QED
    BY <1>2, <2>3, <2>4, <2>5 DEF Cycle
<1> QED
  BY <1>1, <1>2 DEF Next

(* Whatever was measured, wraps included, the target lies between the      *)
(* boundary of the cycle and an eighth of the period.                      *)
THEOREM TargetInRangeCorrect == Spec => []TargetInRange
<1>1. Measured => TargetInRange
  BY DEF Measured, TargetInRange
<1> QED
  BY <1>1, MeasuredInit, MeasuredStep, TypeCorrect, PTL DEF Spec

---------------------------------------------------------------------------
(* The counters of the filter are the lengths of the runs, cut off at the  *)
(* dwell, and dc-phased has followed every run longer than that.           *)
Filter ==
  /\ lockCnt = Smaller(lockedFor, Dwell) /\ unlockCnt = Smaller(unlockedFor, Dwell)
  /\ ~calibrated => lockedFor = 0 /\ unlockedFor = 0
  /\ FilterFollowsLock

(* Nothing has been counted.                                               *)
LEMMA FilterInit == Init => Filter
BY ParameterAssumption DEF Init, Filter, FilterFollowsLock, Smaller

(* One cycle of the filter: dc-phased moves only with the run that has     *)
(* lasted for more than the dwell.                                         *)
LEMMA FilterControl ==
  ASSUME TypeOK, Filter, NEW now \in Phases, Control(now), initf' = initf
  PROVE  /\ Filter'
         /\ dcPhased' # dcPhased =>
              IF dcPhased' THEN lockedFor' > Dwell ELSE unlockedFor' > Dwell
<1>1. calibrated /\ ~initf /\ calibrated' /\ ~initf' /\ DwellFilter(locked')
  BY DEF Control
<1>2. /\ lockedFor > Dwell => dcPhased
      /\ unlockedFor > Dwell => ~dcPhased
  BY <1>1 DEF Filter, FilterFollowsLock
<1>3. CASE locked'
  <2>1. /\ lockCnt' = Smaller(lockedFor', Dwell) /\ unlockCnt' = Smaller(unlockedFor', Dwell)
        /\ Stood(lockCnt) <=> lockedFor' > Dwell
        /\ ~(unlockedFor' > Dwell)
    BY <1>1, <1>3, ParameterAssumption
    DEF TypeOK, Filter, DwellFilter, Smaller, Count, Stood
  <2>2. dcPhased' = (dcPhased \/ Stood(lockCnt))
    BY <1>1, <1>3 DEF DwellFilter
  <2> QED
    BY <1>1, <2>1, <2>2 DEF Filter, FilterFollowsLock, TypeOK
<1>4. CASE ~locked'
  <2>1. /\ lockCnt' = Smaller(lockedFor', Dwell) /\ unlockCnt' = Smaller(unlockedFor', Dwell)
        /\ Stood(unlockCnt) <=> unlockedFor' > Dwell
        /\ ~(lockedFor' > Dwell)
    BY <1>1, <1>4, ParameterAssumption
    DEF TypeOK, Filter, DwellFilter, Smaller, Count, Stood
  <2>2. dcPhased' = (dcPhased /\ ~Stood(unlockCnt))
    BY <1>1, <1>4 DEF DwellFilter
  <2> QED
    BY <1>1, <2>1, <2>2 DEF Filter, FilterFollowsLock, TypeOK
<1> QED
  BY <1>3, <1>4

(* Every cycle keeps the relation, and moves dc-phased as it says.         *)
LEMMA FilterStep ==
  ASSUME TypeOK, Filter, [Next]_vars
  PROVE  /\ Filter'
         /\ calibrated /\ ~initf /\ dcPhased' # dcPhased =>
              IF dcPhased' THEN lockedFor' > Dwell ELSE unlockedFor' > Dwell
<1>1. CASE UNCHANGED vars
  BY <1>1 DEF Filter, FilterFollowsLock, vars, lockVars, measureVars
<1>2. ASSUME NEW latency \in 0 .. Latency, Cycle(latency)
      PROVE  /\ Filter'
             /\ calibrated /\ ~initf /\ dcPhased' # dcPhased =>
                  IF dcPhased' THEN lockedFor' > Dwell ELSE unlockedFor' > Dwell
  <2> DEFINE now == (position + latency) % Period
  <2>1. now \in Phases
    BY PhaseInt, PhaseType, PeriodAssumption DEF TypeOK
  <2>2. initf' = initf
    BY <1>2 DEF Cycle
  <2>3. CASE Measure(now)
    BY <2>2, <2>3, ParameterAssumption DEF Measure, Filter, FilterFollowsLock
  <2>4. CASE Calibrate
    BY <2>2, <2>4, ParameterAssumption DEF Calibrate, Filter, FilterFollowsLock, Smaller
  <2>5. CASE Control(now)
    BY <2>1, <2>2, <2>5, FilterControl
  <2>6. CASE TrustInitf
    BY <2>2, <2>6 DEF TrustInitf, Filter, FilterFollowsLock
  <2> QED
    BY <1>2, <2>3, <2>4, <2>5, <2>6 DEF Cycle
<1> QED
  BY <1>1, <1>2 DEF Next

(* The relation is an invariant.                                           *)
LEMMA FilterCorrect == Spec => []Filter
<1>1. TypeOK /\ Filter /\ [Next]_vars => Filter'
  BY FilterStep
<1> QED
  BY <1>1, FilterInit, TypeCorrect, PTL DEF Spec

(* dc-phased and the lock differ only for the length of the dwell.         *)
THEOREM FilterFollowsLockCorrect == Spec => []FilterFollowsLock
<1>1. Filter => FilterFollowsLock
  BY DEF Filter
<1> QED
  BY <1>1, FilterCorrect, PTL

(* After the calibration dc-phased only moves with a run of the lock that  *)
(* has lasted for more than the dwell, for every dwell.                    *)
THEOREM NoStrobeCorrect == Spec => NoStrobe
<1>1. TypeOK /\ Filter /\ [Next]_vars =>
        [calibrated /\ ~initf /\ dcPhased' # dcPhased =>
           IF dcPhased' THEN lockedFor' > Dwell ELSE unlockedFor' > Dwell]_vars
  BY FilterStep
<1> QED
  BY <1>1, FilterCorrect, TypeCorrect, PTL DEF Spec, NoStrobe
=============================================================================
