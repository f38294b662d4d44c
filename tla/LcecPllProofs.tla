--------------------------- MODULE LcecPllProofs ---------------------------
(***************************************************************************)
(* Theorems about LcecPll, for every even period, threshold, step, drift   *)
(* and latency.                                                            *)
(***************************************************************************)
EXTENDS LcecPll, TLAPS

(* Half a period is exactly half of it.                                    *)
LEMMA HalfType == Period \in Nat /\ Half \in Nat /\ Half + Half = Period /\ Half > 0
BY PeriodAssumption DEF Half

(* Quotient and remainder of a division by the period.                     *)
LEMMA Division ==
  ASSUME NEW n \in Int
  PROVE  /\ n \div Period \in Int /\ n % Period \in 0 .. Period - 1
         /\ (n \div Period) * Period \in Int
         /\ n = (n \div Period) * Period + (n % Period)
BY PeriodAssumption

(* A multiple of the period that is smaller than the period is 0.          *)
LEMMA SmallMultiple ==
  ASSUME NEW m \in Int, m * Period < Period, m * Period > -Period
  PROVE  m = 0
BY HalfType

(* The multiples of the period are closed under sum and difference.        *)
LEMMA MultipleSum ==
  \A k, j \in Int : /\ k * Period \in Int /\ (k + j) * Period = k * Period + j * Period
                    /\ (k - j) * Period = k * Period - j * Period
BY HalfType

(* What is left of a multiple of the period and something more is at most  *)
(* that.                                                                   *)
LEMMA Reduced ==
  ASSUME NEW k \in Int, NEW l \in Nat
  PROVE (k * Period + l) % Period <= l
<1> DEFINE n == k * Period + l
           q == n \div Period
           r == n % Period
<1> SUFFICES r <= l
  OBVIOUS
<1>1. k * Period \in Int /\ n \in Int
  <2>1. k * Period \in Int
    BY MultipleSum
  <2> QED
    BY <2>1
<1> HIDE DEF n
<1>2. q \in Int /\ n = q * Period + r /\ r \in 0 .. Period - 1 /\ q * Period \in Int
  BY <1>1, Division
<1> HIDE DEF q, r
<1>3. CASE l >= Period
  BY <1>2, <1>3, HalfType
<1>4. CASE l < Period
  <2>1. (q - k) * Period = q * Period - k * Period
    BY <1>2, MultipleSum
  <2>2. (q - k) * Period = l - r
    BY <2>1, <1>1, <1>2, HalfType DEF n
  <2>3. q - k = 0
    BY <1>2, <1>4, <2>2, SmallMultiple, HalfType
  <2> QED
    BY <2>2, <2>3, <1>2, HalfType
<1> QED
  BY <1>3, <1>4, HalfType

(* The multiples of the period.                                            *)
Multiples == {k * Period : k \in Int}

(* They contain 0 and Far, and they are closed under a step of dc_ref.     *)
LEMMA MultiplesClosed ==
  /\ Multiples \subseteq Int /\ 0 \in Multiples /\ Far \in Multiples
  /\ \A x, y \in Multiples : x + Period - y \in Multiples
<1>1. Multiples \subseteq Int
  BY MultipleSum DEF Multiples
<1>2. 0 \in Multiples
  <2>1. 0 = 0 * Period
    BY HalfType
  <2> QED
    BY <2>1 DEF Multiples
<1>3. Far \in Multiples
  <2>1. Far = (Far \div Period) * Period /\ Far \div Period \in Int
    BY Division, PlantAssumption
  <2> QED
    BY <2>1, Zenon DEF Multiples
<1>4. ASSUME NEW x \in Multiples, NEW y \in Multiples
      PROVE  x + Period - y \in Multiples
  <2>1. PICK k \in Int, j \in Int : x = k * Period /\ y = j * Period
    BY DEF Multiples
  <2>2. x \in Int /\ y \in Int
    BY <1>1
  <2>3. /\ ((k + 1) - j) * Period = (k + 1) * Period - j * Period
        /\ (k + 1) * Period = k * Period + 1 * Period
    BY MultipleSum
  <2>4. 1 * Period = Period
    BY HalfType
  <2>5. ((k + 1) - j) * Period = x + Period - y
    BY <2>1, <2>2, <2>3, <2>4, HalfType
  <2>6. (k + 1) - j \in Int
    OBVIOUS
  <2> QED
    BY <2>5, <2>6, Zenon DEF Multiples
<1> QED
  BY <1>1, <1>2, <1>3, <1>4

(* A number of the form "multiple plus latency" reduces to the latency at  *)
(* most.                                                                   *)
LEMMA MultipleReduced ==
  ASSUME NEW x \in Multiples, NEW l \in Nat
  PROVE  (x + l) % Period <= l
<1>1. PICK k \in Int : x = k * Period
  BY DEF Multiples
<1> QED
  BY <1>1, Reduced, Zenon

(* The bound on dc_ref keeps it a multiple.                                *)
LEMMA KeepNearType ==
  /\ \A x \in Int : KeepNear(x) \in Int
  /\ \A x \in Multiples : KeepNear(x) \in Multiples
<1>1. \A x \in Int : KeepNear(x) \in Int
  BY Division, PlantAssumption DEF KeepNear
<1>2. ASSUME NEW x \in Multiples
      PROVE  KeepNear(x) \in Multiples
  <2>1. x \in Int /\ x + 0 = x
    BY MultiplesClosed
  <2>2. x % Period <= 0
    BY <2>1, MultipleReduced
  <2>3. x % Period = 0
    BY <2>1, <2>2, Division
  <2> QED
    BY <2>3, MultiplesClosed, PlantAssumption DEF KeepNear
<1> QED
  BY <1>1, <1>2

---------------------------------------------------------------------------
(* The nearest whole periods of an offset leave at most half a period.     *)
LEMMA Nearest ==
  ASSUME NEW raw \in Int
  PROVE  /\ NearestPeriods(raw) \in Multiples
         /\ NearestPeriods(raw) \in Int
         /\ -Half <= raw - NearestPeriods(raw) /\ raw - NearestPeriods(raw) <= Half
<1>1. CASE raw >= 0
  <2> DEFINE k == (raw + Half) \div Period
  <2>1. /\ k \in Int /\ (raw + Half) % Period \in 0 .. Period - 1 /\ k * Period \in Int
        /\ raw + Half = k * Period + ((raw + Half) % Period)
    BY Division, HalfType
  <2>2. NearestPeriods(raw) = k * Period
    BY <1>1 DEF NearestPeriods
  <2> HIDE DEF k
  <2>3. NearestPeriods(raw) \in Multiples
    BY <2>1, <2>2, Zenon DEF Multiples
  <2> QED
    BY <2>1, <2>2, <2>3, HalfType
<1>2. CASE raw < 0
  <2> DEFINE k == (-raw + Half) \div Period
  <2>0. -raw + Half \in Int
    BY HalfType
  <2>1. /\ k \in Int /\ (-raw + Half) % Period \in 0 .. Period - 1 /\ k * Period \in Int
        /\ -raw + Half = k * Period + ((-raw + Half) % Period)
    BY <2>0, Division
  <2>2. NearestPeriods(raw) = -(k * Period)
    BY <1>2 DEF NearestPeriods
  <2> HIDE DEF k
  <2>3. -(k * Period) = (-k) * Period /\ -k \in Int
    BY <2>1, HalfType
  <2>4. NearestPeriods(raw) \in Multiples
    BY <2>2, <2>3, Zenon DEF Multiples
  <2> QED
    BY <2>1, <2>2, <2>4, HalfType
<1> QED
  BY <1>1, <1>2

(* What a resync takes off dc_ref leaves at most half a period, is not 0,  *)
(* and consists of whole periods unless the threshold is below half of     *)
(* one.                                                                    *)
LEMMA CorrectionMoves ==
  ASSUME maxErr \in Nat, NEW raw \in Int
  PROVE  /\ Correction(raw) \in Int
         /\ Abs(raw - Correction(raw)) <= Half
         /\ Trips(raw) => Correction(raw) # 0
         /\ Trips(raw) /\ maxErr >= Half => Correction(raw) \in Multiples
<1> DEFINE whole == NearestPeriods(raw)
<1>1. /\ whole \in Multiples /\ whole \in Int
      /\ -Half <= raw - whole /\ raw - whole <= Half
  BY Nearest
<1> HIDE DEF whole
<1>2. Correction(raw) = IF whole = 0 THEN raw ELSE whole
  BY DEF Correction, whole
<1>3. Trips(raw) => raw # 0
  BY HalfType DEF Trips, Threshold, Smaller, Abs
<1>4. Trips(raw) /\ maxErr >= Half => whole # 0
  BY <1>1, HalfType DEF Trips, Threshold, Smaller, Abs
<1>5. Abs(raw - Correction(raw)) <= Half
  BY <1>1, <1>2, HalfType DEF Abs
<1> QED
  BY <1>1, <1>2, <1>3, <1>4, <1>5

(* Two foldings bring a steerable offset with its compensation into half a *)
(* period on either side.                                                  *)
LEMMA FoldedShort ==
  ASSUME NEW e \in Int, -Half <= e, e < Half + Period
  PROVE  Fold(e) \in Int /\ Abs(Fold(e)) <= Half
BY HalfType DEF Fold, FoldOnce, Abs

(* The compensation is less than a period.                                 *)
LEMMA CompensationType == \A p \in Int : Compensation(p) \in 0 .. Period - 1
BY Division, HalfType DEF Compensation

(* The error is an integer, and that of an offset below the threshold is   *)
(* at most half a period.                                                  *)
LEMMA ErrorType ==
  ASSUME maxErr \in Nat, NEW raw \in Int, NEW p \in Int
  PROVE  /\ Fold(raw + Compensation(p)) \in Int
         /\ ~Trips(raw) => Abs(Fold(raw + Compensation(p))) <= Half
<1> DEFINE c == Compensation(p)
<1>1. c \in 0 .. Period - 1
  BY CompensationType
<1> HIDE DEF c
<1>2. Fold(raw + c) \in Int
  BY <1>1, HalfType DEF Fold, FoldOnce
<1>3. ~Trips(raw) => Abs(Fold(raw + c)) <= Half
  <2> SUFFICES ASSUME ~Trips(raw)
               PROVE  Abs(Fold(raw + c)) <= Half
    OBVIOUS
  <2>1. -Half <= raw /\ raw <= Half
    BY HalfType DEF Trips, Threshold, Smaller, Abs
  <2> QED
    BY <1>1, <2>1, FoldedShort, HalfType
<1> QED
  BY <1>2, <1>3 DEF c

---------------------------------------------------------------------------
(* What the branches of a cycle assign has its type.                       *)
LEMMA NoOffsetType ==
  ASSUME TypeOK, NEW valid \in BOOLEAN, NoOffset(valid)
  PROVE  /\ jump' = 0 /\ validLast' \in BOOLEAN /\ autoDelay' \in 0 .. AutoDriftDelay
         /\ pllErr' = 0 /\ pllOut' = 0 /\ dcPhased' \in BOOLEAN
         /\ sinceReset' \in 1 .. Quiet
<1>1. sinceReset' \in 1 .. Quiet
  BY PlantAssumption DEF TypeOK, NoOffset, Smaller
<1> QED
  BY <1>1 DEF TypeOK, NoOffset

(* The controller: either a resync, or a step along the shorter way.       *)
LEMMA ControlType ==
  ASSUME TypeOK, NEW p \in Int, Control(off, p)
  PROVE  /\ jump' \in Int /\ validLast' \in BOOLEAN /\ autoDelay' \in 0 .. AutoDriftDelay
         /\ pllErr' \in Int /\ pllOut' \in {-Step, 0, Step} /\ dcPhased' \in BOOLEAN
         /\ sinceReset' \in 0 .. Quiet
         /\ maxErr >= Half => jump' \in Multiples
         /\ jump' # 0 => ~validLast'
         /\ pllOut' # 0 => Abs(pllErr') <= Half
         /\ sinceReset' = 0 => jump' # 0 /\ Abs(off - jump') <= Half
<1>1. off \in Int /\ maxErr \in Nat
  BY ParameterAssumption DEF TypeOK
<1>2. /\ pllErr' \in Int /\ dcPhased' \in BOOLEAN
      /\ ~Trips(off) => Abs(pllErr') <= Half
  BY <1>1, ErrorType DEF Control
<1>3. CASE Resync(off)
  <2>1. /\ jump' \in Int /\ jump' # 0 /\ Abs(off - jump') <= Half
        /\ maxErr >= Half => jump' \in Multiples
    BY <1>1, <1>3, CorrectionMoves DEF Resync
  <2>2. autoDelay' \in 0 .. AutoDriftDelay /\ sinceReset' = 0 /\ 0 \in 0 .. Quiet
    BY <1>3, ParameterAssumption, PlantAssumption DEF TypeOK, Resync
  <2>3. validLast' = FALSE /\ pllOut' = 0
    BY <1>3 DEF Resync, ValidAfterResync
  <2> QED
    BY <1>2, <2>1, <2>2, <2>3
<1>4. CASE Steer(off)
  <2>1. jump' = 0 /\ validLast' = TRUE /\ pllOut' \in {-Step, 0, Step}
    BY <1>4 DEF Steer, BangBang
  <2>2. autoDelay' \in 0 .. AutoDriftDelay
    BY <1>4, ParameterAssumption DEF TypeOK, Steer, Delay
  <2>3. sinceReset' \in 0 .. Quiet /\ sinceReset' # 0
    BY <1>4, PlantAssumption DEF TypeOK, Steer, Smaller
  <2>4. ~Trips(off)
    BY <1>4 DEF Steer
  <2> QED
    BY <1>2, <2>1, <2>2, <2>3, <2>4, MultiplesClosed
<1> QED
  BY <1>3, <1>4 DEF Control

(* dc_ref counts whole periods unless the threshold is below half of one.  *)
Anchored == maxErr >= Half => dcRef \in Multiples

(* After a resync the DC time counts as not read.                          *)
Skips == jump # 0 => ~validLast

Inv == TypeOK /\ Anchored /\ Skips /\ SteersTheShortWay /\ PhaseIsLatency

(* The PLL starts with dc_ref at 0 and nothing steered.                    *)
LEMMA InvInit == Init => Inv
<1> SUFFICES ASSUME Init
             PROVE  Inv
  OBVIOUS
<1>1. /\ StartOffsets \subseteq Int /\ 0 \in Int /\ 0 \in {-Step, 0, Step}
      /\ AutoDriftDelay \in 0 .. AutoDriftDelay /\ Quiet \in 0 .. Quiet /\ 0 \in 0 .. Period - 1
  BY PeriodAssumption, ParameterAssumption, PlantAssumption
<1>2. /\ off \in Int /\ rate \in -Drift .. Drift /\ maxErr \in MaxErrs /\ dcRef \in Int
      /\ jump \in Int /\ mode \in DriftModes /\ autoDelay \in 0 .. AutoDriftDelay
      /\ phase \in 0 .. Period - 1 /\ pllErr \in Int /\ pllOut \in {-Step, 0, Step}
      /\ elapsed \in Int /\ sinceReset \in 0 .. Quiet
  BY <1>1 DEF Init
<1>3. calm \in BOOLEAN /\ validLast \in BOOLEAN /\ dcPhased \in BOOLEAN
  BY DEF Init
<1>4. TypeOK
  BY <1>2, <1>3 DEF TypeOK
<1> QED
  BY <1>4, MultiplesClosed, PlantAssumption
  DEF Init, Inv, Anchored, Skips, SteersTheShortWay, PhaseIsLatency

(* What one cycle does to the controller, whatever the plant.              *)
LEMMA CycleStep ==
  ASSUME Inv, NEW valid \in BOOLEAN, NEW latency \in 0 .. Latency, NEW noise \in Int,
         Cycle(valid, latency, noise), calm' \in BOOLEAN
  PROVE  /\ Inv'
         /\ jump # 0 => jump' = 0 /\ pllOut' = 0 /\ sinceReset' # 0
         /\ sinceReset' = 0 => jump' # 0 /\ Abs(off - jump') <= Half
<1> DEFINE t == dcRef + latency
<1>1. TypeOK
  BY DEF Inv
<1>2. latency \in Nat /\ latency <= Latency /\ dcRef \in Int /\ t \in Int
  BY <1>1, PlantAssumption DEF TypeOK
<1>3. phase' = AppPhase(t) /\ elapsed' = t /\ elapsed' \in Int
  BY <1>2 DEF Cycle
<1>4. phase' \in 0 .. Period - 1 /\ phase' \in Int
  <2>1. t + WrapResidue \in Int
    BY <1>2, PeriodAssumption
  <2> QED
    BY <1>2, <1>3, <2>1, Division, HalfType DEF AppPhase
<1>5. /\ jump' \in Int /\ validLast' \in BOOLEAN /\ autoDelay' \in 0 .. AutoDriftDelay
      /\ pllErr' \in Int /\ pllOut' \in {-Step, 0, Step} /\ dcPhased' \in BOOLEAN
      /\ sinceReset' \in 0 .. Quiet
      /\ maxErr >= Half => jump' \in Multiples
      /\ jump' # 0 => ~validLast'
      /\ pllOut' # 0 => Abs(pllErr') <= Half
      /\ sinceReset' = 0 => jump' # 0 /\ Abs(off - jump') <= Half
      /\ jump # 0 => jump' = 0 /\ pllOut' = 0 /\ sinceReset' # 0
  <2>1. CASE valid /\ validLast
    <3>1. Control(off, phase') /\ jump = 0
      BY <2>1 DEF Cycle, Inv, Skips
    <3> QED
      BY <1>1, <1>4, <3>1, ControlType
  <2>2. CASE ~(valid /\ validLast)
    <3>1. NoOffset(valid)
      BY <2>2 DEF Cycle
    <3>2. 0 \in Int /\ 0 \in {-Step, 0, Step} /\ sinceReset' \in 0 .. Quiet /\ sinceReset' # 0
      BY <1>1, <3>1, NoOffsetType, PlantAssumption
    <3> QED
      BY <1>1, <3>1, <3>2, NoOffsetType, MultiplesClosed
  <2> QED
    BY <2>1, <2>2
<1>6. dcRef' = KeepNear(dcRef + Period - jump') /\ dcRef + Period - jump' \in Int
  BY <1>2, <1>5, HalfType DEF Cycle
<1>7. TypeOK'
  <2>1. dcRef' \in Int
    BY <1>6, KeepNearType
  <2>2. off' \in Int
    <3>1. pllOut \in Int /\ rate \in Int
      BY <1>1, ParameterAssumption, PlantAssumption DEF TypeOK
    <3> QED
      BY <1>1, <3>1 DEF TypeOK, Cycle
  <2>3. rate' \in -Drift .. Drift /\ maxErr' \in MaxErrs /\ mode' \in DriftModes
    BY <1>1 DEF TypeOK, Cycle
  <2> QED
    BY <1>3, <1>4, <1>5, <2>1, <2>2, <2>3 DEF TypeOK
<1>8. Anchored'
  <2> SUFFICES ASSUME maxErr >= Half
               PROVE  dcRef' \in Multiples
    BY DEF Anchored, Cycle
  <2> QED
    BY <1>5, <1>6, MultiplesClosed, KeepNearType DEF Inv, Anchored
<1>9. PhaseIsLatency'
  <2> SUFFICES ASSUME maxErr >= Half, t >= 0
               PROVE  phase' <= Latency
    BY <1>3 DEF PhaseIsLatency, Cycle
  <2>1. dcRef \in Multiples
    BY DEF Inv, Anchored
  <2>2. phase' <= latency
    BY <1>2, <1>3, <2>1, MultipleReduced DEF AppPhase
  <2> QED
    BY <1>2, <1>4, <2>2, PlantAssumption
<1> QED
  BY <1>5, <1>7, <1>8, <1>9 DEF Inv, Skips, SteersTheShortWay

(* Every step of the system is such a cycle, disturbed or calm.            *)
LEMMA InvStep ==
  ASSUME Inv, [Next]_vars
  PROVE  /\ Inv'
         /\ jump # 0 /\ ~UNCHANGED vars => jump' = 0 /\ pllOut' = 0 /\ sinceReset' # 0
         /\ sinceReset' = 0 /\ ~UNCHANGED vars => jump' # 0 /\ Abs(off - jump') <= Half
<1>1. CASE UNCHANGED vars
  BY <1>1 DEF Inv, TypeOK, Anchored, Skips, SteersTheShortWay, PhaseIsLatency, vars, plantVars,
              Abs
<1>2. ASSUME NEW valid \in BOOLEAN, NEW latency \in 0 .. Latency, NEW noise \in -Noise .. Noise,
             Cycle(valid, latency, noise), UNCHANGED calm
      PROVE  /\ Inv'
             /\ jump # 0 => jump' = 0 /\ pllOut' = 0 /\ sinceReset' # 0
             /\ sinceReset' = 0 => jump' # 0 /\ Abs(off - jump') <= Half
  <2>1. noise \in Int /\ calm' \in BOOLEAN
    BY <1>2, PlantAssumption DEF Inv, TypeOK
  <2> QED
    BY <1>2, <2>1, CycleStep
<1>3. ASSUME Cycle(TRUE, Latency, 0), calm' = TRUE
      PROVE  /\ Inv'
             /\ jump # 0 => jump' = 0 /\ pllOut' = 0 /\ sinceReset' # 0
             /\ sinceReset' = 0 => jump' # 0 /\ Abs(off - jump') <= Half
  <2>1. Latency \in 0 .. Latency /\ 0 \in Int /\ calm' \in BOOLEAN /\ TRUE \in BOOLEAN
    BY <1>3, PlantAssumption
  <2> QED
    BY <1>3, <2>1, CycleStep
<1> QED
  BY <1>1, <1>2, <1>3 DEF Next

(* The inductive invariant.                                                *)
LEMMA InvCorrect == Spec => []Inv
<1>1. Inv /\ [Next]_vars => Inv'
  BY InvStep
<1> QED
  BY <1>1, InvInit, PTL DEF Spec

---------------------------------------------------------------------------
(* Type correctness: among others the app phase stays inside the period,   *)
(* even where the unsigned difference has wrapped.                         *)
THEOREM TypeCorrect == Spec => []TypeOK
<1>1. Inv => TypeOK
  BY DEF Inv
<1> QED
  BY <1>1, InvCorrect, PTL

(* The thread is only ever steered along the shorter way round.            *)
THEOREM SteersTheShortWayCorrect == Spec => []SteersTheShortWay
<1>1. Inv => SteersTheShortWay
  BY DEF Inv
<1> QED
  BY <1>1, InvCorrect, PTL

(* Resyncs by whole periods do not disturb app-phase: it stays the latency *)
(* of the thread, whatever the offsets were.                               *)
THEOREM PhaseIsLatencyCorrect == Spec => []PhaseIsLatency
<1>1. Inv => PhaseIsLatency
  BY DEF Inv
<1> QED
  BY <1>1, InvCorrect, PTL

(* Every resync that is counted moves dc_ref, and leaves at most half a    *)
(* period of the offset it has measured.                                   *)
THEOREM ResyncRemovesOffsetCorrect == Spec => ResyncRemovesOffset
<1>1. Inv /\ [Next]_vars => [sinceReset' = 0 => jump' # 0 /\ Abs(off - jump') <= Half]_vars
  BY InvStep
<1> QED
  BY <1>1, InvCorrect, PTL DEF Spec, ResyncRemovesOffset

(* The cycle after a resync neither steers nor resyncs: no offset is       *)
(* removed twice.                                                          *)
THEOREM NoOffsetRemovedTwiceCorrect == Spec => NoOffsetRemovedTwice
<1>1. Inv /\ [Next]_vars => [jump # 0 => jump' = 0 /\ pllOut' = 0 /\ sinceReset' # 0]_vars
  BY InvStep
<1> QED
  BY <1>1, InvCorrect, PTL DEF Spec, NoOffsetRemovedTwice
=============================================================================
