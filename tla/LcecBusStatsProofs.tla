------------------------- MODULE LcecBusStatsProofs -------------------------
(***************************************************************************)
(* Theorems about LcecBusStats, for every number of Sync Units and every   *)
(* working counter they may have.                                          *)
(***************************************************************************)
EXTENDS LcecBusStats, SetSums, TLAPS

(* A working counter of the master: at most the full one, and below it     *)
(* exactly when an exchange was not complete.                              *)
LEMMA WorkingCounter ==
  ASSUME NEW w \in WorkingCounters
  PROVE  /\ w \in [Units -> Nat] /\ Sum(w) \in Nat /\ Sum(Expected) \in Nat
         /\ DomainState(w) \in WcStates
         /\ DomainState(w) = "complete" => Sum(w) = Sum(Expected)
         /\ DomainState(w) # "complete" => Sum(w) < Sum(Expected)
<1>1. Expected \in [Units -> Nat] /\ \A u \in Units : Expected[u] \in Nat
  BY UnitsAssumption
<1>2. \A u \in Units : w[u] \in Nat /\ w[u] <= Expected[u]
  BY <1>1 DEF WorkingCounters
<1>3. w \in [Units -> Nat]
  BY <1>2 DEF WorkingCounters
<1>4. Sum(w) = Total(w, Units) /\ Sum(Expected) = Total(Expected, Units)
  <2>1. DOMAIN w = Units /\ DOMAIN Expected = Units
    BY <1>1, <1>3
  <2> QED
    BY <2>1, FoldFunctionIsTotal DEF Sum
<1>5. /\ Sum(w) \in Nat /\ Sum(Expected) \in Nat
      /\ (\E u \in Units : w[u] < Expected[u]) => Sum(w) < Sum(Expected)
  <2>1. IsFiniteSet(Units)
    BY UnitsAssumption
  <2>2. Total(w, Units) \in Nat /\ Total(Expected, Units) \in Nat
    BY <1>1, <1>2, <2>1, TotalType
  <2>3. (\E u \in Units : w[u] < Expected[u]) => Total(w, Units) < Total(Expected, Units)
    BY <1>1, <1>2, <2>1, TotalCompared
  <2> QED
    BY <1>4, <2>2, <2>3
<1>6. DomainState(w) = "complete" => Sum(w) = Sum(Expected)
  <2> SUFFICES ASSUME DomainState(w) = "complete"
               PROVE  w = Expected
    OBVIOUS
  <2> QED
    BY <1>1, <1>3 DEF DomainState
<1>7. DomainState(w) # "complete" => \E u \in Units : w[u] < Expected[u]
  BY <1>1, <1>2 DEF DomainState
<1>8. DomainState(w) \in WcStates
  BY DEF DomainState, WcStates
<1> QED
  BY <1>3, <1>5, <1>6, <1>7, <1>8

---------------------------------------------------------------------------
(* The pins and the history agree: the counter the change count compares   *)
(* with is the one on the pin, and the misses counted are the reads        *)
(* without a response, up to MissMax.                                      *)
Inv ==
  /\ TypeOK
  /\ wkcLast = wkc
  /\ ~paused => missCount = Smaller(silent, MissMax)
  /\ HealthyBusIsQuiet /\ DropoutsAreRecorded /\ NoStaleConverged

(* The pins are cleared and the statistics disarmed.                       *)
LEMMA InvInit == Init => Inv
<1> SUFFICES ASSUME Init
             PROVE  Inv
  OBVIOUS
<1>1. /\ wc \in [Units -> Nat] /\ wkc \in Nat /\ wkcState \in WcStates /\ wkcMin \in Nat
      /\ changeCount \in 0 .. MaxChanges /\ wkcLast \in Nat
      /\ dcDiff \in Diffs \cup {0, Invalid} /\ missCount \in 0 .. MissMax
      /\ dcMax \in Thresholds /\ silent \in 0 .. MissMax + 2
  BY MonitorAssumption DEF Init, WcStates
<1>2. /\ wkcReset \in BOOLEAN /\ fullSeen \in BOOLEAN /\ dcConverged \in BOOLEAN
      /\ dcMonitor \in BOOLEAN /\ degraded \in BOOLEAN /\ paused \in BOOLEAN
  BY DEF Init
<1>3. missCount = Smaller(silent, MissMax) /\ ~(silent > MissMax)
  BY MonitorAssumption DEF Init, Smaller
<1>4. wkcLast = wkc /\ ~fullSeen
  BY DEF Init
<1> QED
  BY <1>1, <1>2, <1>3, <1>4
  DEF Inv, TypeOK, HealthyBusIsQuiet, DropoutsAreRecorded, NoStaleConverged

(* The statistics of one read.                                             *)
LEMMA CountStep ==
  ASSUME Inv, NEW w \in WorkingCounters, CountExchange(Sum(w), DomainState(w))
  PROVE  /\ wkc' \in Nat /\ wkcState' \in WcStates /\ wkcMin' \in Nat
         /\ changeCount' \in 0 .. MaxChanges /\ wkcReset' \in BOOLEAN
         /\ wkcLast' \in Nat /\ fullSeen' \in BOOLEAN /\ degraded' \in BOOLEAN
         /\ wkcLast' = wkc' /\ HealthyBusIsQuiet' /\ DropoutsAreRecorded'
<1> DEFINE now == Sum(w)
           full == Sum(Expected)
           state == DomainState(w)
           armed == fullSeen /\ ~wkcReset
<1>1. /\ now \in Nat /\ full \in Nat /\ state \in WcStates
      /\ state = "complete" => now = full
      /\ state # "complete" => now < full
  BY WorkingCounter
<1>2. /\ wkcReset' = FALSE /\ wkc' = now /\ wkcState' = state /\ wkcLast' = now
      /\ fullSeen' = (armed \/ Arms(state))
  BY DEF CountExchange
<1>3. TypeOK /\ wkcLast = wkc /\ HealthyBusIsQuiet /\ DropoutsAreRecorded
  BY DEF Inv
<1>4. /\ wkcMin \in Nat /\ changeCount \in 0 .. MaxChanges /\ wkcLast \in Nat
      /\ degraded \in BOOLEAN /\ fullSeen \in BOOLEAN
  BY <1>3 DEF TypeOK
<1> DEFINE Result ==
             /\ wkcMin' \in Nat /\ changeCount' \in 0 .. MaxChanges /\ degraded' \in BOOLEAN
             /\ fullSeen' /\ ~degraded' => now = full /\ wkcMin' = now /\ changeCount' = 0
             /\ fullSeen' /\ degraded' => wkcMin' < full /\ changeCount' > 0
<1>5. ASSUME armed
      PROVE  Result
  <2>1. /\ wkcMin' = Smaller(now, wkcMin)
        /\ changeCount' = IF now # wkcLast THEN Smaller(changeCount + 1, MaxChanges)
                                           ELSE changeCount
        /\ degraded' = (degraded \/ state # "complete")
    BY <1>5 DEF CountExchange, Lowest
  <2>2. wkcMin' \in Nat /\ changeCount' \in 0 .. MaxChanges /\ changeCount' >= changeCount
    BY <1>1, <1>4, <2>1, MonitorAssumption DEF Smaller
  <2>3. wkcMin' <= now /\ wkcMin' <= wkcMin
    BY <1>1, <1>4, <2>1 DEF Smaller
  <2>4. CASE degraded
    <3>1. wkcMin < full /\ changeCount > 0
      BY <1>3, <1>5, <2>4 DEF DropoutsAreRecorded
    <3>2. wkcMin' < full /\ changeCount' > 0
      <4> HIDE DEF full, now
      <4> QED
        BY <1>1, <1>4, <2>2, <2>3, <3>1
    <3>3. degraded' = TRUE
      BY <2>1, <2>4
    <3> QED
      BY <2>2, <3>2, <3>3
  <2>5. CASE ~degraded
    <3>1. wkcLast = full /\ wkcMin = full /\ changeCount = 0
      BY <1>3, <1>5, <2>5 DEF HealthyBusIsQuiet
    <3>2. CASE state = "complete"
      <4>1. degraded' = FALSE /\ now = full
        BY <1>1, <2>1, <2>5, <3>2
      <4>2. wkcMin' = now /\ changeCount' = 0
        BY <1>1, <2>1, <3>1, <4>1 DEF Smaller
      <4> QED
        BY <2>2, <4>1, <4>2
    <3>3. CASE state # "complete"
      <4>1. degraded' = TRUE /\ now < full
        BY <1>1, <2>1, <3>3
      <4>2. wkcMin' < full /\ changeCount' > 0
        BY <1>1, <2>1, <3>1, <4>1, MonitorAssumption DEF Smaller
      <4> QED
        BY <2>2, <4>1, <4>2
    <3> QED
      BY <3>2, <3>3
  <2> QED
    BY <1>4, <2>4, <2>5
<1>6. ASSUME ~armed /\ Arms(state)
      PROVE  Result
  <2>1. wkcMin' = now /\ changeCount' = 0 /\ degraded' = FALSE /\ now = full
    BY <1>1, <1>6 DEF CountExchange, Arms
  <2>2. 0 \in 0 .. MaxChanges
    BY MonitorAssumption
  <2> QED
    BY <1>1, <2>1, <2>2
<1>7. ASSUME ~armed /\ ~Arms(state)
      PROVE  Result
  <2>1. /\ wkcMin' = IF wkcReset THEN 0 ELSE wkcMin
        /\ changeCount' = IF wkcReset THEN 0 ELSE changeCount
        /\ degraded' = FALSE /\ ~fullSeen'
    BY <1>2, <1>7 DEF CountExchange
  <2>2. 0 \in 0 .. MaxChanges /\ 0 \in Nat
    BY MonitorAssumption
  <2> QED
    BY <1>4, <2>1, <2>2
<1>8. Result
  BY <1>5, <1>6, <1>7
<1>9. wkcReset' \in BOOLEAN /\ fullSeen' \in BOOLEAN
  BY <1>2 DEF Arms
<1> HIDE DEF now, full, state, armed
<1> QED
  BY <1>1, <1>2, <1>8, <1>9
  DEF HealthyBusIsQuiet, DropoutsAreRecorded, now, full, state

(* The synchrony monitor of one read.                                      *)
LEMMA MonitorStep ==
  ASSUME Inv, NEW diff \in Diffs \cup {Invalid}, MonitorSync(diff)
  PROVE  /\ dcDiff' \in Diffs \cup {0, Invalid} /\ dcConverged' \in BOOLEAN
         /\ missCount' \in 0 .. MissMax /\ silent' \in 0 .. MissMax + 2
         /\ paused' \in BOOLEAN
         /\ ~paused' => missCount' = Smaller(silent', MissMax)
         /\ NoStaleConverged'
<1>1. /\ dcDiff \in Diffs \cup {0, Invalid} /\ dcConverged \in BOOLEAN
      /\ missCount \in 0 .. MissMax /\ silent \in 0 .. MissMax + 2 /\ paused \in BOOLEAN
  BY DEF Inv, TypeOK
<1>2. Smaller(silent + 1, MissMax + 2) \in 0 .. MissMax + 2
  BY <1>1, MonitorAssumption DEF Smaller
<1>3. ~paused => missCount = Smaller(silent, MissMax)
  BY DEF Inv
<1>4. CASE dcMonitor /\ diff # Invalid
  <2>1. /\ missCount' = 0 /\ silent' = 0 /\ paused' = FALSE
        /\ dcDiff' = diff /\ dcConverged' = (diff < dcMax)
    BY <1>4 DEF MonitorSync
  <2>2. /\ 0 \in 0 .. MissMax /\ 0 \in 0 .. MissMax + 2 /\ 0 = Smaller(0, MissMax)
        /\ ~(0 > MissMax)
    BY MonitorAssumption DEF Smaller
  <2>3. dcConverged' \in BOOLEAN
    BY <2>1
  <2> QED
    BY <2>1, <2>2, <2>3 DEF NoStaleConverged
<1>5. CASE dcMonitor /\ diff = Invalid
  <2>1. silent' = Smaller(silent + 1, MissMax + 2) /\ paused' = paused
    BY <1>5 DEF MonitorSync
  <2>2. CASE Tolerates
    <3>1. missCount' = missCount + 1 /\ UNCHANGED <<dcDiff, dcConverged>>
      BY <1>5, <2>2 DEF MonitorSync
    <3>2. missCount' \in 0 .. MissMax
      BY <1>1, <2>2, <3>1, MonitorAssumption DEF Tolerates
    <3>3. ~paused => missCount' = Smaller(silent', MissMax) /\ ~(silent' > MissMax)
      BY <1>1, <1>3, <2>1, <2>2, <3>1, MonitorAssumption DEF Tolerates, Smaller
    <3> QED
      BY <1>1, <1>2, <2>1, <3>1, <3>2, <3>3 DEF NoStaleConverged
  <2>3. CASE ~Tolerates
    <3>1. dcConverged' = FALSE /\ dcDiff' = Invalid /\ missCount' = missCount
      BY <1>5, <2>3 DEF MonitorSync
    <3>2. ~paused => missCount' = Smaller(silent', MissMax)
      BY <1>1, <1>3, <2>1, <2>3, <3>1, MonitorAssumption DEF Tolerates, Smaller
    <3> QED
      BY <1>1, <1>2, <2>1, <3>1, <3>2 DEF NoStaleConverged
  <2> QED
    BY <2>2, <2>3
<1>6. CASE ~dcMonitor
  <2>1. /\ silent' = Smaller(silent + 1, MissMax + 2) /\ paused' = TRUE
        /\ UNCHANGED <<dcDiff, dcConverged, missCount>>
    BY <1>6 DEF MonitorSync
  <2> QED
    BY <1>1, <1>2, <2>1 DEF NoStaleConverged
<1> QED
  BY <1>4, <1>5, <1>6

(* Every read and every change by the user keeps the relation.             *)
LEMMA InvStep == Inv /\ [Next]_vars => Inv'
<1> SUFFICES ASSUME Inv, [Next]_vars
             PROVE  Inv'
  OBVIOUS
<1>1. CASE UNCHANGED vars
  BY <1>1 DEF Inv, TypeOK, HealthyBusIsQuiet, DropoutsAreRecorded, NoStaleConverged,
              vars, wkcVars, dcVars
<1>2. CASE Read
  <2>1. PICK w \in WorkingCounters : wc' = w /\ CountExchange(Sum(w), DomainState(w))
    BY <1>2 DEF Read
  <2>2. PICK diff \in Diffs \cup {Invalid} : MonitorSync(diff)
    BY <1>2 DEF Read
  <2>3. UNCHANGED <<dcMonitor, dcMax>> /\ wc' \in [Units -> Nat]
    BY <1>2, <2>1, WorkingCounter DEF Read
  <2> QED
    BY <2>1, <2>2, <2>3, CountStep, MonitorStep DEF Inv, TypeOK
<1>3. CASE RequestReset
  BY <1>3 DEF RequestReset, Inv, TypeOK, HealthyBusIsQuiet, DropoutsAreRecorded,
              NoStaleConverged, dcVars
<1>4. CASE SwitchMonitor
  <2>1. dcMonitor' \in BOOLEAN
    BY <1>4 DEF SwitchMonitor
  <2> QED
    BY <1>4, <2>1 DEF SwitchMonitor, Inv, TypeOK, HealthyBusIsQuiet, DropoutsAreRecorded,
                      NoStaleConverged, wkcVars, dcVars
<1>5. CASE SetThreshold
  BY <1>5 DEF SetThreshold, Inv, TypeOK, HealthyBusIsQuiet, DropoutsAreRecorded,
              NoStaleConverged, wkcVars, dcVars
<1> QED
  BY <1>1, <1>2, <1>3, <1>4, <1>5 DEF Next, User

(* The inductive invariant.                                                *)
LEMMA InvCorrect == Spec => []Inv
BY InvInit, InvStep, PTL DEF Spec

(* Type correctness: the counter of the misses never passes its limit.     *)
THEOREM TypeCorrect == Spec => []TypeOK
<1>1. Inv => TypeOK
  BY DEF Inv
<1> QED
  BY <1>1, InvCorrect, PTL

(* On a bus that has exchanged completely since the statistics were armed  *)
(* the counter is the sum of what the units expect, wkc-min equals it and  *)
(* the change count is 0.                                                  *)
THEOREM HealthyBusIsQuietCorrect == Spec => []HealthyBusIsQuiet
<1>1. Inv => HealthyBusIsQuiet
  BY DEF Inv
<1> QED
  BY <1>1, InvCorrect, PTL

(* An exchange any unit missed since then is on record, however many units *)
(* the working counter sums up.                                            *)
THEOREM DropoutsAreRecordedCorrect == Spec => []DropoutsAreRecorded
<1>1. Inv => DropoutsAreRecorded
  BY DEF Inv
<1> QED
  BY <1>1, InvCorrect, PTL

(* A monitor that stays silent for more than MissMax reads has its pins    *)
(* withdrawn.                                                              *)
THEOREM NoStaleConvergedCorrect == Spec => []NoStaleConverged
<1>1. Inv => NoStaleConverged
  BY DEF Inv
<1> QED
  BY <1>1, InvCorrect, PTL
=============================================================================
