--------------------------- MODULE LcecBusStats ---------------------------
(***************************************************************************)
(* The bus health pins of one master: the working counter statistics and   *)
(* the DC synchrony monitor of lcec_read_master (src/src/lcec_main.c).     *)
(* One step is one read of an activated master; between two reads the user *)
(* may ask for a reset, switch the monitor or move its threshold.          *)
(***************************************************************************)
EXTENDS Integers, FiniteSets, Functions

CONSTANTS
  Units,      \* the Sync Units, one domain each
  Expected,   \* [Units -> Nat \ {0}], the working counter of a complete exchange
  Diffs,      \* the time differences the monitor may report
  Thresholds, \* the values the user may give dc-sync-max
  Invalid,    \* 0xffffffff: no monitor response
  MissMax,    \* LCEC_DC_SYNC_MISS_MAX
  MaxChanges  \* bound: where the model stops counting changes

ASSUME UnitsAssumption ==
  /\ IsFiniteSet(Units) /\ Units # {}
  /\ Expected \in [Units -> Nat \ {0}]
ASSUME MonitorAssumption ==
  /\ Diffs \subseteq Nat /\ Thresholds \subseteq Nat /\ Invalid \notin Diffs \cup {0}
  /\ MissMax \in Nat /\ MaxChanges \in Nat \ {0}

VARIABLES
  wc,           \* external: the working counter each domain last reported
  wkc, wkcState, wkcMin, changeCount,  \* the pins
  wkcReset,     \* the wkc-reset pin
  wkcLast, fullSeen,
  dcDiff, dcConverged,                 \* the pins
  missCount,
  dcMonitor, dcMax,                    \* the parameters
  degraded,     \* history: an incomplete exchange since the statistics were armed
  silent,       \* history: reads since the last monitor response, up to MissMax + 2
  paused        \* history: a read since then found the monitor off

wkcVars == <<wkc, wkcState, wkcMin, changeCount, wkcReset, wkcLast, fullSeen, degraded>>
dcVars == <<dcDiff, dcConverged, missCount, silent, paused>>
vars == <<wc, wkcVars, dcVars, dcMonitor, dcMax>>

WcStates == {"zero", "incomplete", "complete"}
Sum(f) == FoldFunction(+, 0, f)
WorkingCounters ==
  {w \in [Units -> UNION {0 .. Expected[u] : u \in Units}] :
     \A u \in Units : w[u] <= Expected[u]}

TypeOK ==
  /\ wc \in [Units -> Nat]
  /\ wkc \in Nat /\ wkcState \in WcStates /\ wkcMin \in Nat
  /\ changeCount \in 0 .. MaxChanges /\ wkcReset \in BOOLEAN
  /\ wkcLast \in Nat /\ fullSeen \in BOOLEAN
  /\ dcDiff \in Diffs \cup {0, Invalid} /\ dcConverged \in BOOLEAN
  /\ missCount \in 0 .. MissMax
  /\ dcMonitor \in BOOLEAN /\ dcMax \in Thresholds
  /\ degraded \in BOOLEAN /\ silent \in 0 .. MissMax + 2
  /\ paused \in BOOLEAN

(* lcec_init_master_hal clears the pins; the monitor is on by default.     *)
Init ==
  /\ wc = [u \in Units |-> 0]
  /\ wkc = 0 /\ wkcState = "zero" /\ wkcMin = 0 /\ changeCount = 0
  /\ wkcReset = FALSE /\ wkcLast = 0 /\ fullSeen = FALSE
  /\ dcDiff = 0 /\ dcConverged = FALSE /\ missCount = 0
  /\ dcMonitor = TRUE /\ dcMax \in Thresholds
  /\ degraded = FALSE /\ silent = 0 /\ paused = FALSE

---------------------------------------------------------------------------
(* The state of the master is that of all its domains together, whether    *)
(* they were exchanged in this cycle or keep their last report.            *)
DomainState(w) ==
  IF \A u \in Units : w[u] = Expected[u] THEN "complete"
  ELSE IF \A u \in Units : w[u] = 0 THEN "zero" ELSE "incomplete"

Smaller(a, b) == IF a < b THEN a ELSE b

(* The exchange that arms the statistics, and the running minimum.         *)
ArmsAny(state) == state # "zero"  \* slip: any exchange
Arms(state) == state = "complete"

LowestFirst(now, min) == min                      \* slip: not followed
Lowest(now, min) == Smaller(now, min)

(* The statistics of one read: a requested reset disarms them first, the   *)
(* first complete exchange arms them, every later read is compared.        *)
CountExchange(now, state) ==
  LET armed == fullSeen /\ ~wkcReset
      min == IF wkcReset THEN 0 ELSE wkcMin
      changes == IF wkcReset THEN 0 ELSE changeCount
  IN /\ wkcReset' = FALSE
     /\ wkc' = now /\ wkcState' = state /\ wkcLast' = now
     /\ fullSeen' = (armed \/ Arms(state))
     /\ \/ /\ armed
           /\ wkcMin' = Lowest(now, min)
           /\ changeCount' = IF now # wkcLast THEN Smaller(changes + 1, MaxChanges) ELSE changes
           /\ degraded' = (degraded \/ state # "complete")
        \/ /\ ~armed /\ Arms(state)
           /\ wkcMin' = now /\ changeCount' = 0 /\ degraded' = FALSE
        \/ /\ ~armed /\ ~Arms(state)
           /\ wkcMin' = min /\ changeCount' = changes /\ degraded' = FALSE

(* The monitor: MissMax misses in a row are tolerated, then the pins are   *)
(* withdrawn.                                                              *)
ToleratesMore == missCount <= MissMax  \* slip: off by one
Tolerates == missCount < MissMax

MonitorSync(diff) ==
  \/ /\ dcMonitor /\ diff # Invalid
     /\ missCount' = 0
     /\ dcDiff' = diff /\ dcConverged' = (diff < dcMax)
     /\ silent' = 0 /\ paused' = FALSE
  \/ /\ dcMonitor /\ diff = Invalid
     /\ IF Tolerates
          THEN missCount' = missCount + 1 /\ UNCHANGED <<dcDiff, dcConverged>>
          ELSE dcConverged' = FALSE /\ dcDiff' = Invalid /\ UNCHANGED missCount
     /\ silent' = Smaller(silent + 1, MissMax + 2) /\ UNCHANGED paused
  \/ /\ ~dcMonitor
     /\ silent' = Smaller(silent + 1, MissMax + 2) /\ paused' = TRUE
     /\ UNCHANGED <<dcDiff, dcConverged, missCount>>

Read ==
  /\ \E w \in WorkingCounters : wc' = w /\ CountExchange(Sum(w), DomainState(w))
  /\ \E diff \in Diffs \cup {Invalid} : MonitorSync(diff)
  /\ UNCHANGED <<dcMonitor, dcMax>>

---------------------------------------------------------------------------
(* The user.                                                               *)

RequestReset ==
  /\ wkcReset' = TRUE
  /\ UNCHANGED <<wc, wkc, wkcState, wkcMin, changeCount, wkcLast, fullSeen,
                 degraded, dcVars, dcMonitor, dcMax>>

SwitchMonitor ==
  /\ dcMonitor' = ~dcMonitor
  /\ UNCHANGED <<wc, wkcVars, dcVars, dcMax>>

SetThreshold ==
  /\ dcMax' \in Thresholds
  /\ UNCHANGED <<wc, wkcVars, dcVars, dcMonitor>>

User == RequestReset \/ SwitchMonitor \/ SetThreshold

Next == Read \/ User

Spec == Init /\ [][Next]_vars

---------------------------------------------------------------------------
(* Properties.                                                             *)

(* On a bus that has exchanged completely since the statistics were armed  *)
(* the counter is the full one, wkc-min equals it and the change count is  *)
(* 0: neither bring-up nor a reset in the middle of a disturbance leaves a *)
(* trace.                                                                  *)
HealthyBusIsQuiet ==
  fullSeen /\ ~degraded =>
    /\ wkc = Sum(Expected) /\ wkcMin = wkc /\ changeCount = 0

(* A slave that missed an exchange since then is on record: wkc-min is     *)
(* below the full counter and the change count is not 0.                   *)
DropoutsAreRecorded ==
  fullSeen /\ degraded => wkcMin < Sum(Expected) /\ changeCount > 0

(* With the monitor on, converged and dc-sync-diff are withdrawn by the    *)
(* miss that exceeds MissMax, and stay withdrawn until a response arrives. *)
NoStaleConverged ==
  silent > MissMax /\ ~paused => ~dcConverged /\ dcDiff = Invalid
=============================================================================
