------------------------- MODULE LcecMasterProofs -------------------------
(***************************************************************************)
(* Theorems about LcecMaster, for every number of masters, Sync Units and  *)
(* slaves, every divider and every period.                                 *)
(***************************************************************************)
EXTENDS LcecMaster, TLAPS

(* The thread stays in the list of the masters.                            *)
LEMMA AdvanceType ==
  ASSUME TypeOK, NEW loop \in Functs, NEW after \in Functs, Advance(loop, after)
  PROVE  fn' \in Functs /\ cur' \in Masters
BY MastersAssumption DEF TypeOK, Advance, Masters

(* Nor does it when it asks for the state of each slave in between.        *)
LEMMA LoopSlavesType ==
  ASSUME TypeOK, LoopSlaves
  PROVE  fn' \in Functs /\ cur' \in Masters
BY AdvanceType DEF LoopSlaves, TypeOK, Functs

(* One call of each funct preserves the type of what it assigns.           *)
LEMMA ActivateFailsType ==
  ASSUME TypeOK, NEW m \in Masters, ActivateFails(m)
  PROVE  /\ activated' \in [Masters -> BOOLEAN]
         /\ failures' \in [Masters -> 0 .. MaxFailures]
<1>1. failures[m] + 1 \in 0 .. MaxFailures
  BY BootAssumption DEF ActivateFails, TypeOK
<1> QED
  BY <1>1 DEF ActivateFails, TypeOK

(* A successful activation keeps the types of the life cycle.              *)
LEMMA ActivateSucceedsType ==
  ASSUME TypeOK, NEW m \in Masters, ActivateSucceeds(m)
  PROVE  /\ activated' \in [Masters -> BOOLEAN]
         /\ failures' \in [Masters -> 0 .. MaxFailures]
BY DEF ActivateSucceeds, TypeOK

(* lcec_activate preserves the types.                                      *)
LEMMA ActivateType == TypeOK /\ Activate => TypeOK'
<1> SUFFICES ASSUME TypeOK, Activate PROVE TypeOK'
  OBVIOUS
<1>1. fn' \in Functs /\ cur' \in Masters
  BY AdvanceType DEF Activate, Functs
<1>2. /\ activated' \in [Masters -> BOOLEAN]
      /\ initfActivated' \in [Masters -> BOOLEAN]
      /\ failures' \in [Masters -> 0 .. MaxFailures]
  <2>1. cur \in Masters
    BY DEF TypeOK
  <2>2. CASE UNCHANGED lifeVars
    BY <2>2 DEF lifeVars, TypeOK
  <2>3. CASE /\ ActivateSucceeds(cur)
             /\ initfActivated' = [initfActivated EXCEPT ![cur] = TRUE]
    BY <2>1, <2>3, ActivateSucceedsType DEF TypeOK
  <2>4. CASE ActivateFails(cur) /\ UNCHANGED initfActivated
    BY <2>1, <2>4, ActivateFailsType DEF TypeOK
  <2> QED
    BY <2>2, <2>3, <2>4 DEF Activate
<1> QED
  BY <1>1, <1>2 DEF Activate, TypeOK, stateVars, unitVars, globalVars

(* lcec_read_master preserves the types.                                   *)
LEMMA ReadMasterType == TypeOK /\ ReadMaster => TypeOK'
<1> SUFFICES ASSUME TypeOK, ReadMaster PROVE TypeOK'
  OBVIOUS
<1>1. fn' \in Functs /\ cur' \in Masters
  BY LoopSlavesType DEF ReadMaster
<1>2. CASE UNCHANGED <<stateVars, unitVars, globalMs, moved>>
  BY <1>1, <1>2 DEF ReadMaster, TypeOK, stateVars, unitVars, lifeVars
<1>3. CASE /\ CheckPeriod(cur) /\ ReceiveUnits(cur) /\ RefreshMaster(cur)
           /\ todo' = Sampled(cur) /\ moved' = moved \ Sampled(cur)
           /\ UNCHANGED slaveState
  <2>1. /\ appPeriod' \in [Masters -> Nat]
        /\ timer' \in [Masters -> Int]
        /\ age' \in [Masters -> Nat]
        /\ started' \in [Masters -> BOOLEAN]
    BY <1>3, PeriodAssumption
    DEF CheckPeriod, RefreshMaster, NextTimer, AllOp, TypeOK
  <2>2. /\ ms' \in [Masters -> SUBSET AlStates]
        /\ globalMs' \in SUBSET AlStates
        /\ todo' \subseteq Slaves /\ moved' \subseteq Slaves
    BY <1>3 DEF RefreshMaster, BusStates, Sampled, SlavesOf, Accumulated, TypeOK
  <2>3. /\ process' \in [Units -> BOOLEAN]
        /\ queued' \in [Units -> BOOLEAN]
        /\ inFlight' \in [Units -> BOOLEAN]
    BY <1>3 DEF ReceiveUnits, Processed, UnitsOf, TypeOK
  <2> QED
    BY <1>1, <1>3, <2>1, <2>2, <2>3 DEF ReadMaster, ReceiveUnits, TypeOK, lifeVars
<1> QED
  BY <1>2, <1>3 DEF ReadMaster

(* The state of one slave preserves the types.                             *)
LEMMA ReadSlaveType == TypeOK /\ ReadSlave => TypeOK'
<1> SUFFICES ASSUME TypeOK, ReadSlave PROVE TypeOK'
  OBVIOUS
<1>1. fn' \in Functs /\ cur' \in Masters
  BY LoopSlavesType DEF ReadSlave
<1>2. slaveState' \in [Slaves -> AlStates] /\ todo' \subseteq Slaves
  BY DEF ReadSlave, TypeOK
<1> QED
  BY <1>1, <1>2 DEF ReadSlave, TypeOK, globalVars, lifeVars, unitVars

(* The counters stay natural numbers: they are decremented above 0 only.   *)
LEMMA NextCounterType ==
  ASSUME TypeOK, NEW u \in Units
  PROVE  NextCounter(u) \in Nat
BY UnitsAssumption DEF NextCounter, TypeOK

(* Selecting and queueing the units keeps the types of their flags.        *)
LEMMA ExchangeType ==
  ASSUME TypeOK, NEW m \in Masters, ExchangeUnits(m)
  PROVE  /\ counter' \in [Units -> Nat] /\ gap' \in [Units -> Nat]
         /\ queued' \in [Units -> BOOLEAN] /\ process' \in [Units -> BOOLEAN]
         /\ write' \in [Units -> BOOLEAN] /\ inFlight' \in [Units -> BOOLEAN]
<1>1. counter' \in [Units -> Nat]
  BY NextCounterType DEF ExchangeUnits, TypeOK
<1>2. gap' \in [Units -> Nat]
  BY DEF ExchangeUnits, TypeOK
<1>3. write' \in [Units -> BOOLEAN]
  BY DEF ExchangeUnits, Due, TypeOK
<1>4. queued' \in [Units -> BOOLEAN] /\ inFlight' \in [Units -> BOOLEAN]
  BY Zenon DEF ExchangeUnits, TypeOK
<1>5. process' \in [Units -> BOOLEAN]
  BY DEF ExchangeUnits, TypeOK
<1> QED
  BY <1>1, <1>2, <1>3, <1>4, <1>5

(* lcec_write_master preserves the types.                                  *)
LEMMA WriteMasterType == TypeOK /\ WriteMaster => TypeOK'
<1> SUFFICES ASSUME TypeOK, WriteMaster PROVE TypeOK'
  OBVIOUS
<1>1. fn' \in Functs /\ cur' \in Masters
  BY AdvanceType DEF WriteMaster, Functs
<1>2. cur \in Masters
  BY DEF TypeOK
<1>3. /\ activated' \in [Masters -> BOOLEAN]
      /\ failures' \in [Masters -> 0 .. MaxFailures]
  <2>1. CASE ActivateFails(cur)
    BY <1>2, <2>1, ActivateFailsType
  <2>2. CASE ActivateSucceeds(cur)
    BY <1>2, <2>2, ActivateSucceedsType
  <2>3. CASE UNCHANGED <<activated, failures>>
    BY <2>3 DEF TypeOK
  <2> QED
    BY <2>1, <2>2, <2>3 DEF WriteMaster
<1>4. CASE ExchangeUnits(cur)
  BY <1>1, <1>2, <1>3, <1>4, ExchangeType DEF WriteMaster, TypeOK, stateVars, globalVars
<1>5. CASE UNCHANGED unitVars
  BY <1>1, <1>3, <1>5 DEF WriteMaster, TypeOK, stateVars, unitVars, globalVars
<1> QED
  BY <1>4, <1>5 DEF WriteMaster

(* What happens on the bus preserves the types.                            *)
LEMMA BusType == TypeOK /\ Bus => TypeOK'
<1> SUFFICES ASSUME TypeOK, Bus PROVE TypeOK'
  OBVIOUS
<1>1. bus' \in [Slaves -> AlStates] /\ moved' \subseteq Slaves
  BY DEF Bus, Promote, Demote, Disappear, Return, Becomes, TypeOK, AlStates
<1>2. UNCHANGED <<threadVars, lifeVars, stateVars, unitVars, globalVars>>
  BY DEF Bus, Promote, Demote, Disappear, Return, Becomes
<1> QED
  BY <1>1, <1>2 DEF TypeOK, threadVars, lifeVars, stateVars, unitVars, globalVars

(* The module starts well typed.                                           *)
LEMMA TypeInit == Init => TypeOK
BY MastersAssumption, PeriodAssumption, BootAssumption
DEF Init, TypeOK, Functs, Masters, AlStates

(* Every step preserves the types.                                         *)
LEMMA TypeStep == TypeOK /\ [Next]_vars => TypeOK'
<1> SUFFICES ASSUME TypeOK, [Next]_vars PROVE TypeOK'
  OBVIOUS
<1>1. CASE Activate
  BY <1>1, ActivateType
<1>2. CASE ReadAll
  BY <1>2 DEF ReadAll, TypeOK, Functs, lifeVars, stateVars, unitVars
<1>3. CASE ReadMaster
  BY <1>3, ReadMasterType
<1>4. CASE Publish
  BY <1>4 DEF Publish, TypeOK, Functs, lifeVars, stateVars, unitVars
<1>5. CASE WriteMaster
  BY <1>5, WriteMasterType
<1>6. CASE Bus
  BY <1>6, BusType
<1>7. CASE UNCHANGED vars
  BY <1>7 DEF vars, TypeOK, threadVars, lifeVars, stateVars, unitVars, globalVars
<1>8. CASE ReadSlave
  BY <1>8, ReadSlaveType
<1> QED
  BY <1>1, <1>2, <1>3, <1>4, <1>5, <1>6, <1>7, <1>8 DEF Next, Thread

(* Type correctness: in particular no counter of a Sync Unit wraps below 0 *)
(* and the thread never runs off the list of the masters.                  *)
THEOREM TypeCorrect == Spec => []TypeOK
BY TypeInit, TypeStep, PTL DEF Spec

---------------------------------------------------------------------------
(* The schedule.  Cadence is inductive: a unit that is exchanged goes from *)
(* counter 0 to Divider[u] - 1 and from any gap to 0, every other unit     *)
(* trades one cycle of the counter for one of the gap.                     *)

(* When the module is loaded no master has started and no unit counted.    *)
LEMMA CadenceInit == Init => Cadence
BY DEF Init, Cadence, JustStarted, UnitsOf

(* What an exchange of master m does to its units.                         *)
LEMMA CadenceExchange ==
  ASSUME TypeOK, Cadence, NEW m \in Masters, ExchangeUnits(m)
  PROVE  /\ ~started[m] => JustStarted(m)'
         /\ started[m] => InCadence(m)'
<1>1. ASSUME NEW u \in UnitsOf(m)
      PROVE  /\ u \in Units /\ MasterOf[u] = m
             /\ counter'[u] = NextCounter(u)
             /\ gap'[u] = IF Due(u) THEN 0 ELSE gap[u] + 1
  BY DEF UnitsOf, ExchangeUnits
<1>2. ASSUME ~started[m], NEW u \in UnitsOf(m)
      PROVE  counter'[u] = 0 /\ gap'[u] = 0
  BY <1>1, <1>2 DEF NextCounter, Due
<1>3. ASSUME started[m], NEW u \in UnitsOf(m)
      PROVE  counter'[u] + gap'[u] = Divider[u] - 1
  <2>1. /\ counter[u] \in Nat /\ gap[u] \in Nat /\ Divider[u] \in Nat \ {0}
    BY <1>1, UnitsAssumption DEF TypeOK
  <2>2. \/ counter[u] = 0 /\ gap[u] = 0
        \/ counter[u] + gap[u] = Divider[u] - 1
    BY <1>3 DEF Cadence, JustStarted, InCadence
  <2>3. CASE counter[u] = 0
    BY <1>1, <1>3, <2>1, <2>3 DEF NextCounter, Due
  <2>4. CASE counter[u] # 0
    BY <1>1, <1>3, <2>1, <2>2, <2>4 DEF NextCounter, Due
  <2> QED
    BY <2>3, <2>4
<1> QED
  BY <1>2, <1>3 DEF JustStarted, InCadence, UnitsOf

(* Every step preserves the cadence.                                       *)
LEMMA CadenceStep == TypeOK /\ Cadence /\ [Next]_vars => Cadence'
<1> SUFFICES ASSUME TypeOK, Cadence, [Next]_vars, NEW m \in Masters
             PROVE  /\ ~started'[m] => JustStarted(m)'
                    /\ started'[m] => JustStarted(m)' \/ InCadence(m)'
  BY DEF Cadence
<1>1. cur \in Masters /\ started \in [Masters -> BOOLEAN]
  BY DEF TypeOK
<1>2. CASE UNCHANGED <<started, counter, gap>>
  BY <1>2 DEF Cadence, JustStarted, InCadence
<1>3. CASE ReadMaster
  <2>1. UNCHANGED <<counter, gap>>
    BY <1>3 DEF ReadMaster, ReceiveUnits, unitVars
  <2>2. started[m] => started'[m]
    BY <1>1, <1>3 DEF ReadMaster, RefreshMaster, stateVars
  <2> QED
    BY <2>1, <2>2 DEF Cadence, JustStarted, InCadence
<1>4. CASE WriteMaster
  <2>1. UNCHANGED started
    BY <1>4 DEF WriteMaster, stateVars
  <2>2. CASE UNCHANGED unitVars
    BY <1>2, <2>1, <2>2 DEF unitVars
  <2>3. CASE ExchangeUnits(cur) /\ m = cur
    BY <2>1, <2>3, CadenceExchange
  <2>4. CASE ExchangeUnits(cur) /\ m # cur
    <3>1. \A u \in UnitsOf(m) : counter'[u] = counter[u] /\ gap'[u] = gap[u]
      BY <2>4 DEF ExchangeUnits, UnitsOf
    <3> QED
      BY <2>1, <3>1 DEF Cadence, JustStarted, InCadence
  <2> QED
    BY <1>4, <2>2, <2>3, <2>4 DEF WriteMaster
<1>5. CASE Activate \/ ReadAll \/ ReadSlave \/ Publish \/ Bus \/ UNCHANGED vars
  BY <1>2, <1>5 DEF Activate, ReadAll, ReadSlave, Publish, Bus, Promote, Demote, Disappear, Return,
                    Becomes, vars, stateVars, unitVars
<1> QED
  BY <1>3, <1>4, <1>5 DEF Next, Thread

(* From the start of a master on, counter and gap of each of its units     *)
(* follow one schedule, in phase with each other.                          *)
THEOREM CadenceCorrect == Spec => []Cadence
<1>1. TypeOK /\ Cadence /\ [Next]_vars => Cadence'
  BY CadenceStep
<1> QED
  BY <1>1, TypeCorrect, CadenceInit, PTL DEF Spec

(* A unit is never exchanged later than its divider allows.                *)
THEOREM NeverLateCorrect == Spec => []NeverLate
<1>1. TypeOK /\ Cadence => NeverLate
  <2> SUFFICES ASSUME TypeOK, Cadence, NEW u \in Units PROVE gap[u] < Divider[u]
    BY DEF NeverLate
  <2>1. MasterOf[u] \in Masters /\ u \in UnitsOf(MasterOf[u])
    BY UnitsAssumption DEF UnitsOf
  <2>2. gap[u] = 0 \/ counter[u] + gap[u] = Divider[u] - 1
    BY <2>1 DEF Cadence, JustStarted, InCadence
  <2>3. counter[u] \in Nat /\ gap[u] \in Nat /\ Divider[u] \in Nat \ {0}
    BY UnitsAssumption DEF TypeOK
  <2> QED
    BY <2>2, <2>3
<1> QED
  BY <1>1, TypeCorrect, CadenceCorrect, PTL

(* A unit in cadence is never exchanged early.                             *)
THEOREM NeverEarlyCorrect == Spec => NeverEarly
<1>1. TypeOK /\ [Next]_vars =>
        [\A u \in Units :
           /\ Exchanges(u) /\ InCadence(MasterOf[u]) /\ started[MasterOf[u]]
           => gap[u] = Divider[u] - 1]_vars
  <2> SUFFICES ASSUME TypeOK, [Next]_vars, NEW u \in Units, Exchanges(u),
                      InCadence(MasterOf[u]), started[MasterOf[u]]
               PROVE  gap[u] = Divider[u] - 1
    OBVIOUS
  <2>1. fn = "write" /\ cur = MasterOf[u] /\ threadVars' # threadVars /\ write'[u]
    BY DEF Exchanges, WriteRuns
  <2>2. u \in UnitsOf(cur)
    BY <2>1 DEF UnitsOf
  <2>3. WriteMaster
    BY <2>1 DEF Next, Thread, Activate, ReadAll, ReadMaster, ReadSlave, Publish,
                Bus, Promote, Demote, Disappear, Return, Becomes, vars
  <2>4. activated'[cur]
    BY <2>1 DEF Exchanges, WriteRuns
  <2>5. ExchangeUnits(cur)
    BY <2>3, <2>4 DEF WriteMaster, ActivateFails
  <2>6. counter[u] = 0
    BY <2>1, <2>2, <2>5 DEF ExchangeUnits, Due
  <2> QED
    BY <2>1, <2>2, <2>6, UnitsAssumption DEF InCadence, TypeOK
<1> QED
  BY <1>1, TypeCorrect, PTL DEF Spec, NeverEarly

---------------------------------------------------------------------------
(* The refresh of the state pins.  Freshness alone is not inductive: what  *)
(* is left on the timer and the age of the sample add up to the period of  *)
(* the update, except before the first check after the start.              *)
FreshlyStarted(m) == timer[m] = 0 /\ age[m] = 0
Counting(m) == timer[m] + age[m] = StateUpdatePeriod /\ timer[m] > -Period

FreshInv ==
  \A m \in Masters :
    /\ ~started[m] => FreshlyStarted(m)
    /\ started[m] => FreshlyStarted(m) \/ Counting(m)

(* The first read of a master takes a sample.                              *)
LEMMA FreshInit == Init => FreshInv
BY DEF Init, FreshInv, FreshlyStarted

(* One read keeps the relation of timer and age.                           *)
LEMMA FreshRefresh ==
  ASSUME TypeOK, FreshInv, NEW m \in Masters, RefreshMaster(m)
  PROVE  FreshlyStarted(m)' \/ (started[m] /\ Counting(m)')
<1>1. /\ timer'[m] = NextTimer(m)
      /\ age'[m] = IF CheckStates(m) THEN 0 ELSE age[m] + Period
  BY DEF RefreshMaster, TypeOK
<1>2. /\ timer[m] \in Int /\ age[m] \in Nat
      /\ Period \in Nat \ {0} /\ StateUpdatePeriod \in Nat \ {0}
  BY PeriodAssumption DEF TypeOK
<1>3. CASE ~started[m]
  BY <1>1, <1>3 DEF NextTimer, CheckStates, FreshlyStarted
<1>4. CASE started[m] /\ timer[m] > 0
  <2>1. timer'[m] = timer[m] - Period /\ age'[m] = age[m] + Period
    BY <1>1, <1>2, <1>4 DEF NextTimer, CheckStates
  <2>2. Counting(m)
    BY <1>2, <1>4 DEF FreshInv, FreshlyStarted
  <2> QED
    BY <1>2, <1>4, <2>1, <2>2 DEF Counting
<1>5. CASE started[m] /\ timer[m] <= 0
  <2>1. timer'[m] = StateUpdatePeriod /\ age'[m] = 0
    BY <1>1, <1>2, <1>5 DEF NextTimer, CheckStates
  <2> QED
    BY <1>2, <1>5, <2>1 DEF Counting
<1> QED
  BY <1>2, <1>3, <1>4, <1>5

(* Every step preserves the relation of timer and age.                     *)
LEMMA FreshStep == TypeOK /\ FreshInv /\ [Next]_vars => FreshInv'
<1> SUFFICES ASSUME TypeOK, FreshInv, [Next]_vars, NEW m \in Masters
             PROVE  /\ ~started'[m] => FreshlyStarted(m)'
                    /\ started'[m] => FreshlyStarted(m)' \/ Counting(m)'
  BY DEF FreshInv
<1>1. CASE UNCHANGED <<started, timer, age>>
  BY <1>1 DEF FreshInv, FreshlyStarted, Counting
<1>2. CASE ReadMaster
  <2>1. CASE UNCHANGED stateVars
    BY <1>1, <2>1 DEF stateVars
  <2>2. CASE RefreshMaster(cur) /\ m = cur
    <3>1. started[m] => started'[m]
      BY <2>2 DEF RefreshMaster, TypeOK
    <3> QED
      BY <2>2, <3>1, FreshRefresh
  <2>3. CASE RefreshMaster(cur) /\ m # cur
    <3>1. timer'[m] = timer[m] /\ age'[m] = age[m] /\ started'[m] = started[m]
      BY <2>3 DEF RefreshMaster, TypeOK
    <3> QED
      BY <3>1 DEF FreshInv, FreshlyStarted, Counting
  <2> QED
    BY <1>2, <2>1, <2>2, <2>3 DEF ReadMaster
<1>3. CASE Activate \/ ReadAll \/ ReadSlave \/ Publish \/ WriteMaster \/ Bus \/ UNCHANGED vars
  BY <1>1, <1>3 DEF Activate, ReadAll, ReadSlave, Publish, WriteMaster, Bus, Promote, Demote,
                    Disappear, Return, Becomes, vars, stateVars
<1> QED
  BY <1>2, <1>3 DEF Next, Thread

(* The state pins lag the bus by less than the update period and one       *)
(* period of the thread.                                                   *)
THEOREM StatesAreFreshCorrect == Spec => []StatesAreFresh
<1>1. TypeOK /\ FreshInv => StatesAreFresh
  <2> SUFFICES ASSUME TypeOK, FreshInv, NEW m \in Masters
               PROVE  age[m] < StateUpdatePeriod + Period
    BY DEF StatesAreFresh
  <2>1. FreshlyStarted(m) \/ Counting(m)
    BY DEF FreshInv
  <2> QED
    BY <2>1, PeriodAssumption DEF FreshlyStarted, Counting, TypeOK
<1>2. TypeOK /\ FreshInv /\ [Next]_vars => FreshInv'
  BY FreshStep
<1> QED
  BY <1>1, <1>2, TypeCorrect, FreshInit, PTL DEF Spec

---------------------------------------------------------------------------
(* The pins of a master and of its slaves.  A slave counts with what its   *)
(* pins show, or, as long as it has not been asked, with what it is in: by *)
(* that the states of the master are those of its slaves, but for a slave  *)
(* that has changed before its turn.                                       *)
Seen(s) == IF s \in todo THEN bus[s] ELSE slaveState[s]

OneStory(m) ==
  /\ \A s \in SlavesOf(m) \ moved : Seen(s) \in ms[m] \cup {"OFF"}
  /\ \A al \in ms[m] : \E s \in SlavesOf(m) : s \in moved \/ Seen(s) = al

AskedInTheLoop == fn # "slaves" => todo = {}

PinsInv == AskedInTheLoop /\ \A m \in Masters : OneStory(m)

(* Before the first sample all pins show nothing.                          *)
LEMMA PinsInit == Init => PinsInv
BY DEF Init, PinsInv, AskedInTheLoop, OneStory, Seen, SlavesOf

(* A step by which no slave and no master is seen otherwise.               *)
LEMMA OneStoryKept ==
  ASSUME NEW m \in Masters, OneStory(m), ms'[m] = ms[m],
         \A s \in SlavesOf(m) : (s \in moved => s \in moved') /\ (s \in moved' \/ Seen(s)' = Seen(s))
  PROVE  OneStory(m)'
BY DEF OneStory, SlavesOf

(* The state of the master is the union of what its slaves are in, and     *)
(* every one of them is asked next.                                        *)
LEMMA PinsReadMaster ==
  ASSUME TypeOK, PinsInv, ReadMaster, NEW m \in Masters
  PROVE  OneStory(m)'
<1>1. todo = {} /\ OneStory(m) /\ cur \in Masters
  BY DEF ReadMaster, PinsInv, AskedInTheLoop, TypeOK
<1>2. CASE UNCHANGED <<stateVars, unitVars, globalMs, moved>>
  <2>1. UNCHANGED <<ms, todo, slaveState, moved>>
    BY <1>2 DEF stateVars
  <2> QED
    BY <1>1, <2>1, OneStoryKept DEF Seen
<1>3. CASE /\ RefreshMaster(cur) /\ todo' = Sampled(cur) /\ moved' = moved \ Sampled(cur)
           /\ UNCHANGED slaveState
  <2>1. CASE m = cur /\ CheckStates(m)
    <3>1. ms'[m] = BusStates(m)
      BY <1>3, <2>1 DEF RefreshMaster, TypeOK
    <3>2. \A s \in SlavesOf(m) : s \notin moved' /\ Seen(s)' = bus[s]
      BY <1>3, <2>1 DEF ReadMaster, Sampled, Seen, SlavesOf
    <3> QED
      BY <3>1, <3>2 DEF OneStory, BusStates, SlavesOf
  <2>2. CASE m # cur \/ ~CheckStates(m)
    <3>1. ms'[m] = ms[m]
      BY <1>1, <1>3, <2>2 DEF RefreshMaster, TypeOK
    <3>2. \A s \in SlavesOf(m) : s \notin Sampled(cur)
      BY <2>2 DEF Sampled, SlavesOf
    <3>3. \A s \in SlavesOf(m) : (s \in moved => s \in moved') /\ Seen(s)' = Seen(s)
      BY <1>1, <1>3, <3>2 DEF Seen
    <3> QED
      BY <1>1, <3>1, <3>3, OneStoryKept
  <2> QED
    BY <2>1, <2>2
<1> QED
  BY <1>2, <1>3 DEF ReadMaster

(* A slave that is asked shows what it was seen in.                        *)
LEMMA PinsReadSlave ==
  ASSUME TypeOK, PinsInv, ReadSlave, NEW m \in Masters
  PROVE  OneStory(m)'
<1>1. PICK t \in todo : slaveState' = [slaveState EXCEPT ![t] = bus[t]] /\ todo' = todo \ {t}
  BY DEF ReadSlave
<1>2. UNCHANGED <<ms, bus, moved>>
  BY DEF ReadSlave
<1>3. ASSUME NEW s \in Slaves PROVE Seen(s)' = Seen(s)
  <2>1. CASE s = t
    BY <1>1, <1>2, <2>1 DEF Seen, TypeOK
  <2>2. CASE s # t
    BY <1>1, <1>2, <2>2 DEF Seen, TypeOK
  <2> QED
    BY <2>1, <2>2
<1> QED
  BY <1>2, <1>3, OneStoryKept DEF PinsInv, SlavesOf

(* A slave that changes before it was asked has moved.                     *)
LEMMA PinsBecomes ==
  ASSUME TypeOK, PinsInv, NEW t \in Slaves, NEW state \in AlStates, Becomes(t, state), NEW m \in Masters
  PROVE  OneStory(m)'
<1>1. UNCHANGED <<ms, slaveState, todo>> /\ bus' = [bus EXCEPT ![t] = state]
  BY DEF Becomes, stateVars
<1>2. ASSUME NEW s \in Slaves PROVE (s \in moved => s \in moved') /\ (s \in moved' \/ Seen(s)' = Seen(s))
  <2>1. CASE s = t
    BY <1>1, <2>1 DEF Becomes, Seen
  <2>2. CASE s # t
    BY <1>1, <2>2 DEF Becomes, Seen, TypeOK
  <2> QED
    BY <2>1, <2>2
<1> QED
  BY <1>1, <1>2, OneStoryKept DEF PinsInv, SlavesOf

(* Every step keeps the agreement.                                         *)
LEMMA PinsStep == TypeOK /\ PinsInv /\ [Next]_vars => PinsInv'
<1> SUFFICES ASSUME TypeOK, PinsInv, [Next]_vars
             PROVE  AskedInTheLoop' /\ \A m \in Masters : OneStory(m)'
  BY DEF PinsInv
<1>1. AskedInTheLoop'
  BY DEF PinsInv, AskedInTheLoop, Next, Thread, Activate, ReadAll, ReadMaster, ReadSlave, LoopSlaves,
         Publish, WriteMaster, Advance, Bus, Promote, Demote, Disappear, Return, Becomes, vars,
         threadVars, stateVars
<1>2. ASSUME NEW m \in Masters PROVE OneStory(m)'
  <2>1. CASE ReadMaster
    BY <2>1, PinsReadMaster
  <2>2. CASE ReadSlave
    BY <2>2, PinsReadSlave
  <2>3. CASE Bus
    BY <2>3, PinsBecomes DEF Bus, Promote, Demote, Disappear, Return, AlStates
  <2>4. CASE Activate \/ ReadAll \/ Publish \/ WriteMaster \/ UNCHANGED vars
    <3>1. UNCHANGED <<ms, slaveState, todo, bus, moved>>
      BY <2>4 DEF Activate, ReadAll, Publish, WriteMaster, vars, stateVars
    <3> QED
      BY <3>1, OneStoryKept DEF PinsInv, Seen
  <2> QED
    BY <2>1, <2>2, <2>3, <2>4 DEF Next, Thread
<1> QED
  BY <1>1, <1>2

(* The pins of a master and those of its slaves tell one story although    *)
(* they are read one after another, whatever changes on the bus between    *)
(* the reads: only a slave that has not been asked yet, or has changed     *)
(* between the read of the master and its own, may differ.                 *)
THEOREM PinsAgreeCorrect == Spec => []PinsAgree
<1>1. PinsInv => PinsAgree
  BY DEF PinsInv, OneStory, Seen, PinsAgree
<1> QED
  BY <1>1, PinsInit, PinsStep, TypeCorrect, PTL DEF Spec


---------------------------------------------------------------------------
(* The mark of a unit and its datagram.  QueueDiscipline is inductive: a   *)
(* read clears the mark of every unit of a master that may start, a write  *)
(* sets mark and datagram together.                                        *)

(* A new unit carries the mark, but has nothing on the wire.               *)
LEMMA QueueInit == Init => QueueDiscipline
BY UnitsAssumption DEF Init, QueueDiscipline

(* Every step preserves the queue discipline.                              *)
LEMMA QueueStep == TypeOK /\ QueueDiscipline /\ [Next]_vars => QueueDiscipline'
<1> SUFFICES ASSUME TypeOK, QueueDiscipline, [Next]_vars, NEW u \in Units
             PROVE  /\ inFlight'[u] => queued'[u]
                    /\ queued'[u] /\ ~inFlight'[u] => ~write'[u] /\ ~started'[MasterOf[u]]
  BY DEF QueueDiscipline
<1>1. MasterOf[u] \in Masters /\ u \in UnitsOf(MasterOf[u])
  BY UnitsAssumption DEF UnitsOf
<1>2. CASE UNCHANGED <<started, unitVars>>
  BY <1>2 DEF QueueDiscipline, unitVars
<1>3. CASE ReadMaster
  <2>1. CASE UNCHANGED <<stateVars, unitVars, globalMs, moved>>
    BY <1>2, <2>1 DEF stateVars
  <2>2. CASE ReceiveUnits(cur) /\ RefreshMaster(cur) /\ MasterOf[u] = cur
    <3>1. ~queued'[u] /\ ~inFlight'[u]
      BY <1>1, <2>2 DEF ReceiveUnits, Processed, QueueDiscipline
    <3> QED
      BY <3>1
  <2>3. CASE ReceiveUnits(cur) /\ RefreshMaster(cur) /\ MasterOf[u] # cur
    <3>1. queued'[u] = queued[u] /\ inFlight'[u] = inFlight[u] /\ write'[u] = write[u]
      BY <2>3 DEF ReceiveUnits, Processed, UnitsOf, TypeOK
    <3>2. started'[MasterOf[u]] = started[MasterOf[u]]
      BY <1>1, <2>3 DEF RefreshMaster, TypeOK
    <3> QED
      BY <3>1, <3>2 DEF QueueDiscipline
  <2> QED
    BY <1>3, <2>1, <2>2, <2>3 DEF ReadMaster
<1>4. CASE WriteMaster
  <2>1. UNCHANGED started
    BY <1>4 DEF WriteMaster, stateVars
  <2>2. CASE UNCHANGED unitVars
    BY <1>2, <2>1, <2>2
  <2>3. CASE ExchangeUnits(cur) /\ MasterOf[u] = cur /\ Due(u)
    BY <1>1, <2>3 DEF ExchangeUnits, Marked
  <2>4. CASE ExchangeUnits(cur) /\ MasterOf[u] = cur /\ ~Due(u)
    <3>1. queued'[u] = queued[u] /\ inFlight'[u] = inFlight[u]
      BY <2>4 DEF ExchangeUnits, Marked, TypeOK
    <3>2. started[MasterOf[u]]
      BY <2>4 DEF Due
    <3> QED
      BY <3>1, <3>2 DEF QueueDiscipline
  <2>5. CASE ExchangeUnits(cur) /\ MasterOf[u] # cur
    <3>1. queued'[u] = queued[u] /\ inFlight'[u] = inFlight[u] /\ write'[u] = write[u]
      BY <2>5 DEF ExchangeUnits, UnitsOf, TypeOK
    <3> QED
      BY <2>1, <3>1 DEF QueueDiscipline
  <2> QED
    BY <1>4, <2>2, <2>3, <2>4, <2>5 DEF WriteMaster
<1>5. CASE Activate \/ ReadAll \/ ReadSlave \/ Publish \/ Bus \/ UNCHANGED vars
  BY <1>2, <1>5 DEF Activate, ReadAll, ReadSlave, Publish, Bus, Promote, Demote, Disappear, Return,
                    Becomes, vars, stateVars
<1> QED
  BY <1>3, <1>4, <1>5 DEF Next, Thread

(* A domain is processed when, and only when, its datagram was queued.     *)
THEOREM QueueDisciplineCorrect == Spec => []QueueDiscipline
BY QueueInit, QueueStep, TypeCorrect, PTL DEF Spec

---------------------------------------------------------------------------
(* The alternation of read and write.  No datagram of a master is on the   *)
(* wire between its read and its write, and none before its activation.    *)
LoopsFromFirst == fn \in {"readAll", "publish"} => cur = 1
Collected ==
  \A u \in Units : inFlight[u] => activated[MasterOf[u]] /\ ~Read(MasterOf[u])
Alternation == LoopsFromFirst /\ Collected

(* Nothing is on the wire when the module is loaded.                       *)
LEMMA AlternationInit == Init => Alternation
BY DEF Init, Alternation, LoopsFromFirst, Collected

(* Every loop over the masters starts with the first one.                  *)
LEMMA LoopsStep == TypeOK /\ LoopsFromFirst /\ [Next]_vars => LoopsFromFirst'
BY DEF LoopsFromFirst, Next, Thread, Activate, ReadAll, ReadMaster, ReadSlave, LoopSlaves, Publish,
       WriteMaster, Advance, Bus, Promote, Demote, Disappear, Return, Becomes, vars, threadVars

(* A datagram is queued after the read of its master and collected by the  *)
(* next.                                                                   *)
LEMMA CollectedStep ==
  TypeOK /\ QueueDiscipline /\ Alternation /\ [Next]_vars => Collected'
<1> SUFFICES ASSUME TypeOK, QueueDiscipline, Alternation, [Next]_vars,
                    NEW u \in Units, inFlight'[u]
             PROVE  activated'[MasterOf[u]] /\ ~Read(MasterOf[u])'
  BY DEF Collected
<1> DEFINE m == MasterOf[u]
<1>1. m \in Masters /\ u \in UnitsOf(m) /\ cur \in Masters
  BY UnitsAssumption DEF UnitsOf, TypeOK
<1>2. m \in Int /\ cur \in Int /\ NMasters \in Int /\ 1 <= m /\ m <= NMasters /\ cur <= NMasters
  BY <1>1, MastersAssumption DEF Masters
<1>3. inFlight[u] => activated[m] /\ ~Read(m)
  BY DEF Alternation, Collected
<1>4. CASE UNCHANGED vars \/ Bus
  BY <1>3, <1>4 DEF vars, Bus, Promote, Demote, Disappear, Return, Becomes, threadVars, lifeVars,
                    unitVars, Read
<1>5. CASE Activate
  <2>1. activated[m] => activated'[m]
    BY <1>1, <1>5 DEF Activate, ActivateSucceeds, ActivateFails, lifeVars, TypeOK
  <2>2. fn' \in {"activate", "readAll"} /\ inFlight'[u] = inFlight[u]
    BY <1>5 DEF Activate, Advance, unitVars
  <2> QED
    BY <1>3, <2>1, <2>2 DEF Read
<1>6. CASE ReadAll
  BY <1>2, <1>3, <1>6 DEF ReadAll, Read, lifeVars, unitVars, Alternation, LoopsFromFirst
<1>7. CASE ReadMaster
  <2>1. UNCHANGED activated
    BY <1>7 DEF ReadMaster, lifeVars
  <2>2. inFlight[u] /\ activated[m] /\ ~Read(m)
    BY <1>3, <1>7 DEF ReadMaster, ReceiveUnits, unitVars
  <2>3. m # cur
    BY <1>1, <1>7, <2>2 DEF ReadMaster, NotReady, ReceiveUnits, Processed, QueueDiscipline
  <2>4. m > cur
    BY <1>2, <1>7, <2>2, <2>3 DEF ReadMaster, Read
  <2>5. (fn' = "read" /\ cur' = cur + 1) \/ (fn' = "slaves" /\ cur' = cur)
    BY <1>2, <1>7, <2>4 DEF ReadMaster, LoopSlaves, Advance
  <2> QED
    BY <1>2, <2>1, <2>2, <2>4, <2>5 DEF Read
<1>8. CASE Publish
  BY <1>3, <1>8 DEF Publish, Read, unitVars
<1>9. CASE WriteMaster
  <2>1. CASE UNCHANGED unitVars \/ m # cur
    <3>1. inFlight[u]
      BY <1>9, <2>1 DEF WriteMaster, ExchangeUnits, UnitsOf, unitVars
    <3>2. activated'[m]
      BY <1>1, <1>3, <1>9, <3>1 DEF WriteMaster, ActivateFails, ActivateSucceeds, TypeOK
    <3>3. m < cur
      BY <1>2, <1>3, <1>9, <3>1 DEF WriteMaster, Read
    <3> QED
      BY <1>2, <1>9, <3>2, <3>3 DEF WriteMaster, Advance, Read
  <2>2. CASE ExchangeUnits(cur) /\ activated'[cur] /\ m = cur
    BY <1>2, <1>9, <2>2 DEF WriteMaster, Advance, Read
  <2>3. ExchangeUnits(cur) => activated'[cur] \/ UNCHANGED unitVars
    BY <1>1, <1>9 DEF WriteMaster, ActivateSucceeds, TypeOK
  <2> QED
    BY <1>9, <2>1, <2>2, <2>3 DEF WriteMaster
<1>10. CASE ReadSlave
  <2>1. activated'[m] /\ m > cur
    BY <1>2, <1>3, <1>10 DEF ReadSlave, Read, lifeVars, unitVars
  <2>2. (fn' = "read" /\ cur' = cur + 1) \/ (fn' = "slaves" /\ cur' = cur)
    BY <1>2, <1>10, <2>1 DEF ReadSlave, LoopSlaves, Advance
  <2> QED
    BY <1>2, <2>1, <2>2 DEF Read
<1> QED
  BY <1>4, <1>5, <1>6, <1>7, <1>8, <1>9, <1>10 DEF Next, Thread

(* Read and write of a master alternate in every behaviour.                *)
LEMMA AlternationCorrect == Spec => []Alternation
<1>1. TypeOK /\ QueueDiscipline /\ Alternation /\ [Next]_vars => Alternation'
  BY LoopsStep, CollectedStep DEF Alternation
<1> QED
  BY <1>1, AlternationInit, TypeCorrect, QueueDisciplineCorrect, PTL DEF Spec

(* No domain is queued while its previous datagram waits to be processed.  *)
THEOREM NoOverwriteCorrect == Spec => NoOverwrite
<1>1. ASSUME TypeOK, Alternation, [Next]_vars, NEW u \in Units, Exchanges(u)
      PROVE  ~inFlight[u]
  <2>1. fn = "write" /\ cur = MasterOf[u] /\ cur \in Int
    BY <1>1, MastersAssumption DEF Exchanges, WriteRuns, TypeOK, Masters
  <2>2. Read(MasterOf[u])
    BY <2>1 DEF Read
  <2> QED
    BY <1>1, <2>2 DEF Alternation, Collected
<1>2. TypeOK /\ Alternation /\ [Next]_vars
        => [\A u \in Units : Exchanges(u) => ~inFlight[u]]_vars
  BY <1>1
<1> QED
  BY <1>2, TypeCorrect, AlternationCorrect, PTL DEF Spec, NoOverwrite

---------------------------------------------------------------------------
(* The process data pointers.  Only the guarded part of lcec_read_master   *)
(* sets process, only the part of lcec_write_master behind a successful    *)
(* activation sets write.                                                  *)

(* A unit that a step processes belongs to an active master.               *)
LEMMA ProcessedIsActive ==
  ASSUME TypeOK, Next, NEW u \in Units, process'[u] # process[u]
  PROVE  activated[MasterOf[u]]
<1>1. ReadMaster
  BY DEF Next, Thread, Activate, ReadAll, ReadSlave, Publish, WriteMaster, ExchangeUnits, Bus, Promote,
         Demote, Disappear, Return, Becomes, unitVars
<1>2. activated[cur] /\ ReceiveUnits(cur)
  BY <1>1 DEF ReadMaster, NotReady, unitVars
<1>3. u \in UnitsOf(cur)
  BY <1>2 DEF ReceiveUnits, TypeOK
<1> QED
  BY <1>2, <1>3 DEF UnitsOf

(* A unit that a step selects for writing belongs to a master that is      *)
(* active when the step ends.                                              *)
LEMMA WrittenIsActive ==
  ASSUME TypeOK, Next, NEW u \in Units, write'[u] # write[u]
  PROVE  activated'[MasterOf[u]]
<1>1. WriteMaster
  BY DEF Next, Thread, Activate, ReadAll, ReadSlave, Publish, ReadMaster, ReceiveUnits, Bus, Promote,
         Demote, Disappear, Return, Becomes, unitVars
<1>2. ExchangeUnits(cur) /\ activated'[cur]
  BY <1>1 DEF WriteMaster, ActivateSucceeds, unitVars, TypeOK
<1>3. u \in UnitsOf(cur)
  BY <1>2 DEF ExchangeUnits, TypeOK
<1> QED
  BY <1>2, <1>3 DEF UnitsOf

(* No driver is called before the activation of its master has set the     *)
(* process data pointers.                                                  *)
THEOREM NullImageUntouchedCorrect == Spec => NullImageUntouched
<1> DEFINE Safe == /\ \A u \in Units : process'[u] # process[u] => activated[MasterOf[u]]
                   /\ \A u \in Units : write'[u] # write[u] => activated'[MasterOf[u]]
<1>1. TypeOK /\ [Next]_vars => [Safe]_vars
  BY ProcessedIsActive, WrittenIsActive
<1> QED
  BY <1>1, TypeCorrect, PTL DEF Spec, NullImageUntouched

---------------------------------------------------------------------------
(* The global pins.  Within a cycle the accumulator holds the states of    *)
(* every active master the loop has passed.                                *)
Passed(m) == (fn = "read" /\ m < cur) \/ (fn = "slaves" /\ m <= cur) \/ fn = "publish"
Covered == \A m \in Masters : activated[m] /\ Passed(m) => ms[m] \subseteq globalMs

(* The first loop has passed no master.                                    *)
LEMMA CoveredInit == Init => Covered
BY DEF Init, Covered, Passed

(* Every read adds the states of its master, and none is taken away.       *)
LEMMA CoveredStep == TypeOK /\ LoopsFromFirst /\ Covered /\ [Next]_vars => Covered'
<1> SUFFICES ASSUME TypeOK, LoopsFromFirst, Covered, [Next]_vars,
                    NEW m \in Masters, activated'[m], Passed(m)'
             PROVE  ms'[m] \subseteq globalMs'
  BY DEF Covered
<1>1. m \in Int /\ cur \in Int /\ NMasters \in Int /\ 1 <= m /\ m <= NMasters
  BY MastersAssumption DEF TypeOK, Masters
<1>2. CASE UNCHANGED vars \/ Bus
  BY <1>2 DEF Covered, Passed, vars, Bus, Promote, Demote, Disappear, Return, Becomes, threadVars,
              lifeVars, stateVars, globalVars
<1>3. CASE Activate \/ Publish \/ WriteMaster
  BY <1>3 DEF Activate, Publish, WriteMaster, Advance, Passed
<1>4. CASE ReadAll
  BY <1>1, <1>4 DEF ReadAll, Passed, LoopsFromFirst
<1>5. CASE ReadMaster
  <2>1. activated[m]
    BY <1>5 DEF ReadMaster, lifeVars
  <2>2. m < cur \/ m = cur
    BY <1>1, <1>5 DEF ReadMaster, LoopSlaves, Advance, Passed
  <2>3. m < cur => ms[m] \subseteq globalMs
    BY <1>5, <2>1 DEF ReadMaster, Covered, Passed
  <2>4. CASE NotReady(cur) /\ UNCHANGED <<stateVars, unitVars, globalMs, moved>>
    BY <2>1, <2>2, <2>3, <2>4 DEF NotReady, stateVars
  <2>5. CASE RefreshMaster(cur)
    <3> DEFINE al == IF CheckStates(cur) THEN BusStates(cur) ELSE ms[cur]
    <3>1. ms' = [ms EXCEPT ![cur] = al] /\ globalMs' = globalMs \cup al
      BY <2>5 DEF RefreshMaster, Accumulated
    <3>2. CASE m = cur
      BY <3>1, <3>2 DEF TypeOK
    <3>3. CASE m < cur
      <4>1. m # cur
        BY <1>1, <3>3
      <4>2. ms'[m] = ms[m]
        BY <3>1, <4>1 DEF TypeOK
      <4> QED
        BY <2>3, <3>1, <3>3, <4>2
    <3> QED
      BY <2>2, <3>2, <3>3
  <2> QED
    BY <1>5, <2>4, <2>5 DEF ReadMaster
<1>6. CASE ReadSlave
  <2>1. activated[m] /\ UNCHANGED <<ms, globalMs>>
    BY <1>6 DEF ReadSlave, lifeVars, globalVars
  <2>2. Passed(m)
    BY <1>1, <1>6 DEF ReadSlave, LoopSlaves, Advance, Passed
  <2> QED
    BY <2>1, <2>2 DEF Covered
<1> QED
  BY <1>2, <1>3, <1>4, <1>5, <1>6 DEF Next, Thread

(* lcec.all-op is published TRUE only when no active master shows a state  *)
(* other than OP.                                                          *)
THEOREM GlobalAllOpSoundCorrect == Spec => []GlobalAllOpSound
<1>1. Covered => GlobalAllOpSound
  BY DEF Covered, Passed, GlobalAllOpSound, AllOp
<1>2. Alternation => LoopsFromFirst
  BY DEF Alternation
<1> QED
  BY <1>1, <1>2, CoveredInit, CoveredStep, TypeCorrect, AlternationCorrect, PTL DEF Spec

---------------------------------------------------------------------------
(* Divisibility, for the numbers of cycles.  A number is divided by d when *)
(* it is a multiple of it.                                                 *)
LEMMA Multiple ==
  ASSUME NEW d \in Nat \ {0}, NEW n \in Int
  PROVE  n % d = 0 <=> \E k \in Int : n = k * d
<1>1. n \div d \in Int /\ n % d \in 0 .. d - 1 /\ n = d * (n \div d) + (n % d)
  OBVIOUS
<1>2. ASSUME n % d = 0 PROVE \E k \in Int : n = k * d
  BY <1>1, <1>2
<1>3. ASSUME NEW k \in Int, n = k * d PROVE n % d = 0
  <2> DEFINE q == n \div d
             r == n % d
  <2>1. q \in Int /\ r \in 0 .. d - 1 /\ k * d = d * q + r
    BY <1>1, <1>3
  <2> HIDE DEF q, r
  <2>2. r = (k - q) * d
    BY <2>1
  <2>3. k - q \in Int
    BY <2>1
  <2>4. ASSUME NEW z \in Int, r = z * d PROVE r = 0
    BY <2>1, <2>4
  <2> QED
    BY <2>2, <2>3, <2>4 DEF r
<1> QED
  BY <1>2, <1>3

(* Multiples are closed under sum and difference.                          *)
LEMMA MultiplesAdd ==
  ASSUME NEW d \in Nat \ {0}, NEW a \in Int, NEW b \in Int, a % d = 0, b % d = 0
  PROVE  (a + b) % d = 0 /\ (a - b) % d = 0
<1>1. PICK j \in Int : a = j * d
  BY Multiple
<1>2. PICK k \in Int : b = k * d
  BY Multiple
<1>3. a + b = (j + k) * d /\ a - b = (j - k) * d
  BY <1>1, <1>2
<1>4. j + k \in Int /\ j - k \in Int /\ a + b \in Int /\ a - b \in Int
  OBVIOUS
<1> QED
  BY <1>3, <1>4, Multiple

(* A multiple of a multiple is one.                                        *)
LEMMA MultipleOfMultiple ==
  ASSUME NEW d \in Nat \ {0}, NEW e \in Nat \ {0}, NEW n \in Int, e % d = 0, n % e = 0
  PROVE  n % d = 0
<1>1. PICK j \in Int : e = j * d
  BY Multiple
<1>2. PICK k \in Int : n = k * e
  BY Multiple
<1>3. n = (k * j) * d
  BY <1>1, <1>2
<1>4. k * j \in Int
  OBVIOUS
<1> QED
  BY <1>3, <1>4, Multiple

(* The only multiple below d is 0, and d is one.                           *)
LEMMA SmallMultiple ==
  ASSUME NEW d \in Nat \ {0}
  PROVE  /\ 0 % d = 0 /\ d % d = 0
         /\ \A n \in 0 .. d - 1 : n % d = 0 => n = 0
<1>1. \A n \in 0 .. d - 1 : n % d = n
  OBVIOUS
<1>2. d = 1 * d /\ 0 = 0 * d
  OBVIOUS
<1>3. 0 % d = 0 /\ d % d = 0
  BY <1>2, Multiple
<1> QED
  BY <1>1, <1>3

---------------------------------------------------------------------------
(* The number of the cycle.  Every counter of a master counts down to the  *)
(* next cycle whose number is a multiple of the divider, so one number     *)
(* agrees with all of them, and below the hyperperiod only one.            *)
Numbers(m) == 0 .. Hyperperiod[m] - 1
Agrees(m, t) == \A u \in UnitsOf(m) : (t + counter[u]) % Divider[u] = 0

Numbered ==
  \A m \in Masters : started[m] => \E t \in Numbers(m) : Agrees(m, t)

(* The number is determined by the counters.                               *)
LEMMA NumberIsUnique ==
  ASSUME NEW m \in Masters, NEW c \in [Units -> Nat], NEW s \in Numbers(m), NEW t \in Numbers(m),
         \A u \in UnitsOf(m) : (s + c[u]) % Divider[u] = 0,
         \A u \in UnitsOf(m) : (t + c[u]) % Divider[u] = 0,
         s < t
  PROVE  FALSE
<1> DEFINE h == t - s
<1>1. Hyperperiod[m] \in Nat \ {0} /\ s \in Int /\ t \in Int
  BY HyperperiodAssumption DEF Numbers
<1>2. h \in 1 .. Hyperperiod[m] - 1
  BY <1>1 DEF Numbers
<1>3. ASSUME NEW u \in UnitsOf(m)
      PROVE  h % Divider[u] = 0
  <2>1. Divider[u] \in Nat \ {0} /\ c[u] \in Int
    BY UnitsAssumption DEF UnitsOf
  <2>2. t + c[u] \in Int /\ s + c[u] \in Int /\ (t + c[u]) - (s + c[u]) = h
    BY <1>1, <2>1
  <2>3. (t + c[u]) % Divider[u] = 0 /\ (s + c[u]) % Divider[u] = 0
    OBVIOUS
  <2>4. ((t + c[u]) - (s + c[u])) % Divider[u] = 0
    BY <2>1, <2>2, <2>3, MultiplesAdd
  <2> QED
    BY <2>2, <2>4
<1>4. CommonMultiple(m, h)
  BY <1>3 DEF CommonMultiple
<1> QED
  BY <1>2, <1>4, HyperperiodAssumption

(* So the choice of the refinement mapping is the number that agrees.      *)
LEMMA NumberIsChosen ==
  ASSUME NEW m \in Masters, NEW c \in [Units -> Nat], NEW s \in Numbers(m),
         \A u \in UnitsOf(m) : (s + c[u]) % Divider[u] = 0
  PROVE  (CHOOSE t \in Numbers(m) : \A u \in UnitsOf(m) : (t + c[u]) % Divider[u] = 0) = s
<1> DEFINE P(t) == \A u \in UnitsOf(m) : (t + c[u]) % Divider[u] = 0
           n == CHOOSE t \in Numbers(m) : P(t)
<1>1. n \in Numbers(m) /\ P(n)
  OBVIOUS
<1>2. ~(n < s) /\ ~(s < n)
  BY <1>1, NumberIsUnique
<1>3. n \in Int /\ s \in Int
  BY <1>1 DEF Numbers
<1> HIDE DEF n
<1>4. n = s
  BY <1>2, <1>3
<1> QED
  BY <1>4 DEF n

(* The next number, from the last of the hyperperiod back to 0.            *)
LEMMA NextNumber ==
  ASSUME NEW m \in Masters, NEW t \in Numbers(m)
  PROVE  /\ (t + 1) % Hyperperiod[m] \in Numbers(m) /\ Hyperperiod[m] \in Nat \ {0}
         /\ \/ t + 1 < Hyperperiod[m] /\ (t + 1) % Hyperperiod[m] = t + 1
            \/ t + 1 = Hyperperiod[m] /\ (t + 1) % Hyperperiod[m] = 0
<1>1. Hyperperiod[m] \in Nat \ {0} /\ t \in 0 .. Hyperperiod[m] - 1
  BY HyperperiodAssumption DEF Numbers
<1>2. CASE t + 1 < Hyperperiod[m]
  <2>1. (t + 1) % Hyperperiod[m] = t + 1
    BY <1>1, <1>2
  <2> QED
    BY <1>1, <1>2, <2>1 DEF Numbers
<1>3. CASE t + 1 = Hyperperiod[m]
  <2>1. (t + 1) % Hyperperiod[m] = 0
    BY <1>1, <1>3, SmallMultiple
  <2> QED
    BY <1>1, <1>3, <2>1 DEF Numbers
<1> QED
  BY <1>1, <1>2, <1>3

(* A write of a master goes on to the next number.                         *)
LEMMA NumberAdvances ==
  ASSUME TypeOK, NEW m \in Masters, started[m], ExchangeUnits(m),
         NEW t \in Numbers(m), Agrees(m, t)
  PROVE  \A u \in UnitsOf(m) :
           (((t + 1) % Hyperperiod[m]) + counter'[u]) % Divider[u] = 0
<1> SUFFICES ASSUME NEW u \in UnitsOf(m)
             PROVE  (((t + 1) % Hyperperiod[m]) + counter'[u]) % Divider[u] = 0
  OBVIOUS
<1> DEFINE d == Divider[u]
           h == Hyperperiod[m]
           next == (t + 1) % h
           c == counter[u]
           cc == counter'[u]
<1>1. d \in Nat \ {0} /\ c \in Nat /\ t \in Nat
  BY UnitsAssumption DEF UnitsOf, TypeOK, Numbers
<1>2. (t + c) % d = 0
  BY DEF Agrees
<1>3. cc = IF c = 0 THEN d - 1 ELSE c - 1
  BY DEF ExchangeUnits, NextCounter, UnitsOf
<1>4. next \in Nat /\ h \in Nat \ {0} /\ (next = t + 1 \/ (t + 1 = h /\ next = 0))
  BY NextNumber DEF Numbers
<1>5. h % d = 0
  BY HyperperiodAssumption DEF CommonMultiple
<1>6. cc \in Nat
  BY <1>1, <1>3
<1> HIDE DEF d, h, next, c, cc
<1>7. ((t + 1) + cc) % d = 0
  <2>1. CASE c = 0
    <3>1. (t + 1) + cc = (t + c) + d
      BY <1>1, <1>3, <2>1
    <3>2. d % d = 0 /\ t + c \in Int /\ d \in Int
      BY <1>1, SmallMultiple
    <3>3. ((t + c) + d) % d = 0
      BY <1>1, <1>2, <3>2, MultiplesAdd
    <3> QED
      BY <3>1, <3>3
  <2>2. CASE c # 0
    <3>1. (t + 1) + cc = t + c
      BY <1>1, <1>3, <2>2
    <3> QED
      BY <1>2, <3>1
  <2> QED
    BY <2>1, <2>2
<1>8. CASE next = t + 1
  BY <1>7, <1>8 DEF next, cc, d, h
<1>9. CASE t + 1 = h /\ next = 0
  <2>1. (h + cc) % d = 0
    BY <1>7, <1>9
  <2>2. next + cc = (h + cc) - h
    BY <1>4, <1>6, <1>9
  <2>3. h + cc \in Int /\ h \in Int
    BY <1>4, <1>6
  <2>4. ((h + cc) - h) % d = 0
    BY <1>1, <1>5, <2>1, <2>3, MultiplesAdd
  <2>5. (next + cc) % d = 0
    BY <2>2, <2>4
  <2> QED
    BY <2>5 DEF next, cc, d, h
<1> QED
  BY <1>4, <1>8, <1>9

(* Cycle 0 agrees with a master that has just started.                     *)
LEMMA NumberZero ==
  ASSUME NEW m \in Masters, JustStarted(m)
  PROVE  0 \in Numbers(m) /\ Agrees(m, 0)
<1>1. 0 \in Numbers(m)
  BY HyperperiodAssumption DEF Numbers
<1>2. ASSUME NEW u \in UnitsOf(m) PROVE (0 + counter[u]) % Divider[u] = 0
  <2>1. counter[u] = 0 /\ Divider[u] \in Nat \ {0}
    BY UnitsAssumption DEF JustStarted, UnitsOf
  <2> QED
    BY <2>1, SmallMultiple
<1> QED
  BY <1>1, <1>2 DEF Agrees

(* A counter stays below its divider.                                      *)
LEMMA CounterIsBelow ==
  ASSUME TypeOK, Cadence, NEW m \in Masters, NEW u \in UnitsOf(m)
  PROVE  counter[u] < Divider[u]
<1>1. counter[u] \in Nat /\ gap[u] \in Nat /\ Divider[u] \in Nat \ {0}
  BY UnitsAssumption DEF UnitsOf, TypeOK
<1>2. counter[u] = 0 \/ counter[u] + gap[u] = Divider[u] - 1
  BY DEF Cadence, JustStarted, InCadence
<1> QED
  BY <1>1, <1>2

(* No master has started.                                                  *)
LEMMA NumberedInit == Init => Numbered
BY DEF Init, Numbered

(* A master that starts is at 0, and each of its writes counts one.        *)
LEMMA NumberedStep ==
  TypeOK /\ Cadence /\ Numbered /\ [Next]_vars => Numbered'
<1> SUFFICES ASSUME TypeOK, Cadence, Numbered, [Next]_vars, NEW m \in Masters, started'[m]
             PROVE  \E t \in Numbers(m) : Agrees(m, t)'
  BY DEF Numbered
<1>1. CASE ~started[m] /\ UNCHANGED counter
  <2>1. JustStarted(m)
    BY <1>1 DEF Cadence
  <2>2. 0 \in Numbers(m) /\ Agrees(m, 0)
    BY <2>1, NumberZero
  <2> QED
    BY <1>1, <2>2 DEF Agrees
<1>2. CASE started[m] /\ \A u \in UnitsOf(m) : counter'[u] = counter[u]
  <2>1. PICK t \in Numbers(m) : Agrees(m, t)
    BY <1>2 DEF Numbered
  <2> QED
    BY <1>2, <2>1 DEF Agrees
<1>3. CASE started[m] /\ ExchangeUnits(m)
  <2>1. PICK t \in Numbers(m) : Agrees(m, t)
    BY <1>3 DEF Numbered
  <2>2. \A u \in UnitsOf(m) : (((t + 1) % Hyperperiod[m]) + counter'[u]) % Divider[u] = 0
    BY <1>3, <2>1, NumberAdvances
  <2>3. (t + 1) % Hyperperiod[m] \in Numbers(m)
    BY NextNumber
  <2> DEFINE n == (t + 1) % Hyperperiod[m]
  <2> HIDE DEF n
  <2>4. n \in Numbers(m) /\ \A u \in UnitsOf(m) : (n + counter'[u]) % Divider[u] = 0
    BY <2>2, <2>3 DEF n
  <2> QED
    BY <2>4 DEF Agrees
<1>4. CASE WriteMaster
  <2>1. started[m]
    BY <1>4 DEF WriteMaster, stateVars
  <2>2. ExchangeUnits(cur) /\ m # cur => \A u \in UnitsOf(m) : counter'[u] = counter[u]
    BY DEF ExchangeUnits, UnitsOf
  <2> QED
    BY <1>2, <1>3, <1>4, <2>1, <2>2 DEF WriteMaster, unitVars
<1>5. CASE UNCHANGED counter
  BY <1>1, <1>2, <1>5
<1>6. CASE ~WriteMaster
  BY <1>5, <1>6 DEF Next, Thread, Activate, ReadAll, ReadMaster, ReceiveUnits, ReadSlave, Publish, Bus,
                    Promote, Demote, Disappear, Return, Becomes, vars, unitVars
<1> QED
  BY <1>4, <1>6

(* One number of the cycle agrees with all counters of a started master.   *)
LEMMA NumberedCorrect == Spec => []Numbered
BY NumberedInit, NumberedStep, TypeCorrect, CadenceCorrect, PTL DEF Spec

(* The counter of a unit has run out in the cycles that are multiples of   *)
(* its divider.                                                            *)
LEMMA DueByNumber ==
  ASSUME TypeOK, Cadence, NEW m \in Masters, NEW t \in Numbers(m), Agrees(m, t), NEW u \in UnitsOf(m)
  PROVE  counter[u] = 0 <=> t % Divider[u] = 0
<1>1. /\ Divider[u] \in Nat \ {0} /\ counter[u] \in 0 .. Divider[u] - 1 /\ t \in Int
      /\ t + counter[u] \in Int /\ (t + counter[u]) % Divider[u] = 0
  BY UnitsAssumption, CounterIsBelow, SMTT(30) DEF UnitsOf, TypeOK, Numbers, Agrees
<1>2. ASSUME counter[u] = 0 PROVE t % Divider[u] = 0
  BY <1>1, <1>2
<1>3. ASSUME t % Divider[u] = 0 PROVE counter[u] = 0
  <2>1. ((t + counter[u]) - t) % Divider[u] = 0
    BY <1>1, <1>3, MultiplesAdd
  <2>2. (t + counter[u]) - t = counter[u]
    BY <1>1
  <2> QED
    BY <1>1, <2>1, <2>2, SmallMultiple
<1> QED
  BY <1>2, <1>3

(* Units of one master stay phase aligned: a unit whose cycle is a         *)
(* multiple of another unit's cycle is only exchanged together with it,    *)
(* for all dividers.                                                       *)
THEOREM HarmonicAlignmentCorrect == Spec => []HarmonicAlignment
<1>1. TypeOK /\ Cadence /\ Numbered => HarmonicAlignment
  <2> SUFFICES ASSUME TypeOK, Cadence, Numbered, NEW u \in Units, NEW v \in Units,
                      MasterOf[u] = MasterOf[v], started[MasterOf[u]],
                      Divider[v] % Divider[u] = 0, counter[v] = 0
               PROVE  counter[u] = 0
    BY DEF HarmonicAlignment
  <2> DEFINE m == MasterOf[u]
  <2>1. m \in Masters /\ u \in UnitsOf(m) /\ v \in UnitsOf(m)
    BY UnitsAssumption DEF UnitsOf
  <2>2. PICK t \in Numbers(m) : Agrees(m, t)
    BY <2>1 DEF Numbered
  <2>3. t % Divider[v] = 0
    BY <2>1, <2>2, DueByNumber
  <2>4. Divider[u] \in Nat \ {0} /\ Divider[v] \in Nat \ {0} /\ t \in Int
    BY UnitsAssumption DEF Numbers
  <2>5. t % Divider[u] = 0
    BY <2>3, <2>4, MultipleOfMultiple
  <2> QED
    BY <2>1, <2>2, <2>5, DueByNumber
<1> QED
  BY <1>1, TypeCorrect, CadenceCorrect, NumberedCorrect, PTL

---------------------------------------------------------------------------
(* The first master implements the schedule of its Sync Units.             *)

RefinementInv == TypeOK /\ Cadence /\ QueueDiscipline /\ Alternation /\ Numbered

(* The thread begins with a read, nothing is sent and nothing has started. *)
LEMMA ScheduleInit == Init => Schedule!Init
<1> SUFFICES ASSUME Init
             PROVE  Schedule!Init
  OBVIOUS
<1>1. 1 \in Masters
  BY MastersAssumption DEF Masters
<1>2. ~Read(1)
  BY DEF Init, Read
<1>3. activated[1] \in BOOLEAN /\ started[1] = FALSE
  BY <1>1 DEF Init
<1>4. {u \in UnitsOf(1) : inFlight[u]} = {}
  BY DEF Init, UnitsOf
<1>5. Tick(1) = 0
  BY <1>3 DEF Tick
<1> QED
  BY <1>2, <1>3, <1>4, <1>5 DEF Schedule!Init

(* While a master has not started its number is 0, and a step that leaves  *)
(* start and counters alone leaves the number alone.                       *)
LEMMA NumberKept ==
  ASSUME NEW m \in Masters, started'[m] = started[m],
         \A u \in UnitsOf(m) : counter'[u] = counter[u]
  PROVE  Tick(m)' = Tick(m)
<1>1. \A t \in 0 .. Hyperperiod[m] - 1 :
        (\A u \in UnitsOf(m) : (t + counter'[u]) % Divider[u] = 0)
          <=> (\A u \in UnitsOf(m) : (t + counter[u]) % Divider[u] = 0)
  OBVIOUS
<1> DEFINE old == CHOOSE t \in 0 .. Hyperperiod[m] - 1 :
                    \A u \in UnitsOf(m) : (t + counter[u]) % Divider[u] = 0
           new == CHOOSE t \in 0 .. Hyperperiod[m] - 1 :
                    \A u \in UnitsOf(m) : (t + counter'[u]) % Divider[u] = 0
<1>2. new = old
  BY <1>1
<1>3. CASE started[m]
  <2>1. Tick(m) = old
    BY <1>3 DEF Tick
  <2>2. started'[m]
    BY <1>3
  <2>3. Tick(m)' = new
    BY <2>2 DEF Tick
  <2> QED
    BY <1>2, <2>1, <2>3
<1>4. CASE ~started[m]
  BY <1>4 DEF Tick
<1> QED
  BY <1>3, <1>4

(* A step that is none of the master's own changes nothing of its schedule. *)
LEMMA ScheduleStutters ==
  ASSUME 1 \in Masters, Read(1)' = Read(1), activated'[1] = activated[1], started'[1] = started[1],
         \A u \in UnitsOf(1) : counter'[u] = counter[u] /\ inFlight'[u] = inFlight[u]
  PROVE  UNCHANGED Schedule!vars
<1>1. Tick(1)' = Tick(1)
  BY NumberKept
<1>2. {u \in UnitsOf(1) : inFlight[u]}' = {u \in UnitsOf(1) : inFlight[u]}
  OBVIOUS
<1> QED
  BY <1>1, <1>2 DEF Schedule!vars

(* The read of the first master.                                           *)
LEMMA ScheduleCollect ==
  ASSUME RefinementInv, ReadMaster, cur = 1
  PROVE  Schedule!Collect
<1>1. 1 \in Masters /\ TypeOK /\ Cadence /\ QueueDiscipline /\ Alternation
  BY MastersAssumption DEF Masters, RefinementInv
<1>2. ~Read(1) /\ Read(1)'
  BY MastersAssumption, cur = 1 DEF ReadMaster, LoopSlaves, Advance, Read
<1>3. {u \in UnitsOf(1) : inFlight[u]}' = {}
  <2> SUFFICES ASSUME NEW u \in UnitsOf(1), inFlight'[u]
               PROVE  FALSE
    OBVIOUS
  <2>1. u \in Units /\ MasterOf[u] = 1
    BY DEF UnitsOf
  <2>2. CASE NotReady(cur) /\ UNCHANGED unitVars
    BY <1>1, <2>1, <2>2 DEF NotReady, unitVars, Alternation, Collected
  <2>3. CASE ReceiveUnits(cur)
    BY <1>1, <2>1, <2>3 DEF ReceiveUnits, Processed, QueueDiscipline
  <2> QED
    BY <2>2, <2>3 DEF ReadMaster
<1>4. UNCHANGED counter /\ UNCHANGED activated
  BY DEF ReadMaster, ReceiveUnits, unitVars, lifeVars
<1>5. started'[1] \in {started[1], started[1] \/ activated[1]}
  <2>1. CASE UNCHANGED started
    BY <2>1
  <2>2. CASE ~NotReady(cur) /\ RefreshMaster(cur)
    <3>1. activated[1] /\ started[1] \in BOOLEAN /\ activated[1] \in BOOLEAN
      BY <1>1, <2>2 DEF NotReady, TypeOK
    <3>2. started'[1] \in BOOLEAN /\ (started[1] => started'[1])
      BY <1>1, <2>2 DEF RefreshMaster, TypeOK, AllOp
    <3> QED
      BY <3>1, <3>2
  <2> QED
    BY <2>1, <2>2 DEF ReadMaster, stateVars
<1>6. Tick(1)' = Tick(1)
  <2>1. CASE started'[1] = started[1]
    BY <1>1, <1>4, <2>1, NumberKept
  <2>2. CASE started'[1] # started[1]
    <3>1. ~started[1] /\ started'[1]
      BY <1>1, <1>5, <2>2 DEF TypeOK
    <3>2. JustStarted(1)
      BY <1>1, <3>1 DEF Cadence
    <3>3. 0 \in Numbers(1) /\ \A u \in UnitsOf(1) : (0 + counter[u]) % Divider[u] = 0
      BY <1>1, <3>2, NumberZero DEF Agrees
    <3>4. counter \in [Units -> Nat]
      BY <1>1 DEF TypeOK
    <3>5. (CHOOSE t \in Numbers(1) : \A u \in UnitsOf(1) : (t + counter[u]) % Divider[u] = 0) = 0
      BY <1>1, <3>3, <3>4, NumberIsChosen
    <3>6. Tick(1)' = 0
      BY <1>4, <3>1, <3>5 DEF Tick, Numbers
    <3>7. Tick(1) = 0
      BY <3>1 DEF Tick
    <3> QED
      BY <3>6, <3>7
  <2> QED
    BY <2>1, <2>2
<1> QED
  BY <1>2, <1>3, <1>4, <1>5, <1>6 DEF Schedule!Collect

(* The write of the first master.                                          *)
LEMMA ScheduleExchange ==
  ASSUME RefinementInv, WriteMaster, cur = 1
  PROVE  Schedule!Exchange \/ Schedule!Idle
<1>1. 1 \in Masters /\ TypeOK /\ Cadence /\ QueueDiscipline /\ Alternation /\ Numbered
  BY MastersAssumption DEF Masters, RefinementInv
<1>2. Read(1) /\ ~Read(1)'
  BY MastersAssumption, cur = 1 DEF WriteMaster, Advance, Read
<1>3. UNCHANGED started
  BY DEF WriteMaster, stateVars
<1>4. CASE ~activated[cur] /\ ActivateFails(cur) /\ UNCHANGED unitVars
  <2>1. Tick(1)' = Tick(1)
    BY <1>1, <1>3, <1>4, NumberKept DEF unitVars
  <2>2. {u \in UnitsOf(1) : inFlight[u]}' = {u \in UnitsOf(1) : inFlight[u]}
    BY <1>4 DEF unitVars
  <2>3. Schedule!Idle
    BY <1>2, <1>3, <1>4, <2>1, <2>2 DEF Schedule!Idle, ActivateFails
  <2> QED
    BY <2>3
<1>5. CASE ExchangeUnits(cur) /\ activated'[1] = TRUE
  <2>1. ASSUME NEW u \in UnitsOf(1)
        PROVE  inFlight'[u] <=> Due(u)
    <3>1. u \in Units /\ MasterOf[u] = 1
      BY DEF UnitsOf
    <3>2. ~inFlight[u]
      BY <1>1, <1>2, <3>1 DEF Alternation, Collected
    <3> QED
      BY <1>5, <3>1, <3>2 DEF ExchangeUnits
  <2>2. CASE ~started[1]
    <3>1. {u \in UnitsOf(1) : inFlight[u]}' = UnitsOf(1)
      BY <2>1, <2>2 DEF Due, UnitsOf
    <3>2. Tick(1)' = 0
      BY <1>3, <2>2 DEF Tick
    <3>3. Schedule!Exchange
      BY <1>2, <1>3, <1>5, <2>2, <3>1, <3>2 DEF Schedule!Exchange
    <3> QED
      BY <3>3
  <2>3. CASE started[1]
    <3>1. PICK t \in Numbers(1) : Agrees(1, t)
      BY <1>1, <2>3 DEF Numbered
    <3>2. Tick(1) = t
      <4>1. counter \in [Units -> Nat] /\ \A u \in UnitsOf(1) : (t + counter[u]) % Divider[u] = 0
        BY <1>1, <3>1 DEF TypeOK, Agrees
      <4>2. (CHOOSE s \in Numbers(1) : \A u \in UnitsOf(1) : (s + counter[u]) % Divider[u] = 0) = t
        BY <1>1, <3>1, <4>1, NumberIsChosen
      <4> QED
        BY <2>3, <4>2 DEF Tick, Numbers
    <3> DEFINE n == (t + 1) % Hyperperiod[1]
    <3>3. n \in Numbers(1)
      BY <1>1, NextNumber
    <3>4. \A u \in UnitsOf(1) : (n + counter'[u]) % Divider[u] = 0
      BY <1>1, <1>5, <2>3, <3>1, NumberAdvances
    <3>5. Tick(1)' = n
      <4>1. counter' \in [Units -> Nat]
        BY <1>1, <1>5, ExchangeType
      <4> HIDE DEF n
      <4>2. (CHOOSE s \in Numbers(1) : \A u \in UnitsOf(1) : (s + counter'[u]) % Divider[u] = 0) = n
        BY <1>1, <3>3, <3>4, <4>1, NumberIsChosen
      <4> QED
        BY <1>3, <2>3, <4>2 DEF Tick, Numbers
    <3>6. {u \in UnitsOf(1) : inFlight[u]}' = Schedule!DueAt(t)
      <4>1. \A u \in UnitsOf(1) : inFlight'[u] <=> counter[u] = 0
        BY <2>1, <2>3 DEF Due, UnitsOf
      <4>2. \A u \in UnitsOf(1) : counter[u] = 0 <=> t % Divider[u] = 0
        BY <1>1, <3>1, DueByNumber
      <4> QED
        BY <4>1, <4>2 DEF Schedule!DueAt
    <3>7. Schedule!Exchange
      BY <1>2, <1>3, <1>5, <2>3, <3>2, <3>5, <3>6 DEF Schedule!Exchange
    <3> QED
      BY <3>7
  <2> QED
    BY <2>2, <2>3
<1>6. activated \in [Masters -> BOOLEAN]
  BY <1>1 DEF TypeOK
<1> QED
  BY <1>1, <1>4, <1>5, <1>6 DEF WriteMaster, ActivateSucceeds

(* Each step of the driver is one of the schedule or changes nothing of it. *)
LEMMA ScheduleStep == RefinementInv /\ [Next]_vars => [Schedule!Next]_(Schedule!vars)
<1> SUFFICES ASSUME RefinementInv, [Next]_vars
             PROVE  Schedule!Next \/ UNCHANGED Schedule!vars
  OBVIOUS
<1>1. /\ 1 \in Masters /\ cur \in Masters /\ cur \in Int /\ 1 <= cur /\ cur <= NMasters /\ NMasters \in Int
      /\ TypeOK /\ LoopsFromFirst
  BY MastersAssumption DEF Masters, RefinementInv, TypeOK, Alternation
<1>2. CASE UNCHANGED vars \/ Bus
  <2>1. UNCHANGED <<threadVars, lifeVars, stateVars, unitVars>>
    BY <1>2 DEF vars, Bus, Promote, Demote, Disappear, Return, Becomes
  <2>2. Read(1)' = Read(1)
    BY <2>1 DEF Read, threadVars
  <2> QED
    BY <1>1, <2>1, <2>2, ScheduleStutters DEF lifeVars, stateVars, unitVars
<1>3. CASE Activate
  <2>1. UNCHANGED <<stateVars, unitVars>> /\ fn = "activate" /\ fn' \in {"activate", "readAll"}
    BY <1>3 DEF Activate, Advance
  <2>2. ~Read(1) /\ ~Read(1)'
    BY <2>1 DEF Read
  <2>3. CASE activated'[1] = activated[1]
    <3>1. Read(1)' = Read(1)
      BY <2>2, Zenon DEF Read
    <3> QED
      BY <1>1, <2>1, <2>3, <3>1, ScheduleStutters DEF stateVars, unitVars
  <2>4. CASE activated'[1] # activated[1]
    <3>1. ~activated[1] /\ activated'[1] = TRUE
      BY <1>1, <1>3, <2>4 DEF Activate, ActivateSucceeds, ActivateFails, lifeVars, TypeOK
    <3>2. Tick(1)' = Tick(1)
      BY <1>1, <2>1, NumberKept DEF stateVars, unitVars
    <3>3. {u \in UnitsOf(1) : inFlight[u]}' = {u \in UnitsOf(1) : inFlight[u]}
      BY <2>1 DEF unitVars
    <3>4. Schedule!Enable
      BY <2>1, <2>2, <3>1, <3>2, <3>3 DEF Schedule!Enable, stateVars
    <3> QED
      BY <3>4 DEF Schedule!Next
  <2> QED
    BY <2>3, <2>4
<1>4. CASE ReadAll \/ Publish
  <2>1. UNCHANGED <<lifeVars, stateVars, unitVars>>
    BY <1>4 DEF ReadAll, Publish
  <2>2. Read(1)' = Read(1)
    BY <1>1, <1>4 DEF ReadAll, Publish, LoopsFromFirst, Read
  <2> QED
    BY <1>1, <2>1, <2>2, ScheduleStutters DEF lifeVars, stateVars, unitVars
<1>5. CASE ReadMaster
  <2>1. CASE cur = 1
    BY <1>5, <2>1, ScheduleCollect DEF Schedule!Next
  <2>2. CASE cur # 1
    <3>1. Read(1) /\ Read(1)'
      BY <1>1, <1>5, <2>2 DEF ReadMaster, LoopSlaves, Advance, Read
    <3>2. Read(1)' = Read(1)
      BY <3>1, Zenon DEF Read
    <3>3. UNCHANGED activated
      BY <1>5 DEF ReadMaster, lifeVars
    <3>4. started'[1] = started[1]
      BY <1>1, <1>5, <2>2 DEF ReadMaster, RefreshMaster, stateVars, TypeOK
    <3>5. \A u \in UnitsOf(1) : counter'[u] = counter[u] /\ inFlight'[u] = inFlight[u]
      <4> SUFFICES ASSUME NEW u \in UnitsOf(1)
                   PROVE  counter'[u] = counter[u] /\ inFlight'[u] = inFlight[u]
        OBVIOUS
      <4>1. u \in Units /\ MasterOf[u] = 1 /\ inFlight[u] \in BOOLEAN
        BY <1>1 DEF UnitsOf, TypeOK
      <4>2. UNCHANGED counter
        BY <1>5 DEF ReadMaster, ReceiveUnits, unitVars
      <4>3. u \notin Processed(cur)
        BY <2>2, <4>1 DEF Processed, UnitsOf
      <4>4. inFlight'[u] = inFlight[u]
        BY <1>5, <4>1, <4>3 DEF ReadMaster, ReceiveUnits, unitVars
      <4> QED
        BY <4>2, <4>4
    <3> QED
      BY <1>1, <3>2, <3>3, <3>4, <3>5, ScheduleStutters
  <2> QED
    BY <2>1, <2>2
<1>6. CASE WriteMaster
  <2>1. CASE cur = 1
    BY <1>6, <2>1, ScheduleExchange DEF Schedule!Next
  <2>2. CASE cur # 1
    <3>1. ~Read(1) /\ ~Read(1)'
      BY <1>1, <1>6, <2>2 DEF WriteMaster, Advance, Read
    <3>2. Read(1)' = Read(1)
      BY <3>1, Zenon DEF Read
    <3>3. activated'[1] = activated[1]
      BY <1>1, <1>6, <2>2 DEF WriteMaster, ActivateFails, ActivateSucceeds, TypeOK
    <3>4. UNCHANGED started
      BY <1>6 DEF WriteMaster, stateVars
    <3>5. \A u \in UnitsOf(1) : counter'[u] = counter[u] /\ inFlight'[u] = inFlight[u]
      <4> SUFFICES ASSUME NEW u \in UnitsOf(1)
                   PROVE  counter'[u] = counter[u] /\ inFlight'[u] = inFlight[u]
        OBVIOUS
      <4>1. u \in Units /\ u \notin UnitsOf(cur) /\ inFlight[u] \in BOOLEAN
        BY <1>1, <2>2 DEF UnitsOf, TypeOK
      <4>2. CASE UNCHANGED unitVars
        BY <4>2 DEF unitVars
      <4>3. CASE ExchangeUnits(cur)
        BY <4>1, <4>3 DEF ExchangeUnits
      <4> QED
        BY <1>6, <4>2, <4>3 DEF WriteMaster
    <3> QED
      BY <1>1, <3>2, <3>3, <3>4, <3>5, ScheduleStutters
  <2> QED
    BY <2>1, <2>2
<1>7. CASE ReadSlave
  <2>1. UNCHANGED <<lifeVars, started, unitVars>>
    BY <1>7 DEF ReadSlave
  <2>2. Read(1) /\ Read(1)'
    BY <1>1, <1>7 DEF ReadSlave, LoopSlaves, Advance, Read
  <2>3. Read(1)' = Read(1)
    BY <2>2, Zenon DEF Read
  <2> QED
    BY <1>1, <2>1, <2>3, ScheduleStutters DEF lifeVars, unitVars
<1> QED
  BY <1>2, <1>3, <1>4, <1>5, <1>6, <1>7 DEF Next, Thread

(* The counters, flags and early returns of the driver implement the       *)
(* schedule, for all dividers and however many masters share the thread.   *)
THEOREM ImplementsScheduleCorrect == Spec => ImplementsSchedule
<1>1. Spec => []RefinementInv
  BY TypeCorrect, CadenceCorrect, QueueDisciplineCorrect, AlternationCorrect, NumberedCorrect, PTL
  DEF RefinementInv
<1> QED
  BY <1>1, ScheduleInit, ScheduleStep, PTL DEF Spec, ImplementsSchedule, Schedule!Spec
=============================================================================
