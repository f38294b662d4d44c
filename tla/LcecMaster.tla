---------------------------- MODULE LcecMaster ----------------------------
(***************************************************************************)
(* The realtime half of the driver: activation of the masters, the cyclic  *)
(* functs read-all and write-all, the schedule of the Sync Units and the   *)
(* refresh of the state pins (src/src/lcec_main.c).                        *)
(*                                                                         *)
(* One HAL thread runs, every Period, read-all and then write-all; before  *)
(* its first cycle it runs lcec.activate when the configuration registered *)
(* it with initf.  A step of the thread is one call for one master, or the *)
(* call for the state of one slave, so the bus may change between the      *)
(* calls for two masters, between the state of the master and those of its *)
(* slaves, and between the read and the write of a cycle.  The clock       *)
(* discipline that ends lcec_write_master touches none of this state and   *)
(* has its own modules.                                                    *)
(***************************************************************************)
EXTENDS Integers, FiniteSets

CONSTANTS
  NMasters,           \* length of the list first_master .. last_master
  Units,              \* the Sync Units of all masters
  MasterOf,           \* [Units -> Masters]
  Divider,            \* [Units -> Nat \ {0}], sync_unit->cycle_divider
  Hyperperiod,        \* [Masters -> Nat \ {0}], see HyperperiodAssumption
  Slaves,             \* the configured slaves, numbered as in the lists of their masters
  UnitOf,             \* [Slaves -> Units], slave->sync_unit
  Period,             \* the period of the HAL thread
  XmlPeriod,          \* [Masters -> Nat], appTimePeriod as configured
  StateUpdatePeriod,  \* LCEC_STATE_UPDATE_PERIOD
  Boots,              \* the ways the module may be started, see BootModes
  MaxFailures         \* bound: failed activations of one master

Masters == 1 .. NMasters
UnitsOf(m) == {u \in Units : MasterOf[u] = m}
SlavesOf(m) == {s \in Slaves : MasterOf[UnitOf[s]] = m}

(* legacy: linuxcnc without initf, masters activated by rtapi_app_main;    *)
(* initf: lcec.activate registered; forgot: initf exists, the line is not  *)
(* in the .hal file.                                                       *)
BootModes == {"legacy", "initf", "forgot"}

(* AL state of a slave on the wire; PREOP stands for every state but OP.   *)
AlStates == {"OFF", "PREOP", "OP"}

ASSUME MastersAssumption == NMasters \in Nat \ {0}
ASSUME UnitsAssumption ==
  /\ MasterOf \in [Units -> Masters]
  /\ Divider \in [Units -> Nat \ {0}]
(* The schedule of a master repeats after the least common multiple of its *)
(* dividers.  Only the refinement mapping uses it.                         *)
CommonMultiple(m, h) == \A u \in UnitsOf(m) : h % Divider[u] = 0

ASSUME HyperperiodAssumption ==
  /\ Hyperperiod \in [Masters -> Nat \ {0}]
  /\ \A m \in Masters :
       /\ CommonMultiple(m, Hyperperiod[m])
       /\ \A h \in 1 .. Hyperperiod[m] - 1 : ~CommonMultiple(m, h)

ASSUME SlavesAssumption == Slaves \subseteq Nat /\ UnitOf \in [Slaves -> Units]
ASSUME PeriodAssumption ==
  /\ Period \in Nat \ {0}
  /\ StateUpdatePeriod \in Nat \ {0}
  /\ XmlPeriod \in [Masters -> Nat]
ASSUME BootAssumption == Boots \subseteq BootModes /\ MaxFailures \in Nat

VARIABLES
  fn, cur,         \* the call the thread makes next: fn for master cur
  activated,       \* master->activated
  initfActivated,  \* master->initf_activated
  appPeriod,       \* master->app_time_period
  started,         \* master->sync_units_started
  timer,           \* master->state_update_timer
  ms,              \* master->ms.al_states, also what the master pins show
  slaveState,      \* slave->state, also what the slave pins show
  todo,            \* the slaves whose state lcec_read_master still asks for
  counter,         \* sync_unit->cycle_counter
  queued,          \* sync_unit->queued
  process,         \* sync_unit->process
  write,           \* sync_unit->write
  globalMs,        \* global_ms.al_states
  globalPins,      \* the lcec.state-* pins
  bus,             \* external: the AL state each slave really is in
  inFlight,        \* external: the domain's datagram is queued or on the wire
  failures,        \* how often the activation of a master has failed
  gap,             \* history: write cycles since the unit was exchanged
  age,             \* history: time since ecrt_master_state was asked
  moved            \* history: slaves that changed between that and their own turn

threadVars == <<fn, cur>>
lifeVars == <<activated, initfActivated, failures>>
stateVars == <<appPeriod, started, timer, ms, slaveState, todo, age>>
unitVars == <<counter, queued, process, write, inFlight, gap>>
globalVars == <<globalMs, globalPins>>
vars == <<threadVars, lifeVars, stateVars, unitVars, globalVars, bus, moved>>

---------------------------------------------------------------------------
Functs == {"activate", "readAll", "read", "slaves", "publish", "write"}

TypeOK ==
  /\ fn \in Functs /\ cur \in Masters
  /\ activated \in [Masters -> BOOLEAN]
  /\ initfActivated \in [Masters -> BOOLEAN]
  /\ failures \in [Masters -> 0 .. MaxFailures]
  /\ appPeriod \in [Masters -> Nat]
  /\ started \in [Masters -> BOOLEAN]
  /\ timer \in [Masters -> Int]
  /\ ms \in [Masters -> SUBSET AlStates]
  /\ slaveState \in [Slaves -> AlStates]
  /\ todo \subseteq Slaves /\ moved \subseteq Slaves
  /\ age \in [Masters -> Nat]
  /\ counter \in [Units -> Nat]
  /\ queued \in [Units -> BOOLEAN]
  /\ process \in [Units -> BOOLEAN]
  /\ write \in [Units -> BOOLEAN]
  /\ inFlight \in [Units -> BOOLEAN]
  /\ gap \in [Units -> Nat]
  /\ globalMs \in SUBSET AlStates /\ globalPins \in SUBSET AlStates
  /\ bus \in [Slaves -> AlStates]

(* What the module looks like when rtapi_app_main has returned and the     *)
(* thread is about to start.  lcec_master_get_sync_unit leaves every unit  *)
(* marked queued.                                                          *)
Init ==
  /\ \E boot \in Boots :
       /\ fn = IF boot = "initf" THEN "activate" ELSE "readAll"
       /\ activated = [m \in Masters |-> boot = "legacy"]
  /\ cur = 1
  /\ initfActivated = [m \in Masters |-> FALSE]
  /\ failures = [m \in Masters |-> 0]
  /\ appPeriod = XmlPeriod
  /\ started = [m \in Masters |-> FALSE]
  /\ timer = [m \in Masters |-> 0]
  /\ ms = [m \in Masters |-> {}]
  /\ slaveState = [s \in Slaves |-> "OFF"]
  /\ todo = {} /\ moved = {}
  /\ age = [m \in Masters |-> 0]
  /\ counter = [u \in Units |-> 0]
  /\ queued = [u \in Units |-> TRUE]
  /\ process = [u \in Units |-> FALSE]
  /\ write = [u \in Units |-> FALSE]
  /\ inFlight = [u \in Units |-> FALSE]
  /\ gap = [u \in Units |-> 0]
  /\ globalMs = {} /\ globalPins = {}
  /\ bus \in [Slaves -> {"OFF", "PREOP"}]

(* The thread goes on to the next master of the list, or to the funct that *)
(* follows the loop over the masters.                                      *)
Advance(loop, after) ==
  IF cur < NMasters THEN fn' = loop /\ cur' = cur + 1
                    ELSE fn' = after /\ cur' = 1

---------------------------------------------------------------------------
(* lcec_activate_master, its two outcomes.                                 *)

ActivateFails(m) ==
  /\ failures[m] < MaxFailures
  /\ failures' = [failures EXCEPT ![m] = @ + 1]
  /\ UNCHANGED activated

ActivateSucceeds(m) ==
  /\ activated' = [activated EXCEPT ![m] = TRUE]
  /\ UNCHANGED failures

(* lcec_activate, the initf funct, for one master: a master it could not   *)
(* activate is left to lcec_write_master.                                  *)
Activate ==
  /\ fn = "activate"
  /\ \/ activated[cur] /\ UNCHANGED lifeVars
     \/ /\ ~activated[cur]
        /\ \/ ActivateSucceeds(cur)
              /\ initfActivated' = [initfActivated EXCEPT ![cur] = TRUE]
           \/ ActivateFails(cur) /\ UNCHANGED initfActivated
  /\ Advance("activate", "readAll")
  /\ UNCHANGED <<stateVars, unitVars, globalVars, bus, moved>>

---------------------------------------------------------------------------
(* lcec_read_all up to its loop.                                           *)
ReadAll ==
  /\ fn = "readAll"
  /\ globalMs' = {}
  /\ fn' = "read"
  /\ UNCHANGED <<cur, globalPins, lifeVars, stateVars, unitVars, bus, moved>>

(* check_states and what becomes of state_update_timer.                    *)
CheckStatesLate(m) == ~started[m] \/ timer[m] < 0      \* slip: >= for >
CheckStates(m) == ~started[m] \/ timer[m] <= 0

NextTimer(m) ==
  IF ~started[m] THEN 0
  ELSE IF timer[m] > 0 THEN timer[m] - Period ELSE StateUpdatePeriod

(* ecrt_master_state: the union of the states of the responding slaves.    *)
BusStates(m) == {bus[s] : s \in SlavesOf(m)} \ {"OFF"}

(* lcec_master_all_op on a sample of al_states, also the all-op pin.       *)
AllOpOther(al) == al = {"PREOP"}  \* slip: the wrong state
AllOp(al) == al = {"OP"}

(* The period check: a configured period stays, a missing one is adopted.  *)
CheckPeriod(m) ==
  appPeriod' = [appPeriod EXCEPT ![m] = IF @ = 0 THEN Period ELSE @]

(* The units a read processes: those marked by the write before.           *)
ProcessedAgain(m) == {u \in UnitsOf(m) : process[u]}  \* slip: the wrong flag
Processed(m) == {u \in UnitsOf(m) : queued[u]}

(* Receive, process the marked units and clear the mark.                   *)
ReceiveUnits(m) ==
  /\ process' = [u \in Units |-> IF u \in UnitsOf(m) THEN u \in Processed(m) ELSE process[u]]
  /\ queued' = [u \in Units |-> queued[u] /\ u \notin Processed(m)]
  /\ inFlight' = [u \in Units |-> inFlight[u] /\ u \notin Processed(m)]
  /\ UNCHANGED <<counter, write, gap>>

(* The slaves whose state is asked for, under the same flag as ms.         *)
SampledStarted(m) == {s \in SlavesOf(m) : CheckStates(m) /\ started[m]}  \* slip: only after the start
Sampled(m) == {s \in SlavesOf(m) : CheckStates(m)}

AccumulatedLast(al) == al  \* slip: = for |=
Accumulated(al) == globalMs \cup al

(* The state of the master, which is started by the first sample in which  *)
(* every responding slave is in OP.                                        *)
RefreshMaster(m) ==
  LET al == IF CheckStates(m) THEN BusStates(m) ELSE ms[m]
  IN /\ timer' = [timer EXCEPT ![m] = NextTimer(m)]
     /\ ms' = [ms EXCEPT ![m] = al]
     /\ started' = [started EXCEPT ![m] = @ \/ AllOp(al)]
     /\ age' = [age EXCEPT ![m] = IF CheckStates(m) THEN 0 ELSE @ + Period]
     /\ globalMs' = Accumulated(al)

(* The early return of lcec_read_master.                                   *)
NotReadyNever(m) == FALSE  \* slip: no early return
NotReady(m) == ~activated[m]

(* The thread goes on when there is no slave left to ask.                  *)
LoopSlaves ==
  IF todo' # {} THEN fn' = "slaves" /\ cur' = cur ELSE Advance("read", "publish")

(* lcec_read_master up to its loop over the slaves: a master that is not   *)
(* active yet is skipped.                                                  *)
ReadMaster ==
  /\ fn = "read"
  /\ \/ NotReady(cur) /\ UNCHANGED <<stateVars, unitVars, globalMs, moved>>
     \/ /\ ~NotReady(cur)
        /\ CheckPeriod(cur) /\ ReceiveUnits(cur) /\ RefreshMaster(cur)
        /\ todo' = Sampled(cur) /\ moved' = moved \ Sampled(cur)
        /\ UNCHANGED slaveState
  /\ LoopSlaves
  /\ UNCHANGED <<globalPins, lifeVars, bus>>

(* One turn of that loop, which takes the mutex anew: the next slave of    *)
(* the list is asked for the state that it has by now.                     *)
ReadSlave ==
  /\ fn = "slaves"
  /\ \E s \in todo :
       /\ \A t \in todo : s <= t
       /\ slaveState' = [slaveState EXCEPT ![s] = bus[s]]
       /\ todo' = todo \ {s}
  /\ LoopSlaves
  /\ UNCHANGED <<appPeriod, started, timer, ms, age, globalVars, lifeVars, unitVars, bus, moved>>

(* lcec_read_all after its loop.                                           *)
Publish ==
  /\ fn = "publish"
  /\ globalPins' = globalMs
  /\ fn' = "write"
  /\ UNCHANGED <<cur, globalMs, lifeVars, stateVars, unitVars, bus, moved>>

---------------------------------------------------------------------------
(* Slips in the schedule: reload off by one, reload during start-up, no    *)
(* reload.                                                                 *)
NextCounterLong(u) ==
  IF ~started[MasterOf[u]] THEN 0
  ELSE IF counter[u] = 0 THEN Divider[u] ELSE counter[u] - 1

NextCounterPreloaded(u) ==
  IF ~started[MasterOf[u]] THEN Divider[u] - 1
  ELSE IF counter[u] = 0 THEN Divider[u] - 1 ELSE counter[u] - 1

NextCounterUnderflow(u) ==
  IF ~started[MasterOf[u]] THEN 0 ELSE counter[u] - 1

(* The schedule of lcec_write_master: every unit in every cycle until the  *)
(* master has started, afterwards a unit whose counter has run out.        *)
Due(u) == ~started[MasterOf[u]] \/ counter[u] = 0

NextCounter(u) ==
  IF ~started[MasterOf[u]] THEN 0
  ELSE IF counter[u] = 0 THEN Divider[u] - 1 ELSE counter[u] - 1

(* The mark is set for the units whose domain is queued.                   *)
MarkedAll(u) == TRUE  \* slip: outside the condition
Marked(u) == Due(u)

(* Select the units, queue their domains, send.                            *)
ExchangeUnits(m) ==
  /\ write' = [u \in Units |-> IF u \in UnitsOf(m) THEN Due(u) ELSE write[u]]
  /\ counter' = [u \in Units |-> IF u \in UnitsOf(m) THEN NextCounter(u) ELSE counter[u]]
  /\ queued' = [u \in Units |-> queued[u] \/ (u \in UnitsOf(m) /\ Marked(u))]
  /\ inFlight' = [u \in Units |-> inFlight[u] \/ (u \in UnitsOf(m) /\ Due(u))]
  /\ gap' = [u \in Units |-> IF u \notin UnitsOf(m) THEN gap[u]
                             ELSE IF Due(u) THEN 0 ELSE gap[u] + 1]
  /\ UNCHANGED process

(* lcec_write_master: it activates a master that is not, and gives up for  *)
(* this cycle when that fails.                                             *)
WriteMaster ==
  /\ fn = "write"
  /\ \/ /\ ~activated[cur] /\ ActivateFails(cur)
        /\ UNCHANGED unitVars
     \/ /\ ~activated[cur] /\ ActivateSucceeds(cur)
        /\ ExchangeUnits(cur)
     \/ /\ activated[cur] /\ ExchangeUnits(cur)
        /\ UNCHANGED <<activated, failures>>
  /\ Advance("write", "readAll")
  /\ UNCHANGED <<initfActivated, stateVars, globalVars, bus, moved>>

Thread == Activate \/ ReadAll \/ ReadMaster \/ ReadSlave \/ Publish \/ WriteMaster

---------------------------------------------------------------------------
(* The bus, external: a slave reaches OP while its process data is being   *)
(* exchanged, may fall out of OP and may disappear and come back.          *)

Becomes(s, state) ==
  /\ bus' = [bus EXCEPT ![s] = state]
  /\ moved' = IF s \in todo THEN moved \cup {s} ELSE moved
  /\ UNCHANGED <<threadVars, lifeVars, stateVars, unitVars, globalVars>>

Promote(s) == bus[s] = "PREOP" /\ inFlight[UnitOf[s]] /\ Becomes(s, "OP")
Demote(s) == bus[s] = "OP" /\ Becomes(s, "PREOP")
Disappear(s) == bus[s] # "OFF" /\ Becomes(s, "OFF")
Return(s) == bus[s] = "OFF" /\ Becomes(s, "PREOP")

Bus == \E s \in Slaves : Promote(s) \/ Demote(s) \/ Disappear(s) \/ Return(s)

Next == Thread \/ Bus

(* The HAL thread is periodic, so it always makes its next call; a slave   *)
(* that keeps being exchanged in PREOP eventually follows the requested OP. *)
Fairness == WF_vars(Thread) /\ \A s \in Slaves : SF_vars(Promote(s))

Spec == Init /\ [][Next]_vars
FairSpec == Spec /\ Fairness

---------------------------------------------------------------------------
(* Properties.                                                             *)

(* The body of lcec_write_master, and of lcec_read_master behind its guard, *)
(* runs in this step for master m.                                         *)
WriteRuns(m) == fn = "write" /\ cur = m /\ activated'[m] /\ threadVars' # threadVars
ReadRuns(m) == fn = "read" /\ cur = m /\ activated[m] /\ threadVars' # threadVars

(* The domain of u is queued in this step.                                 *)
Exchanges(u) == WriteRuns(MasterOf[u]) /\ write'[u]

(* The mark that makes lcec_read_master process a domain and call the      *)
(* drivers is set exactly for the units whose datagram is on the wire, so  *)
(* no answer is left behind and no driver reads an image twice.  The one   *)
(* exception is the mark of a new unit, until its first exchange.          *)
QueueDiscipline ==
  \A u \in Units :
    /\ inFlight[u] => queued[u]
    /\ queued[u] /\ ~inFlight[u] => ~write[u] /\ ~started[MasterOf[u]]

(* lcec_write_master never queues a domain whose previous datagram has not *)
(* been processed: every exchange is read before the next one overwrites   *)
(* its image.                                                              *)
NoOverwrite ==
  [][\A u \in Units : Exchanges(u) => ~inFlight[u]]_vars

(* proc_read and proc_write of a slave run only when lcec_activate_master  *)
(* has set the process data pointers; before that they are NULL and the    *)
(* first access ends the realtime process.                                 *)
NullImageUntouched ==
  [][/\ \A u \in Units : process'[u] # process[u] => activated[MasterOf[u]]
     /\ \A u \in Units : write'[u] # write[u] => activated'[MasterOf[u]]]_vars

(* Every unit is exchanged at least once in Divider[u] write cycles of its *)
(* master, through activation, start-up and steady operation alike.        *)
NeverLate == \A u \in Units : gap[u] < Divider[u]

(* The first cycle after the start exchanges every unit; from then on      *)
(* counter and gap are two views of one schedule.                          *)
JustStarted(m) == \A u \in UnitsOf(m) : counter[u] = 0 /\ gap[u] = 0
InCadence(m) == \A u \in UnitsOf(m) : counter[u] + gap[u] = Divider[u] - 1

Cadence ==
  \A m \in Masters :
    /\ ~started[m] => JustStarted(m)
    /\ started[m] => JustStarted(m) \/ InCadence(m)

(* A unit in cadence is exchanged exactly when its cycle has elapsed,      *)
(* never early.                                                            *)
NeverEarly ==
  [][\A u \in Units :
       /\ Exchanges(u) /\ InCadence(MasterOf[u]) /\ started[MasterOf[u]]
       => gap[u] = Divider[u] - 1]_vars

(* Units of one master stay phase aligned: a unit whose cycle is a         *)
(* multiple of another unit's cycle is only exchanged together with it.    *)
HarmonicAlignment ==
  \A u, v \in Units :
    /\ MasterOf[u] = MasterOf[v] /\ started[MasterOf[u]]
    /\ Divider[v] % Divider[u] = 0
    /\ counter[v] = 0
    => counter[u] = 0

(* The state pins lag the bus by less than the update period and one       *)
(* thread period: the timer is reloaded and run down so that no sample is  *)
(* skipped.                                                                *)
StatesAreFresh ==
  \A m \in Masters : age[m] < StateUpdatePeriod + Period

(* The pins of a master and those of its slaves tell one story although    *)
(* they are read one after another while the bus changes                   *)
(* (lcec_main.c 1340-1349, 1410-1421): a slave that responds shows a state *)
(* which its master shows too, and each state of the master is shown by a  *)
(* slave, unless it belongs to a slave that has not been asked yet or has  *)
(* changed before it was.  So all-op, which master-pins.md 14 calls "Every *)
(* slave is in OP", passes over a slave that does not respond, and one     *)
(* that has left OP by its own turn shows so beside it.                    *)
PinsAgree ==
  \A m \in Masters :
    LET asked == SlavesOf(m) \ (todo \cup moved)
    IN /\ \A s \in asked : slaveState[s] \in ms[m] \cup {"OFF"}
       /\ \A al \in ms[m] : \E s \in SlavesOf(m) : s \in asked => slaveState[s] = al

(* lcec.all-op, the OR over all masters, is TRUE only if no master shows a *)
(* state other than OP, once each master has been read in the cycle.       *)
GlobalAllOpSound ==
  fn = "publish" /\ AllOp(globalMs) =>
    \A m \in Masters : activated[m] => ms[m] \in {{}, {"OP"}}

(* Liveness: every unit is exchanged and processed again and again, so its *)
(* master was activated, if not by initf then by a later write cycle.      *)
EveryUnitIsServed == \A u \in Units : []<>(inFlight[u]) /\ []<>(~inFlight[u])

(* Liveness: when slaves stop dropping out and each master has one that    *)
(* responds, every master with slaves is started.  Units with a divider do *)
(* not delay it, since they are all cycled until then.                     *)
BusIsQuiet ==
  /\ <>[][\A s \in Slaves : /\ bus[s] = "OP" => bus'[s] = "OP"
                            /\ bus[s] # "OFF" => bus'[s] # "OFF"]_bus
  /\ <>[](\A m \in Masters : SlavesOf(m) # {} => \E s \in SlavesOf(m) : bus[s] # "OFF")

EventuallyStarted ==
  BusIsQuiet => \A m \in Masters : SlavesOf(m) # {} => <>started[m]

(* Each master implements the schedule: its counters stand for the number  *)
(* of the cycle, the one number that agrees with all of them.              *)
Read(m) == \/ fn = "publish" \/ (fn = "read" /\ cur > m) \/ (fn = "slaves" /\ cur >= m)
           \/ (fn = "write" /\ cur <= m)

Tick(m) ==
  IF started[m]
    THEN CHOOSE t \in 0 .. Hyperperiod[m] - 1 :
           \A u \in UnitsOf(m) : (t + counter[u]) % Divider[u] = 0
    ELSE 0

(* The mapping for the first master, which is like any other.              *)
Schedule ==
  INSTANCE SyncUnitSchedule WITH
    Units <- UnitsOf(1),
    Divider <- [u \in UnitsOf(1) |-> Divider[u]],
    Hyperperiod <- Hyperperiod[1],
    turn <- IF Read(1) THEN "exchange" ELSE "collect",
    active <- activated[1],
    running <- started[1],
    tick <- Tick(1),
    pending <- {u \in UnitsOf(1) : inFlight[u]}

ImplementsSchedule == Schedule!Spec
=============================================================================
