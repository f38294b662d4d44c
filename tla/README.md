# linuxcnc-ethercat in TLA+

A verification project for the LinuxCNC EtherCAT HAL driver.  All paths are
relative to `src/src/` of the repository unless they say otherwise; line
numbers without a file are lines of `lcec_main.c`.

- [Inventory](#inventory) - the parts of the system
- [Modules](#modules) - what each module models and how it corresponds to the code
- [Runs](#runs) - what TLC checks, with which bounds, under which fairness
- [Proofs](#proofs) - what TLAPS proves and how
- [Observations](#observations) - where documentation and code differ, and what is odd
- [Not modelled](#not-modelled), [Plan](#plan)

## Inventory

The driver is two programs.  `lcec_conf` (user space) reads an XML file and
writes a chain of records to a shared memory segment.  The `lcec` module reads
the chain, builds the masters, Sync Units and slaves, calls the constructor of
each slave's device type, and exports two HAL functs, `lcec.read-all` and
`lcec.write-all`, that the realtime thread of LinuxCNC calls once per period.
The EtherCAT master of IgH is an external library; the bus behind it is the
environment.

| Component | State | Operations | Hard behaviour | What makes it correct |
|---|---|---|---|---|
| Master lifecycle and cyclic I/O (`lcec_main.c`) | `activated`, `initf_activated`, `sync_units_started`, state timer, sampled states; per Sync Unit `cycle_counter`, `queued`, `process`, `write` | `lcec_activate`, `lcec_activate_master`, `lcec_read_all`, `lcec_read_master`, `lcec_write_all`, `lcec_write_master` | several masters in one thread, an activation that fails and is retried, a read that precedes the first activation, slaves that fall out and come back between two calls | no driver sees a NULL image; every exchange is processed once; every unit keeps its cycle; the pins tell one recent story |
| Bus health pins (`lcec_main.c`) | working counter statistics, `wkc_full_seen`, DC monitor and its miss count | part of `lcec_read_master` | a reset in the middle of a disturbance, lost monitor datagrams, a monitor switched off and on | dropouts are recorded, bring-up and resets leave no trace, converged is withdrawn in time |
| Clock discipline (`lcec_main.c`) | `dc_ref`, `app_phase`, calibration, lock and dwell counters, the previous validity of DC time | second half of `lcec_write_master` | dead time of one cycle, wrap of phase and of unsigned time, two controllers on one offset | the thread goes the short way, `dc-phased` does not strobe, a resync removes its offset once, control settles |
| Start-up and shutdown (`lcec_main.c`) | the object tree, requested masters, domains, registration lists, functs | `rtapi_app_main`, `lcec_clear_config`, `rtapi_app_exit` | a failure of any call half way, with several masters partly built | everything built is released once; a module that is ready has registered every entry in its slave's own unit |
| Configuration consumer (`lcec_main.c`) | position in the shared memory image, arrays of each slave filled so far | `lcec_parse_config` | agreement with the producer on order, counts and lengths of records | no record is misread, nothing is written past its array, the tree is the document |
| Configuration producer (`lcec_conf*.c`) | XML state, current master, slave, sync manager, PDO, entry; output buffer | element handlers, output buffer | counts kept in three places, elements left out, a parser inside a parser | the chain is what the consumer expects |
| Init command files (`lcec_conf_icmds.c`) | parser state, current command | start, end and data handlers | text handed over in pieces, commands that lack a field | the lengths in the slave's record cover the commands and their data |
| Syncs builder (`lcec_ethercat.c`) | counters into fixed tables | `lcec_syncs_add_*` | limits of the tables | no table overflows, links between tables are right |
| PDO registration, SDO access, FSoE copy (`lcec_ethercat.c`) | registration list; FSoE areas | `lcec_pdo_init`, `ecrt` calls, `copy_fsoe_data` | order of copies, results nobody looks at | an entry is in one domain, a frame arrives unchanged |
| Encoder terminals (`devices/`) | count, last counter, latch, index and preset handshakes | `read`, `write` | wraps of 16, 32 and 64 bit counters, outages, handshakes over several cycles | the count is the travel; a request is taken back when met |
| Encoder class (`devices/lcec_class_enc.c`) | extended count, reference, side of the index mark | `class_enc_update` | wrap, outage, an index that is passed either way | the position is the travel since the mark |
| Motor terminals, output classes (`devices/`) | old scale, fault retry | `read`, `write` | limits, signs and scales together; a reset tried while a fault is hidden | what is written is what the pins say |
| Servo drive profiles (`devices/lcec_deasda.c`, `lcec_omrg5.c`, `lcec_el7211.c`, AX5000) | retry counters, fault timers, edges | `read`, `write` | a fault while enabled, a reset that fails, a hidden fault | a drive is led to operation, a fault is shown in time, a reset is asked for |
| Terminals with SDO requests (EL7332, FC302, EL5021) | slot, timer, running requests | `read` | an answer cycles later, a slot list that changes meanwhile | one request at a time, no answer is lost |
| Settings of terminals (`proc_init` of six drivers) | - (the terminal keeps them) | SDO writes at start | a value of a former run, a value that is too wide | a terminal runs with this configuration |
| Communication terminals (EL6002) | toggles of both directions | `read`, `write` | a message in each direction at once, outages | every message once and in order |
| Safety terminals, FSoE (`devices/lcec_el19*.c`, `el69*.c`, ...) | connections | `proc_preinit`, `proc_init`, `read` | order of the slaves, several connections | a frame of the last exchange arrives |
| CiA 402, digital and analog classes, generic device and other terminals | none across cycles, mostly | copies between image and pins | - | - |
| Module parameters, lookups, device registry, HAL pins and memory | none | table lookups, formatting, allocation | - | first match wins |
| Configuration generator, scripts, tests | - | offline | - | - |

Interactions: `lcec_conf` hands its image to `lcec` through shared memory and is
done with it before `lcec` is loaded.  `lcec_read_all` and `lcec_write_all` call
each master in the order of the list, a master calls `proc_read` and `proc_write`
of the slaves of the units it has marked; the two halves of a cycle talk through
the flags of the units and through `dc_ref`, `app_time`; a driver's two callbacks
talk through its `hal_data` and its pins.  Safety drivers write to each other's
images.  The IgH library is entered under its own lock, which is released between
the calls, so the bus changes between any two of them.  The user changes HAL pins
and parameters between the two halves of a cycle.

`PROJECT.json` lists the components with their sources, and under `hazards`
the lines where they are hard to test.

## Modules

| Module | What it is |
|---|---|
| `SyncUnitSchedule` | abstract: what one master promises about its Sync Units, with a cycle number instead of counters and flags |
| `LcecMaster` | activation, read-all, write-all, the Sync Unit schedule, state refresh and state pins, for any number of masters; composed with the bus as environment |
| `LcecMasterProofs` | theorems about `LcecMaster` |
| `LcecBusStats` | working counter statistics and DC synchrony monitor of one master |
| `LcecBusStatsProofs` | theorems about `LcecBusStats` |
| `SetSums` | lemmas on sums and folds over finite sets, used by the proofs of `LcecBusStats`, `LcecStartup` and `LcecSlaves` |
| `LcecPhase` | clock discipline in R2M mode (`refClockSyncCycles` >= 0): calibration, controller, dwell filter, push of the reference clock |
| `LcecPhaseProofs` | theorems about `LcecPhase` |
| `LcecPll` | clock discipline in M2R mode: folded error, drift compensation, resync |
| `LcecPllProofs` | theorems about `LcecPll` |
| `LcecInitCmds` | output buffer of `lcec_conf` and the parser of init command files |
| `LcecConf` | the configuration producer; extends `LcecInitCmds` |
| `LcecParseConfig` | the configuration consumer, over the image of `LcecConf` |
| `LcecStartup` | `rtapi_app_main`, release and unload; extends `LcecParseConfig`, and is the composition of the four |
| `LcecStartupProofs` | theorems about `LcecStartup` |
| `LcecSyncs` | builder of the sync manager configuration of a slave |
| `LcecSyncsProofs` | theorems about `LcecSyncs` |
| `LcecSlave` | the variables every driver module works on, and the turn of a cycle |
| `LcecCounters` | the counter interface of ten drivers |
| `LcecEncoders` | the encoder class in the five drivers that use it |
| `LcecDutyCycle` | output stages of five drivers |
| `LcecServo` | control and status word of three servo drives |
| `LcecSdoPolling` | SDO requests of three drivers at run time |
| `LcecTerminalSettings` | SDO writes of six drivers at start |
| `LcecSerial` | one channel of EL6002 |
| `LcecFsoe` | safety logics and their slaves |
| `LcecSlaves` | composition of the driver modules, one device at a time over the variables of `LcecSlave`; states what all drivers of a kind promise |
| `LcecSlavesProofs` | theorems about `LcecSlaves` |
| `MC*` | values of the constants of the above for TLC; `MCLcecSlavesLive` composes the drivers that wait for an answer, with fairness |

### LcecMaster

One HAL thread makes one call after the other: `fn` names the funct (`activate`,
`readAll` for the reset of the global state, `read` for the loop over the masters,
`publish` for the end of `lcec_read_all`, `write`), `cur` the master.  A step is
one call for one master, or (`slaves`) the call for the state of one slave.  That grain
is what the code shows to the outside: nothing else writes the driver's state, and the
bus (actions `Promote`, `Demote`, `Disappear`, `Return`) may move between any two steps:
between the read and the write of a cycle, between the calls for two masters, and
between `ecrt_master_state` (1341), behind which the mutex is given back, and each
`ecrt_slave_config_state` (1413-1417).

| TLA+ | Code |
|---|---|
| `Activate`, `ActivateSucceeds`, `ActivateFails` | `lcec_activate` (1173), `lcec_activate_master` (1193); every error path of the latter leaves the master not activated and may be taken again |
| `ReadAll`, `Publish` | `lcec_read_all` before and after its loop (1142) |
| `ReadMaster` | `lcec_read_master` (1264): early return `NotReady`, `CheckPeriod` (1282), `ReceiveUnits` (1314-1346), `RefreshMaster` (1297-1307, 1340-1349, 1405-1408) |
| `ReadSlave`, `LoopSlaves` | the loop over the slaves (1411-1428), one turn each, in the order of the list; in a cycle without a sample no slave is asked, and the step is left out |
| `WriteMaster` | `lcec_write_master` (1432): activation when initf did not (1454-1463), `ExchangeUnits` (1465-1502) |
| `counter`, `queued`, `process`, `write` | the fields of `lcec_sync_unit_t`; `lcec_master_get_sync_unit` (140) creates a unit with `queued` set |
| `ms`, `slaveState` | `master->ms.al_states`, `slave->state.al_state`; PREOP stands for every state but OP |
| `inFlight` | external: the domain was queued and its answer not yet processed |
| `todo` | the slaves that the loop still asks for their state; slaves are numbered as in the list |
| `gap`, `age`, `moved` | history variables, read by properties only; `moved` are slaves that changed between the call for the master and their own |

Abstracted: the contents of process images and the drivers' callbacks (a unit that
is processed or written is in `process` or `write`); the clock half of
`lcec_write_master`, which shares no state with this half and is modelled in
`LcecPhase` and `LcecPll`; the bus health pins, in `LcecBusStats`; log output.
`BootModes` are the three ways a configuration reaches the cyclic functs: no initf
(masters activated by `rtapi_app_main`), `initf lcec.activate`, and initf
available but not used.

### LcecBusStats

A step `Read` is the middle of one `lcec_read_master`: every domain reports some
working counter up to the expected one (a domain that was not exchanged in this
cycle keeps its report, which is one of the choices), and the monitor reports a
difference or nothing.  `RequestReset`, `SwitchMonitor` and `SetThreshold` are the
user.  `degraded`, `silent` and `paused` are history.

### LcecPhase

A step is one write cycle.  The program's half is the R2M path of
`lcec_write_master`: push of the reference clock (1544-1552), calibration (1590-1646),
controller and lock (1647-1684), dwell filter (1690-1704), the shortcut for a master
that initf activated (1706-1713).  The plant is the thread: its wake-up `position` in
the period moves by the correction, its latency is any number up to `Latency`.

### LcecPll

A step is one write cycle in M2R mode (1716-1838).  The plant is the offset between
the two clocks, which moves by the correction given the cycle before, by a
resync of `dc_ref`, by a constant drift `rate` (the `pll-drift` pin, which only adds a
constant to each correction, is part of it) and by noise.  A DC time read returns
the time of the frame sent the cycle before, so the program sees the offset one
cycle late.  `AppPhase` computes `(app_time - dc_ref_time) % app_time_period` as the
code does, on 64 bit unsigned numbers: `WrapResidue` is 2^64 modulo the period.

### LcecInitCmds, LcecConf, LcecParseConfig, LcecStartup

These four are one state machine in four files, from the XML file to the cyclic
functs and back to the unloaded module.

The image is a sequence `chain` of records; each knows its offset `off`, and its
extent is that of the C structure (`SizeOf`) or its number of data bytes.  A record
is appended when its element starts; the records of the elements around it are then
brought up to date through pointers, which `cur` holds as indexes.  The consumer
knows none of that: it goes from offset to offset, takes the record that starts
there (`StartsAt`) and moves on by what the record says of its own length.
Whatever the two disagree on shows as `load = "Misread"`, as an array that is filled past
the count it was allocated with, or as a tree that differs from the document.

| TLA+ | Code |
|---|---|
| `chain`, `length`, `Emit`, `AppendTo`, `Complete` | `addOutputBuffer` and the pointers it returns (`lcec_conf_util.c`) |
| `From`, `Starts`, `parse*Attrs`, `EndElement` | the state tables and start handlers (`lcec_conf.c`); `Stop` is every `XML_StopParser` |
| `IcmdFrom`, `Open`, `Deliver`, `Close` | the tables and handlers of `lcec_conf_icmds.c` |
| `todo` | characters of a text that expat has not handed over: `Deliver(n)` is one call of the data handler with the next `n` |
| `Read*`, `Lost`, `Preinit` | the cases of the `switch` in `lcec_parse_config`, its `default`, and the two preinit loops (998-1018) |
| `WithUnit`, `UnitFits` | `lcec_master_get_sync_unit` (140) and the checks of its caller |
| `boot`, `at` | the place in `rtapi_app_main`: `boot` the loop, `at` the master and its slave or unit |
| `held`, `released`, `domains` | external: what the EtherCAT master has given out |
| `regs`, `lists` | `slave->regs` filled by `lcec_pdo_init`; the entries appended for a domain (370-395) |
| `Fail2`, `ClearMaster`, `HalExit`, `AppExit` | `fail2`, `lcec_clear_config` (460), `hal_exit`, `rtapi_app_exit` (1034) |

Every call that can fail is a disjunction of its success and its way out; the message of a
failed `lcec_init_master_hal` dereferences a null pointer, which is the state `crashed`.
When the tree is complete the image is unmapped, and of the tree only the owners are
kept.  Attribute values are reduced to those a handler tells apart.

### LcecSyncs

A driver builds the configuration of its slave with one call after the other:
`AddSync`, `AddPdo` and `AddEntry` are `lcec_syncs_add_sync`, `_add_pdo_info` and
`_add_pdo_entry` (`lcec_ethercat.c` 80-173).  Slots are numbered from 1 and a pointer is
the number of a slot, 0 for NULL; `curr_sync` is always the last sync manager in the
table, so `syncCount` stands for it.  `OpenPdo` is the body of `_add_pdo_info`, which
autoflow enters from `_add_pdo_entry` too.  `opened` holds a driver to the order every
driver keeps: a sync manager, a PDO in it, entries in that.  `asked` is what the
driver wanted.  Index numbers, directions and widths only travel with their slots
and are left out.

### LcecSlave and the driver modules

A cycle of a slave is four turns: `Bus` exchanges the image (and decides whether the slave is
operational, `up`), `Read` is `proc_read`, `User` is whoever writes the pins between
the two, `Write` is `proc_write`.  `hal` are the pins, `drv` the private fields of
`hal_data`, `in` and `out` the two halves of the image, `env` the terminal with what
hangs on it, and history.  Since `LcecMaster` shows that a read and a write of a slave alternate
and that no callback runs on an image that is not there, one slave is enough here.
Each driver's callback is an action of its own, named after the function; drivers
whose code is the same but for names of pins share the operator that it stands for.

- `LcecCounters`: the user raises and lowers the pins whatever the terminal answers, with one
  latch at a time (they share the latched value) and no preset beside a latch (nothing in the
  sources says whether a latched value follows the preset).  The terminal's counter is `env.pos + env.base` in its own width.  `Follow` is
  the end that all read callbacks share; `FollowLatched`, `FollowIndexed` and `FollowAbsolute`
  are the three kinds of reference.  The terminal latches at edges while it is armed, and sets
  its counter some cycles after it is asked.  `env.zero` is where the count should be
  zero, `env.met` which requests the terminal has met, `env.stale` those for which an older answer stood
  when they were raised and has stood since.
- `LcecEncoders`: `class_enc_update` with its extension (`Extend`), the unsigned
  remainder (`SignedMod`) and the side of the mark (`Side`).  An axis may go on while its slave does
  not answer, by less than half of what its encoder counts: `Extend` takes every difference
  for the short way round, so more would be lost, and nothing in the code claims otherwise.
- `LcecDutyCycle`: `lcec_aout_write` and its relatives: scale, offset,
  sign, limits, enable, and the fault retry of EL7041.
- `LcecServo`: `auto-fault-reset` of OMRG5 is the user's.  The drive goes where the control word leads (`Leads`), at once or later, and
  may fall into a fault at any time.
- `LcecSdoPolling`: the mailbox answers any busy request at any time.  `astray` are the requests
  in flight when the list of slots changes.
- `LcecTerminalSettings`: a start with any module parameters over objects left by a former
  run or by another tool; FC302 is written to again on its way back to SAFEOP.
- `LcecSerial`: the terminal takes and shows messages on its toggles; it may restart,
  after which nothing is promised.
- `LcecFsoe`: configurations in two orders with six sets of connections; frames are numbers.

### SyncUnitSchedule

Until a master is running every unit is exchanged in every cycle; from then on
a unit is exchanged in the cycles whose number is a multiple of its divider;
whatever was sent is collected by the next read.  `LcecMaster` implements it with
the mapping `Schedule`: `turn` from the position of the thread, `pending` from
`inFlight`, and `tick` as the one cycle number on which all counters agree.

## Runs

Passing runs (invariants and properties as in the `.cfg` of the same name):

| Run | Instance | What it shows |
|---|---|---|
| `LcecMasterSafety` | two masters, dividers 1, 2, 4 on the first and 3 on the second, two slaves, all boot modes, one failing activation per master, a configured period of 0 and one that differs | schedule, alignment, queue discipline, no driver before the activation; recent state pins, global ones that cover both masters |
| `LcecMasterLive` | first master with two slaves, in units with dividers 2 and 3, second without slaves | the pins of a master and its slaves differ only by what changed between the calls; refinement of `SyncUnitSchedule`; every unit is served; start-up ends |
| `LcecBusStats` | two domains with working counters 3 and 1 | dropouts are recorded, a healthy bus is quiet, converged is never stale |
| `LcecPhase` | period 400, latency up to 2, start on both sides of the wrap, at the target and half a period away | target, dwell filter, no strobe; the lock is finally held |
| `LcecPll` | period 60, step 2, `pll-max-error` below half a period and above it, offsets up to 100 | folding, resync, settling |
| `LcecSyncs` | two sync managers, four PDO slots, five entry slots; no autoflow, and autoflow with one or two entries per PDO and a device that holds fewer or more PDOs than the table | no write outside a table; with `error` clear every entry is found once, where it belongs; the limits of the device, with one PDO more |
| `LcecLoad` | documents of up to six records, with up to two masters, two slaves of a generic and a plain type in two units (one clashing with the other in its cycle), and init command files | the image is understood, the tree is the document, start-up and unload release everything once, a module that is ready has registered everything, loading ends |
| `LcecSlaves` | each of the modelled drivers over the variables of `LcecSlave` | counts and positions, outputs, faults, requests, settings, messages, frames |
| `LcecSlavesLive` | EL7332, FC302, EL5021 and EL6002, with shorter lists of slots | polling comes to no halt at one object; each message arrives and frees its channel |

Bounds and why they are enough.

- *Dividers* 1, 2, 4 and 3: a unit of every cycle, harmonic units, a unit that is
  not; 2 and 3 in the small instance have no common divisor, so every phase
  between two counters occurs.
- *Period 2, StateUpdatePeriod 3* (5 in `LcecMasterLive`): the timer goes 3, 1, -1, so it
  passes through a value below 0 as the real one does when the period does not
  divide a second.
- *Two slaves* of one master in `LcecMasterLive`: between the call for the master and that for its last
  slave another slave's turn lies, and each of them may change in between.
- *MaxFailures 1*: one failed attempt per master reaches every order of failure and
  success across masters; another failure returns to the same state but for
  its count.
- *MissMax 3* (8 in the code) and *MaxChanges 3*: the miss counter passes
  below, at and at its limit again; the change count is only compared with 0 and
  with its previous value.
- *Period 400* for R2M: the lock window is 4, the unlock window 20, the largest
  target 50; a step of 3 is below the lock window, as 1000 ns are in the code,
  and more than the latency.  *MeasureCycles 4* and *Dwell 3* (several hundred each in
  the code) leave room for wraps and spikes in each phase.
- *Period 60* for M2R with thresholds 28 and 60: the smaller of the threshold and half a
  period is one or the other.  *MaxOffset 100*, *Far 60*, *Quiet 1*: an offset is removed
  from more than a whole period away on either side, `dc_ref` is kept modulo the period
  beyond one period, and a resync counts as past after one quiet cycle.  `WrapResidue` 16 is
  what the wrap is off by; `LcecPllUnderflow` takes offsets up to 180.
- *MaxAsked 6* in `LcecSyncs`: one PDO and one entry more than the tables hold.
- `LcecLoad`, *MaxItems 6* with the limits of `MCMost`: every type of record occurs within its
  parents, twice where an order among siblings matters (masters, slaves, sync managers or
  PDOs, raw data), so that a
  count taken for another or a slice that starts late is seen.  Texts have up to four
  characters, cut anywhere.  *RegCounts {1, 3}* with *MaxRegs 2*: a driver that fits its list and
  one that does not.
- `LcecSlaves`, counters: a 16 bit counter has 4 values, one of 32 or 64 bits 8; the axis goes
  by one in a cycle over four positions, and starts two below the wrap.  Two acts of the user allow
  a request and its withdrawal or another one over it.
- `LcecSlaves`, encoders: revolutions of 8 pulses in a range of 16 (6 pulses where the number is not a
  power of two, 1 where every position is a mark), an axis that goes less than half a range during an outage, starts next to a mark on either side and below zero, two
  values of `raw-home`, steps of up to 2, so that a mark is passed without being met.
- `LcecSlaves`, servo drives: retries and cycles 2/1, 1/2 and 1/0, a ramp of 2 for a speed of 5,
  four acts of the user.  Outputs: `Unit` 4, commands beyond it, scales 0, 2 and 3 (the pin starts
  at 1, the driver's private copy at 2), limits in and out of order.  Polling: an interval of 2.  Settings: values 0 to 2, of which 2 does not fit, in configurations of up to two entries
  (`Entries`): two for one object, or one for each in either order.
  Serial: three messages each way.  FSoE: two orders of the slaves and six sets of connections, among them
  one slave named twice and names that are no safety slaves.

Fairness.  The HAL thread is periodic: `WF_vars(Thread)`, and `WF_vars(Next)` in the
clock modules, where a step is a write cycle.  A slave that keeps being exchanged in
PREOP follows the requested state in the end: `SF_vars(Promote(s))`, strong because
the exchange is on the wire only for half of each cycle.  `EventuallyStarted` and
`PllSettles` state what the environment must do for them: slaves stop dropping out and
each master with slaves has one that responds; latency and drift become steady and the
DC time readable.  `LcecStartup` has `WF_vars(xml \in {"Shared", "Failed"} /\ Loading)`:
`rtapi_app_main` is sequential code and every call in it returns.  The XML parser has none, since
`LoadingEnds` begins with a shared image.  In `LcecSlavesLive` the thread is periodic again
(`WF_slaveVars`), and the terminal answers: the mailbox the request whose turn it is and one of
the others, EL6002 what is due, each with `SF_slaveVars` because it may fail in any one cycle and
the request is looked at on the bus only.  An answer may be an error.  `PollingGoesOn` and `MessagesGetThrough`
ask for a slave that is operational again and again, not for good; `PollingGoesOn` also for error bits
of EL7332 that become steady, since its list of slots begins anew with each change, and
`MessagesGetThrough` for a terminal that keeps its toggles.

Deadlock is checked in every run but those of `LcecSyncs`, whose caller makes a finite number
of calls, and `LcecLoad`, where a module that has failed, crashed or been unloaded stays so.

In `LcecSlavesLive` the lists are shorter (no optional information for EL7332), which leaves a list of three
slots and one of a single slot while an error is reported.

Every property of a passing run has a mutant in `PROJECT.json`: a definition with
a plausible slip in it (the operators marked "slip" beside the definition), under
which TLC finds the property violated.  No passing property mentions a slip.
`CountIsTravel`, `DriveAsTold`, `RequestsAreMet` and `RequestsAreAnswered` join what two modules
promise of the same thing; all but `DriveAsTold` have a mutant in each.

Violation runs, each a statement of a comment or document that the code does not keep:
`LcecPllUnderflow`, `LcecSdoInFlight`, `LcecPresetIsSet`; see the observations.  Where the drivers
do not keep what a comment or a document says, the passing properties say what they do
instead, each in its comment: `DriveAsTold` that a scale of 2 from before the first cycle counts as 1,
`RequestsAreMet` that an older answer that still stands, or the middle of a revolution, takes a pin back,
`SettingsAsConfigured` that EL5002 and EL7332 leave a default as it was, and that an object of EL7041 may hold the
setting of another, `LimitsHold` that a device is given one PDO more than its limit, `PinsAgree` that a slave
may differ from its master by what it did since the master was asked.

## Proofs

TLC checks small instances; the theorems below hold for every value of the
constants that satisfies the named assumptions.  Each property was model-checked first, and
so were the inductive invariants `ServoInv` and `DutyInv` of the drivers.

`LcecMasterProofs`, for every number of masters, units and slaves, all
dividers and all periods that satisfy the assumptions of `LcecMaster`:

| Theorem | Property | Inductive argument |
|---|---|---|
| `TypeCorrect` | `TypeOK` | itself; a counter is only decremented above 0 |
| `CadenceCorrect` | `Cadence` | itself: until the start all counters and gaps of a master are 0; then either still so, or counter and gap of each unit sum to the divider less one |
| `NeverLateCorrect`, `NeverEarlyCorrect` | `NeverLate`, `NeverEarly` | from `Cadence` |
| `StatesAreFreshCorrect` | `StatesAreFresh` | `FreshInv`: after the start, age and timer sum to the update period, with one period of slack when the timer has run out |
| `PinsAgreeCorrect` | `PinsAgree` | `PinsInv`: slaves are only waited for in the loop over the slaves of their master (`AskedInTheLoop`), and a slave that has not moved shows, or has on the bus while it waits, a state of the sample of its master (`OneStory`) |
| `QueueDisciplineCorrect` | `QueueDiscipline` | itself; a read clears the mark of every unit of a master before that master can start |
| `NoOverwriteCorrect` | `NoOverwrite` | `Alternation`: between the read and the write of a master nothing of it is on the wire, and nothing before its activation |
| `NullImageUntouchedCorrect` | `NullImageUntouched` | only a step behind the guard changes `process` or `write` |
| `GlobalAllOpSoundCorrect` | `GlobalAllOpSound` | `Covered`: the accumulator holds the states of every active master the loop has passed |
| `HarmonicAlignmentCorrect` | `HarmonicAlignment` | `Numbered`: of a master that has started, one number of the cycle agrees with all counters, that is, counter and number sum to a multiple of the divider; a counter has run out exactly when the number is a multiple of the divider |
| `ImplementsScheduleCorrect` | `ImplementsSchedule` (refinement of `SyncUnitSchedule`) | `RefinementInv`: `Numbered`, `Cadence`, `QueueDiscipline` and `Alternation`.  `NumberIsUnique`: below the least common multiple of the dividers only one number agrees, so the choice in the mapping is that number, and a write moves it on by one. One lemma per half of the cycle; the steps of other masters and of the bus stutter |

The other invariants are kept apart: they rest on the type invariant and, for
`Alternation`, on `QueueDiscipline`, and on nothing else.  Assumptions used: at least one
master, units and slaves mapped into the masters and units, dividers and
periods positive and, for the last two, the hyperperiod the least common multiple of the
dividers (`HyperperiodAssumption`).  The bound `MaxFailures` is any natural number.

`LcecBusStatsProofs`, for every finite set of Sync Units and any expected working counters above 0
(`UnitsAssumption`), any thresholds and limit (`MonitorAssumption`):

| Theorem | Property | Inductive argument |
|---|---|---|
| `TypeCorrect` | `TypeOK` | part of `Inv` |
| `HealthyBusIsQuietCorrect` | `HealthyBusIsQuiet` | `Inv`: the counter the next read compares with is the one on the pin, and the misses counted are the silent reads up to the limit; both properties are part of it |
| `DropoutsAreRecordedCorrect` | `DropoutsAreRecorded` | `Inv`, with `WorkingCounter`: the sum falls below the full one as soon as one unit does, whatever the others report |
| `NoStaleConvergedCorrect` | `NoStaleConverged` | `Inv` |

`LcecPhaseProofs`, for every period, latency, step, dwell and start position:

| Theorem | Property | Inductive argument |
|---|---|---|
| `TypeCorrect` | `TypeOK` | itself, one lemma per stage of the controller |
| `TargetInRangeCorrect` | `TargetInRange` | `Measured`: the least unwrapped sample is not above the greatest, so the width is a natural number and the limit holds |
| `FilterFollowsLockCorrect` | `FilterFollowsLock` | `Filter`: the two counters are the lengths of the runs of the lock, cut off at the dwell |
| `NoStrobeCorrect` | `NoStrobe` (a step property) | `Filter` |

`LcecPllProofs`, for every even period, any wrap residue, thresholds, drift, noise and offsets
(`PeriodAssumption`, `ParameterAssumption`, `PlantAssumption`):

| Theorem | Property | Inductive argument |
|---|---|---|
| `TypeCorrect` | `TypeOK` | part of `Inv` |
| `SteersTheShortWayCorrect` | `SteersTheShortWay` | `Inv`; `FoldedShort`: a folded error lies within half a period |
| `PhaseIsLatencyCorrect` | `PhaseIsLatency` | `Anchored`: `dc_ref` is a number of whole periods unless `pll-max-error` is below half of one |
| `ResyncRemovesOffsetCorrect` | `ResyncRemovesOffset` (a step property) | `CorrectionMoves`, `Nearest`: the nearest number of periods leaves at most half of one |
| `NoOffsetRemovedTwiceCorrect` | `NoOffsetRemovedTwice` (a step property) | `Skips`: behind a resync the DC time counts as not read |

`Period` divides nothing by itself in the provers' arithmetic: `Division` to `Reduced` are the
facts on quotient and remainder these proofs rest on.  `Quiet` is at least 1, as the reading of "past" needs:
the cycle of a resync is not behind it.

`LcecSyncsProofs`, for tables of any size and any number of calls:

| Theorem | Property | Inductive argument |
|---|---|---|
| `TypeCorrect` | `TypeOK` | with `Protocol`: whoever adds entries has a current PDO |
| `SlicesInTableCorrect` | `SlicesInTable` | `Slices`: a slice has a start when it is not empty, and each call extends one slice by the slot it fills |
| `LimitsHoldCorrect` | `LimitsHold` | `Room`: with autoflow the current PDO has room for an entry, and a PDO that is not open yet is empty; `Few`: no more than one PDO beyond the limit is accepted |
| `NothingIsLostCorrect` | `NothingIsLost` | `Order`: the slices of the sync managers lie in their order in the table of PDOs and those of the PDOs in that of the entries, without gap or overlap, so exactly one of each contains an entry |

`LcecStartupProofs`, for documents, images and trees of any size (`RegistrationAssumption` on the counts of the drivers):

| Theorem | Property | Inductive argument |
|---|---|---|
| `ReleasedOnceCorrect` | `ReleasedOnce` | `ReleaseInv`: the tree is well formed (`TreeInv`), what is held is what was requested and not released (`Accounted`), and what holds at each place of `rtapi_app_main` and of the ways out of it (`Reached`) |
| `RegisteredOnceCorrect` | `RegisteredOnce` | `RegisterInv`: with it, how far the loops over slaves, domains and lists have come (`SlavesDone`, `DomainsDone`, `ListsDone`), and that a finished list holds what the slaves of its unit registered (`ListsHold`); sums over all units and over all slaves then agree (`SetSums`) |
| `ImageUnderstoodCorrect` | `ImageUnderstood` | `ImageInv`, see below |

The first two use of the producer nothing but that it leaves the tree alone.  The third is about both sides
of the shared memory, and its invariant has a part for each:

- the producer, while it works (`Producing`) and when it is done (`Produced`): the items lie one behind the
  other (`InPlace`), each record starts where the reader of the one before it will look (`Linked`), a record
  stands only where the document lets it stand (`Belongs`), every count in the record of a slave is the sum of
  what its records add to it, but for the init command that is still open (`Tallied`), and the `curr` pointers
  of the handlers point to the elements that enclose the one being read (`Current`);
- the reader (`Consuming`): it stands at the start of a record, and the slave being filled holds of each kind
  what the records between its own and that place add up to (`SlaveRead`).

`Tallied` is what makes the second follow: what has been read of a slave is a part of what its record counts
(`PartWhole`), so no array overflows (`ReadAdvances`), and a reader finds the count it tests not to be 0
(`TheSlave`).  It has an exception because `xml_end_coe_icmd` and `xml_end_soe_icmd` add a command to the
slave only when it ends, its data having been appended before; `Linked` has none, as the data stand behind
the last record (`StructureData`).

`LcecSlavesProofs`, for every slave with one of the modelled drivers.  `OneDriver` and `OneStart`
reduce a step and a start of the composition to one of the slave's own driver:

| Theorem | Property | Inductive argument |
|---|---|---|
| `MessagesInOrderCorrect` | `MessagesInOrder` | `SerialInv`: where a message is (waiting, requested, taken; shown, fetched) is told by the differences of the toggles, and the line is what was given less the one still waiting; any number of messages and outages, as long as the terminal keeps its toggles |
| `PollsInTurnCorrect` | `PollsInTurn` | `PollingInv`: only the current object may be open, for any lists of objects; for FC302 also what `modes` and the objects behind it have been through |
| `FaultsAreHandledCorrect` | `FaultsAreHandled` | `ServoInv`: the reads a fault was hidden and those left to its retries add up to no more than `MayHide` (`Hides`), what the driver remembers agrees with the status it read (`Knows`, `Asks`), EL7211 is slowed by the ramp each cycle (`Slows`); any retries, cycles, ramp and speed |
| `DriveAsToldCorrect` | `DriveAsTold` | `DutyInv`: the reciprocal is that of the scale remembered, but for the initial pair 2 and 1 (`Reciprocal`), and the fault retry of EL7041 has come as far as the reads since it began (`Resets`); for the servo drives `ServoInv` |
| `CountIsTravelCorrect` | `CountIsTravel` | counters, `CountInv`: the counter of the last exchange is that of the terminal (`Follows`, `FollowsPreset`), the count is the travel since the reference modulo 32 bits (`Counted`), a cycle's travel is told by 16 bits, so by any width, and scale and reciprocal agree (`Scaling`); encoders, `EncInv`: the image is the position last seen, the extended count names the same place (`Imaged`, `Extended`), DeASDA stays `Contained`, and the mark is kept on the side it was met (`Sided`); any widths, any number of wraps and outages |
| `RequestsAreMetCorrect` | `RequestsAreMet` (a step property) | the same invariants: every answer that the image holds for what is asked has come since or has stood ever since (`Answers`, `Awaited`), a preset and a latch are never with the terminal together (`Kept`), the latch of Ph3LM2RM is disarmed when it is valid (`Unarmed`), and the side of the mark that a driver remembers is where the axis is, unless it has gone one of the ways that count (`Sided`, `Passing`) |
| `FramesArriveCorrect` | `FramesArrive` | `FsoeInv`: a configuration is refused for what it lacks only, since preinit configures every safety slave whatever the order (`PreinitDone`); the frames in the images and on the pins are those of the last exchange or the one before, by phase (`Flows`, `Carried`), which one copy per slave brings about in any order (`ReadCarries`); any number of slaves and connections, any frames |
| `SettingsAsConfiguredCorrect` | `SettingsAsConfigured` | `SettingsInv`: a start whose writes were all done leaves what its configuration promises over whatever was there (`Met`), one lemma per way to write: all but the defaults (`MetButDefaults`), all (`MetByAll`), what fits (`MetByFitting`), with settings that run into each other (`MetByRunningOn`), and by the master later (`MetLate`), for which `Listed` keeps the list and what others leave in the objects it does not name; any values, width and number of entries |

What the proofs of `CountIsTravelCorrect` and `RequestsAreMetCorrect` rest on: congruence modulo one width implies congruence modulo each that divides it,
and a signed difference is known from its residue when it lies within half of the width (the lemmas `Same...`
and `SignedIsKnown`).  `FramesArriveCorrect` and `SettingsAsConfiguredCorrect` rest on folds over the slaves, the entries
and the writes, which are functions on the sets of their positions here: such a function exists
(`FoldFromLast` of `SetSums`), so the fold takes the positions one after the other, and what it leaves is shown
for each first part of the sequence in turn (`SetInduction`).

Assumptions of `LcecSlaves`: `ServoAssumption` (a limit of speed and a ramp above 0), `PollingAssumption`
(the lists are sequences, EL7332 has a diagnosis to ask for, `modes` of FC302 is not one of its
information objects), `DutyAssumption` (scales are naturals, commands and limits integers),
`CountAssumption` (the widths are even and each divides the next, as powers of two do; a cycle's travel is within
half of 16 bits) and `EncAssumption` (the widths divide each other, the positions of an axis are an interval within
64 bits, `raw-home` is less than half of what the encoder counts), `SettingsAssumption` (values are naturals, an object
has at least one) and `FsoeAssumption` (slaves and connections are lists, every safety slave is among the slaves).

Model-checked only, and why:

- Liveness (`EveryUnitIsServed`, `EventuallyStarted`, `PhaseSettles`, `PllSettles`, `LoadingEnds`,
  `RequestsAreAnswered`): fairness and `ENABLED` are out of the prover's reach.
- `TreeIsTheDocument` of `LcecLoad`: it names the children of every element, so it needs, beyond the sums of
  `ImageInv`, the order of the records and of the slices that are laid over them.

`TypeOK` of `LcecSyncs`, `LcecBusStats`, `LcecPhase` and `LcecPll` is proved and is no property of a run.

## Observations

Shown by a violation run:

- A resync early after the activation moves `dc_ref` below the app time's origin and
  the unsigned difference wraps; the remainder is then off by 2^64 modulo the period
  (`LcecPllUnderflow`).
- A preset raised again while the acknowledgement of the last one stands is taken back in the next
  cycle as done, and never is (`devices/lcec_el5101.c:248-252`, `LcecPresetIsSet`).  In the same way a latch
  armed again while its valid bit stands is taken back at once.
- EL7332 makes its list of slots anew in every cycle, without temperature and supply voltage
  while a channel reports an error.  The index then names another slot and a second request is
  started while the first is under way; the comment at `devices/lcec_el7332.c:1041-1045`
  guarantees that there is at most one (`LcecSdoInFlight`).

Said by a passing property, which keeps to the code where a comment or a document says otherwise:

- `LimitsHold`: `pdo_limit` is the "Device limit on the number of PDOs per sync" (`lcec.h:421`);
  `lcec_ethercat.c:124` accepts one more, and counts the PDOs of all sync managers.
- `PinsAgree`: `all-op` is documented as "Every slave is in OP" (`documentation/master-pins.md:14`).
  It is computed from the union of the states of the responding slaves (171, 1128), so a
  slave that is off the bus does not count; and a slave that leaves OP between the call for its master
  and its own shows so beside an `all-op` that stays TRUE for the update period.
- `DriveAsTold`: `old_scale` begins as the initial scale plus 1.0, that is 2.0, so a scale of exactly 2 set before the
  first cycle is not noticed and the command is divided by 1 (`devices/lcec_class_aout.c:128`),
  while `documentation/el4xxx.md:86` says `curr_dc = (value / scale) + offset`.
  The velocity of EL7342 is scaled by that 2 until its first write, and the counters keep the same pair,
  so a count is divided by 1 there too; `CountIsTravel` excepts it.
- `DriveAsTold`: the limits of a duty cycle are held between -1.0 and 1.0; the comment at
  `devices/lcec_class_aout.c:146-147` says between 0.0 and 1.0.
- `SettingsAsConfigured`: EL5002 and EL7332 do not write a setting that is the factory default, so that of a former run or of
  another tool stays; the comment at `devices/lcec_el5002.c:272-275` calls the two identical, and
  `devices/lcec_el5021.c:366-373` tells that this was a fault there.
- `SettingsAsConfigured`: the cases of `handle_modparams` of EL7041 (`lcec_el7041.c:397-427`) lack `break`s, so one
  parameter is written to the objects of those below it; `documentation/el7041.md:67-68` knows them as
  separate settings.
- `RequestsAreMet`: the window of the index is tested on one side (`mod <= ovfl_win`, `devices/lcec_class_enc.c:133`), so an
  axis that moves upward meets its index in the middle of a revolution too; the nearest mark is
  then taken.

Met while modelling, not shown by a run.  The master:

- `appTimePeriod` that differs from the thread's period is kept and logged as an error
  (1287-1295), while `documentation/configuration-reference.md:58-59` says it is
  replaced.
- `phase-jitter-out` is called the amplitude of the jitter (`lcec.h:199`).  A sample is
  unwrapped against the raw previous one only (1602), so the samples after a wrap are
  counted a period away and the pin shows almost a period.  The target is limited to an
  eighth of the period, so the controller still works.
- When initf is available but not used, a master without slaves and without
  `appTimePeriod` is activated by its first write, before any read has adopted
  the period, and the modulo at 1581 divides by 0.  The comment at 1282-1284 takes
  the read to come first.
- `dc-sync-diff` reads 0, not 0xffffffff (`documentation/master-pins.md:63`), until the
  first response or the miss limit.
- Switching `dc-sync-monitor` off freezes `dc-sync-converged` at its last value (1391);
  the comment above it promises that no stale value is shown.
- `pll-reset-count` counts raw offsets beyond the smaller of `pll-max-error` and half a
  period (1778-1782); `documentation/distributed-clocks.md:97-98` speaks of `pll-err`.
- A resync removes whole periods, so an offset just beyond half a period lands just
  inside the opposite threshold (1787), where a unit of noise trips it again; the comment at
  1775-1777 says it lands a lap away.
- With clocks that run exactly alike, or jitter that alternates in step with the
  controller, the one cycle of dead time can keep the error alternating at half a
  period.  `PllSettles` therefore asks for a drift that is not 0.
- `pll-out` is 0 in cycles without an offset and in a resync;
  `documentation/distributed-clocks.md:96` says it is always plus or minus `pll-step`.
- `drift-mode` 1 is commented as using the `pll-drift` pin for the error (1729, 1748);
  the error is left uncompensated and the pin is added to the correction (1821).
- A PDO refused by `pdo_limit` has already been counted in `n_pdos` (`lcec_ethercat.c:117-131`),
  whereas one refused by the table leaves no trace; `SlicesInTable` excepts the former.
- An entry that fills its PDO exactly makes autoflow open another, so a sync manager may end
  with an empty PDO.  With several CiA 402 channels the PDO that autoflow opens has the number
  the next channel starts with, since both add `pdo_increment` (`lcec_ethercat.c:163`,
  `devices/lcec_class_cia402.c:228`).

Configuration and start-up:

- The state tables end in an entry named `"NULL"`, while the loops over them look for a null
  pointer; an element that is not in the table makes the loop read behind it
  (`lcec_conf.c`, `lcec_conf_icmds.c`).
- `parseIdnConfigAttrs` tests for `drive` where it should read `state` (`lcec_conf.c:752`), so every
  `<idnConfig>` is refused although `documentation/configuration-reference.md:260` describes it.
  IDN commands reach a slave through init command files only.
- `refClockSlaveIdx` is parsed and not used.
- In init command files a number that expat hands over in two pieces keeps the value of the
  last one, and data cut in the middle of a byte are refused.
- When preinit refuses, the shared memory is deleted twice.  The message for a failed
  `lcec_init_master_hal` dereferences a slave that is NULL behind the loop.  `proc_cleanup` is
  called where it is set, and no driver sets it.

Encoders and counters:

- Travel while a preset is acknowledged is not counted.
- EP5101 sets the preset bit in its read callback and overwrites it in its write callback; it takes the
  counter over after every outage.  EL5152 arms its index while operational only.
- In user space `lcec_mod_64` divides a signed by an unsigned number
  (`lcec_rtapi_user.h:48`), so a negative position modulo a number of pulses that is not a power of two
  (1,280,000 of DeASDA) is off.  The side of the mark is kept through an outage.
- The position of an AX5000 starts at zero after an outage.  Ph3LM2RM and OMRG5 never look
  whether their slave is operational.

Drives and outputs:

- The latch on C of EL7041 is enabled and never handled.
- `fault-reset` of OMRG5 is an output pin, so nobody can set it.  The `fault` pin of EL7211 keeps its
  value while the slave is not operational, and a fault is reset without being asked for while the
  drive is enabled.  `deasda.h:119` describes a pin `srv-fault-autoreset` that does not exist.
  `scale_old` of the AX5000 class is not initialised.
- `sdo-busy` of FC302 stays TRUE once polling has begun; its header speaks of 3000 cycles and the
  delay is 5000.  The values that EL7332, FC302 and EL5021 read keep their last value through an outage.
- Module parameters of 32 bits are cut to the 8 or 16 of their object without a message (EL7332,
  EP5101, EL5002, EL5021).  EP5101 does not
  look at the results of its PDO assignment.

Communication and safety:

- EL6002 does not take over the toggles of a terminal that has restarted or of a module that was loaded
  again; it may then stay busy for good; a length left above 0 after the acknowledgement sends the message once more; received data are
  acknowledged whether or not the user has taken them.
- FSoE frames are copied at offsets of the slave's own image (`lcec_ethercat.c:43-59`), so they
  come from the wrong bytes when the logic is in another Sync Unit;
  `documentation/distributed-clocks.md:212` only advises against that.  A logic that names an AX5000
  itself is accepted and its frames are never copied; of two connections that name one slave the last
  wins.  No safety driver looks whether its slave is operational.

## Not modelled

- The CiA 402 class, digital and analog input classes, the generic device and the terminals that copy
  entries between the image and pins: no state across cycles, hence nothing a sequence of calls could
  break.  What is left out of a driver that is modelled in part is of this kind too (status bits,
  frequencies, periods, the control word of the AX5000, the drive side of StMDS5k, the cyclic words of
  the inverters).
- The control words of EL70x1, EL7411, EL2521, EL2522 and DEMS300: made of the pins of the same cycle.
- SDO and IDN reads at start-up (`ecat_read_sdo*`, `ecat_read_idn`): a request and its result.
- Tables of module parameters and lookups, the registry of device types: searches in constant tables,
  the first match wins; `tests/` covers them.
- HAL pin export, memory allocation, formatting: no control that a property would be about.  Their
  failures are steps of `LcecStartup`.
- The configuration generator, scripts and tests: offline.
- The IgH master: modelled by what the driver sees of it.
- Scaling by floating point numbers: a scale is the number it divides by.

## Plan

Every invariant and action property of the runs is stated by a theorem, save for `TreeIsTheDocument` of
`LcecLoad`.  It needs `ImageInv`, that every record names the element around it, and that the slices of a
slave lie in the order of its records, as in `LcecSyncsProofs`.
