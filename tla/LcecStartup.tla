---------------------------- MODULE LcecStartup ----------------------------
(***************************************************************************)
(* rtapi_app_main after the configuration is parsed, lcec_clear_config and *)
(* rtapi_app_exit.  Every call into the EtherCAT master, the HAL or a      *)
(* driver may fail; what has been built until then is released.            *)
(***************************************************************************)
EXTENDS LcecParseConfig, FiniteSetsExt

CONSTANTS RegCounts,    \* PDO entries a driver registers with lcec_pdo_init
          MaxRegs       \* LCEC_MAX_PDO_REG_COUNT

ASSUME RegistrationAssumption == RegCounts \subseteq Nat /\ MaxRegs \in Nat

VARIABLES boot,         \* where rtapi_app_main is
          at,           \* [m, k]: master, and slave or Sync Unit of its loops
          held,         \* masters requested from the EtherCAT library
          released,     \* calls of ecrt_release_master, per master
          domains,      \* domains created, <<master, unit>>
          regs,         \* entries registered by the driver, per slave
          lists,        \* entries handed to the domain, per unit
          functs,       \* HAL functs exported
          initf         \* initf_supported

bootVars == <<boot, at, held, released, domains, regs, lists, functs, initf>>
vars == <<confVars, parseVars, bootVars>>

Before == {"hal_init", "parse"}

StartInit ==
  /\ boot = "hal_init" /\ at = [m |-> 0, k |-> 0] /\ held = {} /\ released = << >>
  /\ domains = {} /\ regs = << >> /\ lists = << >> /\ functs = {}
  /\ initf = FALSE

Goto(label) == boot' = label /\ UNCHANGED <<confVars, parseVars, initf>>

Enter(label, i, j) == Goto(label) /\ at' = [m |-> i, k |-> j]

Tree == UNCHANGED <<held, released, domains, regs, lists, functs>>

Of(i) == {j \in DOMAIN slaves : slaves[j].master = i}
UnitsOf(i) == DOMAIN masters[i].units
InUnitAny(i, u) == Of(i)  \* slip: the unit is not compared
InUnit(i, u) == {j \in Of(i) : slaves[j].unit = masters[i].units[u].name}

\* goto fail2: lcec_clear_config goes through the masters from the last.
Fail2Behind == Enter("clear", at.m - 1, 0) /\ Tree  \* slip: only those completed
Fail2 == Enter("clear", Len(masters), 0) /\ Tree

\* The next slave of master at.m behind at.k, else its units; k is a slave of
\* any master here.
SlaveBehind(k) == {j \in Of(at.m) : j > k}
NextSlave(k) == IF SlaveBehind(k) # {} THEN Enter("slave", at.m, Min(SlaveBehind(k)))
                ELSE Enter("unit", at.m, 1)

(***************************************************************************)
(* The calls of rtapi_app_main in their order.                             *)
(***************************************************************************)
HalInit == /\ boot = "hal_init" /\ Tree /\ UNCHANGED at
           /\ Goto("parse") \/ Goto("failed")

Parse == /\ boot = "parse" /\ ParseNext /\ UNCHANGED <<confVars, bootVars>>

\* Failures of the parser leave by fail1; it has cleared the tree itself.
\* The image is unmapped: of the tree the rest needs who belongs where.  The
\* probe for initf comes first of all in the code and is read from here on.
Unmap == /\ chain' = << >> /\ length' = 0 /\ cur' = NoCur /\ pos' = 0
         /\ load' = "Unmapped"
         /\ masters' = [i \in DOMAIN masters |-> [units |-> masters[i].units]]
         /\ slaves' = [j \in DOMAIN slaves |->
                        [master |-> slaves[j].master, unit |-> slaves[j].unit]]
         /\ initf' \in BOOLEAN /\ UNCHANGED <<xml, icmd, todo>>

GlobalPins ==
  /\ boot = "parse" /\ Tree
  /\ \/ /\ load = "Parsed" /\ Unmap
        /\ \/ boot' = "request" /\ at' = [m |-> 1, k |-> 0]
           \/ boot' = "clear" /\ at' = [m |-> Len(masters), k |-> 0]
     \/ load \in {"Refused", "Misread"} /\ Enter("hal_exit", 0, 0)

RequestMaster ==
  /\ boot = "request" /\ at.m <= Len(masters)
  /\ \/ /\ Enter("domain", at.m, 1)
        /\ held' = held \cup {at.m}
        /\ released' = Append(released, 0)
        /\ UNCHANGED <<domains, regs, lists, functs>>
     \/ Fail2

CreateDomain ==
  /\ boot = "domain"
  /\ IF at.k \notin UnitsOf(at.m) THEN Tree /\ NextSlave(0)
     ELSE \/ /\ Enter("domain", at.m, at.k + 1)
             /\ domains' = domains \cup {<<at.m, at.k>>}
             /\ UNCHANGED <<held, released, regs, lists, functs>>
          \/ Fail2

Smaller(a, b) == IF a < b THEN a ELSE b

\* Slave configuration, SDOs and IDNs (failures of which are only logged), the
\* registration list, proc_init, dc, watchdog, PDOs, state pins.  lcec_pdo_init
\* refuses what does not fit, and no driver looks at that.
InitSlave ==
  /\ boot = "slave"
  /\ \/ \E n \in RegCounts :
          /\ NextSlave(at.k)
          /\ regs' = Append(regs, Smaller(n, MaxRegs))
          /\ UNCHANGED <<held, released, domains, lists, functs>>
     \/ Fail2

\* pdo_entry_count of a unit has been summed up slave by slave.
RegsOf(i, u) == MapThenSumSet(LAMBDA j : regs[j], InUnit(i, u))
EntryCount(i, u) == RegsOf(i, u) + 1

\* lcec_append_pdo_entry_reg slave by slave; it fails without room.
Fits(i, u, n) == n <= EntryCount(i, u)

RegisterUnit ==
  /\ boot = "unit"
  /\ IF at.k \notin UnitsOf(at.m) THEN Tree /\ Enter("pins", at.m, 0)
     ELSE LET n == RegsOf(at.m, at.k) IN
          \/ /\ Fits(at.m, at.k, n)
             /\ Enter("unit", at.m, at.k + 1)
             /\ lists' = [p \in DOMAIN lists \cup {<<at.m, at.k>>} |->
                           IF p = <<at.m, at.k>> THEN n ELSE lists[p]]
             /\ UNCHANGED <<held, released, domains, regs, functs>>
          \/ Fail2

\* lcec_init_master_hal.  The message of its failure names the slave, which is
\* NULL behind the loop: the process ends in the signal handler.
MasterPins ==
  /\ boot = "pins" /\ Tree
  /\ Enter(IF initf THEN "export" ELSE "activate", at.m, 0) \/ Enter("crashed", 0, 0)

ActivateMaster == /\ boot = "activate"
                  /\ (Tree /\ Enter("export", at.m, 0)) \/ Fail2

ExportMaster ==
  /\ boot = "export"
  /\ \/ /\ Enter("request", at.m + 1, 0)
        /\ functs' = functs \cup {<<"read", at.m>>, <<"write", at.m>>}
        /\ UNCHANGED <<held, released, domains, regs, lists>>
     \/ Fail2

ExportAll ==
  /\ boot = "request" /\ at.m > Len(masters)
  /\ \/ /\ Enter("ready", 0, 0)
        /\ functs' = functs \cup {<<"read", 0>>, <<"write", 0>>}
                     \cup (IF initf THEN {<<"activate", 0>>} ELSE {})
        /\ UNCHANGED <<held, released, domains, regs, lists>>
     \/ Fail2

(***************************************************************************)
(* Release.                                                                *)
(***************************************************************************)
\* prev_master
PreviousSame(m) == m  \* slip: the loop does not advance
Previous(m) == m - 1

\* No driver sets proc_cleanup, so what is left of a master is its handle; the
\* domains and slave configurations belong to it.
ClearMaster ==
  /\ boot = "clear"
  /\ IF at.m = 0 THEN Tree /\ Enter("hal_exit", 0, 0)
     ELSE /\ Enter("clear", Previous(at.m), 0)
          /\ released' = IF at.m \in held THEN [released EXCEPT ![at.m] = @ + 1] ELSE released
          /\ held' = held \ {at.m}
          /\ domains' = {d \in domains : d[1] # at.m}
          /\ UNCHANGED <<regs, lists, functs>>

\* hal_exit removes the functs from the threads.
HalExit == /\ boot = "hal_exit" /\ Enter("failed", 0, 0)
           /\ functs' = {} /\ UNCHANGED <<held, released, domains, regs, lists>>

\* Deactivates every master, then the same way out.
AppExit == boot = "ready" /\ Fail2

Loading == \/ HalInit \/ Parse \/ GlobalPins \/ RequestMaster \/ CreateDomain
           \/ InitSlave \/ RegisterUnit \/ MasterPins \/ ActivateMaster
           \/ ExportMaster \/ ExportAll \/ ClearMaster \/ HalExit

\* lcec is loaded once lcec_conf has answered.
Conf == /\ xml \notin {"Shared", "Failed"} /\ ConfNext
        /\ UNCHANGED <<parseVars, bootVars>>

Init == ConfInit /\ ParseInit /\ StartInit
Next == Conf \/ (xml \in {"Shared", "Failed"} /\ (Loading \/ AppExit))
Spec == Init /\ [][Next]_vars /\ WF_vars(xml \in {"Shared", "Failed"} /\ Loading)

-----------------------------------------------------------------------------
TypeOK ==
  /\ xml \in DOMAIN From \cup {"None", "Shared", "Failed"}
  /\ icmd \in DOMAIN IcmdFrom \cup {"None", "Closed"}
  /\ todo \in 0..4 /\ length \in Nat /\ pos \in 0..length
  /\ \A f \in DOMAIN cur \ {"bits"} : cur[f] \in 0..Len(chain)
  /\ load \in {"Idle", "Parsing", "Preinit", "Parsed", "Refused", "Misread",
             "Unmapped"}
  /\ held \subseteq DOMAIN masters /\ Len(released) <= Len(masters)
  /\ Len(regs) <= Len(slaves)
  /\ boot \in Before \cup {"request", "domain", "slave", "unit", "pins", "activate",
                           "export", "ready", "clear", "hal_exit", "failed", "crashed"}

\* However far rtapi_app_main got, and after rtapi_app_exit, every master that
\* was requested is released once, none that was not, nothing of it is used
\* behind its release, and no funct outlives the module (439-450, 460, 1034).
ReleasedOnce ==
  /\ \A i \in DOMAIN released : released[i] <= 1 /\ (released[i] = 1 <=> i \notin held)
  /\ \A d \in domains : d[1] \in held
  /\ boot = "failed" => held = {} /\ functs = {}

\* A module that reports ready has registered every entry of every driver, in
\* the domain of the slave's own Sync Unit and no other: the lists of a master
\* cover its slaves (370-395), whatever their order and that of the units.
RegisteredOnce ==
  boot = "ready" =>
    /\ held = DOMAIN masters
    /\ \A i \in DOMAIN masters :
         /\ {d[2] : d \in {e \in domains : e[1] = i}} = UnitsOf(i)
         /\ MapThenSumSet(LAMBDA d : lists[d], {d \in DOMAIN lists : d[1] = i})
              = MapThenSumSet(LAMBDA j : regs[j], Of(i))
    /\ <<"activate", 0>> \in functs <=> initf

\* Loading comes to an end, with a module that is ready or with one that has
\* gone (181-450), and an unloaded module never comes back by itself.
LoadingEnds == xml = "Shared" ~> boot \in {"ready", "failed", "crashed"}
=============================================================================
