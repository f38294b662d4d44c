------------------------------ MODULE LcecConf ------------------------------
(***************************************************************************)
(* lcec_conf: the elements of ethercat-conf.xml become a chain of records, *)
(* which is copied to shared memory.  A record is written when its element *)
(* starts; the counts in the records of the elements around it are brought *)
(* up to date through pointers.  Attribute values are reduced to those the *)
(* handlers tell apart.                                                    *)
(***************************************************************************)
EXTENDS LcecInitCmds

CONSTANTS Cycles,    \* values of refClockSyncCycles
          Attrs,     \* slaves: type, syncUnit, and syncUnitCycle in periods
          BitLengths \* values of bitLen

VARIABLE xml         \* inst->state, "Shared" or "Failed" at the end

confVars == <<xml, chain, length, cur, icmd, todo>>

From == [Masters |-> "None", Master |-> "Masters", Slave |-> "Master",
         DcConf |-> "Slave", Watchdog |-> "Slave", SdoConfig |-> "Slave",
         SdoDataRaw |-> "SdoConfig", IdnConfig |-> "Slave",
         InitCmds |-> "Slave", SyncManager |-> "Slave", Pdo |-> "SyncManager",
         PdoEntry |-> "Pdo", ComplexEntry |-> "PdoEntry", ModParam |-> "Slave"]

ConfInit ==
  /\ xml = "None" /\ chain = << >> /\ length = 0
  /\ cur = NoCur
  /\ icmd = "Closed" /\ todo = 0

\* XML_StopParser, an element out of place, a file that cannot be read, no
\* shared memory: main releases everything and no image appears.
Refuse == xml' = "Failed" /\ Abandon

Starts(e) == /\ xml = From[e] /\ icmd = "Closed"
             /\ Room(IF e = "SdoDataRaw" THEN "Raw" ELSE e)
             /\ xml' = e /\ UNCHANGED <<icmd, todo>>

\* What a start handler adds to the records around it before its own.
Counted(k, field) == [chain EXCEPT ![k][field] = @ + 1]

AppendTo(items, item) ==
  /\ chain' = Append(items, Placed(item))
  /\ length' = length + SizeOf[item.type]

(***************************************************************************)
(* Masters and slaves.                                                     *)
(***************************************************************************)
\* syncToRefClock: 0 not given, 1 true, -1 false.
Conflict(sync, cycles) == \/ cycles < -1
                          \/ sync = 1 /\ cycles > 0
                          \/ sync = -1 /\ cycles < 0

SyncToRef(sync, cycles) == sync = 1 \/ (sync = 0 /\ cycles < 0)

RefCycles(sync, cycles) ==
  CASE sync = 1 /\ cycles = 0 -> 1
    [] cycles < 0 -> -cycles
    [] OTHER -> cycles

parseMasterAttrs ==
  \E sync \in {-1, 0, 1}, cycles \in Cycles, period \in {0, 1} :
    /\ Starts("Master") /\ ~ Conflict(sync, cycles)
    /\ Emit([type |-> "Master", period |-> period,
             m2r |-> SyncToRef(sync, cycles), cycles |-> RefCycles(sync, cycles)])
    /\ cur' = [cur EXCEPT !.master = Top]

\* The type is looked up before any other attribute; a syncUnitCycle must be a
\* positive multiple of the period, so there is none with a period of 0.
parseSlaveAttrs ==
  \E u \in Attrs :
    /\ Starts("Slave")
    /\ chain[cur.master].period # 0 /\ u.cycle > 0
    /\ Emit([type |-> "Slave", in |-> cur.master, kind |-> u.kind, unit |-> u.unit, cycle |-> u.cycle,
             sms |-> 0, pdos |-> 0, entries |-> 0, pins |-> 0, params |-> 0,
             sdoLength |-> 0, idnLength |-> 0])
    /\ cur' = [cur EXCEPT !.slave = Top]

parseDcConfAttrs == /\ Starts("DcConf") /\ UNCHANGED cur
                    /\ Emit([type |-> "DcConf", in |-> cur.slave])

parseWatchdogAttrs == /\ Starts("Watchdog") /\ UNCHANGED cur
                      /\ Emit([type |-> "Watchdog", in |-> cur.slave])

\* Only device types with modparams take them; the generic type has none.
parseModParamAttrs ==
  /\ Starts("ModParam") /\ chain[cur.slave].kind = "plain"
  /\ AppendTo(Counted(cur.slave, "params"), [type |-> "ModParam", in |-> cur.slave])
  /\ UNCHANGED cur

(***************************************************************************)
(* SDOs.  parseIdnConfigAttrs has no row: it requires a state, but tests   *)
(* for the attribute "drive" where it should read "state", after "drive"   *)
(* has been taken, so every idnConfig is refused (action Stop).            *)
(***************************************************************************)
parseSdoConfigAttrs ==
  \E sub \in {"complete", "whole"} :
    /\ Starts("SdoConfig")
    /\ AppendTo([chain EXCEPT ![cur.slave].sdoLength = @ + SizeOf["SdoConfig"]],
                [type |-> "SdoConfig", in |-> cur.slave, len |-> 0, index |-> "whole",
                 subindex |-> sub])
    /\ cur' = [cur EXCEPT !.sdo = Top]

\* Called while inst->state is still that of the enclosing element.
parseDataRawAttrs ==
  \E n \in 0..2 :
    /\ Starts("SdoDataRaw")
    /\ IF n = 0
       THEN UNCHANGED <<chain, length>>
       ELSE /\ chain' = Append([chain EXCEPT ![cur.sdo].len = @ + n,
                                             ![cur.slave].sdoLength = @ + n],
                               [type |-> "Raw", len |-> n, off |-> length])
            /\ length' = length + n
    /\ UNCHANGED cur

\* The parser of the init command file runs inside the start handler.
parseInitCmdsAttrs == /\ xml = "Slave" /\ icmd = "Closed"
                      /\ xml' = "InitCmds" /\ OpenFile

(***************************************************************************)
(* The layout of a generic slave.                                          *)
(***************************************************************************)
parseSyncManagerAttrs ==
  \E dir \in {"in", "out"} :
    /\ Starts("SyncManager") /\ chain[cur.slave].kind = "generic"
    /\ AppendTo(Counted(cur.slave, "sms"),
                [type |-> "SyncManager", in |-> cur.slave, dir |-> dir, pdos |-> 0])
    /\ cur' = [cur EXCEPT !.sm = Top]

parsePdoAttrs ==
  /\ Starts("Pdo")
  /\ AppendTo([Counted(cur.slave, "pdos") EXCEPT ![cur.sm].pdos = @ + 1],
              [type |-> "Pdo", in |-> cur.sm, entries |-> 0])
  /\ cur' = [cur EXCEPT !.pdo = Top]

PinCount(pin) == IF pin THEN 1 ELSE 0

\* A pin of its own, or complex and without one.
parsePdoEntryAttrs ==
  \E pin \in BOOLEAN, bits \in BitLengths :
    /\ Starts("PdoEntry")
    /\ AppendTo([chain EXCEPT ![cur.slave].entries = @ + 1,
                              ![cur.slave].pins = @ + PinCount(pin),
                              ![cur.pdo].entries = @ + 1],
                [type |-> "PdoEntry", in |-> cur.pdo, pin |-> pin, bits |-> bits])
    /\ cur' = [cur EXCEPT !.entry = Top, !.bits = 0]

parseComplexEntryAttrs ==
  \E pin \in BOOLEAN, bits \in BitLengths :
    /\ Starts("ComplexEntry")
    /\ cur.bits + bits <= chain[cur.entry].bits
    /\ AppendTo([chain EXCEPT ![cur.slave].pins = @ + PinCount(pin)],
                [type |-> "ComplexEntry", in |-> cur.entry, pin |-> pin,
                 at |-> cur.bits, bits |-> bits])
    /\ cur' = [cur EXCEPT !.bits = @ + bits]

(***************************************************************************)
(* The program.                                                            *)
(***************************************************************************)
OpenMasters == /\ xml = "None" /\ xml' = "Masters"
               /\ UNCHANGED <<chain, length, cur, icmd, todo>>

\* xml_end_handler.
EndElement == /\ xml \in DOMAIN From \ {"Masters"} /\ icmd = "Closed"
              /\ xml' = From[xml]
              /\ UNCHANGED <<chain, length, cur, icmd, todo>>

\* The root is closed: end marker, shared memory, header with the length.
Share == /\ xml = "Masters" /\ xml' = "Shared"
         /\ Emit([type |-> "End"])
         /\ UNCHANGED <<cur, icmd, todo>>

Stop == xml \notin {"Failed", "Shared"} /\ Refuse

InitCmdsStep == xml = "InitCmds" /\ Step /\ UNCHANGED xml

Element == \/ parseMasterAttrs \/ parseSlaveAttrs \/ parseDcConfAttrs
           \/ parseWatchdogAttrs \/ parseModParamAttrs \/ parseSdoConfigAttrs
           \/ parseDataRawAttrs \/ parseInitCmdsAttrs \/ parseSyncManagerAttrs
           \/ parsePdoAttrs \/ parsePdoEntryAttrs \/ parseComplexEntryAttrs

ConfNext == \/ OpenMasters \/ Element \/ EndElement \/ InitCmdsStep
            \/ Share \/ Stop
=============================================================================
