-------------------------- MODULE LcecParseConfig --------------------------
(***************************************************************************)
(* lcec_parse_config: the lcec module walks the image that lcec_conf left  *)
(* in shared memory, byte by byte as far as the lengths of the records     *)
(* say, and builds masters, Sync Units and slaves.  The pointers into the  *)
(* arrays of the slave (generic_pdos, sdo_config, ...) are the lengths of  *)
(* the sequences filled so far.                                            *)
(***************************************************************************)
EXTENDS LcecConf

VARIABLES load,      \* progress; "Refused" for a configuration that is
                     \* turned down, "Misread" for records out of place
          pos,       \* conf: offset in the image
          masters,   \* first_master: [id, units]
          slaves     \* the slaves of all masters, in order

parseVars == <<load, pos, masters, slaves>>

ParseInit == load = "Idle" /\ pos = 0 /\ masters = << >> /\ slaves = << >>

\* A header with the magic number; else lcec_conf is not loaded.
Attach == /\ load = "Idle" /\ xml \in {"Shared", "Failed"}
          /\ load' = IF xml = "Shared" THEN "Parsing" ELSE "Refused"
          /\ UNCHANGED <<pos, masters, slaves>>

(***************************************************************************)
(* Records.                                                                *)
(***************************************************************************)
StartsAt(p) == {k \in DOMAIN chain : chain[k].off = p}

\* conf is advanced before the checks of the record.
Take(type, k) == /\ load = "Parsing"
                 /\ k \in StartsAt(pos) /\ chain[k].type = type
                 /\ pos' = pos + SizeOf[type]
                           + (IF type \in {"SdoConfig", "IdnConfig"} THEN chain[k].len ELSE 0)

Reject(why) == load' = why /\ UNCHANGED <<masters, slaves>>
Keep == UNCHANGED <<load, masters, slaves>>

master == Len(masters)
slave == Len(slaves)
Slave == slaves[slave]

Set(fields) == /\ slaves' = [slaves EXCEPT ![slave] =
                      [f \in DOMAIN @ |-> IF f \in DOMAIN fields THEN fields[f] ELSE @[f]]]
               /\ UNCHANGED <<load, masters>>

ReadMaster(k) ==
  /\ Take("Master", k)
  /\ masters' = Append(masters, [id |-> k, units |-> << >>])
  /\ UNCHANGED <<load, slaves>>

(***************************************************************************)
(* Slaves: lcec_master_get_sync_unit, and the memory the counts ask for.   *)
(***************************************************************************)
UnitsNamed(name) == {u \in DOMAIN masters[master].units : masters[master].units[u].name = name}

\* A multiple of the period, and the cycle the unit has already.
UnitFits(rec) == /\ chain[masters[master].id].period # 0
                 /\ \A u \in UnitsNamed(rec.unit) : masters[master].units[u].cycle = rec.cycle

WithUnit(rec) ==
  IF UnitsNamed(rec.unit) # {} THEN masters
  ELSE [masters EXCEPT ![master].units = Append(@, [name |-> rec.unit, cycle |-> rec.cycle])]

NewSlave(k, rec) ==
  [id |-> k, master |-> master, unit |-> rec.unit, generic |-> rec.kind = "generic",
   nsms |-> rec.sms, npdos |-> rec.pdos, nentries |-> rec.entries, npins |-> rec.pins,
   nparams |-> rec.params, sdoSize |-> rec.sdoLength, idnSize |-> rec.idnLength,
   dir |-> "unspecified", sms |-> << >>, pdos |-> << >>, entries |-> << >>,
   pins |-> << >>, params |-> 0, sdoUsed |-> 0, idnUsed |-> 0, sdos |-> << >>,
   idns |-> << >>, dc |-> 0, wd |-> 0]

ReadSlave(k) ==
  LET rec == chain[k] IN
  /\ Take("Slave", k)
  /\ CASE master = 0 -> Reject("Misread")
       [] master > 0 /\ ~ UnitFits(rec) -> Reject("Refused")
       [] OTHER -> /\ masters' = WithUnit(rec)
                   /\ slaves' = Append(slaves, NewSlave(k, rec))
                   /\ UNCHANGED load

\* A second dcConf or watchdog is skipped with a warning.
ReadDcConf(k) == /\ Take("DcConf", k)
                 /\ CASE slave = 0 -> Reject("Misread")
                      [] slave > 0 /\ Slave.dc # 0 -> Keep
                      [] OTHER -> Set([dc |-> k])

ReadWatchdog(k) == /\ Take("Watchdog", k)
                   /\ CASE slave = 0 -> Reject("Misread")
                        [] slave > 0 /\ Slave.wd # 0 -> Keep
                        [] OTHER -> Set([wd |-> k])

ReadModParam(k) ==
  /\ Take("ModParam", k)
  /\ IF slave = 0 \/ Slave.nparams = 0 THEN Reject("Misread")
     ELSE Set([params |-> Slave.params + 1])

(***************************************************************************)
(* Generic slaves: slices of three arrays, laid out by counting.           *)
(***************************************************************************)
SliceFirst(k, seq, n) == [id |-> k, first |-> 1, n |-> n]  \* slip: the pointer is not advanced
Slice(k, seq, n) == [id |-> k, first |-> Len(seq) + 1, n |-> n]

ReadSyncManager(k) ==
  /\ Take("SyncManager", k)
  /\ IF slave = 0 \/ ~ Slave.generic THEN Reject("Misread")
     ELSE Set([sms |-> Append(Slave.sms, Slice(k, Slave.pdos, chain[k].pdos)),
               dir |-> IF chain[k].dir = "in" THEN "HAL_OUT" ELSE "HAL_IN"])

ReadPdo(k) ==
  /\ Take("Pdo", k)
  /\ IF slave = 0 \/ ~ Slave.generic THEN Reject("Misread")
     ELSE Set([pdos |-> Append(Slave.pdos, Slice(k, Slave.entries, chain[k].entries))])

Pin(k, entry) == [id |-> k, entry |-> entry, dir |-> Slave.dir]

ReadPdoEntry(k) ==
  /\ Take("PdoEntry", k)
  /\ IF slave = 0 \/ ~ Slave.generic \/ Slave.dir = "unspecified" THEN Reject("Misread")
     ELSE Set([entries |-> Append(Slave.entries, k),
               pins |-> IF chain[k].pin THEN Append(Slave.pins, Pin(k, k)) ELSE Slave.pins])

\* pe_conf is the last entry read.
ReadComplexEntry(k) ==
  /\ Take("ComplexEntry", k)
  /\ IF slave = 0 \/ ~ Slave.generic \/ Slave.entries = << >> THEN Reject("Misread")
     ELSE Set([pins |-> IF chain[k].pin
                        THEN Append(Slave.pins, Pin(k, Slave.entries[Len(Slave.entries)]))
                        ELSE Slave.pins])

(***************************************************************************)
(* SDO and IDN commands are packed one behind the other, data included.    *)
(* The bytes of the copies are not larger than those of the records.       *)
(***************************************************************************)
ReadSdoConfig(k) ==
  /\ Take("SdoConfig", k)
  /\ IF slave = 0 \/ Slave.sdoSize = 0 THEN Reject("Misread")
     ELSE Set([sdoUsed |-> Slave.sdoUsed + 16 + chain[k].len,
               sdos |-> Append(Slave.sdos, k)])

ReadIdnConfig(k) ==
  /\ Take("IdnConfig", k)
  /\ IF slave = 0 \/ Slave.idnSize = 0 THEN Reject("Misread")
     ELSE Set([idnUsed |-> Slave.idnUsed + 16 + chain[k].len,
               idns |-> Append(Slave.idns, k)])

(***************************************************************************)
(* The end of the chain, and the two stages of proc_preinit, which refuse  *)
(* a safety connection that does not resolve.                              *)
(***************************************************************************)
ReadEnd(k) == /\ Take("End", k)
              /\ load' = "Preinit" /\ UNCHANGED <<masters, slaves>>

\* default: no record starts here, or data are taken for one.
Lost == /\ load = "Parsing" /\ \A k \in StartsAt(pos) : chain[k].type = "Raw"
        /\ Reject("Misread") /\ UNCHANGED pos

Preinit == /\ load = "Preinit" /\ load' \in {"Parsed", "Refused"}
           /\ UNCHANGED <<pos, masters, slaves>>

ReadRecord(k) ==
  \/ ReadMaster(k) \/ ReadSlave(k) \/ ReadDcConf(k) \/ ReadWatchdog(k)
  \/ ReadModParam(k) \/ ReadSyncManager(k) \/ ReadPdo(k) \/ ReadPdoEntry(k)
  \/ ReadComplexEntry(k) \/ ReadSdoConfig(k) \/ ReadIdnConfig(k) \/ ReadEnd(k)

ParseNext == Attach \/ (\E k \in DOMAIN chain : ReadRecord(k)) \/ Lost \/ Preinit

-----------------------------------------------------------------------------
Children(k, type) ==
  {j \in DOMAIN chain : chain[j].type = type /\ chain[j].in = k}

Ids(seq, slice) == {seq[i].id : i \in slice.first..(slice.first + slice.n - 1)}

\* What is written for a slave stays within what was allocated for it, the
\* terminators of the lists included, and the reader never leaves the image or
\* takes one record for another (491-994): the counts that the producer keeps
\* in three places agree with the records it writes.
ImageUnderstood ==
  /\ load # "Misread"
  /\ pos <= length
  /\ load # "Unmapped" => \A i \in DOMAIN slaves : LET sl == slaves[i] IN
       /\ Len(sl.sms) <= sl.nsms /\ Len(sl.pdos) <= sl.npdos
       /\ Len(sl.entries) <= sl.nentries /\ Len(sl.pins) <= sl.npins
       /\ sl.params <= sl.nparams
       /\ sl.sdoUsed <= sl.sdoSize /\ sl.idnUsed <= sl.idnSize

\* The slices handed to the EtherCAT master are the nesting of the document:
\* every PDO under its sync manager, every entry under its PDO, every pin in
\* the direction of its sync manager (794-930), every SDO command with the
\* slave it stands in, and each command list is walked to its last element,
\* where the terminator is (960, 984).
SlicesAreTheDocument(sl) ==
  /\ {sl.sms[i].id : i \in DOMAIN sl.sms} = Children(sl.id, "SyncManager")
  /\ \A i \in DOMAIN sl.sms : Ids(sl.pdos, sl.sms[i]) = Children(sl.sms[i].id, "Pdo")
  /\ \A i \in DOMAIN sl.pdos :
       LET p == sl.pdos[i]
       IN  {sl.entries[j] : j \in p.first..(p.first + p.n - 1)} = Children(p.id, "PdoEntry")
  /\ \A i \in DOMAIN sl.pins :
       LET sm == chain[chain[chain[sl.pins[i].entry].in].in]
       IN  (sl.pins[i].dir = "HAL_OUT") <=> (sm.dir = "in")

ListsAreTheDocument(sl) ==
  /\ {sl.sdos[i] : i \in DOMAIN sl.sdos} = Children(sl.id, "SdoConfig")
  /\ {sl.idns[i] : i \in DOMAIN sl.idns} = Children(sl.id, "IdnConfig")
  /\ sl.params = sl.nparams /\ Len(sl.pins) = sl.npins
  /\ chain[sl.id].in = masters[sl.master].id

TreeIsTheDocument ==
  load = "Parsed" => \A i \in DOMAIN slaves :
    SlicesAreTheDocument(slaves[i]) /\ ListsAreTheDocument(slaves[i])
=============================================================================
