----------------------------- MODULE LcecSyncs -----------------------------
(***************************************************************************)
(* The builder of the sync manager configuration of a slave: drivers add   *)
(* sync managers, PDOs and PDO entries one by one, and the builder keeps   *)
(* them in three fixed tables that point into each other                   *)
(* (src/src/lcec_ethercat.c).  With autoflow a PDO that is full makes the  *)
(* builder open the next one by itself.                                    *)
(*                                                                         *)
(* A pointer is the number of a slot, 0 is NULL.  The direction, watchdog  *)
(* mode and index numbers that only travel with a slot are left out.       *)
(***************************************************************************)
EXTENDS Integers, Sequences

CONSTANTS
  MaxSyncs,     \* LCEC_MAX_SYNC_COUNT
  MaxPdos,      \* LCEC_MAX_PDO_INFO_COUNT
  MaxEntries,   \* LCEC_MAX_PDO_ENTRY_COUNT
  Objects,      \* what an entry may map
  Limits,       \* the limits a driver may set, see LimitsAssumption
  MaxAsked      \* bound: how many PDOs, and how many entries, a driver asks for

ASSUME TablesAssumption ==
  /\ MaxSyncs \in Nat \ {0} /\ MaxPdos \in Nat \ {0} /\ MaxEntries \in Nat \ {0}
  /\ MaxAsked \in Nat

(* flow: autoflow is enabled; pdos, entries: pdo_limit, pdo_entry_limit.   *)
ASSUME LimitsAssumption ==
  Limits \subseteq [flow : BOOLEAN, pdos : Nat, entries : Nat \ {0}]

SyncSlots == 1 .. MaxSyncs
PdoSlots == 1 .. MaxPdos + 1
EntrySlots == 1 .. MaxEntries + 1

VARIABLES
  limits,                            \* autoflow, pdo_limit, pdo_entry_limit
  syncCount, pdoCount, entryCount,
  syncPdos, syncN,                   \* syncs[i].pdos and n_pdos
  pdoEntries, pdoN,                  \* pdo_infos[i].entries and n_entries
  entries,                           \* pdo_entries[i]
  currPdo,                           \* curr_pdo_info
  error,
  opened,                            \* the driver has called for a PDO in this sync
  askedSyncs, askedPdos, asked       \* history: what the driver has called for

syncVars == <<syncCount, askedSyncs>>
pdoVars == <<pdoCount, syncPdos, syncN, currPdo>>
entryVars == <<entryCount, pdoEntries, pdoN, entries, asked>>
vars == <<limits, syncVars, pdoVars, entryVars, error, opened, askedPdos>>

NoObject == "none"

TypeOK ==
  /\ limits \in Limits
  /\ syncCount \in 0 .. MaxSyncs
  /\ pdoCount \in 0 .. MaxPdos + 1
  /\ entryCount \in 0 .. MaxEntries + 1
  /\ syncPdos \in [SyncSlots -> PdoSlots \cup {0}] /\ syncN \in [SyncSlots -> Nat]
  /\ pdoEntries \in [PdoSlots -> EntrySlots \cup {0}] /\ pdoN \in [PdoSlots -> Nat]
  /\ entries \in [EntrySlots -> Objects \cup {NoObject}]
  /\ currPdo \in PdoSlots \cup {0}
  /\ error \in BOOLEAN /\ opened \in BOOLEAN
  /\ askedSyncs \in Nat /\ askedPdos \in Nat
  /\ asked \in Seq([sync : Nat, object : Objects])

(* lcec_syncs_init, and lcec_syncs_enable_autoflow if the driver wants it. *)
Init ==
  /\ limits \in Limits
  /\ syncCount = 0 /\ pdoCount = 0 /\ entryCount = 0
  /\ syncPdos = [s \in SyncSlots |-> 0] /\ syncN = [s \in SyncSlots |-> 0]
  /\ pdoEntries = [p \in PdoSlots |-> 0] /\ pdoN = [p \in PdoSlots |-> 0]
  /\ entries = [e \in EntrySlots |-> NoObject]
  /\ currPdo = 0 /\ error = FALSE /\ opened = FALSE
  /\ askedSyncs = 0 /\ askedPdos = 0 /\ asked = <<>>

---------------------------------------------------------------------------
RefuseSilently == UNCHANGED error  \* slip: the refusal is not recorded
Refuse == error' = TRUE

(* A slice starts with the first slot that is added to it.                 *)
StartMoved(old, new) == new  \* slip: not only for the first
Start(old, new) == IF old = 0 THEN new ELSE old

(* lcec_syncs_add_sync.                                                    *)
AddSync ==
  /\ askedSyncs <= MaxSyncs /\ askedSyncs' = askedSyncs + 1
  /\ \/ syncCount >= MaxSyncs /\ Refuse /\ UNCHANGED syncCount
     \/ syncCount < MaxSyncs /\ syncCount' = syncCount + 1 /\ UNCHANGED error
  /\ opened' = FALSE
  /\ UNCHANGED <<limits, pdoVars, entryVars, askedPdos>>

(* lcec_syncs_add_pdo_info.  A PDO beyond the limit of the device has been *)
(* linked to its sync by the time it is refused.                           *)
PdosFull == pdoCount > MaxPdos

OpenPdo ==
  \/ PdosFull /\ Refuse /\ UNCHANGED pdoVars
  \/ /\ ~PdosFull
     /\ currPdo' = pdoCount + 1
     /\ syncPdos' = [syncPdos EXCEPT ![syncCount] = Start(@, pdoCount + 1)]
     /\ syncN' = [syncN EXCEPT ![syncCount] = @ + 1]
     /\ \/ limits.flow /\ pdoCount > limits.pdos /\ Refuse /\ UNCHANGED pdoCount
        \/ /\ ~(limits.flow /\ pdoCount > limits.pdos)
           /\ pdoCount' = pdoCount + 1 /\ UNCHANGED error

(* Drivers add a PDO to a sync manager they have added before.             *)
AddPdo ==
  /\ syncCount > 0
  /\ askedPdos < MaxAsked /\ askedPdos' = askedPdos + 1
  /\ OpenPdo
  /\ opened' = TRUE
  /\ UNCHANGED <<limits, syncVars, entryVars>>

(* lcec_syncs_add_pdo_entry.  With autoflow the entry that fills its PDO   *)
(* opens the next one.                                                     *)
FillsLate(n) == limits.flow /\ n > limits.entries  \* slip: > for >=
Fills(n) == limits.flow /\ n >= limits.entries

StoreEntry(object) ==
  /\ entryCount <= MaxEntries
  /\ entryCount' = entryCount + 1
  /\ entries' = [entries EXCEPT ![entryCount + 1] = object]
  /\ pdoEntries' = [pdoEntries EXCEPT ![currPdo] = Start(@, entryCount + 1)]
  /\ pdoN' = [pdoN EXCEPT ![currPdo] = @ + 1]
  /\ \/ Fills(pdoN[currPdo] + 1) /\ OpenPdo
     \/ ~Fills(pdoN[currPdo] + 1) /\ UNCHANGED <<pdoVars, error>>

(* Drivers add entries after they have added a PDO to the sync manager.    *)
AddEntry(object) ==
  /\ opened
  /\ Len(asked) < MaxAsked
  /\ asked' = Append(asked, [sync |-> askedSyncs, object |-> object])
  /\ \/ /\ entryCount > MaxEntries /\ Refuse
        /\ UNCHANGED <<entryCount, pdoEntries, pdoN, entries, pdoVars>>
     \/ StoreEntry(object)
  /\ UNCHANGED <<limits, syncVars, askedPdos, opened>>

Next == AddSync \/ AddPdo \/ \E object \in Objects : AddEntry(object)

Spec == Init /\ [][Next]_vars

---------------------------------------------------------------------------
(* What the EtherCAT master finds when it follows the pointers.            *)
InSync(p, s) == p \in syncPdos[s] .. syncPdos[s] + syncN[s] - 1
InPdo(e, p) == e \in pdoEntries[p] .. pdoEntries[p] + pdoN[p] - 1
Finders(e) == {f \in SyncSlots \X PdoSlots : InSync(f[2], f[1]) /\ InPdo(e, f[2])}

(* Properties.                                                             *)

(* A driver may ignore every return value and check error at the end: if   *)
(* it is clear, each entry it has asked for is in the table, and found     *)
(* once, under the sync manager it was meant for, whatever PDOs autoflow   *)
(* has opened in between.                                                  *)
NothingIsLost ==
  ~error =>
    /\ Len(asked) = entryCount
    /\ \A e \in 1 .. entryCount :
         /\ entries[e] = asked[e].object
         /\ \E p \in PdoSlots : Finders(e) = {<<asked[e].sync, p>>}

(* The pointers never lead beyond the used part of a table: neither to     *)
(* entries, nor to PDOs unless the limit of the device has refused one.    *)
SlicesInTable ==
  /\ \A p \in PdoSlots : pdoN[p] > 0 => pdoEntries[p] + pdoN[p] - 1 <= entryCount
  /\ ~error \/ ~limits.flow \/ limits.pdos >= MaxPdos =>
       \A s \in SyncSlots : syncN[s] > 0 => syncPdos[s] + syncN[s] - 1 <= pdoCount

(* With autoflow no PDO holds more entries than the device supports, and   *)
(* no sync manager more than one PDO beyond pdo_limit, which lcec.h 421    *)
(* calls the limit per sync: it is compared with > (lcec_ethercat.c 124).  *)
LimitsHold ==
  limits.flow /\ ~error =>
    /\ \A p \in PdoSlots : pdoN[p] <= limits.entries
    /\ \A s \in SyncSlots : syncN[s] <= limits.pdos + 1
=============================================================================
