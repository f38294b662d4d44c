-------------------------- MODULE LcecSyncsProofs --------------------------
(***************************************************************************)
(* Theorems about LcecSyncs, for tables of any size, any limits of the     *)
(* device and any number of calls.                                         *)
(***************************************************************************)
EXTENDS LcecSyncs, TLAPS

(* The pointers are set when they are followed: a driver that adds entries *)
(* has a current PDO, and so has a builder with a PDO in its table.        *)
Protocol ==
  /\ opened => syncCount > 0 /\ currPdo # 0
  /\ pdoCount > 0 => currPdo # 0

Typed == TypeOK /\ Protocol

(* The builder starts well typed.                                          *)
LEMMA TypeInit == Init => Typed
<1> SUFFICES ASSUME Init PROVE Typed
  OBVIOUS
<1>1. /\ syncCount \in 0 .. MaxSyncs /\ pdoCount \in 0 .. MaxPdos + 1
      /\ entryCount \in 0 .. MaxEntries + 1
  BY TablesAssumption DEF Init
<1>2. asked \in Seq([sync : Nat, object : Objects])
  BY DEF Init
<1>3. /\ syncPdos \in [SyncSlots -> PdoSlots \cup {0}] /\ syncN \in [SyncSlots -> Nat]
      /\ pdoEntries \in [PdoSlots -> EntrySlots \cup {0}] /\ pdoN \in [PdoSlots -> Nat]
      /\ entries \in [EntrySlots -> Objects \cup {NoObject}]
  BY DEF Init
<1>4. currPdo = 0 /\ askedSyncs \in Nat /\ askedPdos \in Nat
  BY DEF Init
<1>5. limits \in Limits /\ error \in BOOLEAN /\ opened \in BOOLEAN
  BY Zenon DEF Init
<1>6. TypeOK
  BY <1>1, <1>2, <1>3, <1>4, <1>5, Zenon DEF TypeOK
<1>7. ~opened /\ ~(pdoCount > 0)
  BY DEF Init
<1> QED
  BY <1>6, <1>7 DEF Typed, Protocol

(* Opening a PDO keeps its tables, and leaves a current PDO.               *)
LEMMA OpenPdoType ==
  ASSUME Typed, syncCount > 0, OpenPdo
  PROVE  /\ pdoCount' \in 0 .. MaxPdos + 1
         /\ syncPdos' \in [SyncSlots -> PdoSlots \cup {0}]
         /\ syncN' \in [SyncSlots -> Nat]
         /\ currPdo' \in PdoSlots
         /\ error' \in BOOLEAN
<1>1. /\ syncCount \in SyncSlots /\ pdoCount \in 0 .. MaxPdos + 1
      /\ MaxPdos \in Nat \ {0}
  BY TablesAssumption DEF Typed, TypeOK, SyncSlots
<1>2. CASE PdosFull /\ Refuse /\ UNCHANGED pdoVars
  BY <1>1, <1>2 DEF Typed, TypeOK, Protocol, PdosFull, Refuse, pdoVars, PdoSlots
<1>3. CASE ~PdosFull
  <2>1. pdoCount + 1 \in PdoSlots /\ pdoCount + 1 \in 0 .. MaxPdos + 1
    BY <1>1, <1>3 DEF PdosFull, PdoSlots
  <2>2. currPdo' \in PdoSlots
    BY <1>3, <2>1 DEF OpenPdo
  <2>3. syncN[syncCount] + 1 \in Nat
    BY <1>1 DEF Typed, TypeOK
  <2>4. syncN' \in [SyncSlots -> Nat]
    BY <1>3, <2>3 DEF OpenPdo, Typed, TypeOK
  <2>5. Start(syncPdos[syncCount], pdoCount + 1) \in PdoSlots \cup {0}
    BY <1>1, <2>1 DEF Start, Typed, TypeOK
  <2>6. syncPdos' \in [SyncSlots -> PdoSlots \cup {0}]
    BY <1>3, <2>5 DEF OpenPdo, Typed, TypeOK
  <2>7. pdoCount' \in 0 .. MaxPdos + 1
    BY <1>1, <1>3, <2>1 DEF OpenPdo
  <2>8. error' \in BOOLEAN
    BY <1>3 DEF OpenPdo, Refuse, Typed, TypeOK
  <2> QED
    BY <2>2, <2>4, <2>6, <2>7, <2>8
<1> QED
  BY <1>2, <1>3 DEF OpenPdo

(* Storing an entry keeps the table of the entries and their slices.       *)
LEMMA StoreEntryType ==
  ASSUME Typed, opened, NEW object \in Objects, StoreEntry(object)
  PROVE  /\ entryCount' \in 0 .. MaxEntries + 1
         /\ entries' \in [EntrySlots -> Objects \cup {NoObject}]
         /\ pdoEntries' \in [PdoSlots -> EntrySlots \cup {0}]
         /\ pdoN' \in [PdoSlots -> Nat]
<1>1. /\ entryCount + 1 \in EntrySlots /\ entryCount + 1 \in 0 .. MaxEntries + 1
      /\ currPdo \in PdoSlots
  BY TablesAssumption DEF Typed, TypeOK, Protocol, StoreEntry, EntrySlots
<1>2. entryCount' \in 0 .. MaxEntries + 1
  BY <1>1 DEF StoreEntry
<1>3. entries' \in [EntrySlots -> Objects \cup {NoObject}]
  BY <1>1 DEF StoreEntry, Typed, TypeOK
<1>4. Start(pdoEntries[currPdo], entryCount + 1) \in EntrySlots \cup {0}
  BY <1>1 DEF Start, Typed, TypeOK
<1>5. pdoEntries' \in [PdoSlots -> EntrySlots \cup {0}]
  BY <1>4 DEF StoreEntry, Typed, TypeOK
<1>6. pdoN[currPdo] + 1 \in Nat
  BY <1>1 DEF Typed, TypeOK
<1>7. pdoN' \in [PdoSlots -> Nat]
  BY <1>6 DEF StoreEntry, Typed, TypeOK
<1> QED
  BY <1>2, <1>3, <1>5, <1>7

(* Every call preserves the types.                                         *)
LEMMA TypeStep == Typed /\ [Next]_vars => Typed'
<1> SUFFICES ASSUME Typed, [Next]_vars PROVE Typed'
  OBVIOUS
<1>1. CASE AddSync
  <2>1. syncCount' \in 0 .. MaxSyncs /\ error' \in BOOLEAN
    <3>1. CASE syncCount >= MaxSyncs /\ Refuse /\ UNCHANGED syncCount
      BY <3>1 DEF Typed, TypeOK, Refuse
    <3>2. CASE syncCount < MaxSyncs /\ syncCount' = syncCount + 1 /\ UNCHANGED error
      <4>1. syncCount' \in 0 .. MaxSyncs
        BY <3>2, TablesAssumption DEF Typed, TypeOK
      <4> QED
        BY <3>2, <4>1 DEF Typed, TypeOK
    <3> QED
      BY <1>1, <3>1, <3>2 DEF AddSync
  <2>2. askedSyncs' \in Nat /\ opened' = FALSE
    BY <1>1 DEF Typed, TypeOK, AddSync
  <2>3. TypeOK'
    BY <1>1, <2>1, <2>2 DEF Typed, TypeOK, AddSync, pdoVars, entryVars
  <2> QED
    BY <1>1, <2>2, <2>3 DEF Typed, Protocol, AddSync, pdoVars
<1>2. CASE AddPdo
  <2>1. syncCount > 0 /\ OpenPdo
    BY <1>2 DEF AddPdo
  <2>2. TypeOK'
    BY <1>2, <2>1, OpenPdoType DEF Typed, TypeOK, AddPdo, syncVars, entryVars
  <2>3. currPdo' # 0
    BY <2>1, OpenPdoType, TablesAssumption DEF PdoSlots
  <2> QED
    BY <1>2, <2>1, <2>2, <2>3 DEF Typed, Protocol, AddPdo, syncVars
<1>3. ASSUME NEW object \in Objects, AddEntry(object)
      PROVE  Typed'
  <2>1. opened /\ syncCount > 0 /\ currPdo \in PdoSlots /\ UNCHANGED <<limits, syncVars, askedPdos, opened>>
    BY <1>3 DEF AddEntry, Typed, TypeOK, Protocol
  <2>2. asked' \in Seq([sync : Nat, object : Objects])
    BY <1>3 DEF AddEntry, Typed, TypeOK
  <2>3. CASE /\ Refuse /\ UNCHANGED <<entryCount, pdoEntries, pdoN, entries, pdoVars>>
    BY <2>1, <2>2, <2>3 DEF Typed, TypeOK, Protocol, Refuse, pdoVars, syncVars
  <2>4. CASE StoreEntry(object)
    <3>1. /\ pdoCount' \in 0 .. MaxPdos + 1
          /\ syncPdos' \in [SyncSlots -> PdoSlots \cup {0}]
          /\ syncN' \in [SyncSlots -> Nat]
          /\ currPdo' \in PdoSlots
          /\ error' \in BOOLEAN
      <4>1. CASE OpenPdo
        BY <2>1, <4>1, OpenPdoType
      <4>2. CASE UNCHANGED <<pdoVars, error>>
        BY <2>1, <4>2 DEF pdoVars, Typed, TypeOK
      <4> QED
        BY <2>4, <4>1, <4>2 DEF StoreEntry
    <3>2. currPdo' # 0
      BY <3>1, TablesAssumption DEF PdoSlots
    <3>3. TypeOK'
      BY <2>1, <2>2, <2>4, <3>1, StoreEntryType DEF Typed, TypeOK, syncVars
    <3> QED
      BY <2>1, <3>2, <3>3 DEF Typed, Protocol, syncVars
  <2> QED
    BY <1>3, <2>3, <2>4 DEF AddEntry
<1>4. CASE UNCHANGED vars
  BY <1>4 DEF Typed, TypeOK, Protocol, vars, syncVars, pdoVars, entryVars
<1> QED
  BY <1>1, <1>2, <1>3, <1>4 DEF Next

(* The pointers and counts always stand for slots of the tables: no call   *)
(* writes beyond them, however many calls a driver makes.                  *)
THEOREM TypeCorrect == Spec => []TypeOK
<1>1. Typed => TypeOK
  BY DEF Typed
<1> QED
  BY <1>1, TypeInit, TypeStep, PTL DEF Spec

(* With the protocol of the drivers.                                       *)
LEMMA TypedCorrect == Spec => []Typed
BY TypeInit, TypeStep, PTL DEF Spec

---------------------------------------------------------------------------
(* The slices.  Each PDO in use starts at a slot and ends within the used  *)
(* part of the table of the entries; each sync manager likewise in the     *)
(* table of the PDOs, as long as the device has not refused one.           *)
Tolerant == ~error \/ ~limits.flow \/ limits.pdos >= MaxPdos
PdoSlice(p) ==
  /\ pdoEntries[p] = 0 <=> pdoN[p] = 0
  /\ pdoN[p] > 0 => pdoEntries[p] + pdoN[p] - 1 <= entryCount
SyncSlice(s) ==
  /\ syncPdos[s] = 0 <=> syncN[s] = 0
  /\ Tolerant /\ syncN[s] > 0 => syncPdos[s] + syncN[s] - 1 <= pdoCount
Slices == (\A p \in PdoSlots : PdoSlice(p)) /\ (\A s \in SyncSlots : SyncSlice(s))

(* Opening a PDO extends the slice of the current sync manager by the slot *)
(* it takes.                                                               *)
LEMMA OpenPdoSlices ==
  ASSUME Typed, syncCount > 0, UNCHANGED limits, OpenPdo,
         NEW s \in SyncSlots, SyncSlice(s)
  PROVE  SyncSlice(s)'
<1>1. /\ pdoCount \in Nat /\ MaxPdos \in Nat /\ limits.pdos \in Nat
      /\ syncPdos[s] \in Nat /\ syncN[s] \in Nat
  BY TablesAssumption, LimitsAssumption DEF Typed, TypeOK, PdoSlots
<1>2. CASE PdosFull /\ Refuse /\ UNCHANGED pdoVars
  <2>1. Tolerant' => Tolerant
    BY <1>2 DEF Tolerant, Refuse
  <2> QED
    BY <1>2, <2>1 DEF SyncSlice, pdoVars
<1>3. CASE ~PdosFull
  <2>1. CASE limits.flow /\ pdoCount > limits.pdos /\ Refuse /\ UNCHANGED pdoCount
    <3>1. ~Tolerant'
      BY <1>1, <1>3, <2>1 DEF Tolerant, Refuse, PdosFull
    <3>2. CASE s = syncCount
      <4>1. /\ syncPdos'[s] = Start(syncPdos[s], pdoCount + 1)
            /\ syncN'[s] = syncN[s] + 1
        BY <1>3, <3>2 DEF OpenPdo, Typed, TypeOK
      <4>2. syncPdos'[s] # 0 /\ syncN'[s] # 0
        BY <1>1, <4>1 DEF Start
      <4> QED
        BY <3>1, <4>2 DEF SyncSlice
    <3>3. CASE s # syncCount
      <4>1. syncPdos'[s] = syncPdos[s] /\ syncN'[s] = syncN[s]
        BY <1>3, <3>3 DEF OpenPdo, Typed, TypeOK
      <4> QED
        BY <3>1, <4>1 DEF SyncSlice
    <3> QED
      BY <3>2, <3>3
  <2>2. CASE pdoCount' = pdoCount + 1 /\ UNCHANGED error
    <3>1. Tolerant' <=> Tolerant
      BY <2>2 DEF Tolerant
    <3>2. CASE s = syncCount
      <4>1. /\ syncPdos'[s] = Start(syncPdos[s], pdoCount + 1)
            /\ syncN'[s] = syncN[s] + 1
        BY <1>3, <3>2 DEF OpenPdo, Typed, TypeOK
      <4>2. syncPdos'[s] # 0 /\ syncN'[s] # 0
        BY <1>1, <4>1 DEF Start
      <4>3. Tolerant => syncPdos'[s] + syncN'[s] - 1 <= pdoCount'
        BY <1>1, <2>2, <4>1 DEF SyncSlice, Start
      <4> QED
        BY <3>1, <4>2, <4>3 DEF SyncSlice
    <3>3. CASE s # syncCount
      <4>1. syncPdos'[s] = syncPdos[s] /\ syncN'[s] = syncN[s]
        BY <1>3, <3>3 DEF OpenPdo, Typed, TypeOK
      <4> QED
        BY <1>1, <2>2, <3>1, <4>1 DEF SyncSlice
    <3> QED
      BY <3>2, <3>3
  <2> QED
    BY <1>3, <2>1, <2>2 DEF OpenPdo
<1> QED
  BY <1>2, <1>3 DEF OpenPdo

(* Storing an entry extends the slice of the current PDO by its slot.      *)
LEMMA StoreEntrySlices ==
  ASSUME Typed, opened, NEW object \in Objects, StoreEntry(object),
         NEW p \in PdoSlots, PdoSlice(p)
  PROVE  PdoSlice(p)'
<1>1. /\ entryCount \in Nat /\ entryCount' = entryCount + 1
      /\ pdoEntries[p] \in Nat /\ pdoN[p] \in Nat
  BY TablesAssumption DEF Typed, TypeOK, StoreEntry, EntrySlots
<1>2. CASE p = currPdo
  <2>1. /\ pdoEntries'[p] = Start(pdoEntries[p], entryCount + 1)
        /\ pdoN'[p] = pdoN[p] + 1
    BY <1>2 DEF StoreEntry, Typed, TypeOK
  <2> QED
    BY <1>1, <2>1 DEF PdoSlice, Start
<1>3. CASE p # currPdo
  <2>1. pdoEntries'[p] = pdoEntries[p] /\ pdoN'[p] = pdoN[p]
    BY <1>3 DEF StoreEntry, Typed, TypeOK
  <2> QED
    BY <1>1, <2>1 DEF PdoSlice
<1> QED
  BY <1>2, <1>3

(* Every slice is empty when the tables are cleared.                       *)
LEMMA SlicesInit == Init => Slices
BY DEF Init, Slices, PdoSlice, SyncSlice

(* Every call preserves the slices.                                        *)
LEMMA SlicesStep == Typed /\ Slices /\ [Next]_vars => Slices'
<1> SUFFICES ASSUME Typed, Slices, [Next]_vars PROVE Slices'
  OBVIOUS
<1>1. ASSUME UNCHANGED <<limits, pdoVars>>, error => error', NEW s \in SyncSlots
      PROVE  SyncSlice(s)'
  BY <1>1 DEF Slices, SyncSlice, Tolerant, pdoVars
<1>2. ASSUME UNCHANGED <<entryCount, pdoEntries, pdoN>>, NEW p \in PdoSlots
      PROVE  PdoSlice(p)'
  BY <1>2 DEF Slices, PdoSlice
<1>3. CASE AddSync \/ UNCHANGED vars
  <2>1. UNCHANGED <<limits, pdoVars, entryVars>> /\ (error => error')
    BY <1>3 DEF AddSync, Refuse, vars
  <2> QED
    BY <1>1, <1>2, <2>1 DEF Slices, entryVars
<1>4. CASE AddPdo
  <2>1. \A s \in SyncSlots : SyncSlice(s)'
    BY <1>4, OpenPdoSlices DEF AddPdo, Slices
  <2>2. \A p \in PdoSlots : PdoSlice(p)'
    BY <1>2, <1>4 DEF AddPdo, entryVars
  <2> QED
    BY <2>1, <2>2 DEF Slices
<1>5. ASSUME NEW object \in Objects, AddEntry(object)
      PROVE  Slices'
  <2>1. opened /\ syncCount > 0 /\ UNCHANGED limits
    BY <1>5 DEF AddEntry, Typed, Protocol
  <2>2. CASE Refuse /\ UNCHANGED <<entryCount, pdoEntries, pdoN, entries, pdoVars>>
    BY <1>1, <1>2, <2>1, <2>2 DEF Refuse, Slices
  <2>3. CASE StoreEntry(object)
    <3>1. \A p \in PdoSlots : PdoSlice(p)'
      BY <2>1, <2>3, StoreEntrySlices DEF Slices
    <3>2. CASE OpenPdo
      BY <2>1, <3>1, <3>2, OpenPdoSlices DEF Slices
    <3>3. CASE UNCHANGED <<pdoVars, error>>
      BY <1>1, <2>1, <3>1, <3>3 DEF Slices
    <3> QED
      BY <2>3, <3>2, <3>3 DEF StoreEntry
  <2> QED
    BY <1>5, <2>2, <2>3 DEF AddEntry
<1> QED
  BY <1>3, <1>4, <1>5 DEF Next

(* Whoever follows the pointers of the builder stays within the slots that *)
(* have been filled.                                                       *)
THEOREM SlicesInTableCorrect == Spec => []SlicesInTable
<1>1. Slices => SlicesInTable
  BY DEF Slices, PdoSlice, SyncSlice, SlicesInTable, Tolerant
<1> QED
  BY <1>1, SlicesInit, SlicesStep, TypedCorrect, PTL DEF Spec

---------------------------------------------------------------------------
(* The limit of the device on the entries of a PDO.  With autoflow the     *)
(* current PDO has room, and so has every PDO that is not open yet.        *)
Room ==
  limits.flow /\ ~error =>
    /\ currPdo = pdoCount
    /\ \A p \in PdoSlots :
         /\ pdoN[p] <= limits.entries
         /\ p = currPdo => pdoN[p] < limits.entries
         /\ p > pdoCount => pdoN[p] = 0

(* The cleared tables have room.                                           *)
LEMMA RoomInit == Init => Room
BY LimitsAssumption DEF Init, Room

(* Every call leaves room for the next entry.                              *)
LEMMA RoomStep == Typed /\ Room /\ [Next]_vars => Room'
<1> SUFFICES ASSUME Typed, Room, [Next]_vars, limits.flow, ~error'
             PROVE  /\ currPdo' = pdoCount'
                    /\ \A p \in PdoSlots :
                         /\ pdoN'[p] <= limits.entries
                         /\ p = currPdo' => pdoN'[p] < limits.entries
                         /\ p > pdoCount' => pdoN'[p] = 0
  <2>1. Next \/ UNCHANGED vars => UNCHANGED limits
    BY Zenon DEF Next, AddSync, AddPdo, AddEntry, vars
  <2> QED
    BY <2>1 DEF Room
<1>1. limits.entries \in Nat \ {0} /\ pdoCount \in Nat
  BY LimitsAssumption, TablesAssumption DEF Typed, TypeOK
<1>2. ASSUME ~error
      PROVE  /\ currPdo = pdoCount
             /\ \A p \in PdoSlots :
                  /\ pdoN[p] \in Nat /\ pdoN[p] <= limits.entries
                  /\ p = currPdo => pdoN[p] < limits.entries
                  /\ p > pdoCount => pdoN[p] = 0
  BY <1>2 DEF Room, Typed, TypeOK
<1>3. ASSUME OpenPdo
      PROVE  ~error /\ currPdo' = pdoCount + 1 /\ pdoCount' = pdoCount + 1
  BY <1>3 DEF OpenPdo, Refuse
<1>4. CASE AddSync \/ UNCHANGED vars
  <2>1. UNCHANGED <<pdoVars, entryVars, error>>
    BY <1>4 DEF AddSync, Refuse, vars
  <2> QED
    BY <1>2, <2>1 DEF pdoVars, entryVars
<1>5. CASE AddPdo
  <2>1. OpenPdo /\ UNCHANGED pdoN
    BY <1>5 DEF AddPdo, entryVars
  <2>2. ~error /\ currPdo' = pdoCount + 1 /\ pdoCount' = pdoCount + 1
    BY <1>3, <2>1
  <2> QED
    BY <1>1, <1>2, <2>1, <2>2 DEF PdoSlots
<1>6. ASSUME NEW object \in Objects, AddEntry(object)
      PROVE  /\ currPdo' = pdoCount'
             /\ \A p \in PdoSlots :
                  /\ pdoN'[p] <= limits.entries
                  /\ p = currPdo' => pdoN'[p] < limits.entries
                  /\ p > pdoCount' => pdoN'[p] = 0
  <2>1. StoreEntry(object) /\ currPdo \in PdoSlots
    BY <1>6 DEF AddEntry, Refuse, Typed, TypeOK, Protocol
  <2>2. /\ pdoN'[currPdo] = pdoN[currPdo] + 1
        /\ \A p \in PdoSlots : p # currPdo => pdoN'[p] = pdoN[p]
    BY <2>1 DEF StoreEntry, Typed, TypeOK
  <2>3. CASE Fills(pdoN[currPdo] + 1) /\ OpenPdo
    <3>1. ~error /\ currPdo' = pdoCount + 1 /\ pdoCount' = pdoCount + 1
      BY <1>3, <2>3
    <3> QED
      BY <1>1, <1>2, <2>1, <2>2, <3>1 DEF PdoSlots
  <2>4. CASE ~Fills(pdoN[currPdo] + 1) /\ UNCHANGED <<pdoVars, error>>
    <3>1. ~error /\ currPdo' = currPdo /\ pdoCount' = pdoCount
      BY <2>4 DEF pdoVars
    <3>2. pdoN[currPdo] + 1 < limits.entries
      BY <1>1, <1>2, <2>1, <2>4, <3>1 DEF Fills
    <3> QED
      BY <1>1, <1>2, <2>1, <2>2, <3>1, <3>2 DEF PdoSlots
  <2> QED
    BY <2>1, <2>3, <2>4 DEF StoreEntry
<1> QED
  BY <1>4, <1>5, <1>6 DEF Next

(* No more than one PDO is accepted beyond the limit, for all sync managers *)
(* together.                                                               *)
Few ==
  limits.flow /\ ~error =>
    /\ pdoCount <= limits.pdos + 1
    /\ \A s \in SyncSlots : syncN[s] <= pdoCount

LEMMA FewInit == Init => Few
BY LimitsAssumption DEF Init, Few

LEMMA FewStep == Typed /\ Few /\ [Next]_vars => Few'
<1> SUFFICES ASSUME Typed, Few, [Next]_vars, limits.flow, ~error'
             PROVE  pdoCount' <= limits.pdos + 1 /\ \A s \in SyncSlots : syncN'[s] <= pdoCount'
  <2>1. Next \/ UNCHANGED vars => UNCHANGED limits
    BY Zenon DEF Next, AddSync, AddPdo, AddEntry, vars
  <2> QED
    BY <2>1 DEF Few
<1>1. /\ limits.pdos \in Nat /\ pdoCount \in Nat
      /\ syncN \in [SyncSlots -> Nat]
  BY LimitsAssumption, TablesAssumption DEF Typed, TypeOK
<1>2. ASSUME UNCHANGED <<pdoVars, error>>
      PROVE  pdoCount' <= limits.pdos + 1 /\ \A s \in SyncSlots : syncN'[s] <= pdoCount'
  BY <1>2 DEF Few, pdoVars
<1>3. ASSUME OpenPdo
      PROVE  pdoCount' <= limits.pdos + 1 /\ \A s \in SyncSlots : syncN'[s] <= pdoCount'
  <2>1. /\ ~error /\ ~(pdoCount > limits.pdos) /\ pdoCount' = pdoCount + 1
        /\ syncN' = [syncN EXCEPT ![syncCount] = @ + 1]
    BY <1>3 DEF OpenPdo, Refuse
  <2>2. \A s \in SyncSlots : syncN[s] <= pdoCount
    BY <2>1 DEF Few
  <2> QED
    BY <1>1, <2>1, <2>2
<1>4. CASE AddSync \/ UNCHANGED vars
  BY <1>2, <1>4 DEF AddSync, Refuse, vars, pdoVars
<1>5. CASE AddPdo
  BY <1>3, <1>5 DEF AddPdo
<1>6. ASSUME NEW object \in Objects, AddEntry(object)
      PROVE  pdoCount' <= limits.pdos + 1 /\ \A s \in SyncSlots : syncN'[s] <= pdoCount'
  BY <1>2, <1>3, <1>6 DEF AddEntry, StoreEntry, Refuse
<1> QED
  BY <1>4, <1>5, <1>6 DEF Next

(* With autoflow no PDO is filled beyond what the device supports, and no  *)
(* sync manager is given more than one PDO beyond its limit                *)
(* (lcec_ethercat.c 98-169).                                               *)
THEOREM LimitsHoldCorrect == Spec => []LimitsHold
<1>1. Typed /\ Room /\ Few => LimitsHold
  <2> SUFFICES ASSUME Typed, Few, limits.flow, ~error, NEW s \in SyncSlots
               PROVE  syncN[s] <= limits.pdos + 1
    BY DEF Room, LimitsHold
  <2>1. limits.pdos \in Nat /\ pdoCount \in Nat /\ syncN[s] \in Nat
    BY LimitsAssumption, TablesAssumption DEF Typed, TypeOK
  <2> QED
    BY <2>1 DEF Few
<1> QED
  BY <1>1, RoomInit, RoomStep, FewInit, FewStep, TypedCorrect, PTL DEF Spec

---------------------------------------------------------------------------
(* The order of the tables.  As long as error is clear the current PDO is  *)
(* the last one, no sync manager beyond the last has a PDO, the slice of   *)
(* the last one ends with the last PDO, and the slices do not overlap.     *)
SyncOrder ==
  ~error =>
    /\ syncCount = askedSyncs /\ currPdo = pdoCount
    /\ opened => syncN[syncCount] > 0
    /\ \A s \in SyncSlots :
         /\ s > syncCount => syncN[s] = 0
         /\ s = syncCount /\ syncN[s] > 0 => syncPdos[s] + syncN[s] - 1 = pdoCount
    /\ \A s, t \in SyncSlots, p \in PdoSlots : InSync(p, s) /\ InSync(p, t) => s = t

(* The same for the PDOs and their entries.                                *)
PdoOrder ==
  ~error =>
    /\ \A p \in PdoSlots :
         /\ p > pdoCount => pdoN[p] = 0
         /\ p = pdoCount /\ pdoN[p] > 0 => pdoEntries[p] + pdoN[p] - 1 = entryCount
    /\ \A p, q \in PdoSlots, e \in EntrySlots : InPdo(e, p) /\ InPdo(e, q) => p = q

(* Each entry asked for is stored, in a PDO of its sync manager.           *)
Placed(e) ==
  /\ entries[e] = asked[e].object /\ asked[e].sync \in SyncSlots
  /\ \E p \in PdoSlots : InPdo(e, p) /\ InSync(p, asked[e].sync)

Owned == ~error => Len(asked) = entryCount /\ \A e \in 1 .. entryCount : Placed(e)

Order == SyncOrder /\ PdoOrder /\ Owned

(* Opening a PDO without an error adds it to the sync manager, and nothing *)
(* else.                                                                   *)
LEMMA OpenPdoExtends ==
  ASSUME Typed, Slices, SyncOrder, syncCount > 0, OpenPdo, ~error'
  PROVE  /\ ~error /\ pdoCount' = pdoCount + 1 /\ currPdo' = pdoCount'
         /\ syncN'[syncCount] > 0
         /\ syncPdos'[syncCount] + syncN'[syncCount] - 1 = pdoCount'
         /\ \A s \in SyncSlots : s # syncCount => syncN'[s] = syncN[s]
         /\ \A s \in SyncSlots, p \in PdoSlots :
              InSync(p, s)' <=> InSync(p, s) \/ (s = syncCount /\ p = pdoCount + 1)
<1>1. /\ ~error /\ ~PdosFull /\ pdoCount' = pdoCount + 1 /\ currPdo' = pdoCount + 1
      /\ syncPdos' = [syncPdos EXCEPT ![syncCount] = Start(@, pdoCount + 1)]
      /\ syncN' = [syncN EXCEPT ![syncCount] = @ + 1]
  BY DEF OpenPdo, Refuse
<1>2. /\ syncCount \in SyncSlots /\ pdoCount \in Nat
      /\ syncPdos[syncCount] \in Nat /\ syncN[syncCount] \in Nat
  BY TablesAssumption DEF Typed, TypeOK, SyncSlots, PdoSlots
<1>3. /\ syncPdos'[syncCount] = Start(syncPdos[syncCount], pdoCount + 1)
      /\ syncN'[syncCount] = syncN[syncCount] + 1
      /\ \A s \in SyncSlots : s # syncCount => syncPdos'[s] = syncPdos[s] /\ syncN'[s] = syncN[s]
  BY <1>1, <1>2 DEF Typed, TypeOK
<1>4. /\ syncPdos[syncCount] = 0 <=> syncN[syncCount] = 0
      /\ syncN[syncCount] > 0 => syncPdos[syncCount] + syncN[syncCount] - 1 = pdoCount
  BY <1>1, <1>2 DEF Slices, SyncSlice, SyncOrder
<1>5. ASSUME NEW s \in SyncSlots, NEW p \in PdoSlots, s = syncCount
      PROVE  InSync(p, s)' <=> InSync(p, s) \/ p = pdoCount + 1
  <2>1. p \in Nat /\ p > 0
    BY TablesAssumption DEF PdoSlots
  <2>2. InSync(p, s)' <=> p \in syncPdos'[s] .. syncPdos'[s] + syncN'[s] - 1
    BY DEF InSync
  <2> QED
    BY <1>2, <1>3, <1>4, <1>5, <2>1, <2>2 DEF InSync, Start
<1>6. ASSUME NEW s \in SyncSlots, NEW p \in PdoSlots, s # syncCount
      PROVE  InSync(p, s)' <=> InSync(p, s)
  <2>1. syncPdos'[s] = syncPdos[s] /\ syncN'[s] = syncN[s]
    BY <1>3, <1>6
  <2> QED
    BY <2>1 DEF InSync
<1>7. syncN'[syncCount] > 0 /\ syncPdos'[syncCount] + syncN'[syncCount] - 1 = pdoCount + 1
  BY <1>2, <1>3, <1>4 DEF Start
<1> QED
  BY <1>1, <1>3, <1>5, <1>6, <1>7

(* Storing an entry adds its slot to the current PDO, and nothing else.    *)
LEMMA StoreEntryExtends ==
  ASSUME Typed, Slices, PdoOrder, opened, currPdo = pdoCount, ~error,
         NEW object \in Objects, StoreEntry(object)
  PROVE  /\ entryCount' = entryCount + 1 /\ entryCount + 1 \in EntrySlots
         /\ entries'[entryCount + 1] = object
         /\ \A e \in EntrySlots : e <= entryCount => entries'[e] = entries[e]
         /\ \A p \in PdoSlots :
              /\ p # currPdo => pdoN'[p] = pdoN[p] /\ pdoEntries'[p] = pdoEntries[p]
              /\ p = currPdo => pdoEntries'[p] + pdoN'[p] - 1 = entryCount'
         /\ \A p \in PdoSlots, e \in EntrySlots :
              InPdo(e, p)' <=> InPdo(e, p) \/ (p = currPdo /\ e = entryCount + 1)
<1>1. /\ entryCount <= MaxEntries /\ entryCount' = entryCount + 1
      /\ entries' = [entries EXCEPT ![entryCount + 1] = object]
      /\ pdoEntries' = [pdoEntries EXCEPT ![currPdo] = Start(@, entryCount + 1)]
      /\ pdoN' = [pdoN EXCEPT ![currPdo] = @ + 1]
  BY DEF StoreEntry
<1>2. /\ entryCount \in Nat /\ entryCount + 1 \in EntrySlots /\ currPdo \in PdoSlots
      /\ \A p \in PdoSlots : pdoEntries[p] \in Nat /\ pdoN[p] \in Nat
  BY <1>1, TablesAssumption DEF Typed, TypeOK, Protocol, EntrySlots
<1>3. \A e \in EntrySlots : e <= entryCount => entries'[e] = entries[e]
  BY <1>1, <1>2, TablesAssumption DEF Typed, TypeOK, EntrySlots
<1>4. entries'[entryCount + 1] = object
  BY <1>1, <1>2 DEF Typed, TypeOK
<1>5. \A p \in PdoSlots :
        /\ p = currPdo => /\ pdoEntries'[p] = Start(pdoEntries[p], entryCount + 1)
                          /\ pdoN'[p] = pdoN[p] + 1
        /\ p # currPdo => pdoEntries'[p] = pdoEntries[p] /\ pdoN'[p] = pdoN[p]
  BY <1>1, <1>2 DEF Typed, TypeOK
<1>6. \A p \in PdoSlots :
        /\ pdoEntries[p] = 0 <=> pdoN[p] = 0
        /\ p = currPdo /\ pdoN[p] > 0 => pdoEntries[p] + pdoN[p] - 1 = entryCount
  BY DEF Slices, PdoSlice, PdoOrder
<1>7. \A p \in PdoSlots : p = currPdo => pdoEntries'[p] + pdoN'[p] - 1 = entryCount'
  BY <1>1, <1>2, <1>5, <1>6 DEF Start
<1>8. ASSUME NEW p \in PdoSlots, NEW e \in EntrySlots
      PROVE  InPdo(e, p)' <=> InPdo(e, p) \/ (p = currPdo /\ e = entryCount + 1)
  <2>1. e \in Nat /\ e > 0
    BY TablesAssumption DEF EntrySlots
  <2>2. InPdo(e, p)' <=> e \in pdoEntries'[p] .. pdoEntries'[p] + pdoN'[p] - 1
    BY DEF InPdo
  <2>3. CASE p = currPdo
    BY <1>2, <1>5, <1>6, <2>1, <2>2, <2>3 DEF InPdo, Start
  <2>4. CASE p # currPdo
    BY <1>5, <2>2, <2>4 DEF InPdo
  <2> QED
    BY <2>3, <2>4
<1> QED
  BY <1>1, <1>2, <1>3, <1>4, <1>5, <1>7, <1>8

(* As long as error is clear no slice reaches beyond what is in use.       *)
LEMMA WithinUse ==
  ASSUME Typed, Slices, ~error
  PROVE  /\ \A s \in SyncSlots, p \in PdoSlots : InSync(p, s) => p <= pdoCount
         /\ \A p \in PdoSlots, e \in EntrySlots : InPdo(e, p) => e <= entryCount
<1>1. ASSUME NEW s \in SyncSlots, NEW p \in PdoSlots, InSync(p, s)
      PROVE  p <= pdoCount
  <2>1. /\ p \in Nat /\ p > 0 /\ pdoCount \in Nat
        /\ syncPdos[s] \in Nat /\ syncN[s] \in Nat
    BY TablesAssumption DEF Typed, TypeOK, PdoSlots
  <2>2. syncPdos[s] <= p /\ p <= syncPdos[s] + syncN[s] - 1
    BY <1>1, <2>1 DEF InSync
  <2>3. syncN[s] > 0 => syncPdos[s] + syncN[s] - 1 <= pdoCount
    BY DEF Slices, SyncSlice, Tolerant
  <2> QED
    BY <2>1, <2>2, <2>3
<1>2. ASSUME NEW p \in PdoSlots, NEW e \in EntrySlots, InPdo(e, p)
      PROVE  e <= entryCount
  <2>1. /\ e \in Nat /\ e > 0 /\ entryCount \in Nat
        /\ pdoEntries[p] \in Nat /\ pdoN[p] \in Nat
    BY TablesAssumption DEF Typed, TypeOK, EntrySlots
  <2>2. pdoEntries[p] <= e /\ e <= pdoEntries[p] + pdoN[p] - 1
    BY <1>2, <2>1 DEF InPdo
  <2>3. pdoN[p] > 0 => pdoEntries[p] + pdoN[p] - 1 <= entryCount
    BY DEF Slices, PdoSlice
  <2> QED
    BY <2>1, <2>2, <2>3
<1> QED
  BY <1>1, <1>2

(* The sync managers after a PDO has been opened without an error.         *)
LEMMA OpenPdoOrder ==
  ASSUME Typed, Slices, SyncOrder, syncCount > 0, OpenPdo, UNCHANGED syncVars, ~error'
  PROVE  SyncOrder'
<1>1. /\ ~error /\ pdoCount' = pdoCount + 1 /\ currPdo' = pdoCount'
      /\ syncN'[syncCount] > 0
      /\ syncPdos'[syncCount] + syncN'[syncCount] - 1 = pdoCount'
      /\ \A s \in SyncSlots : s # syncCount => syncN'[s] = syncN[s]
      /\ \A s \in SyncSlots, p \in PdoSlots :
           InSync(p, s)' <=> InSync(p, s) \/ (s = syncCount /\ p = pdoCount + 1)
  BY OpenPdoExtends
<1>2. /\ syncCount' = syncCount /\ askedSyncs' = askedSyncs
      /\ syncCount = askedSyncs /\ syncCount \in Nat /\ pdoCount \in Nat
  BY <1>1, TablesAssumption DEF syncVars, SyncOrder, Typed, TypeOK
<1>3. ASSUME NEW s \in SyncSlots
      PROVE  /\ s > syncCount => syncN'[s] = 0
             /\ s = syncCount => syncPdos'[s] + syncN'[s] - 1 = pdoCount'
  <2>1. s \in Nat
    BY DEF SyncSlots
  <2> QED
    BY <1>1, <1>2, <2>1 DEF SyncOrder
<1>4. ASSUME NEW s \in SyncSlots, NEW t \in SyncSlots, NEW p \in PdoSlots,
             InSync(p, s)', InSync(p, t)'
      PROVE  s = t
  <2>1. p \in Nat /\ (p = pdoCount + 1 => ~InSync(p, s) /\ ~InSync(p, t))
    BY <1>1, <1>2, WithinUse DEF PdoSlots
  <2>2. InSync(p, s) \/ (s = syncCount /\ p = pdoCount + 1)
    BY <1>1, <1>4
  <2>3. InSync(p, t) \/ (t = syncCount /\ p = pdoCount + 1)
    BY <1>1, <1>4
  <2> QED
    BY <1>1, <2>1, <2>2, <2>3 DEF SyncOrder
<1> QED
  BY <1>1, <1>2, <1>3, <1>4 DEF SyncOrder

(* Entries that were placed stay where they are while a sync manager only  *)
(* gains PDOs and a PDO only gains entries.                                *)
LEMMA PlacedStays ==
  ASSUME NEW e \in EntrySlots, Placed(e), entries'[e] = entries[e], asked'[e] = asked[e],
         \A s \in SyncSlots, p \in PdoSlots : InSync(p, s) => InSync(p, s)',
         \A p \in PdoSlots : InPdo(e, p) => InPdo(e, p)'
  PROVE  Placed(e)'
<1> DEFINE s == asked[e].sync
<1>1. s \in SyncSlots /\ asked'[e].sync = s
  BY DEF Placed
<1>2. PICK p \in PdoSlots : InPdo(e, p) /\ InSync(p, s)
  BY DEF Placed
<1>3. InPdo(e, p)' /\ p \in syncPdos'[s] .. syncPdos'[s] + syncN'[s] - 1
  <2> HIDE DEF s
  <2> QED
    BY <1>1, <1>2 DEF InSync
<1>4. InSync(p, asked[e].sync)'
  BY <1>1, <1>3 DEF InSync
<1> QED
  BY <1>1, <1>3, <1>4 DEF Placed

(* Every call keeps the order, and places what it stores.                  *)
LEMMA OrderStep == Typed /\ Slices /\ Order /\ [Next]_vars => Order'
<1> SUFFICES ASSUME Typed, Slices, Order, [Next]_vars, ~error'
             PROVE  Order'
  BY DEF Order, SyncOrder, PdoOrder, Owned
<1>1. CASE UNCHANGED vars
  BY <1>1 DEF Order, SyncOrder, PdoOrder, Owned, Placed, InSync, InPdo,
              vars, syncVars, pdoVars, entryVars
<1>2. CASE AddSync
  <2>1. /\ ~error /\ syncCount' = syncCount + 1 /\ askedSyncs' = askedSyncs + 1
        /\ opened' = FALSE /\ UNCHANGED <<pdoVars, entryVars>>
    BY <1>2 DEF AddSync, Refuse
  <2>2. /\ syncCount = askedSyncs /\ currPdo = pdoCount /\ syncCount \in Nat
        /\ \A s \in SyncSlots : s \in Nat /\ (s > syncCount => syncN[s] = 0)
    BY <2>1, TablesAssumption DEF Order, SyncOrder, Typed, TypeOK, SyncSlots
  <2>3. SyncOrder'
    <3>1. \A s \in SyncSlots : s >= syncCount + 1 => syncN[s] = 0
      BY <2>2
    <3> QED
      BY <2>1, <2>2, <3>1 DEF Order, SyncOrder, InSync, pdoVars
  <2>4. PdoOrder' /\ Owned'
    BY <2>1 DEF Order, PdoOrder, Owned, Placed, InSync, InPdo, pdoVars, entryVars
  <2> QED
    BY <2>3, <2>4 DEF Order
<1>3. CASE AddPdo
  <2>1. /\ syncCount > 0 /\ OpenPdo /\ UNCHANGED <<syncVars, entryVars>> /\ SyncOrder
    BY <1>3 DEF AddPdo, Order
  <2>2. ~error /\ pdoCount' = pdoCount + 1 /\ pdoCount \in Nat
    BY <2>1, OpenPdoExtends, TablesAssumption DEF Typed, TypeOK
  <2>3. SyncOrder'
    BY <2>1, OpenPdoOrder
  <2>4. PdoOrder'
    <3>1. \A p \in PdoSlots : p \in Nat /\ (p >= pdoCount + 1 => pdoN[p] = 0)
      BY <2>2 DEF Order, PdoOrder, PdoSlots
    <3> QED
      BY <2>1, <2>2, <3>1 DEF Order, PdoOrder, InPdo, entryVars
  <2>5. Owned'
    <3>1. /\ Len(asked) = entryCount /\ \A e \in 1 .. entryCount : Placed(e)
          /\ 1 .. entryCount \subseteq EntrySlots
      BY <2>2, TablesAssumption DEF Order, Owned, Typed, TypeOK, EntrySlots
    <3>2. /\ \A s \in SyncSlots, p \in PdoSlots : InSync(p, s) => InSync(p, s)'
          /\ UNCHANGED <<entries, asked, entryCount>>
          /\ \A e \in EntrySlots, p \in PdoSlots : InPdo(e, p) => InPdo(e, p)'
      BY <2>1, OpenPdoExtends DEF InPdo, entryVars
    <3>3. \A e \in 1 .. entryCount : Placed(e)'
      BY <3>1, <3>2, PlacedStays
    <3> QED
      BY <3>1, <3>2, <3>3 DEF Owned
  <2> QED
    BY <2>3, <2>4, <2>5 DEF Order
<1>4. ASSUME NEW object \in Objects, AddEntry(object)
      PROVE  Order'
  <2>1. /\ opened /\ opened' = opened /\ UNCHANGED syncVars /\ StoreEntry(object)
        /\ asked' = Append(asked, [sync |-> askedSyncs, object |-> object])
    BY <1>4 DEF AddEntry, Refuse
  <2>2. /\ syncCount \in SyncSlots /\ syncCount > 0 /\ currPdo \in PdoSlots
        /\ pdoCount \in Nat /\ entryCount \in Nat
    BY <2>1, TablesAssumption DEF Typed, TypeOK, Protocol, SyncSlots
  <2>3. ~error
    BY <2>1, <2>2 DEF StoreEntry, OpenPdo, Refuse
  <2>4. SyncOrder /\ PdoOrder /\ currPdo = pdoCount /\ syncCount = askedSyncs
    BY <2>3 DEF Order, SyncOrder
  <2>5. /\ entryCount' = entryCount + 1 /\ entryCount + 1 \in EntrySlots
        /\ entries'[entryCount + 1] = object
        /\ \A e \in EntrySlots : e <= entryCount => entries'[e] = entries[e]
        /\ \A p \in PdoSlots :
             /\ p # currPdo => pdoN'[p] = pdoN[p] /\ pdoEntries'[p] = pdoEntries[p]
             /\ p = currPdo => pdoEntries'[p] + pdoN'[p] - 1 = entryCount'
        /\ \A p \in PdoSlots, e \in EntrySlots :
             InPdo(e, p)' <=> InPdo(e, p) \/ (p = currPdo /\ e = entryCount + 1)
    BY <2>1, <2>3, <2>4, StoreEntryExtends
  (* What the opening of the next PDO, if any, has done.                   *)
  <2>6. /\ SyncOrder' /\ (pdoCount' = pdoCount \/ pdoCount' = pdoCount + 1)
        /\ \A s \in SyncSlots, p \in PdoSlots : InSync(p, s) => InSync(p, s)'
    <3>1. CASE OpenPdo
      BY <2>1, <2>2, <2>4, <3>1, OpenPdoExtends, OpenPdoOrder
    <3>2. CASE UNCHANGED <<pdoVars, error>>
      BY <2>1, <2>4, <3>2 DEF SyncOrder, InSync, pdoVars, syncVars
    <3> QED
      BY <2>1, <3>1, <3>2 DEF StoreEntry
  <2>7. PdoOrder'
    <3>1. ASSUME NEW p \in PdoSlots
          PROVE  /\ p > pdoCount' => pdoN'[p] = 0
                 /\ p = pdoCount' /\ pdoN'[p] > 0 => pdoEntries'[p] + pdoN'[p] - 1 = entryCount'
      <4>1. p \in Nat /\ (p > pdoCount => pdoN[p] = 0)
        BY <2>3, <2>4 DEF PdoOrder, PdoSlots
      <4> QED
        BY <2>2, <2>4, <2>5, <2>6, <4>1
    <3>2. ASSUME NEW p \in PdoSlots, NEW q \in PdoSlots, NEW e \in EntrySlots,
                 InPdo(e, p)', InPdo(e, q)'
          PROVE  p = q
      <4>1. e \in Nat /\ (e = entryCount + 1 => ~InPdo(e, p) /\ ~InPdo(e, q))
        BY <2>2, <2>3, WithinUse DEF EntrySlots
      <4>2. InPdo(e, p) \/ (p = currPdo /\ e = entryCount + 1)
        BY <2>5, <3>2
      <4>3. InPdo(e, q) \/ (q = currPdo /\ e = entryCount + 1)
        BY <2>5, <3>2
      <4> QED
        BY <2>3, <2>4, <4>1, <4>2, <4>3 DEF PdoOrder
    <3> QED
      BY <3>1, <3>2 DEF PdoOrder
  <2>8. /\ Len(asked) = entryCount /\ Len(asked') = entryCount + 1
        /\ \A e \in 1 .. entryCount : asked'[e] = asked[e]
        /\ asked'[entryCount + 1] = [sync |-> askedSyncs, object |-> object]
    <3> DEFINE r == [sync |-> askedSyncs, object |-> object]
               R == [sync : Nat, object : Objects]
    <3>1. asked \in Seq(R) /\ r \in R /\ Len(asked) = entryCount
      BY <2>3 DEF Order, Owned, Typed, TypeOK
    <3>2. asked' = Append(asked, r)
      BY <2>1
    <3> HIDE DEF r, R
    <3>3. /\ Len(asked') = Len(asked) + 1
          /\ \A e \in 1 .. Len(asked) : asked'[e] = asked[e]
          /\ asked'[Len(asked) + 1] = r
      BY <3>1, <3>2
    <3>4. /\ Len(asked') = entryCount + 1
          /\ \A e \in 1 .. entryCount : asked'[e] = asked[e]
          /\ asked'[entryCount + 1] = r
      BY <3>1, <3>3
    <3> QED
      BY <3>1, <3>4 DEF r
  <2>9. ASSUME NEW e \in 1 .. entryCount
        PROVE  Placed(e)'
    <3>1. e \in EntrySlots /\ e <= entryCount /\ Placed(e)
      BY <2>2, <2>3, <2>5, TablesAssumption DEF Order, Owned, EntrySlots
    <3>2. entries'[e] = entries[e] /\ asked'[e] = asked[e]
      BY <2>5, <2>8, <3>1
    <3>3. \A p \in PdoSlots : InPdo(e, p) => InPdo(e, p)'
      BY <2>5, <3>1
    <3> QED
      BY <2>6, <3>1, <3>2, <3>3, PlacedStays
  <2>10. ASSUME NEW e \in EntrySlots, e = entryCount + 1
         PROVE  Placed(e)'
    <3>1. PICK s \in SyncSlots, p \in PdoSlots : s = syncCount /\ p = currPdo
      BY <2>2
    <3>2. InSync(p, s)
      <4>1. /\ syncN[s] > 0 /\ syncPdos[s] + syncN[s] - 1 = pdoCount
            /\ syncN[s] \in Nat /\ syncPdos[s] \in Nat
        BY <2>1, <2>3, <2>4, <3>1, TablesAssumption DEF SyncOrder, Typed, TypeOK, PdoSlots
      <4> QED
        BY <2>2, <2>4, <3>1, <4>1 DEF InSync
    <3>3. InSync(p, s)' /\ InPdo(e, p)'
      BY <2>5, <2>6, <2>10, <3>1, <3>2
    <3>4. asked'[e].sync = s /\ asked'[e].object = object /\ entries'[e] = object
      BY <2>4, <2>5, <2>8, <2>10, <3>1
    <3>5. InSync(p, asked[e].sync)'
      BY <3>3, <3>4 DEF InSync
    <3> QED
      BY <3>3, <3>4, <3>5 DEF Placed
  <2>11. Owned'
    <3>1. \A e \in 1 .. entryCount' : e \in 1 .. entryCount \/ e = entryCount + 1
      BY <2>2, <2>5
    <3> QED
      BY <2>5, <2>8, <2>9, <2>10, <3>1 DEF Owned
  <2> QED
    BY <2>6, <2>7, <2>11 DEF Order
<1> QED
  BY <1>1, <1>2, <1>3, <1>4 DEF Next

(* Nothing is stored and nothing asked for.                                *)
LEMMA OrderInit == Init => Order
<1> SUFFICES ASSUME Init
             PROVE  Order
  OBVIOUS
<1>1. SyncOrder
  BY DEF Init, SyncOrder, InSync
<1>2. PdoOrder
  BY DEF Init, PdoOrder, InPdo
<1>3. Owned
  BY DEF Init, Owned
<1> QED
  BY <1>1, <1>2, <1>3 DEF Order

(* If error is clear, whoever follows the pointers finds each entry that   *)
(* was asked for, once, under the sync manager it was meant for, whatever  *)
(* PDOs autoflow has opened in between.                                    *)
THEOREM NothingIsLostCorrect == Spec => []NothingIsLost
<1>1. Typed /\ Order => NothingIsLost
  <2> SUFFICES ASSUME Typed, Order, ~error
               PROVE  /\ Len(asked) = entryCount
                      /\ \A e \in 1 .. entryCount :
                           /\ entries[e] = asked[e].object
                           /\ \E p \in PdoSlots : Finders(e) = {<<asked[e].sync, p>>}
    BY DEF NothingIsLost
  <2>1. Len(asked) = entryCount /\ \A e \in 1 .. entryCount : Placed(e)
    BY DEF Order, Owned
  <2>2. ASSUME NEW e \in 1 .. entryCount
        PROVE  \E p \in PdoSlots : Finders(e) = {<<asked[e].sync, p>>}
    <3> DEFINE s == asked[e].sync
    <3>1. s \in SyncSlots /\ e \in EntrySlots
      BY <2>1, TablesAssumption DEF Placed, Typed, TypeOK, EntrySlots
    <3>2. PICK p \in PdoSlots : InPdo(e, p) /\ InSync(p, s)
      BY <2>1 DEF Placed
    <3>3. ASSUME NEW t \in SyncSlots, NEW q \in PdoSlots, InSync(q, t), InPdo(e, q)
          PROVE  t = s /\ q = p
      <4>1. q = p
        BY <3>1, <3>2, <3>3 DEF Order, PdoOrder
      <4> HIDE DEF s
      <4> QED
        BY <3>1, <3>2, <3>3, <4>1 DEF Order, SyncOrder
    <3>4. Finders(e) = {<<s, p>>}
      <4> HIDE DEF s
      <4> QED
        BY <3>1, <3>2, <3>3 DEF Finders
    <3> QED
      BY <3>4
  <2> QED
    BY <2>1, <2>2 DEF Placed
<1> QED
  BY <1>1, OrderInit, OrderStep, SlicesInit, SlicesStep, TypedCorrect, PTL DEF Spec
=============================================================================
