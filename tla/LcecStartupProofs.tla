------------------------- MODULE LcecStartupProofs -------------------------
(***************************************************************************)
(* Theorems about LcecStartup, for every configuration that lcec_conf can  *)
(* leave in shared memory and every number of entries the drivers register.*)
(***************************************************************************)
EXTENDS LcecStartup, SetSums, SequenceTheorems, TLAPS

---------------------------------------------------------------------------
(* The tree of the parser: slaves stand with their masters, in the order   *)
(* of the masters; the Sync Units of a master have different names, and    *)
(* each slave has its unit among them.                                     *)
IsSequence(s) == s \in Seq({s[i] : i \in DOMAIN s})

(* A sequence of anything is one, and what the updates of one give.        *)
LEMMA AnySequence ==
  ASSUME NEW S, NEW s \in Seq(S)
  PROVE  IsSequence(s)
<1>1. Len(s) \in Nat /\ DOMAIN s = 1 .. Len(s) /\ s = [i \in 1 .. Len(s) |-> s[i]]
  OBVIOUS
<1>2. s \in [1 .. Len(s) -> {s[i] : i \in DOMAIN s}]
  BY <1>1
<1> QED
  BY <1>1, <1>2, SeqDef DEF IsSequence

(* A sequence is known by its indices,                                     *)
LEMMA SequenceDomain ==
  ASSUME NEW s, IsSequence(s)
  PROVE  Len(s) \in Nat /\ DOMAIN s = 1 .. Len(s)
BY DEF IsSequence

(* by what is appended,                                                    *)
LEMMA Appended ==
  ASSUME NEW s, NEW x, IsSequence(s)
  PROVE  /\ IsSequence(Append(s, x))
         /\ Len(Append(s, x)) = Len(s) + 1
         /\ \A i \in DOMAIN s : i \in DOMAIN Append(s, x) /\ Append(s, x)[i] = s[i]
         /\ Append(s, x)[Len(s) + 1] = x
<1> DEFINE S == {s[i] : i \in DOMAIN s} \cup {x}
<1>1. s \in Seq(S)
  <2>1. s \in [1 .. Len(s) -> S] /\ Len(s) \in Nat
    BY DEF IsSequence
  <2> QED
    BY <2>1, SeqDef
<1>2. x \in S
  OBVIOUS
<1> HIDE DEF S
<1>3. Append(s, x) \in Seq(S)
  BY <1>1, <1>2
<1>4. Len(s) \in Nat /\ DOMAIN s = 1 .. Len(s)
  BY DEF IsSequence
<1>5. Len(Append(s, x)) = Len(s) + 1 /\ Append(s, x)[Len(s) + 1] = x
  BY <1>1, <1>2, AppendProperties
<1>6. \A i \in 1 .. Len(s) : Append(s, x)[i] = s[i]
  BY <1>1, <1>2, AppendProperties
<1>7. DOMAIN Append(s, x) = 1 .. Len(s) + 1
  BY <1>3, <1>5
<1>8. IsSequence(Append(s, x))
  BY <1>3, AnySequence
<1> QED
  BY <1>4, <1>5, <1>6, <1>7, <1>8

(* by what replaces an element,                                            *)
LEMMA Replaced ==
  ASSUME NEW s, NEW n, NEW x, IsSequence(s)
  PROVE  LET t == [s EXCEPT ![n] = x]
         IN  /\ IsSequence(t) /\ Len(t) = Len(s) /\ DOMAIN t = DOMAIN s
             /\ \A i \in DOMAIN s : t[i] = IF i = n THEN x ELSE s[i]
<1> DEFINE S == {s[i] : i \in DOMAIN s} \cup {x}
           t == [s EXCEPT ![n] = x]
<1>1. Len(s) \in Nat /\ DOMAIN s = 1 .. Len(s)
  BY DEF IsSequence
<1>2. /\ DOMAIN t = 1 .. Len(s)
      /\ \A i \in DOMAIN s : t[i] = IF i = n THEN x ELSE s[i]
  BY <1>1
<1>3. t \in [1 .. Len(s) -> S]
  BY <1>1
<1>4. t \in Seq(S)
  BY <1>1, <1>3, SeqDef
<1>5. Len(t) = Len(s)
  BY <1>1, <1>2, <1>4
<1> HIDE DEF t, S
<1>6. IsSequence(t)
  BY <1>4, AnySequence
<1> QED
  BY <1>1, <1>2, <1>5, <1>6 DEF t

(* and by a new value for every index.                                     *)
LEMMA Rebuilt ==
  ASSUME NEW s, NEW t, IsSequence(s), t = [i \in DOMAIN s |-> t[i]]
  PROVE  IsSequence(t) /\ Len(t) = Len(s)
<1> DEFINE S == {t[i] : i \in DOMAIN s}
<1>1. Len(s) \in Nat /\ DOMAIN s = 1 .. Len(s)
  BY DEF IsSequence
<1>2. t \in [1 .. Len(s) -> S] /\ DOMAIN t = 1 .. Len(s)
  BY <1>1
<1>3. t \in Seq(S)
  BY <1>1, <1>2, SeqDef
<1>4. Len(t) = Len(s)
  BY <1>1, <1>2, <1>3
<1>5. IsSequence(t)
  <2> HIDE DEF S
  <2> QED
    BY <1>3, AnySequence
<1> QED
  BY <1>4, <1>5

MasterWellFormed(m) ==
  /\ "units" \in DOMAIN m /\ IsSequence(m.units)
  /\ \A u, v \in DOMAIN m.units : m.units[u].name = m.units[v].name => u = v

SlaveWellFormed(s) ==
  /\ {"master", "unit"} \subseteq DOMAIN s
  /\ s.master \in DOMAIN masters
  /\ \E u \in DOMAIN masters[s.master].units : masters[s.master].units[u].name = s.unit

TreeInv ==
  /\ IsSequence(masters) /\ \A i \in DOMAIN masters : MasterWellFormed(masters[i])
  /\ IsSequence(slaves) /\ \A j \in DOMAIN slaves : SlaveWellFormed(slaves[j])
  /\ \A j, k \in DOMAIN slaves : j <= k => slaves[j].master <= slaves[k].master

(* Nothing has been read yet.                                              *)
LEMMA TreeInit == ParseInit => TreeInv
<1> SUFFICES ASSUME ParseInit
             PROVE  TreeInv
  OBVIOUS
<1>1. masters = << >> /\ slaves = << >>
  BY DEF ParseInit
<1>2. IsSequence(<< >>)
  <2>1. << >> \in Seq({})
    OBVIOUS
  <2> QED
    BY <2>1, AnySequence
<1>3. DOMAIN masters = {} /\ DOMAIN slaves = {}
  BY <1>1
<1> QED
  BY <1>1, <1>2, <1>3 DEF TreeInv

(* A master is added behind the others.                                    *)
LEMMA TreeMaster ==
  ASSUME TreeInv, NEW k, ReadMaster(k)
  PROVE  TreeInv'
<1> DEFINE m == [id |-> k, units |-> << >>]
<1>1. masters' = Append(masters, m) /\ slaves' = slaves
  BY DEF ReadMaster
<1>2. IsSequence(masters) /\ Len(masters) \in Nat /\ DOMAIN masters = 1 .. Len(masters)
  BY SequenceDomain DEF TreeInv
<1>3. IsSequence(masters') /\ DOMAIN masters' = 1 .. Len(masters) + 1
  BY <1>1, <1>2, Appended, SequenceDomain
<1>4. \A i \in DOMAIN masters : i \in DOMAIN masters' /\ masters'[i] = masters[i]
  BY <1>1, <1>2, Appended
<1>5. masters'[Len(masters) + 1] = m
  BY <1>1, <1>2, Appended
<1>6. MasterWellFormed(m)
  <2>1. << >> \in Seq({}) /\ DOMAIN << >> = {}
    OBVIOUS
  <2>2. IsSequence(<< >>)
    BY <2>1, AnySequence
  <2>3. m.units = << >> /\ "units" \in DOMAIN m
    OBVIOUS
  <2> HIDE DEF m
  <2> QED
    BY <2>1, <2>2, <2>3 DEF MasterWellFormed
<1> HIDE DEF m
<1>7. ASSUME NEW i \in DOMAIN masters'
      PROVE  MasterWellFormed(masters'[i])
  <2>1. CASE i \in DOMAIN masters
    BY <1>4, <2>1 DEF TreeInv
  <2>2. CASE i = Len(masters) + 1
    BY <1>5, <1>6, <2>2
  <2> QED
    BY <1>2, <1>3, <2>1, <2>2
<1>8. ASSUME NEW j \in DOMAIN slaves
      PROVE  SlaveWellFormed(slaves[j])'
  <2>1. SlaveWellFormed(slaves[j])
    BY DEF TreeInv
  <2> QED
    BY <1>1, <1>4, <2>1 DEF SlaveWellFormed
<1> QED
  BY <1>1, <1>3, <1>7, <1>8 DEF TreeInv

(* lcec_master_get_sync_unit: the unit is found, or added behind the       *)
(* others; the units there were keep their places.                         *)
LEMMA TreeUnit ==
  ASSUME TreeInv, NEW rec, master # 0
  PROVE  LET t == WithUnit(rec)
         IN  /\ IsSequence(t) /\ DOMAIN t = DOMAIN masters
             /\ \A i \in DOMAIN masters :
                  /\ MasterWellFormed(t[i])
                  /\ \A u \in DOMAIN masters[i].units :
                       u \in DOMAIN t[i].units /\ t[i].units[u] = masters[i].units[u]
             /\ \E u \in DOMAIN t[master].units : t[master].units[u].name = rec.unit
<1> DEFINE t == WithUnit(rec)
<1>1. /\ IsSequence(masters) /\ Len(masters) \in Nat /\ DOMAIN masters = 1 .. Len(masters)
      /\ master = Len(masters) /\ master \in DOMAIN masters
  BY SequenceDomain DEF TreeInv, master
<1>2. \A i \in DOMAIN masters : MasterWellFormed(masters[i])
  BY DEF TreeInv
<1>3. CASE UnitsNamed(rec.unit) # {}
  <2>1. t = masters
    BY <1>3 DEF WithUnit
  <2>2. \E u \in DOMAIN masters[master].units : masters[master].units[u].name = rec.unit
    BY <1>3 DEF UnitsNamed
  <2> HIDE DEF t
  <2> QED
    BY <1>1, <1>2, <2>1, <2>2 DEF t
<1>4. CASE UnitsNamed(rec.unit) = {}
  <2> DEFINE old == masters[master].units
             unit == [name |-> rec.unit, cycle |-> rec.cycle]
             new == Append(old, unit)
             m == [masters[master] EXCEPT !.units = new]
  <2>1. t = [masters EXCEPT ![master] = m]
    BY <1>4 DEF WithUnit
  <2>2. /\ IsSequence(old) /\ Len(old) \in Nat /\ DOMAIN old = 1 .. Len(old)
        /\ "units" \in DOMAIN masters[master]
        /\ \A u, v \in DOMAIN old : old[u].name = old[v].name => u = v
    BY <1>1, <1>2, SequenceDomain DEF MasterWellFormed
  <2>3. \A u \in DOMAIN old : old[u].name # rec.unit
    BY <1>4 DEF UnitsNamed
  <2>4. m.units = new /\ "units" \in DOMAIN m
    BY <2>2
  <2>5. unit.name = rec.unit
    OBVIOUS
  <2> HIDE DEF t, old, unit, m
  <2>6. /\ IsSequence(new) /\ DOMAIN new = 1 .. Len(old) + 1
        /\ \A u \in DOMAIN old : u \in DOMAIN new /\ new[u] = old[u]
        /\ new[Len(old) + 1] = unit
    <3>1. Len(new) = Len(old) + 1 /\ IsSequence(new)
      BY <2>2, Appended
    <3>2. DOMAIN new = 1 .. Len(new)
      BY <3>1, SequenceDomain
    <3> QED
      BY <2>2, <3>1, <3>2, Appended
  <2> HIDE DEF new
  <2>7. \A u, v \in DOMAIN new : new[u].name = new[v].name => u = v
    <3> SUFFICES ASSUME NEW u \in DOMAIN new, NEW v \in DOMAIN new, new[u].name = new[v].name
                 PROVE  u = v
      OBVIOUS
    <3>1. \A w \in DOMAIN new : w \in DOMAIN old \/ w = Len(old) + 1
      BY <2>2, <2>6
    <3>2. \A w \in DOMAIN old : new[w].name = old[w].name /\ old[w].name # rec.unit
      BY <2>3, <2>6
    <3>3. new[Len(old) + 1].name = rec.unit
      BY <2>5, <2>6
    <3> QED
      BY <2>2, <3>1, <3>2, <3>3
  <2>8. MasterWellFormed(m)
    BY <2>4, <2>6, <2>7 DEF MasterWellFormed
  <2>9. /\ IsSequence(t) /\ DOMAIN t = DOMAIN masters
        /\ \A i \in DOMAIN masters : t[i] = IF i = master THEN m ELSE masters[i]
    BY <1>1, <2>1, Replaced
  <2>10. ASSUME NEW i \in DOMAIN masters
         PROVE  /\ MasterWellFormed(t[i])
                /\ \A u \in DOMAIN masters[i].units :
                     u \in DOMAIN t[i].units /\ t[i].units[u] = masters[i].units[u]
    <3>1. CASE i = master
      <4>1. t[i] = m /\ masters[i].units = old
        BY <2>9, <3>1 DEF old
      <4> QED
        BY <2>4, <2>6, <2>8, <4>1
    <3>2. CASE i # master
      BY <1>2, <2>9, <3>2
    <3> QED
      BY <3>1, <3>2
  <2>11. \E u \in DOMAIN t[master].units : t[master].units[u].name = rec.unit
    <3>1. t[master].units = new
      BY <1>1, <2>4, <2>9
    <3>2. Len(old) + 1 \in DOMAIN new
      BY <2>2, <2>6
    <3> QED
      BY <2>5, <2>6, <3>1, <3>2
  <2> QED
    BY <2>9, <2>10, <2>11 DEF t
<1> QED
  BY <1>3, <1>4

(* A slave is added behind the others, to the last master.                 *)
LEMMA TreeSlave ==
  ASSUME TreeInv, NEW k, ReadSlave(k)
  PROVE  TreeInv'
<1> DEFINE rec == chain[k]
           s == NewSlave(k, rec)
<1>1. CASE UNCHANGED <<masters, slaves>>
  BY <1>1 DEF TreeInv, SlaveWellFormed
<1>2. CASE master # 0 /\ masters' = WithUnit(rec) /\ slaves' = Append(slaves, s)
  <2>1. /\ IsSequence(masters) /\ Len(masters) \in Nat /\ DOMAIN masters = 1 .. Len(masters)
        /\ master = Len(masters) /\ master \in DOMAIN masters
        /\ IsSequence(slaves) /\ Len(slaves) \in Nat /\ DOMAIN slaves = 1 .. Len(slaves)
    BY <1>2, SequenceDomain DEF TreeInv, master
  <2>2. s.master = master /\ s.unit = rec.unit /\ {"master", "unit"} \subseteq DOMAIN s
    BY DEF NewSlave
  <2> HIDE DEF s, rec
  <2>3. /\ IsSequence(masters') /\ DOMAIN masters' = DOMAIN masters
        /\ \A i \in DOMAIN masters :
             /\ MasterWellFormed(masters'[i])
             /\ \A u \in DOMAIN masters[i].units :
                  u \in DOMAIN masters'[i].units /\ masters'[i].units[u] = masters[i].units[u]
        /\ \E u \in DOMAIN masters'[master].units : masters'[master].units[u].name = rec.unit
    BY <1>2, TreeUnit
  <2>4. /\ IsSequence(slaves') /\ Len(slaves') = Len(slaves) + 1
        /\ \A i \in DOMAIN slaves : i \in DOMAIN slaves' /\ slaves'[i] = slaves[i]
        /\ slaves'[Len(slaves) + 1] = s
    BY <1>2, <2>1, Appended
  <2>5. DOMAIN slaves' = 1 .. Len(slaves) + 1
    BY <2>4, SequenceDomain
  <2>6. \A j \in DOMAIN slaves' : j \in DOMAIN slaves \/ j = Len(slaves) + 1
    BY <2>1, <2>5
  <2>7. ASSUME NEW j \in DOMAIN slaves'
        PROVE  SlaveWellFormed(slaves[j])'
    <3>1. CASE j \in DOMAIN slaves
      <4>1. SlaveWellFormed(slaves[j]) /\ slaves'[j] = slaves[j]
        BY <2>4, <3>1 DEF TreeInv
      <4> QED
        BY <2>3, <4>1 DEF SlaveWellFormed
    <3>2. CASE j = Len(slaves) + 1
      BY <2>1, <2>2, <2>3, <2>4, <3>2 DEF SlaveWellFormed
    <3> QED
      BY <2>6, <3>1, <3>2
  <2>8. ASSUME NEW i \in DOMAIN slaves', NEW j \in DOMAIN slaves', i <= j
        PROVE  slaves'[i].master <= slaves'[j].master
    <3>1. \A l \in DOMAIN slaves : slaves[l].master \in DOMAIN masters
      BY DEF TreeInv, SlaveWellFormed
    <3>2. CASE i \in DOMAIN slaves /\ j \in DOMAIN slaves
      <4>1. slaves'[i] = slaves[i] /\ slaves'[j] = slaves[j]
        BY <2>4, <3>2
      <4> QED
        BY <2>8, <3>2, <4>1 DEF TreeInv
    <3>3. CASE i \in DOMAIN slaves /\ j = Len(slaves) + 1
      <4>1. slaves'[i].master \in DOMAIN masters /\ slaves'[j].master = master
        BY <2>2, <2>4, <3>1, <3>3
      <4> QED
        BY <2>1, <4>1
    <3>4. CASE i = Len(slaves) + 1 /\ j = Len(slaves) + 1
      <4>1. slaves'[i].master = master /\ slaves'[j].master = master
        BY <2>2, <2>4, <3>4
      <4> QED
        BY <2>1, <4>1
    <3>5. CASE i = Len(slaves) + 1 /\ j \in DOMAIN slaves
      BY <2>1, <2>8, <3>5
    <3> QED
      BY <2>6, <3>2, <3>3, <3>4, <3>5
  <2> QED
    BY <2>3, <2>4, <2>7, <2>8 DEF TreeInv
<1>3. UNCHANGED <<masters, slaves>>
      \/ (master # 0 /\ masters' = WithUnit(rec) /\ slaves' = Append(slaves, s))
  <2>1. Len(masters) \in Nat
    BY SequenceDomain DEF TreeInv
  <2>2. CASE master = 0
    BY <2>2 DEF ReadSlave, Reject
  <2>3. CASE master # 0 /\ ~ UnitFits(rec)
    BY <2>1, <2>3 DEF ReadSlave, Reject, master
  <2>4. CASE master # 0 /\ UnitFits(rec)
    BY <2>1, <2>4 DEF ReadSlave, master
  <2> QED
    BY <2>2, <2>3, <2>4
<1> QED
  BY <1>1, <1>2, <1>3

(* The other records leave a slave with its master and its unit.           *)
LEMMA TreeSet ==
  ASSUME TreeInv, NEW f, "master" \notin DOMAIN f, "unit" \notin DOMAIN f, Set(f)
  PROVE  TreeInv'
<1> DEFINE s == [x \in DOMAIN slaves[slave] |-> IF x \in DOMAIN f THEN f[x] ELSE slaves[slave][x]]
<1>1. slaves' = [slaves EXCEPT ![slave] = s] /\ masters' = masters
  BY DEF Set
<1>2. IsSequence(slaves)
  BY DEF TreeInv
<1>3. /\ IsSequence(slaves') /\ DOMAIN slaves' = DOMAIN slaves
      /\ \A j \in DOMAIN slaves : slaves'[j] = IF j = slave THEN s ELSE slaves[j]
  <2> HIDE DEF s
  <2> QED
    BY <1>1, <1>2, Replaced
<1>4. ASSUME slave \in DOMAIN slaves
      PROVE  /\ s.master = slaves[slave].master /\ s.unit = slaves[slave].unit
             /\ {"master", "unit"} \subseteq DOMAIN s
  <2>1. {"master", "unit"} \subseteq DOMAIN slaves[slave]
    BY <1>4 DEF TreeInv, SlaveWellFormed
  <2> QED
    BY <2>1
<1> HIDE DEF s
<1>5. ASSUME NEW j \in DOMAIN slaves
      PROVE  /\ slaves'[j].master = slaves[j].master /\ slaves'[j].unit = slaves[j].unit
             /\ {"master", "unit"} \subseteq DOMAIN slaves'[j]
  <2>1. CASE j = slave
    BY <1>3, <1>4, <2>1
  <2>2. CASE j # slave
    <3>1. SlaveWellFormed(slaves[j]) /\ slaves'[j] = slaves[j]
      BY <1>3, <2>2 DEF TreeInv
    <3> QED
      BY <3>1 DEF SlaveWellFormed
  <2> QED
    BY <2>1, <2>2
<1>6. ASSUME NEW j \in DOMAIN slaves
      PROVE  SlaveWellFormed(slaves[j])'
  <2>1. SlaveWellFormed(slaves[j])
    BY DEF TreeInv
  <2> QED
    BY <1>1, <1>5, <2>1 DEF SlaveWellFormed
<1>7. \A i, j \in DOMAIN slaves : i <= j => slaves'[i].master <= slaves'[j].master
  BY <1>5 DEF TreeInv
<1> QED
  BY <1>1, <1>3, <1>6, <1>7 DEF TreeInv

(* The tree does not change.                                               *)
LEMMA TreeKept ==
  ASSUME TreeInv, UNCHANGED <<masters, slaves>>
  PROVE  TreeInv'
BY DEF TreeInv, SlaveWellFormed

(* Whatever is read, the tree stays one.                                   *)
LEMMA TreeRecord ==
  ASSUME TreeInv, NEW k, ReadRecord(k)
  PROVE  TreeInv'
<1>1. CASE ReadMaster(k)
  BY <1>1, TreeMaster
<1>2. CASE ReadSlave(k)
  BY <1>2, TreeSlave
<1>3. CASE ReadDcConf(k)
  <2>1. UNCHANGED <<masters, slaves>> \/ Set([dc |-> k])
    BY <1>3 DEF ReadDcConf, Reject, Keep
  <2>2. "master" \notin DOMAIN [dc |-> k] /\ "unit" \notin DOMAIN [dc |-> k]
    OBVIOUS
  <2> QED
    BY <2>1, <2>2, TreeKept, TreeSet
<1>4. CASE ReadWatchdog(k)
  <2>1. UNCHANGED <<masters, slaves>> \/ Set([wd |-> k])
    BY <1>4 DEF ReadWatchdog, Reject, Keep
  <2>2. "master" \notin DOMAIN [wd |-> k] /\ "unit" \notin DOMAIN [wd |-> k]
    OBVIOUS
  <2> QED
    BY <2>1, <2>2, TreeKept, TreeSet
<1>5. CASE ReadModParam(k)
  <2> DEFINE f == [params |-> Slave.params + 1]
  <2>1. UNCHANGED <<masters, slaves>> \/ Set(f)
    BY <1>5 DEF ReadModParam, Reject
  <2>2. "master" \notin DOMAIN f /\ "unit" \notin DOMAIN f
    OBVIOUS
  <2> HIDE DEF f
  <2> QED
    BY <2>1, <2>2, TreeKept, TreeSet
<1>6. CASE ReadSyncManager(k)
  <2> DEFINE f == [sms |-> Append(Slave.sms, Slice(k, Slave.pdos, chain[k].pdos)),
                   dir |-> IF chain[k].dir = "in" THEN "HAL_OUT" ELSE "HAL_IN"]
  <2>1. UNCHANGED <<masters, slaves>> \/ Set(f)
    BY <1>6 DEF ReadSyncManager, Reject
  <2>2. "master" \notin DOMAIN f /\ "unit" \notin DOMAIN f
    OBVIOUS
  <2> HIDE DEF f
  <2> QED
    BY <2>1, <2>2, TreeKept, TreeSet
<1>7. CASE ReadPdo(k)
  <2> DEFINE f == [pdos |-> Append(Slave.pdos, Slice(k, Slave.entries, chain[k].entries))]
  <2>1. UNCHANGED <<masters, slaves>> \/ Set(f)
    BY <1>7 DEF ReadPdo, Reject
  <2>2. "master" \notin DOMAIN f /\ "unit" \notin DOMAIN f
    OBVIOUS
  <2> HIDE DEF f
  <2> QED
    BY <2>1, <2>2, TreeKept, TreeSet
<1>8. CASE ReadPdoEntry(k)
  <2> DEFINE f == [entries |-> Append(Slave.entries, k),
                   pins |-> IF chain[k].pin THEN Append(Slave.pins, Pin(k, k)) ELSE Slave.pins]
  <2>1. UNCHANGED <<masters, slaves>> \/ Set(f)
    BY <1>8 DEF ReadPdoEntry, Reject
  <2>2. "master" \notin DOMAIN f /\ "unit" \notin DOMAIN f
    OBVIOUS
  <2> HIDE DEF f
  <2> QED
    BY <2>1, <2>2, TreeKept, TreeSet
<1>9. CASE ReadComplexEntry(k)
  <2> DEFINE f == [pins |-> IF chain[k].pin
                            THEN Append(Slave.pins, Pin(k, Slave.entries[Len(Slave.entries)]))
                            ELSE Slave.pins]
  <2>1. UNCHANGED <<masters, slaves>> \/ Set(f)
    BY <1>9 DEF ReadComplexEntry, Reject
  <2>2. "master" \notin DOMAIN f /\ "unit" \notin DOMAIN f
    OBVIOUS
  <2> HIDE DEF f
  <2> QED
    BY <2>1, <2>2, TreeKept, TreeSet
<1>10. CASE ReadSdoConfig(k)
  <2> DEFINE f == [sdoUsed |-> Slave.sdoUsed + 16 + chain[k].len, sdos |-> Append(Slave.sdos, k)]
  <2>1. UNCHANGED <<masters, slaves>> \/ Set(f)
    BY <1>10 DEF ReadSdoConfig, Reject
  <2>2. "master" \notin DOMAIN f /\ "unit" \notin DOMAIN f
    OBVIOUS
  <2> HIDE DEF f
  <2> QED
    BY <2>1, <2>2, TreeKept, TreeSet
<1>11. CASE ReadIdnConfig(k)
  <2> DEFINE f == [idnUsed |-> Slave.idnUsed + 16 + chain[k].len, idns |-> Append(Slave.idns, k)]
  <2>1. UNCHANGED <<masters, slaves>> \/ Set(f)
    BY <1>11 DEF ReadIdnConfig, Reject
  <2>2. "master" \notin DOMAIN f /\ "unit" \notin DOMAIN f
    OBVIOUS
  <2> HIDE DEF f
  <2> QED
    BY <2>1, <2>2, TreeKept, TreeSet
<1>12. CASE ReadEnd(k)
  BY <1>12, TreeKept DEF ReadEnd
<1> QED
  BY <1>1, <1>2, <1>3, <1>4, <1>5, <1>6, <1>7, <1>8, <1>9, <1>10, <1>11, <1>12 DEF ReadRecord

(* The parser keeps the tree as it is built.                               *)
LEMMA TreeParse ==
  ASSUME TreeInv, ParseNext
  PROVE  TreeInv'
<1>1. CASE Attach
  BY <1>1, TreeKept DEF Attach
<1>2. CASE \E k \in DOMAIN chain : ReadRecord(k)
  BY <1>2, TreeRecord
<1>3. CASE Lost
  BY <1>3, TreeKept DEF Lost, Reject
<1>4. CASE Preinit
  BY <1>4, TreeKept DEF Preinit
<1> QED
  BY <1>1, <1>2, <1>3, <1>4 DEF ParseNext

(* When the image is unmapped, masters, units and slaves stay.             *)
LEMMA TreeUnmap ==
  ASSUME TreeInv, Unmap
  PROVE  TreeInv' /\ Len(masters') = Len(masters) /\ Len(slaves') = Len(slaves)
<1>1. IsSequence(masters) /\ IsSequence(slaves)
  BY DEF TreeInv
<1>2. /\ masters' = [i \in DOMAIN masters |-> masters'[i]]
      /\ slaves' = [j \in DOMAIN slaves |-> slaves'[j]]
      /\ \A i \in DOMAIN masters : masters'[i] = [units |-> masters[i].units]
      /\ \A j \in DOMAIN slaves :
           slaves'[j] = [master |-> slaves[j].master, unit |-> slaves[j].unit]
  BY DEF Unmap
<1>3. /\ IsSequence(masters') /\ Len(masters') = Len(masters) /\ DOMAIN masters' = DOMAIN masters
      /\ IsSequence(slaves') /\ Len(slaves') = Len(slaves) /\ DOMAIN slaves' = DOMAIN slaves
  BY <1>1, <1>2, Rebuilt
<1>4. \A i \in DOMAIN masters :
        masters'[i].units = masters[i].units /\ "units" \in DOMAIN masters'[i]
  BY <1>2
<1>5. ASSUME NEW i \in DOMAIN masters
      PROVE  MasterWellFormed(masters[i])'
  <2>1. MasterWellFormed(masters[i])
    BY DEF TreeInv
  <2> QED
    BY <1>4, <2>1 DEF MasterWellFormed
<1>6. \A j \in DOMAIN slaves :
        /\ slaves'[j].master = slaves[j].master /\ slaves'[j].unit = slaves[j].unit
        /\ {"master", "unit"} \subseteq DOMAIN slaves'[j]
  BY <1>2
<1>7. ASSUME NEW j \in DOMAIN slaves
      PROVE  SlaveWellFormed(slaves[j])'
  <2>1. SlaveWellFormed(slaves[j])
    BY DEF TreeInv
  <2> QED
    BY <1>3, <1>4, <1>6, <2>1 DEF SlaveWellFormed
<1>8. \A i, j \in DOMAIN slaves : i <= j => slaves'[i].master <= slaves'[j].master
  BY <1>6 DEF TreeInv
<1> QED
  BY <1>3, <1>5, <1>7, <1>8 DEF TreeInv

---------------------------------------------------------------------------
(* What is held is what was requested and not released; where the loops    *)
(* of rtapi_app_main are, nothing has been released.                       *)
Loops == {"domain", "slave", "unit", "pins", "activate", "export"}

Accounted ==
  /\ released \in Seq(0..1) /\ Len(released) <= Len(masters)
  /\ held \subseteq DOMAIN released
  /\ \A i \in DOMAIN released : released[i] = 1 <=> i \notin held
  /\ \A d \in domains : d[1] \in held

Reached ==
  /\ boot \in Before => released = << >> /\ functs = {}
  /\ boot = "request" => at.m = Len(released) + 1
  /\ boot \in Loops => at.m = Len(released) /\ at.m # 0
  /\ boot \in Loops \cup {"request", "ready"} => held = DOMAIN released
  /\ boot = "ready" => Len(released) = Len(masters)
  /\ boot = "clear" => at.m \in Nat /\ \A i \in held : i <= at.m
  /\ boot \in {"hal_exit", "failed"} => held = {}
  /\ boot = "failed" => functs = {}

ReleaseInv == TreeInv /\ Accounted /\ Reached

(* Nothing is held before the start.                                       *)
LEMMA ReleaseInit == Init => ReleaseInv
<1> SUFFICES ASSUME Init
             PROVE  ReleaseInv
  OBVIOUS
<1>1. TreeInv /\ masters = << >>
  BY TreeInit DEF Init, ParseInit
<1>2. /\ boot = "hal_init" /\ held = {} /\ released = << >> /\ domains = {} /\ functs = {}
  BY DEF Init, StartInit
<1>3. Accounted
  BY <1>1, <1>2 DEF Accounted
<1>4. Reached
  BY <1>2 DEF Reached, Before, Loops
<1> QED
  BY <1>1, <1>3, <1>4 DEF ReleaseInv

(* What holds of the counts and numbers in every state.                    *)
LEMMA ReleaseType ==
  ASSUME ReleaseInv
  PROVE  /\ Len(masters) \in Nat /\ DOMAIN masters = 1 .. Len(masters)
         /\ Len(slaves) \in Nat /\ DOMAIN slaves = 1 .. Len(slaves)
         /\ released \in Seq(0..1) /\ Len(released) \in Nat
         /\ DOMAIN released = 1 .. Len(released) /\ Len(released) <= Len(masters)
         /\ held \subseteq 1 .. Len(released)
         /\ boot \in Before => held = {} /\ Len(released) = 0
         /\ \A i \in DOMAIN masters : IsSequence(masters[i].units) /\ Len(masters[i].units) \in Nat
                                      /\ DOMAIN masters[i].units = 1 .. Len(masters[i].units)
<1>1. IsSequence(masters) /\ IsSequence(slaves)
  BY DEF ReleaseInv, TreeInv
<1>2. released \in Seq(0..1) /\ Len(released) <= Len(masters) /\ held \subseteq DOMAIN released
  BY DEF ReleaseInv, Accounted
<1>3. Len(released) \in Nat /\ DOMAIN released = 1 .. Len(released)
  BY <1>2
<1>4. boot \in Before => released = << >>
  BY DEF ReleaseInv, Reached
<1>5. boot \in Before => held = {} /\ Len(released) = 0
  <2> SUFFICES ASSUME boot \in Before
               PROVE  held = {} /\ Len(released) = 0
    OBVIOUS
  <2>1. Len(released) = 0
    BY <1>4
  <2> QED
    BY <1>2, <1>3, <2>1
<1>6. ASSUME NEW i \in DOMAIN masters
      PROVE  /\ IsSequence(masters[i].units) /\ Len(masters[i].units) \in Nat
             /\ DOMAIN masters[i].units = 1 .. Len(masters[i].units)
  <2>1. IsSequence(masters[i].units)
    BY DEF ReleaseInv, TreeInv, MasterWellFormed
  <2> QED
    BY <2>1, SequenceDomain
<1> QED
  BY <1>1, <1>2, <1>3, <1>5, <1>6, SequenceDomain

(* A step that leaves the accounts alone.                                  *)
LEMMA AccountedKept ==
  ASSUME Accounted, UNCHANGED <<masters, held, released>>, domains' = domains
  PROVE  Accounted'
BY DEF Accounted

(* A failure in any loop starts the release from the last master.          *)
LEMMA ReleaseFail ==
  ASSUME ReleaseInv, Fail2
  PROVE  ReleaseInv'
<1>1. /\ boot' = "clear" /\ at'.m = Len(masters)
      /\ UNCHANGED <<masters, slaves, held, released, domains>>
  BY DEF Fail2, Enter, Goto, Tree, parseVars
<1>2. TreeInv' /\ Accounted'
  BY <1>1, TreeKept, AccountedKept DEF ReleaseInv
<1>3. Len(masters) \in Nat /\ \A i \in held : i <= Len(masters)
  BY ReleaseType
<1>4. Reached'
  BY <1>1, <1>3 DEF Reached, Before, Loops
<1> QED
  BY <1>2, <1>4 DEF ReleaseInv

(* A step within the loops for a master.                                   *)
LEMMA ReleaseLoop ==
  ASSUME ReleaseInv, boot \in Loops, boot' \in Loops, at'.m = at.m,
         UNCHANGED <<masters, slaves, held, released>>,
         domains' = domains \/ \E k : domains' = domains \cup {<<at.m, k>>}
  PROVE  ReleaseInv'
<1>1. TreeInv'
  BY TreeKept DEF ReleaseInv
<1>2. at.m \in held
  BY ReleaseType DEF ReleaseInv, Reached, Loops
<1>3. \A d \in domains' : d[1] \in held
  BY <1>2 DEF ReleaseInv, Accounted
<1>4. Accounted'
  BY <1>3 DEF ReleaseInv, Accounted
<1>5. Reached'
  BY DEF ReleaseInv, Reached, Loops, Before
<1> QED
  BY <1>1, <1>4, <1>5 DEF ReleaseInv

(* The next slave, or the units, of the same master.                       *)
LEMMA NextSlaveEnters ==
  ASSUME NEW k, NextSlave(k)
  PROVE  /\ boot' \in {"slave", "unit"} /\ at'.m = at.m
         /\ boot' = "unit" => at'.k = 1
         /\ UNCHANGED <<masters, slaves, initf>>
BY DEF NextSlave, Enter, Goto, parseVars

(* A first release is counted.                                             *)
LEMMA OneMore ==
  ASSUME NEW s \in Seq(0..1), NEW n \in 1 .. Len(s), s[n] = 0
  PROVE  LET t == [s EXCEPT ![n] = @ + 1]
         IN  /\ t \in Seq(0..1) /\ Len(t) = Len(s) /\ DOMAIN t = DOMAIN s
             /\ \A i \in DOMAIN s : t[i] = IF i = n THEN 1 ELSE s[i]
<1>1. [s EXCEPT ![n] = @ + 1] = [s EXCEPT ![n] = 1]
  OBVIOUS
<1>2. [s EXCEPT ![n] = 1] \in Seq(0..1) /\ Len([s EXCEPT ![n] = 1]) = Len(s)
  BY ExceptSeq
<1> QED
  BY <1>1, <1>2

(* Each step takes and releases what the invariant says.                   *)
LEMMA ReleaseStep ==
  ASSUME ReleaseInv, [Next]_vars
  PROVE  ReleaseInv'
<1>1. CASE UNCHANGED vars \/ Conf
  <2>1. UNCHANGED <<masters, slaves, boot, at, held, released, domains, functs>>
    BY <1>1 DEF vars, Conf, parseVars, bootVars
  <2>2. TreeInv' /\ Accounted'
    BY <2>1, TreeKept, AccountedKept DEF ReleaseInv
  <2>3. Reached'
    BY <2>1 DEF ReleaseInv, Reached
  <2> QED
    BY <2>2, <2>3 DEF ReleaseInv
<1>2. CASE HalInit
  <2>1. /\ boot = "hal_init" /\ boot' \in {"parse", "failed"}
        /\ UNCHANGED <<masters, slaves, held, released, domains, functs>>
    BY <1>2 DEF HalInit, Goto, Tree, parseVars
  <2>2. TreeInv' /\ Accounted'
    BY <2>1, TreeKept, AccountedKept DEF ReleaseInv
  <2>3. held = {}
    BY <2>1, ReleaseType DEF Before
  <2>4. Reached'
    BY <2>1, <2>3 DEF ReleaseInv, Reached, Before, Loops
  <2> QED
    BY <2>2, <2>4 DEF ReleaseInv
<1>3. CASE Parse
  <2>1. /\ boot = "parse" /\ ParseNext
        /\ UNCHANGED <<boot, at, held, released, domains, functs>>
    BY <1>3 DEF Parse, bootVars
  <2>2. TreeInv'
    BY <2>1, TreeParse DEF ReleaseInv
  <2>3. held = {} /\ Len(released) = 0
    BY <2>1, ReleaseType DEF Before
  <2>4. Len(masters') \in Nat
    BY <2>2, SequenceDomain DEF TreeInv
  <2>5. Accounted'
    BY <2>1, <2>3, <2>4 DEF ReleaseInv, Accounted
  <2>6. Reached'
    BY <2>1 DEF ReleaseInv, Reached, Before, Loops
  <2> QED
    BY <2>2, <2>5, <2>6 DEF ReleaseInv
<1>4. CASE GlobalPins
  <2>1. boot = "parse" /\ UNCHANGED <<held, released, domains, functs>>
    BY <1>4 DEF GlobalPins, Tree
  <2>2. held = {} /\ Len(released) = 0 /\ Len(masters) \in Nat
    BY <2>1, ReleaseType DEF Before
  <2>3. TreeInv' /\ Len(masters') = Len(masters)
    <3>1. CASE Unmap
      BY <3>1, TreeUnmap DEF ReleaseInv
    <3>2. CASE Enter("hal_exit", 0, 0)
      BY <3>2, TreeKept DEF ReleaseInv, Enter, Goto, parseVars
    <3> QED
      BY <1>4, <3>1, <3>2 DEF GlobalPins
  <2>4. Accounted'
    BY <2>1, <2>2, <2>3 DEF ReleaseInv, Accounted
  <2>5. \/ boot' = "request" /\ at'.m = 1
        \/ boot' = "clear" /\ at'.m = Len(masters)
        \/ boot' = "hal_exit"
    BY <1>4 DEF GlobalPins, Enter, Goto
  <2>6. DOMAIN released = {}
    BY <2>2, ReleaseType
  <2>7. Reached'
    BY <2>1, <2>2, <2>5, <2>6 DEF Reached, Before, Loops
  <2> QED
    BY <2>3, <2>4, <2>7 DEF ReleaseInv
<1>5. CASE RequestMaster
  <2>1. CASE Fail2
    BY <2>1, ReleaseFail
  <2>2. CASE ~Fail2
    <3>1. /\ boot = "request" /\ at.m <= Len(masters)
          /\ boot' = "domain" /\ at'.m = at.m
          /\ held' = held \cup {at.m} /\ released' = Append(released, 0)
          /\ UNCHANGED <<masters, slaves, domains, functs>>
      BY <1>5, <2>2 DEF RequestMaster, Enter, Goto, parseVars
    <3>2. /\ at.m = Len(released) + 1 /\ held = DOMAIN released
          /\ released \in Seq(0..1) /\ Len(released) \in Nat /\ Len(masters) \in Nat
          /\ DOMAIN released = 1 .. Len(released)
      BY <3>1, ReleaseType DEF ReleaseInv, Reached
    <3>3. /\ released' \in Seq(0..1) /\ Len(released') = at.m
          /\ DOMAIN released' = 1 .. at.m
          /\ \A i \in 1 .. Len(released) : released'[i] = released[i]
          /\ released'[at.m] = 0
      BY <3>1, <3>2
    <3>4. held' = DOMAIN released'
      BY <3>1, <3>2, <3>3
    <3>5. \A i \in DOMAIN released' : released'[i] = 1 <=> i \notin held'
      BY <3>1, <3>2, <3>3, <3>4 DEF ReleaseInv, Accounted
    <3>6. \A d \in domains' : d[1] \in held'
      BY <3>1 DEF ReleaseInv, Accounted
    <3>7. Accounted'
      BY <3>1, <3>3, <3>4, <3>5, <3>6 DEF Accounted
    <3>8. TreeInv'
      BY <3>1, TreeKept DEF ReleaseInv
    <3>9. Reached'
      BY <3>1, <3>2, <3>3, <3>4 DEF Reached, Before, Loops
    <3> QED
      BY <3>7, <3>8, <3>9 DEF ReleaseInv
  <2> QED
    BY <2>1, <2>2
<1>6. CASE CreateDomain
  <2>1. CASE Fail2
    BY <2>1, ReleaseFail
  <2>2. CASE at.k \notin UnitsOf(at.m)
    <3>1. /\ boot = "domain" /\ NextSlave(0)
          /\ UNCHANGED <<held, released, domains>>
      BY <1>6, <2>2 DEF CreateDomain, Tree
    <3> QED
      BY <3>1, NextSlaveEnters, ReleaseLoop DEF Loops
  <2>3. CASE at.k \in UnitsOf(at.m) /\ ~Fail2
    <3>1. /\ boot = "domain" /\ boot' = "domain" /\ at'.m = at.m
          /\ domains' = domains \cup {<<at.m, at.k>>}
          /\ UNCHANGED <<masters, slaves, held, released>>
      BY <1>6, <2>3 DEF CreateDomain, Enter, Goto, parseVars
    <3> QED
      BY <3>1, ReleaseLoop DEF Loops
  <2> QED
    BY <2>1, <2>2, <2>3
<1>7. CASE InitSlave
  <2>1. CASE Fail2
    BY <2>1, ReleaseFail
  <2>2. CASE ~Fail2
    <3>1. /\ boot = "slave" /\ NextSlave(at.k)
          /\ UNCHANGED <<held, released, domains>>
      BY <1>7, <2>2 DEF InitSlave
    <3> QED
      BY <3>1, NextSlaveEnters, ReleaseLoop DEF Loops
  <2> QED
    BY <2>1, <2>2
<1>8. CASE RegisterUnit
  <2>1. CASE Fail2
    BY <2>1, ReleaseFail
  <2>2. CASE ~Fail2
    <3>1. /\ boot = "unit" /\ boot' \in {"unit", "pins"} /\ at'.m = at.m
          /\ UNCHANGED <<masters, slaves, held, released, domains>>
      BY <1>8, <2>2 DEF RegisterUnit, Enter, Goto, Tree, parseVars
    <3> QED
      BY <3>1, ReleaseLoop DEF Loops
  <2> QED
    BY <2>1, <2>2
<1>9. CASE MasterPins
  <2>1. /\ boot = "pins" /\ UNCHANGED <<masters, slaves, held, released, domains>>
        /\ \/ boot' \in {"activate", "export"} /\ at'.m = at.m
           \/ boot' = "crashed"
    BY <1>9 DEF MasterPins, Enter, Goto, Tree, parseVars
  <2>2. CASE boot' = "crashed"
    <3>1. TreeInv' /\ Accounted'
      BY <2>1, TreeKept, AccountedKept DEF ReleaseInv
    <3>2. Reached'
      BY <2>2 DEF Reached, Before, Loops
    <3> QED
      BY <3>1, <3>2 DEF ReleaseInv
  <2>3. CASE boot' # "crashed"
    BY <2>1, <2>3, ReleaseLoop DEF Loops
  <2> QED
    BY <2>2, <2>3
<1>10. CASE ActivateMaster
  <2>1. CASE Fail2
    BY <2>1, ReleaseFail
  <2>2. CASE ~Fail2
    <3>1. /\ boot = "activate" /\ boot' = "export" /\ at'.m = at.m
          /\ UNCHANGED <<masters, slaves, held, released, domains>>
      BY <1>10, <2>2 DEF ActivateMaster, Enter, Goto, Tree, parseVars
    <3> QED
      BY <3>1, ReleaseLoop DEF Loops
  <2> QED
    BY <2>1, <2>2
<1>11. CASE ExportMaster
  <2>1. CASE Fail2
    BY <2>1, ReleaseFail
  <2>2. CASE ~Fail2
    <3>1. /\ boot = "export" /\ boot' = "request" /\ at'.m = at.m + 1
          /\ UNCHANGED <<masters, slaves, held, released, domains>>
      BY <1>11, <2>2 DEF ExportMaster, Enter, Goto, parseVars
    <3>2. TreeInv' /\ Accounted'
      BY <3>1, TreeKept, AccountedKept DEF ReleaseInv
    <3>3. Reached'
      BY <3>1 DEF ReleaseInv, Reached, Before, Loops
    <3> QED
      BY <3>2, <3>3 DEF ReleaseInv
  <2> QED
    BY <2>1, <2>2
<1>12. CASE ExportAll
  <2>1. CASE Fail2
    BY <2>1, ReleaseFail
  <2>2. CASE ~Fail2
    <3>1. /\ boot = "request" /\ at.m > Len(masters) /\ boot' = "ready"
          /\ UNCHANGED <<masters, slaves, held, released, domains>>
      BY <1>12, <2>2 DEF ExportAll, Enter, Goto, parseVars
    <3>2. TreeInv' /\ Accounted'
      BY <3>1, TreeKept, AccountedKept DEF ReleaseInv
    <3>3. at.m = Len(released) + 1 /\ held = DOMAIN released
      BY <3>1 DEF ReleaseInv, Reached
    <3>4. Len(released) = Len(masters)
      <4>1. Len(released) \in Nat /\ Len(masters) \in Nat /\ Len(released) <= Len(masters)
        BY ReleaseType
      <4> QED
        BY <3>1, <3>3, <4>1
    <3>5. Reached'
      BY <3>1, <3>3, <3>4 DEF Reached, Before, Loops
    <3> QED
      BY <3>2, <3>5 DEF ReleaseInv
  <2> QED
    BY <2>1, <2>2
<1>13. CASE ClearMaster
  <2>1. /\ boot = "clear" /\ UNCHANGED <<masters, slaves, functs>>
    BY <1>13 DEF ClearMaster, Enter, Goto, Tree, parseVars
  <2>2. TreeInv'
    BY <2>1, TreeKept DEF ReleaseInv
  <2>3. /\ at.m \in Nat /\ \A i \in held : i <= at.m /\ i \in Nat /\ i # 0
        /\ released \in Seq(0..1) /\ Len(released) \in Nat
        /\ DOMAIN released = 1 .. Len(released)
    BY <2>1, ReleaseType DEF ReleaseInv, Reached
  <2>4. CASE at.m = 0
    <3>1. boot' = "hal_exit" /\ UNCHANGED <<held, released, domains>>
      BY <1>13, <2>4 DEF ClearMaster, Enter, Goto, Tree
    <3>2. held = {}
      BY <2>3, <2>4
    <3>3. Accounted'
      BY <2>1, <3>1, AccountedKept DEF ReleaseInv
    <3>4. Reached'
      BY <3>1, <3>2 DEF Reached, Before, Loops
    <3> QED
      BY <2>2, <3>3, <3>4 DEF ReleaseInv
  <2>5. CASE at.m # 0
    <3>1. /\ boot' = "clear" /\ at'.m = at.m - 1
          /\ released' = IF at.m \in held THEN [released EXCEPT ![at.m] = @ + 1] ELSE released
          /\ held' = held \ {at.m}
          /\ domains' = {d \in domains : d[1] # at.m}
      BY <1>13, <2>5 DEF ClearMaster, Enter, Goto, Previous
    <3>2. at.m \in held => released[at.m] = 0
      BY <2>3 DEF ReleaseInv, Accounted
    <3>3. /\ released' \in Seq(0..1) /\ Len(released') = Len(released)
          /\ DOMAIN released' = DOMAIN released
          /\ \A i \in DOMAIN released :
                released'[i] = IF i = at.m /\ i \in held THEN 1 ELSE released[i]
      <4>1. CASE at.m \notin held
        BY <2>3, <3>1, <4>1
      <4>2. CASE at.m \in held
        <5>1. released' = [released EXCEPT ![at.m] = @ + 1] /\ released[at.m] = 0
          BY <3>1, <3>2, <4>2
        <5>2. at.m \in 1 .. Len(released)
          BY <4>2, ReleaseType
        <5> QED
          BY <2>3, <4>2, <5>1, <5>2, OneMore
      <4> QED
        BY <4>1, <4>2
    <3>4. Accounted'
      BY <2>1, <3>1, <3>3 DEF ReleaseInv, Accounted
    <3>5. Reached'
      BY <2>3, <2>5, <3>1 DEF Reached, Before, Loops
    <3> QED
      BY <2>2, <3>4, <3>5 DEF ReleaseInv
  <2> QED
    BY <2>4, <2>5
<1>14. CASE HalExit
  <2>1. /\ boot = "hal_exit" /\ boot' = "failed" /\ functs' = {}
        /\ UNCHANGED <<masters, slaves, held, released, domains>>
    BY <1>14 DEF HalExit, Enter, Goto, parseVars
  <2>2. TreeInv' /\ Accounted'
    BY <2>1, TreeKept, AccountedKept DEF ReleaseInv
  <2>3. Reached'
    BY <2>1 DEF ReleaseInv, Reached, Before, Loops
  <2> QED
    BY <2>2, <2>3 DEF ReleaseInv
<1>15. CASE AppExit
  BY <1>15, ReleaseFail DEF AppExit
<1> QED
  BY <1>1, <1>2, <1>3, <1>4, <1>5, <1>6, <1>7, <1>8, <1>9, <1>10, <1>11, <1>12, <1>13,
     <1>14, <1>15 DEF Next, Loading

(* However far the start of the module got, and after its end: each master *)
(* that was requested is released once and nothing of it is used behind    *)
(* that, and no funct is left when the module is gone.                     *)
THEOREM ReleasedOnceCorrect == Spec => []ReleasedOnce
<1>1. ASSUME ReleaseInv
      PROVE  ReleasedOnce
  <2>1. \A i \in DOMAIN released : released[i] <= 1
    BY <1>1, ReleaseType
  <2> QED
    BY <1>1, <2>1 DEF ReleaseInv, Accounted, Reached, ReleasedOnce
<1> QED
  BY <1>1, ReleaseInit, ReleaseStep, PTL DEF Spec

---------------------------------------------------------------------------
(* The Sync Units that are done: all of the masters before m, and those    *)
(* of m before k.                                                          *)
Done(ms, m, k) ==
  {p \in (DOMAIN ms) \X Nat :
     /\ p[2] \in DOMAIN ms[p[1]].units
     /\ p[1] < m \/ (p[1] = m /\ p[2] < k)}
Upto(ms, m) == Done(ms, m + 1, 0)

(* The slaves are initialised in their order, master by master.            *)
SlavesDone ==
  /\ regs \in Seq(Nat) /\ Len(regs) <= Len(slaves)
  /\ boot \in Before => regs = << >>
  /\ boot \in {"request", "domain"} =>
       \A j \in DOMAIN slaves : j <= Len(regs) <=> slaves[j].master < at.m
  /\ boot = "slave" => at.k \in Of(at.m) /\ Len(regs) = at.k - 1
  /\ boot \in {"unit", "pins", "activate", "export"} =>
       \A j \in DOMAIN slaves : j <= Len(regs) <=> slaves[j].master <= at.m
  /\ boot = "ready" => Len(regs) = Len(slaves)

(* The domains are those of the Sync Units.                                *)
DomainsDone ==
  /\ boot \in Before => domains = {}
  /\ boot = "request" => domains = Done(masters, at.m, 0)
  /\ boot = "domain" => at.k \in 1 .. (Len(masters[at.m].units) + 1) /\ domains = Done(masters, at.m, at.k)
  /\ boot \in Loops \ {"domain"} => domains = Upto(masters, at.m)
  /\ boot = "ready" => domains = Upto(masters, Len(masters))

(* So are the lists, which hold what the slaves of the unit registered.    *)
ListsDone ==
  /\ boot \in Before => lists = << >>
  /\ boot \in {"request", "domain", "slave"} => DOMAIN lists = Done(masters, at.m, 0)
  /\ boot = "unit" => at.k \in 1 .. (Len(masters[at.m].units) + 1) /\ DOMAIN lists = Done(masters, at.m, at.k)
  /\ boot \in {"pins", "activate", "export"} => DOMAIN lists = Upto(masters, at.m)
  /\ boot = "ready" => DOMAIN lists = Upto(masters, Len(masters))

ListsHold ==
  \A p \in DOMAIN lists : /\ InUnit(p[1], p[2]) \subseteq DOMAIN regs
                          /\ lists[p] = Total(regs, InUnit(p[1], p[2]))

(* The funct of initf comes last.                                          *)
Activates ==
  /\ boot \in Before \cup Loops \cup {"request"} => <<"activate", 0>> \notin functs
  /\ boot = "ready" => (<<"activate", 0>> \in functs <=> initf)

RegisterInv == ReleaseInv /\ SlavesDone /\ DomainsDone /\ ListsDone /\ ListsHold /\ Activates

(* The next slave of a master is the next of all, and behind its last one  *)
(* all slaves up to this master are done.  n slaves are done, those of the *)
(* present master up to k.                                                 *)
LEMMA NextSlaveInOrder ==
  ASSUME TreeInv, NEW n \in Nat, NEW k \in Nat, at.m \in Nat, n <= Len(slaves), NextSlave(k),
         \A j \in DOMAIN slaves :
           j <= n <=> slaves[j].master < at.m \/ (slaves[j].master = at.m /\ j <= k)
  PROVE  \/ boot' = "slave" /\ at'.m = at.m /\ at'.k \in Of(at.m) /\ n = at'.k - 1
         \/ /\ boot' = "unit" /\ at'.m = at.m /\ at'.k = 1
            /\ \A j \in DOMAIN slaves : j <= n <=> slaves[j].master <= at.m
<1>1. /\ Len(slaves) \in Nat /\ DOMAIN slaves = 1 .. Len(slaves)
      /\ DOMAIN masters = 1 .. Len(masters)
  BY SequenceDomain DEF TreeInv
<1>2. \A j \in DOMAIN slaves : slaves[j].master \in Nat
  BY <1>1 DEF TreeInv, SlaveWellFormed
<1>3. CASE SlaveBehind(k) # {}
  <2> DEFINE i == Min(SlaveBehind(k))
  <2>1. SlaveBehind(k) \in SUBSET Nat
    BY <1>1 DEF SlaveBehind, Of
  <2>2. i \in SlaveBehind(k) /\ \A y \in SlaveBehind(k) : i <= y
    BY <1>3, <2>1, MinOfNaturals
  <2>3. boot' = "slave" /\ at'.m = at.m /\ at'.k = i
    BY <1>3 DEF NextSlave, Enter, Goto
  <2> HIDE DEF i
  <2>4. i \in Of(at.m) /\ i > k /\ i \in DOMAIN slaves /\ slaves[i].master = at.m
    BY <2>2 DEF SlaveBehind, Of
  <2>5. ~ (i <= n)
    BY <1>1, <2>1, <2>4
  <2>6. n + 1 \in DOMAIN slaves /\ n + 1 <= i
    BY <1>1, <2>4, <2>5
  <2>7. slaves[n + 1].master <= slaves[i].master
    BY <2>4, <2>6 DEF TreeInv
  <2>8. slaves[n + 1].master = at.m /\ ~ (n + 1 <= k)
    <3>1. ~ (slaves[n + 1].master < at.m \/ (slaves[n + 1].master = at.m /\ n + 1 <= k))
      BY <2>6
    <3>2. slaves[n + 1].master \in Nat
      BY <1>2, <2>6
    <3> QED
      BY <2>4, <2>7, <3>1, <3>2
  <2>9. i <= n + 1
    <3>1. n + 1 > k
      BY <2>8
    <3>2. n + 1 \in SlaveBehind(k)
      BY <2>6, <2>8, <3>1 DEF SlaveBehind, Of
    <3> QED
      BY <2>2, <3>2
  <2> QED
    BY <1>1, <2>3, <2>4, <2>6, <2>9
<1>4. CASE SlaveBehind(k) = {}
  <2>1. boot' = "unit" /\ at'.m = at.m /\ at'.k = 1
    BY <1>4 DEF NextSlave, Enter, Goto
  <2>2. \A j \in DOMAIN slaves : slaves[j].master = at.m => ~ (j > k)
    BY <1>4 DEF SlaveBehind, Of
  <2> QED
    BY <1>1, <1>2, <2>1, <2>2
<1> QED
  BY <1>3, <1>4

---------------------------------------------------------------------------
(* The steps, by what they do to the registration.                         *)
Stays ==
  /\ boot' = boot /\ UNCHANGED <<at, domains, regs, lists, functs, initf>>
  /\ boot \in Before \/ UNCHANGED <<masters, slaves>>

Launches ==
  /\ boot \in Before /\ UNCHANGED <<domains, regs, lists, functs>>
  /\ boot' \in {"parse", "clear", "hal_exit", "failed"} \/ (boot' = "request" /\ at'.m = 1)

EntersMaster ==
  /\ boot = "request" /\ at.m <= Len(masters) /\ boot' = "domain" /\ at'.m = at.m /\ at'.k = 1
  /\ UNCHANGED <<masters, slaves, domains, regs, lists, functs, initf>>

AddsDomain ==
  /\ boot = "domain" /\ at.k \in UnitsOf(at.m) /\ boot' = "domain" /\ at'.m = at.m
  /\ at'.k = at.k + 1 /\ domains' = domains \cup {<<at.m, at.k>>}
  /\ UNCHANGED <<masters, slaves, regs, lists, functs, initf>>

EndsDomains ==
  /\ boot = "domain" /\ at.k \notin UnitsOf(at.m) /\ NextSlave(0)
  /\ UNCHANGED <<masters, slaves, domains, regs, lists, functs, initf>>

AddsSlave ==
  /\ boot = "slave" /\ NextSlave(at.k) /\ \E n \in RegCounts : regs' = Append(regs, Smaller(n, MaxRegs))
  /\ UNCHANGED <<masters, slaves, domains, lists, functs, initf>>

AddsList ==
  /\ boot = "unit" /\ at.k \in UnitsOf(at.m) /\ boot' = "unit" /\ at'.m = at.m
  /\ at'.k = at.k + 1
  /\ lists' = [p \in DOMAIN lists \cup {<<at.m, at.k>>} |->
                IF p = <<at.m, at.k>> THEN RegsOf(at.m, at.k) ELSE lists[p]]
  /\ UNCHANGED <<masters, slaves, domains, regs, functs, initf>>

EndsLists ==
  /\ boot = "unit" /\ at.k \notin UnitsOf(at.m) /\ boot' = "pins" /\ at'.m = at.m
  /\ UNCHANGED <<masters, slaves, domains, regs, lists, functs, initf>>

Activating ==
  /\ boot \in {"pins", "activate"} /\ boot' \in {"activate", "export"} /\ at'.m = at.m
  /\ UNCHANGED <<masters, slaves, domains, regs, lists, functs, initf>>

LeavesMaster ==
  /\ boot = "export" /\ boot' = "request" /\ at'.m = at.m + 1
  /\ functs' = functs \cup {<<"read", at.m>>, <<"write", at.m>>}
  /\ UNCHANGED <<masters, slaves, domains, regs, lists, initf>>

GetsReady ==
  /\ boot = "request" /\ at.m > Len(masters) /\ boot' = "ready"
  /\ functs' = functs \cup {<<"read", 0>>, <<"write", 0>>}
               \cup (IF initf THEN {<<"activate", 0>>} ELSE {})
  /\ UNCHANGED <<masters, slaves, domains, regs, lists, initf>>

Leaves ==
  /\ boot \notin Before /\ boot' \in {"clear", "hal_exit", "failed", "crashed"}
  /\ UNCHANGED <<masters, slaves, regs, lists>>

Moves == \/ Stays \/ Launches \/ EntersMaster \/ AddsDomain \/ EndsDomains \/ AddsSlave
         \/ AddsList \/ EndsLists \/ Activating \/ LeavesMaster \/ GetsReady \/ Leaves

(* Every step is one of the moves above.                                   *)
LEMMA NextMoves ==
  ASSUME [Next]_vars
  PROVE  Moves
<1>1. CASE UNCHANGED vars \/ Conf
  BY <1>1 DEF vars, Conf, parseVars, bootVars, Stays, Moves
<1>2. CASE HalInit
  BY <1>2 DEF HalInit, Goto, Tree, Launches, Before, Moves
<1>3. CASE Parse
  BY <1>3 DEF Parse, bootVars, Stays, Before, Moves
<1>4. CASE GlobalPins
  BY <1>4 DEF GlobalPins, Enter, Goto, Tree, Launches, Before, Moves
<1>5. CASE Fail2 /\ boot \notin Before
  BY <1>5 DEF Fail2, Enter, Goto, Tree, parseVars, Leaves, Moves
<1>6. CASE RequestMaster /\ ~Fail2
  BY <1>6 DEF RequestMaster, Enter, Goto, parseVars, EntersMaster, Moves
<1>7. CASE CreateDomain /\ ~Fail2
  <2>1. CASE at.k \in UnitsOf(at.m)
    BY <1>7, <2>1 DEF CreateDomain, Enter, Goto, parseVars, AddsDomain, Moves
  <2>2. CASE at.k \notin UnitsOf(at.m)
    <3>1. boot = "domain" /\ NextSlave(0) /\ UNCHANGED <<domains, regs, lists, functs>>
      BY <1>7, <2>2 DEF CreateDomain, Tree
    <3> QED
      BY <2>2, <3>1, NextSlaveEnters DEF EndsDomains, Moves
  <2> QED
    BY <2>1, <2>2
<1>8. CASE InitSlave /\ ~Fail2
  <2>1. /\ boot = "slave" /\ NextSlave(at.k) /\ UNCHANGED <<domains, lists, functs>>
        /\ \E n \in RegCounts : regs' = Append(regs, Smaller(n, MaxRegs))
    BY <1>8 DEF InitSlave
  <2> QED
    BY <2>1, NextSlaveEnters DEF AddsSlave, Moves
<1>9. CASE RegisterUnit /\ ~Fail2
  <2>1. CASE at.k \in UnitsOf(at.m)
    BY <1>9, <2>1 DEF RegisterUnit, Enter, Goto, parseVars, AddsList, Moves
  <2>2. CASE at.k \notin UnitsOf(at.m)
    BY <1>9, <2>2 DEF RegisterUnit, Enter, Goto, Tree, parseVars, EndsLists, Moves
  <2> QED
    BY <2>1, <2>2
<1>10. CASE MasterPins
  BY <1>10 DEF MasterPins, Enter, Goto, Tree, parseVars, Before, Activating, Leaves, Moves
<1>11. CASE ActivateMaster /\ ~Fail2
  BY <1>11 DEF ActivateMaster, Enter, Goto, Tree, parseVars, Activating, Moves
<1>12. CASE ExportMaster /\ ~Fail2
  BY <1>12 DEF ExportMaster, Enter, Goto, parseVars, LeavesMaster, Moves
<1>13. CASE ExportAll /\ ~Fail2
  BY <1>13 DEF ExportAll, Enter, Goto, parseVars, GetsReady, Moves
<1>14. CASE ClearMaster
  BY <1>14 DEF ClearMaster, Enter, Goto, Tree, parseVars, Before, Leaves, Moves
<1>15. CASE HalExit
  BY <1>15 DEF HalExit, Enter, Goto, parseVars, Before, Leaves, Moves
<1>16. CASE AppExit
  <2>1. boot \notin Before
    BY <1>16 DEF AppExit, Before
  <2> QED
    BY <1>5, <1>16, <2>1 DEF AppExit
<1>17. RequestMaster \/ CreateDomain \/ InitSlave \/ RegisterUnit \/ ActivateMaster
       \/ ExportMaster \/ ExportAll => boot \notin Before
  BY DEF RequestMaster, CreateDomain, InitSlave, RegisterUnit, ActivateMaster, ExportMaster,
         ExportAll, Before
<1> QED
  BY <1>1, <1>2, <1>3, <1>4, <1>5, <1>6, <1>7, <1>8, <1>9, <1>10, <1>11, <1>12, <1>13,
     <1>14, <1>15, <1>16, <1>17 DEF Next, Loading

---------------------------------------------------------------------------
(* The slaves keep their order through every step.                         *)
LEMMA SlavesStep ==
  ASSUME ReleaseInv, ReleaseInv', SlavesDone, Moves
  PROVE  SlavesDone'
<1>1. /\ Len(slaves) \in Nat /\ DOMAIN slaves = 1 .. Len(slaves) /\ Len(masters) \in Nat
      /\ regs \in Seq(Nat) /\ Len(regs) \in Nat /\ Len(regs) <= Len(slaves)
      /\ \A j \in DOMAIN slaves : slaves[j].master \in Nat /\ slaves[j].master # 0
                                  /\ slaves[j].master <= Len(masters)
  <2>1. regs \in Seq(Nat) /\ Len(regs) <= Len(slaves)
    BY DEF SlavesDone
  <2>2. Len(slaves) \in Nat /\ DOMAIN slaves = 1 .. Len(slaves)
    BY ReleaseType
  <2>3. Len(masters) \in Nat /\ DOMAIN masters = 1 .. Len(masters)
    BY ReleaseType
  <2>4. \A j \in DOMAIN slaves : slaves[j].master \in 1 .. Len(masters)
    BY <2>3 DEF ReleaseInv, TreeInv, SlaveWellFormed
  <2> QED
    BY <2>1, <2>2, <2>3, <2>4
<1>2. boot \in Loops \cup {"request"} => at.m \in Nat
  <2>1. Len(released) \in Nat
    BY ReleaseType
  <2> QED
    BY <2>1 DEF ReleaseInv, Reached
<1>3. CASE boot \in Before
  <2>1. regs = << >> /\ Len(regs) = 0 /\ regs' = regs
    BY <1>3 DEF SlavesDone, Moves, Stays, Launches, EntersMaster, AddsDomain, EndsDomains,
                AddsSlave, AddsList, EndsLists, Activating, LeavesMaster, GetsReady, Leaves, Before
  <2>2. /\ Len(slaves') \in Nat /\ DOMAIN slaves' = 1 .. Len(slaves')
        /\ \A j \in DOMAIN slaves' : slaves'[j].master \in Nat /\ slaves'[j].master # 0
    <3>1. TreeInv'
      BY DEF ReleaseInv
    <3>2. /\ Len(slaves') \in Nat /\ DOMAIN slaves' = 1 .. Len(slaves')
          /\ Len(masters') \in Nat /\ DOMAIN masters' = 1 .. Len(masters')
      BY <3>1, SequenceDomain DEF TreeInv
    <3> QED
      BY <3>1, <3>2 DEF TreeInv, SlaveWellFormed
  <2>3. \/ boot' \in Before \cup {"clear", "hal_exit", "failed"}
        \/ boot' = "request" /\ at'.m = 1
    BY <1>3 DEF Moves, Stays, Launches, EntersMaster, AddsDomain, EndsDomains,
                AddsSlave, AddsList, EndsLists, Activating, LeavesMaster, GetsReady, Leaves, Before
  <2> QED
    BY <2>1, <2>2, <2>3 DEF SlavesDone, Before
<1>4. CASE Stays /\ boot \notin Before
  BY <1>4 DEF Stays, SlavesDone, Of
<1>5. CASE EntersMaster
  BY <1>5 DEF EntersMaster, SlavesDone, Before
<1>6. CASE AddsDomain
  BY <1>6 DEF AddsDomain, SlavesDone, Before
<1>7. CASE EndsDomains
  <2>1. /\ boot = "domain" /\ NextSlave(0) /\ UNCHANGED <<masters, slaves, regs>>
    BY <1>7 DEF EndsDomains
  <2>2. \A j \in DOMAIN slaves : j <= Len(regs) <=> slaves[j].master < at.m
    BY <2>1 DEF SlavesDone
  <2>3. \A j \in DOMAIN slaves :
          j <= Len(regs) <=> slaves[j].master < at.m \/ (slaves[j].master = at.m /\ j <= 0)
    BY <1>1, <2>2
  <2>4. TreeInv /\ at.m \in Nat
    BY <1>2, <2>1 DEF ReleaseInv, Loops
  <2>5. \/ boot' = "slave" /\ at'.m = at.m /\ at'.k \in Of(at.m) /\ Len(regs) = at'.k - 1
        \/ /\ boot' = "unit" /\ at'.m = at.m /\ at'.k = 1
           /\ \A j \in DOMAIN slaves : j <= Len(regs) <=> slaves[j].master <= at.m
    BY <1>1, <2>1, <2>3, <2>4, NextSlaveInOrder
  <2> QED
    BY <1>1, <2>1, <2>5 DEF SlavesDone, Before, Of
<1>8. CASE AddsSlave
  <2>1. /\ boot = "slave" /\ NextSlave(at.k) /\ UNCHANGED <<masters, slaves>>
        /\ \E n \in RegCounts : regs' = Append(regs, Smaller(n, MaxRegs))
    BY <1>8 DEF AddsSlave
  <2>2. at.k \in Of(at.m) /\ Len(regs) = at.k - 1
    BY <2>1 DEF SlavesDone
  <2>3. at.k \in DOMAIN slaves /\ at.k \in Nat /\ slaves[at.k].master = at.m
    BY <1>1, <2>2 DEF Of
  <2>4. regs' \in Seq(Nat) /\ Len(regs') = at.k
    <3>1. PICK n \in RegCounts : regs' = Append(regs, Smaller(n, MaxRegs))
      BY <2>1
    <3>2. Smaller(n, MaxRegs) \in Nat
      BY RegistrationAssumption DEF Smaller
    <3> QED
      BY <1>1, <2>2, <2>3, <3>1, <3>2
  <2>5. \A j \in DOMAIN slaves : /\ j <= at.k => slaves[j].master <= at.m
                                 /\ at.k <= j => at.m <= slaves[j].master
    BY <2>3 DEF ReleaseInv, TreeInv
  <2>6. TreeInv /\ at.m \in Nat
    BY <1>2, <2>1 DEF ReleaseInv, Loops
  <2>7. \A j \in DOMAIN slaves :
          j <= at.k <=> slaves[j].master < at.m \/ (slaves[j].master = at.m /\ j <= at.k)
    BY <1>1, <2>3, <2>5, <2>6
  <2>8. at.k <= Len(slaves)
    BY <1>1, <2>3
  <2>9. \/ boot' = "slave" /\ at'.m = at.m /\ at'.k \in Of(at.m) /\ at.k = at'.k - 1
        \/ /\ boot' = "unit" /\ at'.m = at.m /\ at'.k = 1
           /\ \A j \in DOMAIN slaves : j <= at.k <=> slaves[j].master <= at.m
    BY <2>1, <2>3, <2>6, <2>7, <2>8, NextSlaveInOrder
  <2>10. CASE boot' = "slave"
    BY <1>1, <2>1, <2>4, <2>8, <2>9, <2>10 DEF SlavesDone, Before, Of
  <2>11. CASE boot' = "unit"
    <3>1. \A j \in DOMAIN slaves : j <= Len(regs') <=> slaves[j].master <= at'.m
      BY <2>4, <2>9, <2>11
    <3>2. DOMAIN slaves' = DOMAIN slaves
      BY <2>1
    <3> QED
      BY <1>1, <2>1, <2>4, <2>8, <2>11, <3>1, <3>2 DEF SlavesDone, Before
  <2> QED
    BY <2>9, <2>10, <2>11
<1>9. CASE AddsList
  BY <1>9 DEF AddsList, SlavesDone, Before
<1>10. CASE EndsLists
  BY <1>10 DEF EndsLists, SlavesDone, Before
<1>11. CASE Activating
  BY <1>11 DEF Activating, SlavesDone, Before
<1>12. CASE LeavesMaster
  <2>1. /\ boot = "export" /\ boot' = "request" /\ at'.m = at.m + 1
        /\ UNCHANGED <<slaves, regs>> /\ at.m \in Nat
    BY <1>2, <1>12 DEF LeavesMaster, Loops
  <2>2. \A j \in DOMAIN slaves : j <= Len(regs) <=> slaves[j].master <= at.m
    BY <2>1 DEF SlavesDone
  <2>3. \A j \in DOMAIN slaves : j <= Len(regs) <=> slaves[j].master < at.m + 1
    BY <1>1, <2>1, <2>2
  <2> QED
    BY <1>1, <2>1, <2>3 DEF SlavesDone, Before
<1>13. CASE GetsReady
  <2>1. /\ boot = "request" /\ boot' = "ready" /\ at.m > Len(masters)
        /\ UNCHANGED <<slaves, regs>> /\ at.m \in Nat
    BY <1>2, <1>13 DEF GetsReady
  <2>2. \A j \in DOMAIN slaves : j <= Len(regs) <=> slaves[j].master < at.m
    BY <2>1 DEF SlavesDone
  <2>3. \A j \in DOMAIN slaves : j <= Len(regs)
    BY <1>1, <2>1, <2>2
  <2>4. Len(regs) = Len(slaves)
    <3>1. Len(slaves) = 0 \/ Len(slaves) \in DOMAIN slaves
      BY <1>1
    <3>2. Len(slaves) <= Len(regs)
      BY <1>1, <2>3, <3>1
    <3> QED
      BY <1>1, <3>2
  <2> QED
    BY <1>1, <2>1, <2>4 DEF SlavesDone, Before
<1>14. CASE Leaves
  BY <1>14 DEF Leaves, SlavesDone, Before
<1> QED
  BY <1>3, <1>4, <1>5, <1>6, <1>7, <1>8, <1>9, <1>10, <1>11, <1>12, <1>13, <1>14
  DEF Moves, Launches

---------------------------------------------------------------------------
(* The Sync Units that are done grow by one, and a master is done behind   *)
(* its last one.                                                           *)
LEMMA DoneUnits ==
  ASSUME ReleaseInv, NEW m \in DOMAIN masters
  PROVE  /\ Done(masters, m, 1) = Done(masters, m, 0)
         /\ \A k \in UnitsOf(m) : Done(masters, m, k + 1) = Done(masters, m, k) \cup {<<m, k>>}
         /\ Done(masters, m, Len(masters[m].units) + 1) = Upto(masters, m)
<1>1. /\ Len(masters) \in Nat /\ DOMAIN masters = 1 .. Len(masters) /\ m \in Nat
      /\ \A i \in DOMAIN masters : /\ Len(masters[i].units) \in Nat
                                   /\ UnitsOf(i) = 1 .. Len(masters[i].units)
  BY ReleaseType DEF UnitsOf
<1>2. Done(masters, m, 1) = Done(masters, m, 0)
  <2>1. ASSUME NEW p \in (DOMAIN masters) \X Nat
        PROVE  p \in Done(masters, m, 1) <=> p \in Done(masters, m, 0)
    <3>1. p[1] \in DOMAIN masters
      OBVIOUS
    <3>2. p[2] \in UnitsOf(p[1]) => ~ (p[2] < 1) /\ ~ (p[2] < 0)
      BY <1>1, <3>1
    <3> QED
      BY <3>2 DEF Done, UnitsOf
  <2> QED
    BY <2>1 DEF Done
<1>3. \A k \in UnitsOf(m) : Done(masters, m, k + 1) = Done(masters, m, k) \cup {<<m, k>>}
  <2> SUFFICES ASSUME NEW k \in UnitsOf(m)
               PROVE  Done(masters, m, k + 1) = Done(masters, m, k) \cup {<<m, k>>}
    OBVIOUS
  <2>1. k \in Nat
    BY <1>1
  <2>2. ASSUME NEW p \in (DOMAIN masters) \X Nat
        PROVE  p \in Done(masters, m, k + 1) <=> p \in Done(masters, m, k) \/ p = <<m, k>>
    <3>1. /\ p[1] \in Nat /\ p[2] \in Nat /\ p = <<p[1], p[2]>>
      BY <1>1
    <3>2. p = <<m, k>> <=> p[1] = m /\ p[2] = k
      BY <3>1
    <3> QED
      BY <1>1, <2>1, <3>1, <3>2 DEF Done, UnitsOf
  <2>3. <<m, k>> \in (DOMAIN masters) \X Nat
    BY <2>1
  <2> QED
    BY <2>2, <2>3 DEF Done, UnitsOf
<1>4. Done(masters, m, Len(masters[m].units) + 1) = Upto(masters, m)
  <2>1. ASSUME NEW p \in (DOMAIN masters) \X Nat
        PROVE  p \in Done(masters, m, Len(masters[m].units) + 1) <=> p \in Upto(masters, m)
    <3>1. p[1] \in DOMAIN masters /\ p[1] \in Nat /\ p[2] \in Nat
      BY <1>1
    <3> DEFINE l == Len(masters[m].units) + 1
    <3>2. p[2] \in UnitsOf(p[1]) /\ p[1] = m => p[2] < l
      BY <1>1, <3>1
    <3>3. (p[1] < m + 1 <=> p[1] < m \/ p[1] = m) /\ ~ (p[2] < 0)
      BY <1>1, <3>1
    <3> HIDE DEF l
    <3>4. p \in Done(masters, m, l) <=> p \in Upto(masters, m)
      BY <3>2, <3>3 DEF Done, Upto, UnitsOf
    <3> QED
      BY <3>4 DEF l
  <2> QED
    BY <2>1 DEF Done, Upto
<1> QED
  BY <1>2, <1>3, <1>4

(* The domains that were created are those of the Sync Units.              *)
LEMMA DomainsStep ==
  ASSUME ReleaseInv, ReleaseInv', DomainsDone, Moves
  PROVE  DomainsDone'
<1>1. Len(masters) \in Nat /\ DOMAIN masters = 1 .. Len(masters)
  BY ReleaseType
<1>2. boot \in Loops \cup {"request"} => at.m \in Nat /\ at.m # 0
  <2>1. Len(released) \in Nat
    BY ReleaseType
  <2> QED
    BY <2>1 DEF ReleaseInv, Reached
<1>3. boot \in Loops => at.m \in DOMAIN masters
  <2>1. Len(released) \in Nat /\ Len(released) <= Len(masters)
    BY ReleaseType
  <2> QED
    BY <1>1, <2>1 DEF ReleaseInv, Reached
<1>4. CASE boot \in Before
  <2>1. domains' = {}
    BY <1>4 DEF DomainsDone, Moves, Stays, Launches, EntersMaster, AddsDomain, EndsDomains,
                AddsSlave, AddsList, EndsLists, Activating, LeavesMaster, GetsReady, Leaves, Before
  <2>2. \/ boot' \in Before \cup {"clear", "hal_exit", "failed"}
        \/ boot' = "request" /\ at'.m = 1
    BY <1>4 DEF Moves, Stays, Launches, EntersMaster, AddsDomain, EndsDomains,
                AddsSlave, AddsList, EndsLists, Activating, LeavesMaster, GetsReady, Leaves, Before
  <2>3. Done(masters', 1, 0) = {}
    <3>1. IsSequence(masters')
      BY DEF ReleaseInv, TreeInv
    <3>2. Len(masters') \in Nat /\ DOMAIN masters' = 1 .. Len(masters')
      BY <3>1, SequenceDomain
    <3> QED
      BY <3>2 DEF Done
  <2> QED
    BY <2>1, <2>2, <2>3 DEF DomainsDone, Before, Loops
<1>5. CASE Stays /\ boot \notin Before
  BY <1>5 DEF Stays, DomainsDone
<1>6. CASE EntersMaster
  <2>1. /\ boot = "request" /\ boot' = "domain" /\ at'.m = at.m /\ at'.k = 1
        /\ UNCHANGED <<masters, domains>> /\ at.m \in DOMAIN masters
    BY <1>1, <1>2, <1>6 DEF EntersMaster
  <2>2. Len(masters[at.m].units) \in Nat
    BY <2>1, ReleaseType
  <2>3. domains = Done(masters, at.m, 0) /\ Done(masters, at.m, 1) = Done(masters, at.m, 0)
    BY <2>1, DoneUnits DEF DomainsDone
  <2> QED
    BY <2>1, <2>2, <2>3 DEF DomainsDone, Before, Loops
<1>7. CASE AddsDomain
  <2>1. /\ boot = "domain" /\ boot' = "domain" /\ at'.m = at.m /\ at'.k = at.k + 1
        /\ masters' = masters /\ domains' = domains \cup {<<at.m, at.k>>}
        /\ at.k \in UnitsOf(at.m) /\ at.m \in DOMAIN masters
    BY <1>3, <1>7 DEF AddsDomain, Loops
  <2>2. Len(masters[at.m].units) \in Nat /\ at.k \in 1 .. Len(masters[at.m].units)
    BY <2>1, ReleaseType DEF UnitsOf
  <2>3. domains' = Done(masters, at.m, at.k + 1)
    BY <2>1, DoneUnits DEF DomainsDone
  <2> QED
    BY <2>1, <2>2, <2>3 DEF DomainsDone, Before, Loops
<1>8. CASE EndsDomains
  <2>1. /\ boot = "domain" /\ at.k \notin UnitsOf(at.m) /\ boot' \in {"slave", "unit"}
        /\ at'.m = at.m /\ UNCHANGED <<masters, domains>> /\ at.m \in DOMAIN masters
    BY <1>3, <1>8, NextSlaveEnters DEF EndsDomains, Loops
  <2>2. /\ Len(masters[at.m].units) \in Nat /\ UnitsOf(at.m) = 1 .. Len(masters[at.m].units)
        /\ at.k \in 1 .. (Len(masters[at.m].units) + 1) /\ domains = Done(masters, at.m, at.k)
    BY <2>1, ReleaseType DEF UnitsOf, DomainsDone
  <2>3. at.k = Len(masters[at.m].units) + 1
    BY <2>1, <2>2
  <2>4. domains = Upto(masters, at.m)
    BY <2>1, <2>2, <2>3, DoneUnits
  <2> QED
    BY <2>1, <2>4 DEF DomainsDone, Before, Loops
<1>9. CASE AddsSlave
  <2>1. /\ boot = "slave" /\ boot' \in {"slave", "unit"} /\ at'.m = at.m
        /\ UNCHANGED <<masters, domains>>
    BY <1>9, NextSlaveEnters DEF AddsSlave
  <2> QED
    BY <2>1 DEF DomainsDone, Before, Loops
<1>10. CASE AddsList \/ EndsLists \/ Activating
  <2>1. /\ boot \in {"unit", "pins", "activate"} /\ boot' \in {"unit", "pins", "activate", "export"}
        /\ at'.m = at.m /\ UNCHANGED <<masters, domains>>
    BY <1>10 DEF AddsList, EndsLists, Activating
  <2> QED
    BY <2>1 DEF DomainsDone, Before, Loops
<1>11. CASE LeavesMaster
  <2>1. /\ boot = "export" /\ boot' = "request" /\ at'.m = at.m + 1
        /\ UNCHANGED <<masters, domains>>
    BY <1>11 DEF LeavesMaster
  <2> QED
    BY <2>1 DEF DomainsDone, Before, Loops, Upto
<1>12. CASE GetsReady
  <2>1. /\ boot = "request" /\ boot' = "ready" /\ at.m > Len(masters)
        /\ UNCHANGED <<masters, domains>>
    BY <1>12 DEF GetsReady
  <2>2. at.m = Len(masters) + 1
    <3>1. at.m = Len(released) + 1 /\ Len(released) \in Nat /\ Len(released) <= Len(masters)
      BY <2>1, ReleaseType DEF ReleaseInv, Reached
    <3> QED
      BY <1>1, <2>1, <3>1
  <2> QED
    BY <2>1, <2>2 DEF DomainsDone, Before, Loops, Upto
<1>13. CASE Leaves
  BY <1>13 DEF Leaves, DomainsDone, Before, Loops
<1> QED
  BY <1>4, <1>5, <1>6, <1>7, <1>8, <1>9, <1>10, <1>11, <1>12, <1>13 DEF Moves, Launches

(* The lists that were made are those of the Sync Units.                   *)
LEMMA ListsStep ==
  ASSUME ReleaseInv, ReleaseInv', ListsDone, Moves
  PROVE  ListsDone'
<1>1. Len(masters) \in Nat /\ DOMAIN masters = 1 .. Len(masters)
  BY ReleaseType
<1>2. boot \in Loops => at.m \in DOMAIN masters /\ at.m \in Nat
  <2>1. Len(released) \in Nat /\ Len(released) <= Len(masters)
    BY ReleaseType
  <2> QED
    BY <1>1, <2>1 DEF ReleaseInv, Reached
<1>3. CASE boot \in Before
  <2>1. lists' = << >>
    BY <1>3 DEF ListsDone, Moves, Stays, Launches, EntersMaster, AddsDomain, EndsDomains,
                AddsSlave, AddsList, EndsLists, Activating, LeavesMaster, GetsReady, Leaves, Before
  <2>2. \/ boot' \in Before \cup {"clear", "hal_exit", "failed"}
        \/ boot' = "request" /\ at'.m = 1
    BY <1>3 DEF Moves, Stays, Launches, EntersMaster, AddsDomain, EndsDomains,
                AddsSlave, AddsList, EndsLists, Activating, LeavesMaster, GetsReady, Leaves, Before
  <2>3. Done(masters', 1, 0) = {}
    <3>1. IsSequence(masters')
      BY DEF ReleaseInv, TreeInv
    <3>2. Len(masters') \in Nat /\ DOMAIN masters' = 1 .. Len(masters')
      BY <3>1, SequenceDomain
    <3> QED
      BY <3>2 DEF Done
  <2>4. DOMAIN lists' = {}
    BY <2>1
  <2> QED
    BY <2>1, <2>2, <2>3, <2>4 DEF ListsDone, Before
<1>4. CASE Stays /\ boot \notin Before
  BY <1>4 DEF Stays, ListsDone
<1>5. CASE EntersMaster \/ AddsDomain
  <2>1. /\ boot \in {"request", "domain"} /\ boot' = "domain" /\ at'.m = at.m
        /\ UNCHANGED <<masters, lists>>
    BY <1>5 DEF EntersMaster, AddsDomain
  <2> QED
    BY <2>1 DEF ListsDone, Before
<1>6. CASE EndsDomains \/ AddsSlave
  <2>1. /\ boot \in {"domain", "slave"} /\ boot' \in {"slave", "unit"}
        /\ at'.m = at.m /\ UNCHANGED <<masters, lists>> /\ at.m \in DOMAIN masters
        /\ boot' = "unit" => at'.k = 1
    BY <1>2, <1>6, NextSlaveEnters DEF EndsDomains, AddsSlave, Loops
  <2>2. Len(masters[at.m].units) \in Nat
    BY <2>1, ReleaseType
  <2>3. Done(masters, at.m, 1) = Done(masters, at.m, 0)
    BY <2>1, DoneUnits
  <2>4. DOMAIN lists = Done(masters, at.m, 0)
    BY <2>1 DEF ListsDone
  <2> QED
    BY <2>1, <2>2, <2>3, <2>4 DEF ListsDone, Before
<1>7. CASE AddsList
  <2>1. /\ boot = "unit" /\ boot' = "unit" /\ at'.m = at.m /\ at'.k = at.k + 1
        /\ masters' = masters /\ DOMAIN lists' = (DOMAIN lists) \cup {<<at.m, at.k>>}
        /\ at.k \in UnitsOf(at.m) /\ at.m \in DOMAIN masters
    BY <1>2, <1>7 DEF AddsList, Loops
  <2>2. Len(masters[at.m].units) \in Nat /\ at.k \in 1 .. Len(masters[at.m].units)
    BY <2>1, ReleaseType DEF UnitsOf
  <2>3. DOMAIN lists' = Done(masters, at.m, at.k + 1)
    BY <2>1, DoneUnits DEF ListsDone
  <2> QED
    BY <2>1, <2>2, <2>3 DEF ListsDone, Before
<1>8. CASE EndsLists
  <2>1. /\ boot = "unit" /\ at.k \notin UnitsOf(at.m) /\ boot' = "pins"
        /\ at'.m = at.m /\ UNCHANGED <<masters, lists>> /\ at.m \in DOMAIN masters
    BY <1>2, <1>8 DEF EndsLists, Loops
  <2>2. /\ Len(masters[at.m].units) \in Nat /\ UnitsOf(at.m) = 1 .. Len(masters[at.m].units)
        /\ at.k \in 1 .. (Len(masters[at.m].units) + 1) /\ DOMAIN lists = Done(masters, at.m, at.k)
    BY <2>1, ReleaseType DEF UnitsOf, ListsDone
  <2>3. at.k = Len(masters[at.m].units) + 1
    BY <2>1, <2>2
  <2>4. DOMAIN lists = Upto(masters, at.m)
    BY <2>1, <2>2, <2>3, DoneUnits
  <2> QED
    BY <2>1, <2>4 DEF ListsDone, Before
<1>9. CASE Activating
  BY <1>9 DEF Activating, ListsDone, Before
<1>10. CASE LeavesMaster
  <2>1. /\ boot = "export" /\ boot' = "request" /\ at'.m = at.m + 1
        /\ UNCHANGED <<masters, lists>>
    BY <1>10 DEF LeavesMaster
  <2> QED
    BY <2>1 DEF ListsDone, Before, Upto
<1>11. CASE GetsReady
  <2>1. /\ boot = "request" /\ boot' = "ready" /\ at.m > Len(masters)
        /\ UNCHANGED <<masters, lists>>
    BY <1>11 DEF GetsReady
  <2>2. at.m = Len(masters) + 1
    <3>1. at.m = Len(released) + 1 /\ Len(released) \in Nat /\ Len(released) <= Len(masters)
      BY <2>1, ReleaseType DEF ReleaseInv, Reached
    <3> QED
      BY <1>1, <2>1, <3>1
  <2> QED
    BY <2>1, <2>2 DEF ListsDone, Before, Upto
<1>12. CASE Leaves
  BY <1>12 DEF Leaves, ListsDone, Before
<1> QED
  BY <1>3, <1>4, <1>5, <1>6, <1>7, <1>8, <1>9, <1>10, <1>11, <1>12 DEF Moves, Launches

(* The slaves of a unit do not depend on what is registered.               *)
LEMMA InUnitKept ==
  ASSUME UNCHANGED <<masters, slaves>>, NEW i, NEW u
  PROVE  InUnit(i, u)' = InUnit(i, u)
BY DEF InUnit, Of

(* The registrations of a Sync Unit are a sum over its slaves.             *)
LEMMA RegsOfIsTotal == \A i, u : RegsOf(i, u) = Total(regs, InUnit(i, u))
BY MapThenSumSetIsTotal DEF RegsOf

(* What the lists hold stays what their slaves have registered.            *)
LEMMA ListsHoldStep ==
  ASSUME ReleaseInv, SlavesDone, ListsDone, ListsHold, Moves
  PROVE  ListsHold'
<1>1. CASE boot \in Before
  <2>1. lists' = << >>
    BY <1>1 DEF ListsDone, Moves, Stays, Launches, EntersMaster, AddsDomain, EndsDomains,
                AddsSlave, AddsList, EndsLists, Activating, LeavesMaster, GetsReady, Leaves, Before
  <2>2. DOMAIN lists' = {}
    BY <2>1
  <2> QED
    BY <2>2 DEF ListsHold
<1>2. CASE UNCHANGED <<masters, slaves, regs, lists>>
  BY <1>2, InUnitKept DEF ListsHold
<1>3. CASE AddsSlave
  <2>1. /\ UNCHANGED <<masters, slaves, lists>>
        /\ \E n \in RegCounts : regs' = Append(regs, Smaller(n, MaxRegs))
    BY <1>3 DEF AddsSlave
  <2>2. regs \in Seq(Nat)
    BY DEF SlavesDone
  <2>3. \A j \in DOMAIN regs : j \in DOMAIN regs' /\ regs'[j] = regs[j]
    <3>1. PICK n \in RegCounts : regs' = Append(regs, Smaller(n, MaxRegs))
      BY <2>1
    <3>2. Smaller(n, MaxRegs) \in Nat
      BY RegistrationAssumption DEF Smaller
    <3> QED
      BY <2>2, <3>1, <3>2
  <2>4. ASSUME NEW p \in DOMAIN lists
        PROVE  /\ InUnit(p[1], p[2]) \subseteq DOMAIN regs'
               /\ lists[p] = Total(regs', InUnit(p[1], p[2]))
    <3> DEFINE S == InUnit(p[1], p[2])
    <3>1. S \subseteq DOMAIN regs /\ lists[p] = Total(regs, S)
      BY DEF ListsHold
    <3>2. IsFiniteSet(S)
      <4>1. DOMAIN regs = 1 .. Len(regs) /\ Len(regs) \in Nat
        BY <2>2
      <4>2. IsFiniteSet(DOMAIN regs)
        BY <4>1, FS_Interval
      <4> QED
        BY <3>1, <4>2, FS_Subset
    <3> HIDE DEF S
    <3>3. \A j \in S : regs[j] = regs'[j]
      BY <2>3, <3>1
    <3>4. Total(regs, S) = Total(regs', S)
      BY <3>2, <3>3, TotalSame
    <3> QED
      BY <2>3, <3>1, <3>4 DEF S
  <2> QED
    BY <2>1, <2>4, InUnitKept DEF ListsHold
<1>4. CASE AddsList
  <2> DEFINE q == <<at.m, at.k>>
             S == InUnit(at.m, at.k)
  <2>1. /\ boot = "unit" /\ UNCHANGED <<masters, slaves, regs>>
        /\ lists' = [p \in (DOMAIN lists) \cup {q} |->
                       IF p = q THEN RegsOf(at.m, at.k) ELSE lists[p]]
    BY <1>4 DEF AddsList
  <2>2. RegsOf(at.m, at.k) = Total(regs, S)
    BY RegsOfIsTotal
  <2>3. S \subseteq DOMAIN regs
    <3>1. \A j \in DOMAIN slaves : j <= Len(regs) <=> slaves[j].master <= at.m
      BY <2>1 DEF SlavesDone
    <3>2. \A j \in S : j \in DOMAIN slaves /\ slaves[j].master = at.m
      BY DEF InUnit, Of
    <3>3. /\ DOMAIN slaves = 1 .. Len(slaves) /\ Len(slaves) \in Nat
          /\ regs \in Seq(Nat) /\ Len(regs) \in Nat
      BY ReleaseType DEF SlavesDone
    <3>4. at.m \in Nat
      BY <2>1, ReleaseType DEF ReleaseInv, Reached, Loops
    <3>5. \A j \in S : j \in 1 .. Len(regs)
      BY <3>1, <3>2, <3>3, <3>4
    <3> HIDE DEF S
    <3> QED
      BY <3>3, <3>5
  <2>4. ASSUME NEW p \in DOMAIN lists'
        PROVE  /\ InUnit(p[1], p[2]) \subseteq DOMAIN regs
               /\ lists'[p] = Total(regs, InUnit(p[1], p[2]))
    <3>1. CASE p = q
      <4>1. p[1] = at.m /\ p[2] = at.k /\ lists'[p] = RegsOf(at.m, at.k)
        BY <2>1, <3>1
      <4> QED
        BY <2>2, <2>3, <4>1
    <3>2. CASE p # q
      <4>1. p \in DOMAIN lists /\ lists'[p] = lists[p]
        BY <2>1, <3>2
      <4> QED
        BY <4>1 DEF ListsHold
    <3> QED
      BY <3>1, <3>2
  <2>5. UNCHANGED <<masters, slaves, regs>>
    BY <2>1
  <2> QED
    BY <2>4, <2>5, InUnitKept DEF ListsHold
<1> QED
  BY <1>1, <1>2, <1>3, <1>4 DEF Moves, Stays, Launches, EntersMaster, AddsDomain, EndsDomains,
     EndsLists, Activating, LeavesMaster, GetsReady, Leaves

(* The funct of initf is exported with the module's own, if at all.        *)
LEMMA ActivatesStep ==
  ASSUME ReleaseInv', Activates, Moves
  PROVE  Activates'
<1>1. CASE Stays
  BY <1>1 DEF Stays, Activates
<1>2. CASE Launches
  BY <1>2 DEF Launches, Activates, Before, Loops
<1>3. CASE EntersMaster \/ AddsDomain \/ EndsLists \/ Activating
  BY <1>3 DEF EntersMaster, AddsDomain, EndsLists, Activating, Activates, Before, Loops
<1>4. CASE EndsDomains \/ AddsSlave \/ AddsList
  BY <1>4, NextSlaveEnters DEF EndsDomains, AddsSlave, AddsList, Activates, Before, Loops
<1>5. CASE LeavesMaster
  BY <1>5 DEF LeavesMaster, Activates, Before, Loops
<1>6. CASE GetsReady
  <2>1. initf' = initf /\ boot = "request" /\ boot' = "ready"
        /\ functs' = functs \cup {<<"read", 0>>, <<"write", 0>>}
                      \cup (IF initf THEN {<<"activate", 0>>} ELSE {})
    BY <1>6 DEF GetsReady
  <2>2. <<"activate", 0>> \notin functs
    BY <2>1 DEF Activates
  <2>3. <<"activate", 0>> \in functs' <=> initf
    BY <2>1, <2>2
  <2> QED
    BY <2>1, <2>3 DEF Activates, Before, Loops
<1>7. CASE Leaves
  BY <1>7 DEF Leaves, Activates, Before, Loops
<1> QED
  BY <1>1, <1>2, <1>3, <1>4, <1>5, <1>6, <1>7 DEF Moves

(* Nothing is registered before the start.                                 *)
LEMMA RegisterInit == Init => RegisterInv
<1> SUFFICES ASSUME Init
             PROVE  RegisterInv
  OBVIOUS
<1>1. /\ boot = "hal_init" /\ domains = {} /\ regs = << >> /\ lists = << >> /\ functs = {}
  BY DEF Init, StartInit
<1>2. ReleaseInv
  BY ReleaseInit
<1>3. SlavesDone
  BY <1>1, <1>2, ReleaseType DEF SlavesDone, Before
<1>4. DomainsDone /\ ListsDone /\ Activates
  BY <1>1 DEF DomainsDone, ListsDone, Activates, Before, Loops
<1>5. DOMAIN lists = {}
  BY <1>1
<1> QED
  BY <1>2, <1>3, <1>4, <1>5 DEF ListsHold, RegisterInv

(* Each step registers what it says it does.                               *)
LEMMA RegisterStep ==
  ASSUME RegisterInv, [Next]_vars
  PROVE  RegisterInv'
<1>1. ReleaseInv'
  BY ReleaseStep DEF RegisterInv
<1>2. Moves
  BY NextMoves
<1> QED
  BY <1>1, <1>2, SlavesStep, DomainsStep, ListsStep, ListsHoldStep, ActivatesStep
  DEF RegisterInv

(* A module that reports ready: every Sync Unit has its domain, and the    *)
(* lists of a master hold what its slaves registered, each entry once.     *)
LEMMA ReadyIsComplete ==
  ASSUME RegisterInv, boot = "ready", NEW i \in DOMAIN masters
  PROVE  /\ {d[2] : d \in {e \in domains : e[1] = i}} = UnitsOf(i)
         /\ MapThenSumSet(LAMBDA d : lists[d], {d \in DOMAIN lists : d[1] = i})
              = MapThenSumSet(LAMBDA j : regs[j], Of(i))
<1> DEFINE D == {d \in DOMAIN lists : d[1] = i}
           part == [d \in D |-> InUnit(d[1], d[2])]
<1>1. /\ Len(masters) \in Nat /\ DOMAIN masters = 1 .. Len(masters)
      /\ Len(masters[i].units) \in Nat /\ UnitsOf(i) = 1 .. Len(masters[i].units)
      /\ domains = Upto(masters, Len(masters)) /\ DOMAIN lists = Upto(masters, Len(masters))
  BY ReleaseType DEF RegisterInv, DomainsDone, ListsDone, UnitsOf
<1>2. \A p \in Upto(masters, Len(masters)) :
        p = <<p[1], p[2]>> /\ p[1] \in DOMAIN masters /\ p[2] \in UnitsOf(p[1])
  BY DEF Upto, Done, UnitsOf
<1>3. \A u \in UnitsOf(i) : <<i, u>> \in Upto(masters, Len(masters))
  BY <1>1 DEF Upto, Done, UnitsOf
<1>4. {d[2] : d \in {e \in domains : e[1] = i}} = UnitsOf(i)
  BY <1>1, <1>2, <1>3
<1>5. \A d \in D : d = <<i, d[2]>> /\ d[1] = i /\ d[2] \in UnitsOf(i)
  BY <1>1, <1>2
<1>6. IsFiniteSet(D)
  <2>1. IsFiniteSet(UnitsOf(i))
    <3>1. 1 \in Int /\ Len(masters[i].units) \in Int
      BY <1>1
    <3>2. IsFiniteSet(1 .. Len(masters[i].units))
      BY <3>1, FS_Interval
    <3> QED
      BY <1>1, <3>2
  <2>2. IsFiniteSet({i} \X UnitsOf(i))
    BY <2>1, FS_Singleton, FS_Product
  <2>3. D \subseteq {i} \X UnitsOf(i)
    BY <1>5
  <2> HIDE DEF D
  <2> QED
    BY <2>2, <2>3, FS_Subset
<1>7. ASSUME NEW d \in D
      PROVE  /\ IsFiniteSet(part[d]) /\ lists[d] = Total(regs, part[d])
             /\ \A j \in part[d] : regs[j] \in Nat
  <2>1. part[d] = InUnit(d[1], d[2])
    OBVIOUS
  <2>2. InUnit(d[1], d[2]) \subseteq DOMAIN regs /\ lists[d] = Total(regs, InUnit(d[1], d[2]))
    BY DEF RegisterInv, ListsHold
  <2>3. regs \in Seq(Nat) /\ DOMAIN regs = 1 .. Len(regs) /\ Len(regs) \in Nat
    BY DEF RegisterInv, SlavesDone
  <2>4. IsFiniteSet(DOMAIN regs)
    BY <2>3, FS_Interval
  <2> HIDE DEF part
  <2>5. IsFiniteSet(part[d])
    BY <2>1, <2>2, <2>4, FS_Subset
  <2> QED
    BY <2>1, <2>2, <2>3, <2>5
<1>8. \A u, v \in UnitsOf(i) : masters[i].units[u].name = masters[i].units[v].name => u = v
  BY DEF RegisterInv, ReleaseInv, TreeInv, MasterWellFormed, UnitsOf
<1>9. ASSUME NEW d \in D, NEW e \in D, d # e
      PROVE  part[d] \cap part[e] = {}
  <2> SUFFICES ASSUME NEW j \in part[d], j \in part[e]
               PROVE  FALSE
    OBVIOUS
  <2>1. j \in InUnit(i, d[2]) /\ j \in InUnit(i, e[2])
    BY <1>5
  <2>2. masters[i].units[d[2]].name = masters[i].units[e[2]].name
    BY <2>1 DEF InUnit
  <2>3. d[2] = e[2]
    BY <1>5, <1>8, <2>2
  <2> QED
    BY <1>5, <1>9, <2>3
<1>10. UNION {part[d] : d \in D} = Of(i)
  <2>1. ASSUME NEW j \in Of(i)
        PROVE  \E d \in D : j \in part[d]
    <3>1. j \in DOMAIN slaves /\ slaves[j].master = i
      BY DEF Of
    <3>2. PICK u \in UnitsOf(i) : masters[i].units[u].name = slaves[j].unit
      BY <3>1 DEF RegisterInv, ReleaseInv, TreeInv, SlaveWellFormed, UnitsOf
    <3>3. <<i, u>> \in D /\ j \in InUnit(i, u)
      BY <1>1, <1>3, <3>2 DEF InUnit
    <3>4. part[<<i, u>>] = InUnit(i, u)
      BY <3>3
    <3> QED
      BY <3>3, <3>4
  <2>2. \A d \in D : part[d] \subseteq Of(i)
    BY <1>5 DEF InUnit
  <2> QED
    BY <2>1, <2>2
<1>11. Total(lists, D) = Total(regs, Of(i))
  <2> HIDE DEF D, part
  <2>1. Total(lists, D) = Total(regs, UNION {part[d] : d \in D})
    BY <1>6, <1>7, <1>9, TotalOfTotals
  <2> QED
    BY <1>10, <2>1
<1>12. /\ MapThenSumSet(LAMBDA d : lists[d], D) = Total(lists, D)
       /\ MapThenSumSet(LAMBDA j : regs[j], Of(i)) = Total(regs, Of(i))
  BY MapThenSumSetIsTotal
<1> QED
  BY <1>4, <1>11, <1>12

(* A module that reports ready has registered every entry of every driver, *)
(* in the domain of the slave's own Sync Unit and no other.                *)
THEOREM RegisteredOnceCorrect == Spec => []RegisteredOnce
<1>1. ASSUME RegisterInv
      PROVE  RegisteredOnce
  <2> SUFFICES ASSUME boot = "ready"
               PROVE  /\ held = DOMAIN masters
                      /\ \A i \in DOMAIN masters :
                           /\ {d[2] : d \in {e \in domains : e[1] = i}} = UnitsOf(i)
                           /\ MapThenSumSet(LAMBDA d : lists[d], {d \in DOMAIN lists : d[1] = i})
                                = MapThenSumSet(LAMBDA j : regs[j], Of(i))
                      /\ <<"activate", 0>> \in functs <=> initf
    BY DEF RegisteredOnce
  <2>1. held = DOMAIN masters
    <3>1. held = DOMAIN released /\ Len(released) = Len(masters)
      BY <1>1 DEF RegisterInv, ReleaseInv, Reached
    <3> QED
      BY <1>1, <3>1, ReleaseType DEF RegisterInv
  <2>2. <<"activate", 0>> \in functs <=> initf
    BY <1>1 DEF RegisterInv, Activates
  <2> QED
    BY <1>1, <2>1, <2>2, ReadyIsComplete
<1> QED
  BY <1>1, RegisterInit, RegisterStep, PTL DEF Spec

---------------------------------------------------------------------------
(* The image in shared memory, from the side that writes it and from the   *)
(* side that reads it.                                                     *)

(* The types of records, those that carry data of their own, and the       *)
(* counts in the record of a slave.                                        *)
Types == DOMAIN SizeOf \cup {"Raw"}

WithData == {"SdoConfig", "IdnConfig"}

Fields == {"sms", "pdos", "entries", "pins", "params", "sdoLength", "idnLength"}

(* What the fields of a record are.                                        *)
RecordWellFormed(r) ==
  /\ {"type", "off"} \subseteq DOMAIN r /\ r.type \in Types /\ r.off \in Nat
  /\ r.type \in WithData \cup {"Raw"} => "len" \in DOMAIN r /\ r.len \in Nat
  /\ r.type = "Raw" => r.len > 0
  /\ r.type \in {"PdoEntry", "ComplexEntry"} => "pin" \in DOMAIN r
  /\ r.type = "Slave" => Fields \cup {"kind"} \subseteq DOMAIN r /\ \A f \in Fields : r[f] \in Nat

(* The chain without the data behind the commands, and the place behind a  *)
(* record and its data.                                                    *)
Records(c) == {k \in DOMAIN c : c[k].type # "Raw"}

Behind(r) == r.off + SizeOf[r.type] + (IF r.type \in WithData THEN r.len ELSE 0)

(* The items of a chain do not overlap and lie within the image.           *)
InPlace(c, n) ==
  /\ \A i, j \in DOMAIN c : i < j => c[i].off + Extent(c[i]) <= c[j].off
  /\ \A i \in DOMAIN c : c[i].off + Extent(c[i]) <= n

(* A record and the next one, with nothing but data in between; the last.  *)
NextRecord(c, k, j) ==
  j \in Records(c) /\ k < j /\ \A i \in DOMAIN c : k < i /\ i < j => c[i].type = "Raw"

LastRecord(c, k) == k \in Records(c) /\ \A i \in DOMAIN c : k < i => c[i].type = "Raw"

(* Each record starts where the reader of the one before it will look.     *)
Linked(c, n) ==
  /\ c = << >> => n = 0
  /\ 1 \in DOMAIN c => 1 \in Records(c) /\ c[1].off = 0
  /\ \A k \in Records(c) :
       \/ \E j \in Records(c) : NextRecord(c, k, j) /\ c[j].off = Behind(c[k])
       \/ LastRecord(c, k) /\ n = Behind(c[k])

(* The slave that encloses the place k, and what stands between two        *)
(* places.                                                                 *)
SlaveBefore(c, k, s) ==
  /\ s \in DOMAIN c /\ s < k /\ c[s].type = "Slave"
  /\ \A i \in DOMAIN c : s < i /\ i < k => c[i].type # "Slave"

Between(c, s, k, type) == \E i \in DOMAIN c : s < i /\ i < k /\ c[i].type = type

(* The records inside a generic slave, and those inside any slave.         *)
Layout == {"SyncManager", "Pdo", "PdoEntry", "ComplexEntry"}

InSlave == Layout \cup {"DcConf", "Watchdog", "ModParam"} \cup WithData

(* A record stands where the document lets it stand.                       *)
Belongs(c, k, type) ==
  /\ type = "Slave" => Between(c, 0, k, "Master")
  /\ type \in InSlave =>
       \E s \in DOMAIN c :
         /\ SlaveBefore(c, k, s)
         /\ type \in Layout => c[s].kind = "generic"
         /\ type = "PdoEntry" => Between(c, s, k, "SyncManager")
         /\ type = "ComplexEntry" => Between(c, s, k, "PdoEntry")

(* A chain of n bytes.                                                     *)
Structure(c, n) ==
  /\ n \in Nat /\ IsSequence(c)
  /\ \A k \in DOMAIN c : RecordWellFormed(c[k])
  /\ InPlace(c, n) /\ Linked(c, n)
  /\ \A k \in DOMAIN c : Belongs(c, k, c[k].type)

(* The places of a slave's records, and what a record adds to a count of   *)
(* it.                                                                     *)
Own(c, s) == {k \in DOMAIN c : s < k /\ \A i \in DOMAIN c : s < i /\ i <= k => c[i].type # "Slave"}

Weight(f, r) ==
  CASE f = "sms" -> IF r.type = "SyncManager" THEN 1 ELSE 0
    [] f = "pdos" -> IF r.type = "Pdo" THEN 1 ELSE 0
    [] f = "entries" -> IF r.type = "PdoEntry" THEN 1 ELSE 0
    [] f = "pins" -> IF r.type \in {"PdoEntry", "ComplexEntry"} THEN PinCount(r.pin) ELSE 0
    [] f = "params" -> IF r.type = "ModParam" THEN 1 ELSE 0
    [] f = "sdoLength" -> IF r.type = "SdoConfig" THEN SizeOf["SdoConfig"] + r.len ELSE 0
    [] f = "idnLength" -> IF r.type = "IdnConfig" THEN SizeOf["IdnConfig"] + r.len ELSE 0

(* The command o that is still open is not counted yet.                    *)
Weights(c, f, o) == [k \in DOMAIN c |-> IF k = o THEN 0 ELSE Weight(f, c[k])]

Tally(c, f, o, s) == Total(Weights(c, f, o), Own(c, s))

(* Every count in the record of a slave is what its records add up to.     *)
Tallied(c, o) ==
  \A s \in DOMAIN c : c[s].type = "Slave" =>
    \A f \in Fields : c[s][f] = Tally(c, f, o, s)

(* The command of an init command file that has been started and not       *)
(* ended.                                                                  *)
OpenSdo == icmd \in {"CoeIcmd"} \cup CoeTexts
OpenIdn == icmd \in {"SoeIcmd"} \cup SoeTexts
OpenCommand == IF OpenSdo THEN cur.sdo ELSE IF OpenIdn THEN cur.idn ELSE 0

(* The pointers of the producer: the elements around the one being read.   *)
AtSlave == {"Slave", "DcConf", "Watchdog", "SdoConfig", "SdoDataRaw", "IdnConfig", "InitCmds", "ModParam"} \cup Layout

CurrentMaster == cur.master \in DOMAIN chain /\ chain[cur.master].type = "Master"

LastSlave(c, s) == /\ s \in DOMAIN c /\ c[s].type = "Slave"
                   /\ \A i \in DOMAIN c : s < i => c[i].type # "Slave"

CurrentRecord(k, type) == k \in DOMAIN chain /\ cur.slave < k /\ chain[k].type = type

Current ==
  /\ DOMAIN cur = DOMAIN NoCur
  /\ xml \in AtSlave \cup {"Master"} => CurrentMaster
  /\ xml \in AtSlave => LastSlave(chain, cur.slave)
  /\ xml \in Layout => chain[cur.slave].kind = "generic" /\ CurrentRecord(cur.sm, "SyncManager")
  /\ xml \in {"Pdo", "PdoEntry", "ComplexEntry"} => CurrentRecord(cur.pdo, "Pdo")
  /\ xml \in {"PdoEntry", "ComplexEntry"} => CurrentRecord(cur.entry, "PdoEntry")
  /\ xml \in {"SdoConfig", "SdoDataRaw"} \/ OpenSdo =>
       CurrentRecord(cur.sdo, "SdoConfig") /\ LastRecord(chain, cur.sdo)
  /\ OpenIdn => CurrentRecord(cur.idn, "IdnConfig") /\ LastRecord(chain, cur.idn)
  /\ icmd # "Closed" => xml = "InitCmds"

(* The producer at work, and the image it leaves.                          *)
Producing ==
  /\ xml \in DOMAIN From \cup {"None"}
  /\ Structure(chain, length) /\ Tallied(chain, OpenCommand) /\ Current

Produced ==
  /\ Structure(chain, length) /\ Tallied(chain, 0)
  /\ Len(chain) > 0 /\ chain[Len(chain)].type = "End"

(* What the records between two places add to a count.                     *)
Part(c, f, s, k) == Total(Weights(c, f, 0), {i \in DOMAIN c : s < i /\ i < k})

(* What has been written for a slave stays within what was allocated for   *)
(* it.                                                                     *)
SlaveFits(sl) ==
  /\ Len(sl.sms) <= sl.nsms /\ Len(sl.pdos) <= sl.npdos
  /\ Len(sl.entries) <= sl.nentries /\ Len(sl.pins) <= sl.npins
  /\ sl.params <= sl.nparams
  /\ sl.sdoUsed <= sl.sdoSize /\ sl.idnUsed <= sl.idnSize

(* The memory of a slave is what its record asks for.                      *)
Allocated(sl, r) ==
  /\ sl.generic <=> r.kind = "generic"
  /\ sl.nsms = r.sms /\ sl.npdos = r.pdos /\ sl.nentries = r.entries
  /\ sl.npins = r.pins /\ sl.nparams = r.params
  /\ sl.sdoSize = r.sdoLength /\ sl.idnSize = r.idnLength

(* The fields of a slave that stay, and those that its records fill.       *)
SizesOf == {"generic", "nsms", "npdos", "nentries", "npins", "nparams", "sdoSize", "idnSize"}

Contents == {"dir", "sms", "pdos", "entries", "pins", "params", "sdoUsed", "idnUsed", "sdos",
             "idns", "dc", "wd"}

(* What has been read of slave s by the time the reader is at record k.    *)
SlaveRead(c, sl, s, k) ==
  /\ SizesOf \cup Contents \subseteq DOMAIN sl
  /\ IsSequence(sl.sms) /\ IsSequence(sl.pdos) /\ IsSequence(sl.entries) /\ IsSequence(sl.pins)
  /\ Allocated(sl, c[s])
  /\ Len(sl.sms) = Part(c, "sms", s, k) /\ Len(sl.pdos) = Part(c, "pdos", s, k)
  /\ Len(sl.entries) = Part(c, "entries", s, k) /\ Len(sl.pins) = Part(c, "pins", s, k)
  /\ sl.params = Part(c, "params", s, k)
  /\ sl.sdoUsed = Part(c, "sdoLength", s, k)
  /\ sl.idnUsed \in Nat /\ sl.idnUsed <= Part(c, "idnLength", s, k)
  /\ Between(c, s, k, "SyncManager") => sl.dir # "unspecified"

(* The reader is at record k and has seen what stands before it.           *)
ReadUpTo(k) ==
  /\ k \in Records(chain) /\ chain[k].off = pos
  /\ Between(chain, 0, k, "Master") => Len(masters) > 0
  /\ \A s \in DOMAIN chain :
       SlaveBefore(chain, k, s) => Len(slaves) > 0 /\ SlaveRead(chain, slaves[Len(slaves)], s, k)

(* The reader: within the image, at a record, and no slave overfull.       *)
Consuming ==
  /\ load # "Misread" /\ pos \in Nat /\ pos <= length
  /\ load = "Idle" => pos = 0 /\ masters = << >> /\ slaves = << >>
  /\ load = "Parsing" => \E k \in DOMAIN chain : ReadUpTo(k)
  /\ load # "Unmapped" => \A i \in DOMAIN slaves : SlaveFits(slaves[i])

(* The image and its reader. It takes the counts of the producer, kept in  *)
(* three places, to say that the reader stays within bounds.               *)
ImageInv ==
  /\ xml \notin {"Shared", "Failed"} => Producing /\ load = "Idle"
  /\ xml = "Failed" => chain = << >> /\ length = 0 /\ load \in {"Idle", "Refused"}
  /\ xml = "Shared" /\ load # "Unmapped" => Produced
  /\ load = "Unmapped" => xml = "Shared" /\ boot \notin Before
  /\ Consuming

---------------------------------------------------------------------------
(* Every record takes some room.                                           *)
LEMMA Sizes ==
  /\ \A t \in DOMAIN SizeOf : SizeOf[t] \in Nat /\ SizeOf[t] > 0
  /\ "Raw" \notin DOMAIN SizeOf /\ InSlave \subseteq DOMAIN SizeOf
  /\ {"Master", "Slave", "End"} \subseteq DOMAIN SizeOf
BY DEF SizeOf, InSlave, Layout, WithData

(* The room an item takes.                                                 *)
LEMMA Extents ==
  ASSUME NEW r, RecordWellFormed(r)
  PROVE  Extent(r) \in Nat /\ Extent(r) > 0 /\ (r.type # "Raw" => Extent(r) = SizeOf[r.type])
BY Sizes DEF RecordWellFormed, Extent, Types

(* The data of a record lie behind it.                                     *)
LEMMA Behinds ==
  ASSUME NEW r, RecordWellFormed(r), r.type # "Raw"
  PROVE  Behind(r) \in Nat /\ r.off + Extent(r) <= Behind(r)
<1>1. SizeOf[r.type] \in Nat /\ Extent(r) = SizeOf[r.type] /\ r.off \in Nat
  BY Sizes, Extents DEF RecordWellFormed, Types
<1>2. r.type \in WithData => r.len \in Nat
  BY DEF RecordWellFormed
<1> QED
  BY <1>1, <1>2 DEF Behind

(* A record whose counts may have changed, and nothing else that matters   *)
(* here.                                                                   *)
Alike(r, q) ==
  /\ RecordWellFormed(q) /\ q.type = r.type /\ q.off = r.off
  /\ r.type \in WithData \cup {"Raw"} => q.len = r.len
  /\ r.type \in {"PdoEntry", "ComplexEntry"} => q.pin = r.pin
  /\ r.type = "Slave" => q.kind = r.kind

(* Counts are not part of the structure.                                   *)
LEMMA StructureSame ==
  ASSUME NEW c, NEW n, Structure(c, n), NEW d, IsSequence(d), DOMAIN d = DOMAIN c,
         \A k \in DOMAIN c : Alike(c[k], d[k])
  PROVE  Structure(d, n)
<1>1. \A k \in DOMAIN c : /\ RecordWellFormed(d[k]) /\ d[k].type = c[k].type
                          /\ d[k].off = c[k].off
                          /\ c[k].type = "Slave" => d[k].kind = c[k].kind
  BY DEF Alike
<1>2. \A k \in DOMAIN c : Extent(d[k]) = Extent(c[k]) /\ Behind(d[k]) = Behind(c[k])
  BY DEF Alike, Extent, Behind
<1>3. n \in Nat /\ InPlace(d, n)
  BY <1>1, <1>2 DEF Structure, InPlace
<1>4. Records(d) = Records(c)
  BY <1>1 DEF Records
<1>5. \A k, j : /\ NextRecord(c, k, j) => NextRecord(d, k, j)
                /\ LastRecord(c, k) => LastRecord(d, k)
  BY <1>1, <1>4 DEF NextRecord, LastRecord
<1>6. Linked(d, n)
  <2>1. c = << >> => n = 0
    BY DEF Structure, Linked
  <2>2. d = << >> => c = << >>
    BY DEF Structure, IsSequence
  <2>3. 1 \in DOMAIN d => 1 \in Records(d) /\ d[1].off = 0
    BY <1>1, <1>4 DEF Structure, Linked
  <2>4. ASSUME NEW k \in Records(d)
        PROVE  \/ \E j \in Records(d) : NextRecord(d, k, j) /\ d[j].off = Behind(d[k])
               \/ LastRecord(d, k) /\ n = Behind(d[k])
    <3>1. \/ \E j \in Records(c) : NextRecord(c, k, j) /\ c[j].off = Behind(c[k])
          \/ LastRecord(c, k) /\ n = Behind(c[k])
      BY <1>4 DEF Structure, Linked
    <3>2. \A j \in Records(c) : j \in DOMAIN c
      BY DEF Records
    <3> QED
      BY <1>1, <1>2, <1>4, <1>5, <3>1, <3>2
  <2> QED
    BY <2>1, <2>2, <2>3, <2>4 DEF Linked
<1>7. ASSUME NEW k \in DOMAIN d
      PROVE  Belongs(d, k, d[k].type)
  <2>1. Belongs(c, k, c[k].type)
    BY DEF Structure
  <2>2. \A s \in DOMAIN c : \A t : Between(c, s, k, t) => Between(d, s, k, t)
    BY <1>1 DEF Between
  <2>3. \A t : Between(c, 0, k, t) => Between(d, 0, k, t)
    BY <1>1 DEF Between
  <2>4. \A s \in DOMAIN c : SlaveBefore(c, k, s) => SlaveBefore(d, k, s) /\ d[s].kind = c[s].kind
    BY <1>1 DEF SlaveBefore
  <2> QED
    BY <1>1, <2>1, <2>2, <2>3, <2>4 DEF Belongs
<1> QED
  BY <1>1, <1>3, <1>6, <1>7 DEF Structure

(* What stands in front of an item does not depend on what is behind it.   *)
LEMMA BelongsKept ==
  ASSUME NEW c, NEW d, DOMAIN c \subseteq DOMAIN d, NEW k, NEW t,
         \A i \in DOMAIN d : i < k => i \in DOMAIN c,
         \A i \in DOMAIN c : /\ d[i].type = c[i].type
                             /\ c[i].type = "Slave" => d[i].kind = c[i].kind,
         Belongs(c, k, t)
  PROVE  Belongs(d, k, t)
<1>1. \A s, u : Between(c, s, k, u) => Between(d, s, k, u)
  BY DEF Between
<1>2. \A s \in DOMAIN c : SlaveBefore(c, k, s) => SlaveBefore(d, k, s) /\ d[s].kind = c[s].kind
  BY DEF SlaveBefore
<1> QED
  BY <1>1, <1>2 DEF Belongs

(* A record without data is appended.                                      *)
LEMMA StructureAppend ==
  ASSUME NEW c, NEW n, Structure(c, n), NEW r, RecordWellFormed(r), r.type # "Raw", r.off = n,
         r.type \in WithData => r.len = 0, Belongs(c, Len(c) + 1, r.type)
  PROVE  Structure(Append(c, r), n + SizeOf[r.type])
<1> DEFINE d == Append(c, r)
           new == Len(c) + 1
           m == n + SizeOf[r.type]
<1>1. IsSequence(c) /\ Len(c) \in Nat /\ DOMAIN c = 1 .. Len(c) /\ n \in Nat
  BY SequenceDomain DEF Structure
<1>2. /\ IsSequence(d) /\ DOMAIN d = 1 .. new /\ d[new] = r
      /\ \A i \in DOMAIN c : d[i] = c[i]
  <2>1. IsSequence(d) /\ Len(d) = new
    BY <1>1, Appended
  <2>2. DOMAIN d = 1 .. Len(d)
    BY <2>1, SequenceDomain
  <2> QED
    BY <1>1, <2>1, <2>2, Appended
<1>3. SizeOf[r.type] \in Nat /\ Extent(r) = SizeOf[r.type] /\ Behind(r) = m /\ m \in Nat
  BY <1>1, Sizes, Extents DEF RecordWellFormed, Types, Behind
<1> HIDE DEF d
<1>4. \A i \in DOMAIN d : (i \in DOMAIN c /\ i < new) \/ i = new
  BY <1>1, <1>2
<1>5. \A k \in DOMAIN d : RecordWellFormed(d[k])
  BY <1>2, <1>4 DEF Structure
<1>6. InPlace(d, m)
  <2>1. \A i \in DOMAIN c : Extent(c[i]) \in Nat /\ c[i].off \in Nat /\ c[i].off + Extent(c[i]) <= n
    BY Extents DEF Structure, InPlace, RecordWellFormed
  <2>2. \A i, j \in DOMAIN c : i < j => c[i].off + Extent(c[i]) <= c[j].off
    BY DEF Structure, InPlace
  <2>3. ASSUME NEW i \in DOMAIN d, NEW j \in DOMAIN d, i < j
        PROVE  d[i].off + Extent(d[i]) <= d[j].off
    <3>1. i \in DOMAIN c
      BY <1>1, <1>2, <1>4, <2>3
    <3> QED
      BY <1>2, <1>4, <2>1, <2>2, <2>3, <3>1
  <2>4. \A i \in DOMAIN d : d[i].off + Extent(d[i]) <= m
    BY <1>1, <1>2, <1>3, <1>4, <2>1
  <2> QED
    BY <2>3, <2>4 DEF InPlace
<1>7. Records(d) = Records(c) \cup {new}
  BY <1>1, <1>2, <1>4 DEF Records
<1>8. \A k, j : NextRecord(c, k, j) => NextRecord(d, k, j)
  BY <1>1, <1>2, <1>4, <1>7 DEF NextRecord, Records
<1>9. \A k : LastRecord(c, k) => NextRecord(d, k, new)
  BY <1>1, <1>2, <1>4, <1>7 DEF NextRecord, LastRecord, Records
<1>10. Linked(d, m)
  <2>1. d # << >>
    BY <1>1, <1>2
  <2>2. 1 \in Records(d) /\ d[1].off = 0
    <3>1. CASE 1 \in DOMAIN c
      BY <1>2, <1>7, <3>1 DEF Structure, Linked
    <3>2. CASE 1 \notin DOMAIN c
      <4>1. new = 1 /\ c = << >>
        BY <1>1, <3>2 DEF IsSequence
      <4>2. n = 0
        BY <4>1 DEF Structure, Linked
      <4> QED
        BY <1>2, <1>7, <4>1, <4>2
    <3> QED
      BY <3>1, <3>2
  <2>3. ASSUME NEW k \in Records(d)
        PROVE  \/ \E j \in Records(d) : NextRecord(d, k, j) /\ d[j].off = Behind(d[k])
               \/ LastRecord(d, k) /\ m = Behind(d[k])
    <3>1. CASE k \in Records(c)
      <4>1. \/ \E j \in Records(c) : NextRecord(c, k, j) /\ c[j].off = Behind(c[k])
            \/ LastRecord(c, k) /\ n = Behind(c[k])
        BY <3>1 DEF Structure, Linked
      <4>2. d[k] = c[k] /\ \A j \in Records(c) : d[j] = c[j] /\ j \in Records(d)
        BY <1>2, <1>7, <3>1 DEF Records
      <4> QED
        BY <1>2, <1>7, <1>8, <1>9, <4>1, <4>2
    <3>2. CASE k = new
      <4>1. LastRecord(d, new)
        BY <1>1, <1>2, <1>7 DEF LastRecord
      <4> QED
        BY <1>2, <1>3, <3>2, <4>1
    <3> QED
      BY <1>7, <3>1, <3>2
  <2> QED
    BY <2>1, <2>2, <2>3 DEF Linked
<1>11. ASSUME NEW k \in DOMAIN d
       PROVE  Belongs(d, k, d[k].type)
  <2>1. Belongs(c, k, d[k].type)
    BY <1>2, <1>4 DEF Structure
  <2>2. \A i \in DOMAIN d : i < k => i \in DOMAIN c
    BY <1>1, <1>2
  <2>3. DOMAIN c \subseteq DOMAIN d
    BY <1>1, <1>2
  <2> QED
    BY <1>2, <2>1, <2>2, <2>3, BelongsKept
<1> HIDE DEF m
<1>12. Structure(d, m)
  BY <1>2, <1>3, <1>5, <1>6, <1>10, <1>11 DEF Structure
<1> QED
  BY <1>12 DEF d, m

(* Data go behind the last record, which counts them.                      *)
LEMMA StructureData ==
  ASSUME NEW c, NEW n, Structure(c, n), NEW e, IsSequence(e), DOMAIN e = DOMAIN c,
         NEW x, LastRecord(c, x), c[x].type \in WithData,
         NEW m \in Nat, m > 0, e[x].len = c[x].len + m,
         \A k \in DOMAIN c :
           /\ RecordWellFormed(e[k]) /\ e[k].type = c[k].type /\ e[k].off = c[k].off
           /\ k # x /\ c[k].type \in WithData \cup {"Raw"} => e[k].len = c[k].len
           /\ c[k].type = "Slave" => e[k].kind = c[k].kind,
         NEW r, r.type = "Raw", RecordWellFormed(r), r.len = m, r.off = n
  PROVE  Structure(Append(e, r), n + m)
<1> DEFINE d == Append(e, r)
           new == Len(c) + 1
<1>1. IsSequence(c) /\ Len(c) \in Nat /\ DOMAIN c = 1 .. Len(c) /\ n \in Nat
  BY SequenceDomain DEF Structure
<1>2. /\ IsSequence(d) /\ DOMAIN d = 1 .. new /\ d[new] = r
      /\ \A i \in DOMAIN c : d[i] = e[i]
  <2>1. IsSequence(d) /\ Len(d) = Len(e) + 1 /\ Len(e) \in Nat /\ DOMAIN e = 1 .. Len(e)
    BY SequenceDomain, Appended
  <2>2. Len(e) = Len(c)
    BY <1>1, <2>1
  <2>3. DOMAIN d = 1 .. Len(d)
    BY <2>1, SequenceDomain
  <2> QED
    BY <2>1, <2>2, <2>3, Appended
<1> HIDE DEF d
<1>3. \A i \in DOMAIN d : (i \in DOMAIN c /\ i < new) \/ i = new
  BY <1>1, <1>2
<1>4. Extent(r) = m
  BY DEF Extent
<1>5. \A i \in DOMAIN c :
        /\ Extent(d[i]) = Extent(c[i]) /\ d[i].off = c[i].off /\ d[i].type = c[i].type
        /\ RecordWellFormed(d[i])
        /\ i # x => Behind(d[i]) = Behind(c[i])
  <2>1. \A i \in DOMAIN c : c[i].type = "Raw" => i # x
    BY DEF WithData
  <2> QED
    BY <1>2, <2>1 DEF Extent, Behind
<1>6. x \in DOMAIN c /\ x \in Records(c)
  BY DEF LastRecord, Records
<1>7. Behind(d[x]) = Behind(c[x]) + m
  <2>1. SizeOf[c[x].type] \in Nat /\ c[x].off \in Nat /\ c[x].len \in Nat
    BY <1>6, Sizes DEF Structure, RecordWellFormed, WithData, Types
  <2>2. d[x].off = c[x].off /\ d[x].type = c[x].type /\ d[x].len = c[x].len + m
    BY <1>2, <1>6
  <2> QED
    BY <2>1, <2>2 DEF Behind
<1>8. \A k \in DOMAIN d : RecordWellFormed(d[k])
  BY <1>2, <1>3, <1>5
<1>9. InPlace(d, n + m)
  <2>1. \A i \in DOMAIN c : Extent(c[i]) \in Nat /\ c[i].off \in Nat /\ c[i].off + Extent(c[i]) <= n
    BY Extents DEF Structure, InPlace, RecordWellFormed
  <2>2. \A i, j \in DOMAIN c : i < j => c[i].off + Extent(c[i]) <= c[j].off
    BY DEF Structure, InPlace
  <2>3. ASSUME NEW i \in DOMAIN d, NEW j \in DOMAIN d, i < j
        PROVE  d[i].off + Extent(d[i]) <= d[j].off
    <3>1. i \in DOMAIN c
      BY <1>1, <1>2, <1>3, <2>3
    <3>2. d[i].off = c[i].off /\ Extent(d[i]) = Extent(c[i])
      BY <1>5, <3>1
    <3>3. CASE j \in DOMAIN c
      BY <1>5, <2>2, <2>3, <3>1, <3>2, <3>3
    <3>4. CASE j = new
      BY <1>2, <2>1, <3>1, <3>2, <3>4
    <3> QED
      BY <1>3, <3>3, <3>4
  <2>4. \A i \in DOMAIN d : d[i].off + Extent(d[i]) <= n + m
    BY <1>1, <1>2, <1>3, <1>4, <1>5, <2>1
  <2> QED
    BY <2>3, <2>4 DEF InPlace
<1>10. Records(d) = Records(c)
  BY <1>1, <1>2, <1>3, <1>5 DEF Records
<1>11. ASSUME NEW k, NEW j, NextRecord(c, k, j)
       PROVE  NextRecord(d, k, j) /\ k # x
  <2>1. j \in DOMAIN c /\ j \in Records(c) /\ c[j].type # "Raw"
    BY <1>11 DEF NextRecord, Records
  <2>2. k # x
    BY <1>11, <2>1 DEF NextRecord, LastRecord
  <2>3. ASSUME NEW i \in DOMAIN d, k < i, i < j
        PROVE  d[i].type = "Raw"
    <3>1. i \in DOMAIN c
      BY <1>1, <1>2, <1>3, <2>1, <2>3
    <3> QED
      BY <1>5, <1>11, <2>3, <3>1 DEF NextRecord
  <2> QED
    BY <1>10, <1>11, <2>1, <2>2, <2>3 DEF NextRecord
<1>12. ASSUME NEW k, LastRecord(c, k)
       PROVE  LastRecord(d, k) /\ k = x
  <2>1. k = x
    BY <1>1, <1>6, <1>12 DEF LastRecord, Records
  <2>2. LastRecord(d, k)
    BY <1>2, <1>3, <1>5, <1>10, <1>12 DEF LastRecord
  <2> QED
    BY <2>1, <2>2
<1>13. Linked(d, n + m)
  <2>1. d # << >>
    BY <1>1, <1>2
  <2>2. 1 \in Records(d) /\ d[1].off = 0
    <3>1. 1 \in DOMAIN c
      BY <1>1, <1>6
    <3> QED
      BY <1>5, <1>10, <3>1 DEF Structure, Linked
  <2>3. ASSUME NEW k \in Records(d)
        PROVE  \/ \E j \in Records(d) : NextRecord(d, k, j) /\ d[j].off = Behind(d[k])
               \/ LastRecord(d, k) /\ n + m = Behind(d[k])
    <3>1. \/ \E j \in Records(c) : NextRecord(c, k, j) /\ c[j].off = Behind(c[k])
          \/ LastRecord(c, k) /\ n = Behind(c[k])
      BY <1>10 DEF Structure, Linked
    <3>2. k \in DOMAIN c /\ \A j \in Records(c) : d[j].off = c[j].off
      BY <1>5, <1>10 DEF Records
    <3>3. CASE LastRecord(c, k) /\ n = Behind(c[k])
      BY <1>7, <1>12, <3>3
    <3>4. ASSUME NEW j \in Records(c), NextRecord(c, k, j), c[j].off = Behind(c[k])
          PROVE  \E l \in Records(d) : NextRecord(d, k, l) /\ d[l].off = Behind(d[k])
      BY <1>5, <1>10, <1>11, <3>2, <3>4
    <3> QED
      BY <3>1, <3>3, <3>4
  <2> QED
    BY <2>1, <2>2, <2>3 DEF Linked
<1>14. ASSUME NEW k \in DOMAIN d
       PROVE  Belongs(d, k, d[k].type)
  <2>1. Belongs(c, k, d[k].type)
    <3>1. CASE k \in DOMAIN c
      BY <1>5, <3>1 DEF Structure
    <3>2. CASE k = new
      <4>1. d[k].type = "Raw"
        BY <1>2, <3>2
      <4> QED
        BY <4>1 DEF Belongs, InSlave, Layout, WithData
    <3> QED
      BY <1>3, <3>1, <3>2
  <2>2. \A i \in DOMAIN d : i < k => i \in DOMAIN c
    BY <1>1, <1>2
  <2>3. DOMAIN c \subseteq DOMAIN d
    BY <1>1, <1>2
  <2>4. \A i \in DOMAIN c : d[i].type = c[i].type /\ (c[i].type = "Slave" => d[i].kind = c[i].kind)
    BY <1>2
  <2> QED
    BY <2>1, <2>2, <2>3, <2>4, BelongsKept
<1>15. Structure(d, n + m)
  BY <1>1, <1>2, <1>8, <1>9, <1>13, <1>14 DEF Structure
<1> QED
  BY <1>15 DEF d

(* What a record adds is a number.                                         *)
LEMMA WeightType ==
  ASSUME NEW r, RecordWellFormed(r), NEW f \in Fields
  PROVE  Weight(f, r) \in Nat
<1>1. r.type \in WithData => r.len \in Nat
  BY DEF RecordWellFormed
<1>2. PinCount(r.pin) \in Nat
  BY DEF PinCount
<1>3. SizeOf["SdoConfig"] \in Nat /\ SizeOf["IdnConfig"] \in Nat
  BY Sizes DEF SizeOf
<1> QED
  BY <1>1, <1>2, <1>3 DEF Weight, Fields, WithData

(* The weights of a chain are natural numbers, and what a slave owns is    *)
(* finite.                                                                 *)
LEMMA Weighed ==
  ASSUME NEW c, IsSequence(c), \A k \in DOMAIN c : RecordWellFormed(c[k]), NEW f \in Fields, NEW o
  PROVE  /\ \A k \in DOMAIN c : Weights(c, f, o)[k] \in Nat
         /\ \A S \in SUBSET (DOMAIN c) : IsFiniteSet(S)
<1>1. \A k \in DOMAIN c : Weight(f, c[k]) \in Nat
  BY WeightType
<1>2. DOMAIN c = 1 .. Len(c) /\ Len(c) \in Nat
  BY SequenceDomain
<1>3. IsFiniteSet(DOMAIN c)
  BY <1>2, FS_Interval
<1> QED
  BY <1>1, <1>3, FS_Subset DEF Weights

(* A chain of the same records, whose counts may have changed.             *)
Refit(c, e) ==
  /\ IsSequence(c) /\ IsSequence(e) /\ DOMAIN e = DOMAIN c
  /\ \A k \in DOMAIN c : /\ RecordWellFormed(c[k]) /\ RecordWellFormed(e[k])
                         /\ e[k].type = c[k].type

(* An interval has one length.                                             *)
LEMMA IntervalLength ==
  ASSUME NEW m \in Nat, NEW n \in Nat, 1 .. m = 1 .. n
  PROVE  m = n
<1>1. m \in 1 .. m => m \in 1 .. n
  OBVIOUS
<1>2. n \in 1 .. n => n \in 1 .. m
  OBVIOUS
<1> QED
  BY <1>1, <1>2

(* An item is appended: the last slave counts it, if anyone.               *)
LEMMA TallyAppend ==
  ASSUME NEW c, NEW o, Tallied(c, o), NEW e, Refit(c, e), NEW p,
         \A f \in Fields : \A k \in DOMAIN c : Weights(e, f, p)[k] = Weights(c, f, o)[k],
         NEW r, RecordWellFormed(r), NEW w,
         \A f \in Fields : w[f] = IF p = Len(c) + 1 THEN 0 ELSE Weight(f, r),
         \A t \in DOMAIN c : c[t].type = "Slave" => \A f \in Fields :
           e[t][f] = c[t][f] + (IF LastSlave(c, t) THEN w[f] ELSE 0),
         r.type = "Slave" => \A f \in Fields : r[f] = 0 /\ w[f] = 0
  PROVE  Tallied(Append(e, r), p)
<1> DEFINE d == Append(e, r)
           new == Len(c) + 1
<1>1. IsSequence(c) /\ Len(c) \in Nat /\ DOMAIN c = 1 .. Len(c)
  BY SequenceDomain DEF Refit
<1>2. /\ IsSequence(d) /\ DOMAIN d = 1 .. new /\ d[new] = r
      /\ \A i \in DOMAIN c : d[i] = e[i]
  <2>1. IsSequence(d) /\ Len(d) = Len(e) + 1 /\ Len(e) \in Nat /\ DOMAIN e = 1 .. Len(e)
    BY SequenceDomain, Appended DEF Refit
  <2>2. DOMAIN e = DOMAIN c /\ IsSequence(e)
    BY DEF Refit
  <2>3. Len(e) = Len(c)
    BY <1>1, <2>1, <2>2, IntervalLength
  <2>4. DOMAIN d = 1 .. Len(d)
    BY <2>1, SequenceDomain
  <2> QED
    BY <2>1, <2>2, <2>3, <2>4, Appended
<1> HIDE DEF d
<1>3. \A i \in DOMAIN d : (i \in DOMAIN c /\ i < new) \/ i = new
  BY <1>1, <1>2
<1>4. \A i \in DOMAIN c : d[i].type = c[i].type /\ i \in DOMAIN d
  BY <1>1, <1>2 DEF Refit
<1>5. \A k \in DOMAIN d : RecordWellFormed(d[k])
  BY <1>2, <1>3 DEF Refit
<1>6. ASSUME NEW f \in Fields
      PROVE  /\ \A k \in DOMAIN c : Weights(d, f, p)[k] = Weights(c, f, o)[k]
             /\ Weights(d, f, p)[new] = w[f]
             /\ \A k \in DOMAIN d : Weights(d, f, p)[k] \in Nat
             /\ \A S \in SUBSET (DOMAIN d) : IsFiniteSet(S)
  <2>1. \A k \in DOMAIN c : Weights(d, f, p)[k] = Weights(e, f, p)[k]
    BY <1>2, <1>4 DEF Weights, Refit
  <2>2. new \in DOMAIN d
    BY <1>1, <1>2
  <2>3. Weights(d, f, p)[new] = w[f]
    BY <1>2, <2>2 DEF Weights
  <2> QED
    BY <1>2, <1>5, <2>1, <2>3, Weighed
<1>7. ASSUME NEW t \in DOMAIN c, c[t].type = "Slave"
      PROVE  /\ Own(d, t) = IF LastSlave(c, t) /\ r.type # "Slave" THEN Own(c, t) \cup {new}
                            ELSE Own(c, t)
             /\ Own(c, t) \subseteq DOMAIN c /\ new \notin Own(c, t)
  <2>1. Own(c, t) \subseteq DOMAIN c /\ new \notin Own(c, t)
    BY <1>1 DEF Own
  <2>2. \A k \in DOMAIN c : k \in Own(d, t) <=> k \in Own(c, t)
    BY <1>1, <1>2, <1>3, <1>4 DEF Own
  <2>3. new \in Own(d, t) <=> LastSlave(c, t) /\ r.type # "Slave"
    <3>1. new \in DOMAIN d /\ t < new /\ d[new].type = r.type
      BY <1>1, <1>2
    <3>2. \A i \in DOMAIN d : i <= new
      BY <1>1, <1>2
    <3>3. new \in Own(d, t) <=> \A i \in DOMAIN d : t < i => d[i].type # "Slave"
      BY <3>1, <3>2 DEF Own
    <3>4. (\A i \in DOMAIN d : t < i => d[i].type # "Slave")
            <=> (\A i \in DOMAIN c : t < i => c[i].type # "Slave") /\ r.type # "Slave"
      BY <1>3, <1>4, <3>1
    <3> QED
      BY <1>7, <3>3, <3>4 DEF LastSlave
  <2>4. Own(d, t) \subseteq DOMAIN c \cup {new}
    BY <1>1, <1>2 DEF Own
  <2>5. Own(d, t) \ {new} = Own(c, t)
    BY <2>1, <2>2, <2>4
  <2> QED
    BY <2>1, <2>3, <2>5
<1>8. ASSUME NEW t \in DOMAIN c, c[t].type = "Slave", NEW f \in Fields
      PROVE  d[t][f] = Tally(d, f, p, t)
  <2> DEFINE W == Weights(d, f, p)
  <2>1. d[t][f] = c[t][f] + (IF LastSlave(c, t) THEN w[f] ELSE 0) /\ c[t][f] = Tally(c, f, o, t)
    BY <1>2, <1>8 DEF Tallied
  <2>2. /\ IsFiniteSet(Own(c, t)) /\ Own(c, t) \subseteq DOMAIN c /\ DOMAIN c \subseteq DOMAIN d
        /\ new \in DOMAIN d
    BY <1>1, <1>2, <1>6, <1>7, <1>8
  <2>3. Total(W, Own(c, t)) = Tally(c, f, o, t)
    <3>1. \A k \in Own(c, t) : W[k] = Weights(c, f, o)[k]
      BY <1>6, <2>2
    <3> HIDE DEF W
    <3> QED
      BY <2>2, <3>1, TotalSame DEF Tally
  <2>4. W[new] = w[f] /\ \A k \in DOMAIN d : W[k] \in Nat
    BY <1>6
  <2> HIDE DEF W
  <2>5. Total(W, Own(c, t)) \in Nat
    BY <2>2, <2>4, TotalType
  <2>6. CASE LastSlave(c, t) /\ r.type # "Slave"
    <3>1. Own(d, t) = Own(c, t) \cup {new} /\ new \notin Own(c, t)
      BY <1>7, <1>8, <2>6
    <3>2. IsFiniteSet(Own(d, t)) /\ \A k \in Own(d, t) : W[k] \in Nat
      BY <1>6, <2>2, <2>4, <3>1
    <3>3. Total(W, Own(d, t)) = W[new] + Total(W, Own(d, t) \ {new})
      BY <3>1, <3>2, TotalOthers
    <3>4. Own(d, t) \ {new} = Own(c, t)
      BY <3>1
    <3>5. d[t][f] = Total(W, Own(c, t)) + W[new] /\ W[new] \in Nat
      <4>1. W[new] \in Nat
        BY <2>2, <2>4
      <4>2. d[t][f] = c[t][f] + w[f]
        BY <2>1, <2>6
      <4>3. c[t][f] = Total(W, Own(c, t))
        BY <2>1, <2>3
      <4> QED
        BY <2>4, <4>1, <4>2, <4>3
    <3>6. d[t][f] = Total(W, Own(d, t))
      <4>1. Total(W, Own(d, t)) = W[new] + Total(W, Own(c, t))
        BY <3>3, <3>4, Zenon
      <4> QED
        BY <2>5, <3>5, <4>1
    <3> QED
      BY <3>6 DEF Tally, W
  <2>7. CASE ~ (LastSlave(c, t) /\ r.type # "Slave")
    <3>1. Own(d, t) = Own(c, t)
      BY <1>7, <1>8, <2>7
    <3>2. d[t][f] = Tally(c, f, o, t)
      BY <2>1, <2>3, <2>5, <2>7
    <3> QED
      BY <2>3, <3>1, <3>2 DEF Tally, W
  <2> QED
    BY <2>6, <2>7
<1>9. ASSUME r.type = "Slave", NEW f \in Fields
      PROVE  d[new][f] = Tally(d, f, p, new)
  <2>1. Own(d, new) = {}
    BY <1>1, <1>2 DEF Own
  <2> QED
    BY <1>2, <1>9, <2>1, TotalEmpty DEF Tally
<1>10. Tallied(d, p)
  BY <1>2, <1>3, <1>4, <1>8, <1>9 DEF Tallied
<1> QED
  BY <1>10 DEF d

(* An item x of the last slave s is completed, and the slave counts the    *)
(* difference.                                                             *)
Corrected(c, o, e, p, s, x) ==
  /\ Refit(c, e) /\ LastSlave(c, s) /\ x \in DOMAIN c /\ s < x
  /\ \A f \in Fields : \A k \in DOMAIN c : k # x => Weights(e, f, p)[k] = Weights(c, f, o)[k]
  /\ \A f \in Fields : e[s][f] + Weights(c, f, o)[x] = c[s][f] + Weights(e, f, p)[x]
  /\ \A t \in DOMAIN c : c[t].type = "Slave" /\ t # s => \A f \in Fields : e[t][f] = c[t][f]

(* A command is counted, or changed while it is counted.                   *)
LEMMA TallyAt ==
  ASSUME NEW c, NEW o, Tallied(c, o), NEW e, NEW p, NEW s, NEW x, Corrected(c, o, e, p, s, x)
  PROVE  Tallied(e, p)
<1>0. /\ Refit(c, e) /\ LastSlave(c, s) /\ x \in DOMAIN c /\ s < x
      /\ \A f \in Fields : \A k \in DOMAIN c : k # x => Weights(e, f, p)[k] = Weights(c, f, o)[k]
      /\ \A f \in Fields : e[s][f] + Weights(c, f, o)[x] = c[s][f] + Weights(e, f, p)[x]
      /\ \A t \in DOMAIN c : c[t].type = "Slave" /\ t # s => \A f \in Fields : e[t][f] = c[t][f]
  BY DEF Corrected
<1>1. IsSequence(c) /\ Len(c) \in Nat /\ DOMAIN c = 1 .. Len(c) /\ DOMAIN e = DOMAIN c
  BY <1>0, SequenceDomain DEF Refit
<1>2. ASSUME NEW f \in Fields
      PROVE  /\ \A k \in DOMAIN c : Weights(c, f, o)[k] \in Nat /\ Weights(e, f, p)[k] \in Nat
             /\ \A S \in SUBSET (DOMAIN c) : IsFiniteSet(S)
  BY <1>0, Weighed DEF Refit
<1>3. \A t : Own(e, t) = Own(c, t) /\ Own(c, t) \subseteq DOMAIN c
  BY <1>0 DEF Own, Refit
<1>4. ASSUME NEW t \in DOMAIN c, c[t].type = "Slave", NEW f \in Fields
      PROVE  e[t][f] = Tally(e, f, p, t)
  <2> DEFINE V == Weights(c, f, o)
             W == Weights(e, f, p)
             S == Own(c, t)
  <2>1. /\ IsFiniteSet(S) /\ S \subseteq DOMAIN c /\ S = Own(e, t)
        /\ \A k \in DOMAIN c : V[k] \in Nat /\ W[k] \in Nat
        /\ \A k \in DOMAIN c : k # x => W[k] = V[k]
    BY <1>0, <1>2, <1>3
  <2>2. c[t][f] = Total(V, S)
    BY <1>0, <1>4 DEF Tallied, Tally
  <2>3. /\ t = s => e[t][f] + V[x] = c[t][f] + W[x]
        /\ t # s => e[t][f] = c[t][f]
    BY <1>0, <1>4
  <2>4. t = s => x \in S
    BY <1>0 DEF LastSlave, Own
  <2>5. t # s => x \notin S
    <3>1. t # s => t < s
      BY <1>0, <1>1, <1>4 DEF LastSlave
    <3> QED
      BY <1>0, <1>1, <3>1 DEF LastSlave, Own
  <2>6. e[t][f] \in Nat
    <3>1. e[t].type = "Slave" /\ RecordWellFormed(e[t])
      BY <1>0, <1>4 DEF Refit
    <3> QED
      BY <1>0, <3>1 DEF RecordWellFormed
  <2>7. Tally(e, f, p, t) = Total(W, S)
    BY <1>0, <1>3 DEF Tally
  <2> HIDE DEF V, W, S
  <2>8. CASE t = s
    <3>1. x \in S /\ IsFiniteSet(S \ {x}) /\ \A k \in S : V[k] \in Nat /\ W[k] \in Nat
      BY <1>0, <2>1, <2>4, <2>8, FS_RemoveElement
    <3>2. Total(V, S) = V[x] + Total(V, S \ {x}) /\ Total(W, S) = W[x] + Total(W, S \ {x})
      BY <1>0, <2>1, <3>1, TotalOthers
    <3>3. \A k \in S \ {x} : V[k] = W[k]
      BY <1>0, <2>1
    <3>4. Total(V, S \ {x}) = Total(W, S \ {x})
      BY <1>0, <3>1, <3>3, TotalSame
    <3>5. Total(V, S \ {x}) \in Nat
      BY <1>0, <3>1, TotalType
    <3> QED
      BY <1>0, <2>2, <2>3, <2>6, <2>7, <2>8, <3>1, <3>2, <3>4, <3>5
  <2>9. CASE t # s
    <3>1. \A k \in S : V[k] = W[k]
      BY <1>0, <2>1, <2>5, <2>9
    <3>2. Total(V, S) = Total(W, S)
      BY <1>0, <2>1, <3>1, TotalSame
    <3> QED
      BY <1>0, <2>2, <2>3, <2>7, <2>9, <3>2
  <2> QED
    BY <1>0, <2>8, <2>9
<1> QED
  BY <1>0, <1>1, <1>4 DEF Tallied, Refit

(* An item is stored with its offset.                                      *)
PlacedAt(item, n) == [f \in DOMAIN item \cup {"off"} |-> IF f = "off" THEN n ELSE item[f]]

(* Changes of other fields leave a record what it is to the chain.         *)
LEMMA Changed ==
  ASSUME NEW r, RecordWellFormed(r), NEW q, DOMAIN q = DOMAIN r,
         \A f \in DOMAIN r \cap {"type", "off", "len", "kind", "pin"} : q[f] = r[f],
         r.type = "Slave" => \A f \in Fields : q[f] \in Nat
  PROVE  Alike(r, q)
<1>1. q.type = r.type /\ q.off = r.off
  BY DEF RecordWellFormed
<1>2. r.type \in WithData \cup {"Raw"} => q.len = r.len
  BY DEF RecordWellFormed
<1>3. r.type = "Slave" => q.kind = r.kind
  BY DEF RecordWellFormed
<1>4. r.type \in {"PdoEntry", "ComplexEntry"} => q.pin = r.pin
  BY DEF RecordWellFormed
<1>5. RecordWellFormed(q)
  BY <1>1, <1>2 DEF RecordWellFormed
<1> QED
  BY <1>1, <1>2, <1>3, <1>4, <1>5 DEF Alike

(* A record alike adds as much.                                            *)
LEMMA WeightKept ==
  ASSUME NEW r, NEW q, Alike(r, q), NEW f
  PROVE  Weight(f, q) = Weight(f, r)
BY DEF Weight, Alike, WithData

(* A record as the handlers append it.                                     *)
NewItem(item) ==
  /\ "off" \notin DOMAIN item /\ "type" \in DOMAIN item /\ item.type \in DOMAIN SizeOf
  /\ item.type \in WithData => "len" \in DOMAIN item /\ item.len = 0
  /\ item.type \in {"PdoEntry", "ComplexEntry"} => "pin" \in DOMAIN item
  /\ item.type = "Slave" =>
       Fields \cup {"kind"} \subseteq DOMAIN item /\ \A f \in Fields : item[f] = 0

(* What is known of a chain behind an appended item.                       *)
Grown(c, d, t) ==
  /\ IsSequence(c) /\ IsSequence(d) /\ Len(d) = Len(c) + 1
  /\ \A i \in DOMAIN c : /\ i \in DOMAIN d /\ d[i].type = c[i].type
                         /\ c[i].type = "Slave" => d[i].kind = c[i].kind
  /\ d[Len(c) + 1].type = t

(* The chain as it is before the item is appended: the slave counts it, if *)
(* it is not the command p that will be counted when it ends.              *)
Completed(c, e, p, item) ==
  /\ IsSequence(e) /\ DOMAIN e = DOMAIN c /\ \A k \in DOMAIN c : Alike(c[k], e[k])
  /\ p \in {0, Len(c) + 1}
  /\ \A t \in DOMAIN c : c[t].type = "Slave" => \A f \in Fields :
       e[t][f] = c[t][f] + (IF LastSlave(c, t) /\ p = 0 THEN Weight(f, item) ELSE 0)

(* A record is appended and counted.                                       *)
LEMMA AddItem ==
  ASSUME NEW c, NEW n, Structure(c, n), Tallied(c, 0), NEW item, NewItem(item),
         Belongs(c, Len(c) + 1, item.type), NEW e, NEW p, Completed(c, e, p, item)
  PROVE  LET d == Append(e, PlacedAt(item, n))
         IN  /\ Structure(d, n + SizeOf[item.type]) /\ Tallied(d, p)
             /\ Grown(c, d, item.type)
<1> DEFINE r == PlacedAt(item, n)
           w == [f \in Fields |-> IF p = Len(c) + 1 THEN 0 ELSE Weight(f, r)]
           d == Append(e, r)
<1>0. /\ IsSequence(e) /\ DOMAIN e = DOMAIN c /\ \A k \in DOMAIN c : Alike(c[k], e[k])
      /\ p \in {0, Len(c) + 1}
      /\ \A t \in DOMAIN c : c[t].type = "Slave" => \A f \in Fields :
           e[t][f] = c[t][f] + (IF LastSlave(c, t) /\ p = 0 THEN Weight(f, item) ELSE 0)
  BY DEF Completed
<1>1. /\ DOMAIN r = DOMAIN item \cup {"off"} /\ r.off = n
      /\ \A f \in DOMAIN item : r[f] = item[f]
  <2>1. "off" \notin DOMAIN item
    BY DEF NewItem
  <2> QED
    BY <2>1 DEF PlacedAt
<1> HIDE DEF r
<1>2. n \in Nat /\ IsSequence(c) /\ \A k \in DOMAIN c : RecordWellFormed(c[k])
  BY <1>0 DEF Structure
<1>3. r.type = item.type /\ r.type # "Raw" /\ r.type \in Types
  BY <1>0, <1>1, Sizes DEF NewItem, Types
<1>4. r.type \in WithData => r.len = 0 /\ "len" \in DOMAIN r
  BY <1>0, <1>1, <1>3 DEF NewItem
<1>5. r.type = "Slave" => /\ Fields \cup {"kind"} \subseteq DOMAIN r
                          /\ \A f \in Fields : r[f] = 0
  BY <1>0, <1>1, <1>3 DEF NewItem
<1>6. RecordWellFormed(r)
  BY <1>0, <1>1, <1>2, <1>3, <1>4, <1>5 DEF RecordWellFormed, NewItem
<1>7. Structure(e, n)
  BY <1>0, StructureSame
<1>8. Len(e) = Len(c) /\ Len(c) \in Nat /\ DOMAIN c = 1 .. Len(c)
  BY <1>0, <1>2, SequenceDomain, IntervalLength
<1>9. Belongs(e, Len(e) + 1, r.type)
  <2>1. \A i \in DOMAIN e : i < Len(e) + 1 => i \in DOMAIN c
    BY <1>0
  <2>2. \A i \in DOMAIN c : e[i].type = c[i].type /\ (c[i].type = "Slave" => e[i].kind = c[i].kind)
    BY <1>0 DEF Alike
  <2> QED
    BY <1>0, <1>3, <1>8, <2>1, <2>2, BelongsKept
<1>10. Structure(d, n + SizeOf[item.type])
  BY <1>0, <1>1, <1>3, <1>4, <1>6, <1>7, <1>9, StructureAppend
<1>11. Refit(c, e)
  BY <1>0, <1>2 DEF Refit, Alike
<1>12. ASSUME NEW f \in Fields
       PROVE  /\ \A k \in DOMAIN c : Weights(e, f, p)[k] = Weights(c, f, 0)[k]
              /\ w[f] = IF p = Len(c) + 1 THEN 0 ELSE Weight(f, r)
              /\ Weight(f, r) = Weight(f, item)
  <2>1. \A k \in DOMAIN c : Weight(f, e[k]) = Weight(f, c[k])
    BY <1>0, WeightKept
  <2>2. \A k \in DOMAIN c : k # p /\ k # 0
    BY <1>0, <1>8
  <2>3. Weight(f, r) = Weight(f, item)
    BY <1>0, <1>1, <1>3 DEF Weight, NewItem, WithData
  <2> QED
    BY <1>0, <2>1, <2>2, <2>3 DEF Weights
<1>13. r.type = "Slave" => \A f \in Fields : r[f] = 0 /\ w[f] = 0
  BY <1>0, <1>3, <1>5, <1>12 DEF Weight, Fields
<1>14. p = Len(c) + 1 <=> p # 0
  BY <1>0, <1>8
<1>15. \A t \in DOMAIN c : c[t].type = "Slave" => \A f \in Fields :
         e[t][f] = c[t][f] + (IF LastSlave(c, t) THEN w[f] ELSE 0)
  <2>1. ASSUME NEW t \in DOMAIN c, c[t].type = "Slave", NEW f \in Fields
        PROVE  e[t][f] = c[t][f] + (IF LastSlave(c, t) THEN w[f] ELSE 0)
    <3>1. w[f] = IF p = 0 THEN Weight(f, item) ELSE 0
      BY <1>0, <1>12, <1>14
    <3>2. e[t][f] = c[t][f] + (IF LastSlave(c, t) /\ p = 0 THEN Weight(f, item) ELSE 0)
      BY <1>0, <2>1
    <3> HIDE DEF w
    <3> QED
      BY <1>0, <3>1, <3>2
  <2> QED
    BY <1>0, <2>1
<1>16. Tallied(d, p)
  <2> HIDE DEF w
  <2> QED
    BY <1>0, <1>6, <1>11, <1>12, <1>13, <1>15, TallyAppend
<1>17. Grown(c, d, item.type)
  <2>1. IsSequence(d) /\ Len(d) = Len(e) + 1 /\ d[Len(e) + 1] = r
    BY <1>0, Appended
  <2>2. \A i \in DOMAIN e : i \in DOMAIN d /\ d[i] = e[i]
    BY <1>0, Appended
  <2> HIDE DEF d
  <2> QED
    BY <1>0, <1>2, <1>3, <1>8, <2>1, <2>2 DEF Grown, Alike
<1> QED
  BY <1>0, <1>10, <1>16, <1>17 DEF r

(* A record is like itself.                                                *)
LEMMA AlikeItself ==
  ASSUME NEW r, RecordWellFormed(r)
  PROVE  Alike(r, r)
BY DEF Alike

(* A count in the record of a slave goes up.                               *)
LEMMA CountUp ==
  ASSUME NEW c, IsSequence(c), \A k \in DOMAIN c : RecordWellFormed(c[k]),
         NEW s \in DOMAIN c, c[s].type = "Slave", NEW f \in Fields, NEW m \in Nat,
         NEW q, DOMAIN q = DOMAIN c[s],
         \A g \in DOMAIN c[s] : q[g] = IF g = f THEN c[s][f] + m ELSE c[s][g],
         NEW e, \A k \in DOMAIN c : e[k] = IF k = s THEN q ELSE c[k]
  PROVE  /\ \A k \in DOMAIN c : Alike(c[k], e[k])
         /\ \A t \in DOMAIN c : c[t].type = "Slave" => \A g \in Fields :
              e[t][g] = c[t][g] + (IF t = s /\ g = f THEN m ELSE 0)
<1>1. f \in DOMAIN c[s] /\ \A g \in Fields : c[s][g] \in Nat /\ g \in DOMAIN c[s]
  <2>1. RecordWellFormed(c[s])
    OBVIOUS
  <2> QED
    BY <2>1 DEF RecordWellFormed
<1>2. f \notin {"type", "off", "len", "kind", "pin"}
  BY DEF Fields
<1>3. Alike(c[s], q)
  BY <1>1, <1>2, Changed
<1>4. \A k \in DOMAIN c : Alike(c[k], e[k])
  BY <1>3, AlikeItself
<1>5. ASSUME NEW t \in DOMAIN c, c[t].type = "Slave", NEW g \in Fields
      PROVE  e[t][g] = c[t][g] + (IF t = s /\ g = f THEN m ELSE 0)
  <2>1. c[t][g] \in Nat /\ RecordWellFormed(c[t])
    BY <1>5 DEF RecordWellFormed
  <2> QED
    BY <1>1, <2>1
<1> QED
  BY <1>4, <1>5

(* The slave that is open is the last one.                                 *)
LEMMA OneLastSlave ==
  ASSUME NEW c, NEW s, LastSlave(c, s), IsSequence(c)
  PROVE  \A t \in DOMAIN c : c[t].type = "Slave" => (LastSlave(c, t) <=> t = s)
<1>1. DOMAIN c = 1 .. Len(c) /\ Len(c) \in Nat
  BY SequenceDomain
<1> QED
  BY <1>1 DEF LastSlave

(* A record is appended behind the chain whose counts have been completed. *)
LEMMA Added ==
  ASSUME Producing, icmd = "Closed", icmd' = icmd,
         NEW e, IsSequence(e), DOMAIN e = DOMAIN chain,
         \A k \in DOMAIN chain : Alike(chain[k], e[k]),
         NEW item, NewItem(item), AppendTo(e, item), Belongs(chain, Top, item.type),
         \A t \in DOMAIN chain : chain[t].type = "Slave" => \A f \in Fields :
           e[t][f] = chain[t][f] + (IF LastSlave(chain, t) THEN Weight(f, item) ELSE 0)
  PROVE  /\ Structure(chain', length') /\ Tallied(chain', OpenCommand')
         /\ Grown(chain, chain', item.type)
<1>1. chain' = Append(e, PlacedAt(item, length)) /\ length' = length + SizeOf[item.type]
  BY DEF AppendTo, Placed, PlacedAt
<1>2. OpenCommand = 0 /\ OpenCommand' = 0
  BY DEF OpenCommand, OpenSdo, OpenIdn, CoeTexts, SoeTexts
<1>3. Structure(chain, length) /\ Tallied(chain, 0)
  BY <1>2 DEF Producing
<1>4. Belongs(chain, Len(chain) + 1, item.type)
  BY DEF Top
<1>5. Completed(chain, e, 0, item)
  BY DEF Completed
<1> QED
  BY <1>1, <1>2, <1>3, <1>4, <1>5, AddItem

(* What follows of the pointers from an appended item.                     *)
LEMMA GrownFacts ==
  ASSUME NEW c, NEW d, NEW t, Grown(c, d, t)
  PROVE  LET new == Len(c) + 1
         IN  /\ new \in DOMAIN d /\ d[new].type = t /\ DOMAIN d = DOMAIN c \cup {new}
             /\ \A i \in DOMAIN c : i < new /\ i \in Nat
             /\ \A i \in DOMAIN c : /\ i \in DOMAIN d /\ d[i].type = c[i].type
                                    /\ c[i].type = "Slave" => d[i].kind = c[i].kind
             /\ t # "Slave" => \A s : LastSlave(c, s) => LastSlave(d, s)
             /\ t = "Slave" => LastSlave(d, new)
             /\ t # "Raw" => LastRecord(d, new)
<1> DEFINE new == Len(c) + 1
<1>1. /\ Len(c) \in Nat /\ DOMAIN c = 1 .. Len(c) /\ DOMAIN d = 1 .. new
      /\ d[new].type = t
      /\ \A i \in DOMAIN c : /\ i \in DOMAIN d /\ d[i].type = c[i].type
                             /\ c[i].type = "Slave" => d[i].kind = c[i].kind
  BY SequenceDomain DEF Grown
<1>2. \A i \in DOMAIN d : i \in DOMAIN c \/ i = new
  BY <1>1
<1>3. new \in DOMAIN d /\ DOMAIN d = DOMAIN c \cup {new} /\ \A i \in DOMAIN c : i < new /\ i \in Nat
  BY <1>1
<1> HIDE DEF new
<1>4. t # "Slave" => \A s : LastSlave(c, s) => LastSlave(d, s)
  BY <1>1, <1>2 DEF LastSlave
<1>5. t = "Slave" => LastSlave(d, new)
  BY <1>1, <1>2, <1>3 DEF LastSlave
<1>6. t # "Raw" => LastRecord(d, new)
  BY <1>1, <1>2, <1>3 DEF LastRecord, Records
<1> QED
  BY <1>1, <1>3, <1>4, <1>5, <1>6 DEF new

(* An element starts where the document lets it start.                     *)
LEMMA StartBelongs ==
  ASSUME Producing, NEW e \in DOMAIN SizeOf, e \in {"Master", "End"} \/ xml = From[e],
         e \in DOMAIN From \cup {"Master", "End"},
         e = "SyncManager" => chain[cur.slave].kind = "generic"
  PROVE  Belongs(chain, Top, e)
<1>1. IsSequence(chain) /\ Current
  BY DEF Producing, Structure
<1>2. Len(chain) \in Nat /\ DOMAIN chain = 1 .. Len(chain)
  BY <1>1, SequenceDomain
<1>3. \A i \in DOMAIN chain : 0 < i /\ i < Top
  BY <1>2 DEF Top
<1>4. CASE e = "Slave"
  <2>1. xml = "Master"
    BY <1>4 DEF From
  <2>2. CurrentMaster
    BY <1>1, <2>1 DEF Current
  <2>3. Between(chain, 0, Top, "Master")
    BY <1>3, <2>2 DEF CurrentMaster, Between
  <2> QED
    BY <1>4, <2>3 DEF Belongs, InSlave, Layout, WithData
<1>5. CASE e \in InSlave
  <2>1. /\ xml \in AtSlave
        /\ e \in {"Pdo", "PdoEntry", "ComplexEntry"} => xml \in Layout
        /\ e = "PdoEntry" => xml \in Layout
        /\ e = "ComplexEntry" => xml = "PdoEntry"
    BY <1>5 DEF From, AtSlave, Layout, InSlave, WithData
  <2>2. LastSlave(chain, cur.slave)
    BY <1>1, <2>1 DEF Current
  <2>3. SlaveBefore(chain, Top, cur.slave) /\ cur.slave \in DOMAIN chain
    BY <1>3, <2>2 DEF SlaveBefore, LastSlave
  <2>4. e \in Layout => chain[cur.slave].kind = "generic"
    BY <1>1, <2>1 DEF Current, Layout
  <2>5. e = "PdoEntry" => Between(chain, cur.slave, Top, "SyncManager")
    <3>1. e = "PdoEntry" => CurrentRecord(cur.sm, "SyncManager")
      BY <1>1, <2>1 DEF Current
    <3> QED
      BY <1>3, <3>1 DEF CurrentRecord, Between
  <2>6. e = "ComplexEntry" => Between(chain, cur.slave, Top, "PdoEntry")
    <3>1. e = "ComplexEntry" => CurrentRecord(cur.entry, "PdoEntry")
      BY <1>1, <2>1 DEF Current
    <3> QED
      BY <1>3, <3>1 DEF CurrentRecord, Between
  <2>7. e # "Slave"
    BY <1>5 DEF InSlave, Layout, WithData
  <2> QED
    BY <2>3, <2>4, <2>5, <2>6, <2>7 DEF Belongs
<1>6. CASE e \notin InSlave /\ e # "Slave"
  BY <1>6 DEF Belongs
<1> QED
  BY <1>4, <1>5, <1>6

(* The pointer that a start handler sets.                                  *)
Opens == [Master |-> "master", Slave |-> "slave", SyncManager |-> "sm", Pdo |-> "pdo",
          PdoEntry |-> "entry", SdoConfig |-> "sdo", DcConf |-> "none", Watchdog |-> "none",
          ModParam |-> "none", ComplexEntry |-> "none"]

(* The pointers to the elements that are open.                             *)
Pointers == {"master", "slave", "sm", "pdo", "entry", "sdo"}

(* The item appended last is at the top.                                   *)
LEMMA GrownAtTop ==
  ASSUME NEW e, Grown(chain, chain', e)
  PROVE  /\ Top \in DOMAIN chain' /\ chain'[Top].type = e
         /\ \A i \in DOMAIN chain : i < Top /\ i \in Nat
         /\ \A i \in DOMAIN chain : /\ i \in DOMAIN chain' /\ chain'[i].type = chain[i].type
                                    /\ chain[i].type = "Slave" => chain'[i].kind = chain[i].kind
         /\ e # "Slave" => \A s : LastSlave(chain, s) => LastSlave(chain', s)
         /\ e = "Slave" => LastSlave(chain', Top)
         /\ e # "Raw" => LastRecord(chain', Top)
<1> DEFINE new == Len(chain) + 1
           d == chain'
<1>1. Grown(chain, d, e) /\ Top = new
  BY DEF Top
<1> HIDE DEF d
<1>2. /\ new \in DOMAIN d /\ d[new].type = e
      /\ \A i \in DOMAIN chain : i < new /\ i \in Nat
      /\ \A i \in DOMAIN chain : /\ i \in DOMAIN d /\ d[i].type = chain[i].type
                                 /\ chain[i].type = "Slave" => d[i].kind = chain[i].kind
      /\ e # "Slave" => \A s : LastSlave(chain, s) => LastSlave(d, s)
      /\ e = "Slave" => LastSlave(d, new)
      /\ e # "Raw" => LastRecord(d, new)
  BY <1>1, GrownFacts, ZenonT(40)
<1> HIDE DEF new
<1> QED
  BY <1>1, <1>2 DEF d

(* The pointers stay right when an element opens.                          *)
LEMMA CurrentGrown ==
  ASSUME Producing, icmd = "Closed", icmd' = icmd, NEW e \in DOMAIN Opens, xml = From[e], xml' = e,
         Grown(chain, chain', e), DOMAIN cur' = DOMAIN cur,
         \A f \in Pointers : cur'[f] = IF f = Opens[e] THEN Top ELSE cur[f],
         e = "SyncManager" => chain[cur.slave].kind = "generic"
  PROVE  Current'
<1>1. /\ Top \in DOMAIN chain' /\ chain'[Top].type = e
      /\ \A i \in DOMAIN chain : i < Top /\ i \in Nat
      /\ \A i \in DOMAIN chain : /\ i \in DOMAIN chain' /\ chain'[i].type = chain[i].type
                                 /\ chain[i].type = "Slave" => chain'[i].kind = chain[i].kind
      /\ e # "Slave" => \A s : LastSlave(chain, s) => LastSlave(chain', s)
      /\ e = "Slave" => LastSlave(chain', Top)
      /\ e # "Raw" => LastRecord(chain', Top)
  BY GrownAtTop
<1>2. Current
  BY DEF Producing
<1>3. ~ OpenSdo' /\ ~ OpenIdn'
  BY DEF OpenSdo, OpenIdn, CoeTexts, SoeTexts
<1>4. /\ cur'.master = IF e = "Master" THEN Top ELSE cur.master
      /\ cur'.slave = IF e = "Slave" THEN Top ELSE cur.slave
      /\ cur'.sm = IF e = "SyncManager" THEN Top ELSE cur.sm
      /\ cur'.pdo = IF e = "Pdo" THEN Top ELSE cur.pdo
      /\ cur'.entry = IF e = "PdoEntry" THEN Top ELSE cur.entry
      /\ cur'.sdo = IF e = "SdoConfig" THEN Top ELSE cur.sdo
  BY DEF Pointers, Opens
<1>5. DOMAIN cur' = DOMAIN NoCur /\ icmd' = "Closed"
  BY <1>2 DEF Current
<1>6. CASE e = "Master"
  <2>1. xml = From["Master"] /\ xml' = "Master"
    BY <1>6
  <2> QED
    BY <1>1, <1>2, <1>3, <1>4, <1>5, <1>6, <2>1
    DEF Current, CurrentMaster, CurrentRecord, AtSlave, Layout, From, LastSlave
<1>7. CASE e = "Slave"
  <2>1. xml = From["Slave"] /\ xml' = "Slave"
    BY <1>7
  <2> QED
    BY <1>1, <1>2, <1>3, <1>4, <1>5, <1>7, <2>1
    DEF Current, CurrentMaster, CurrentRecord, AtSlave, Layout, From, LastSlave
<1>8. CASE e = "DcConf"
  <2>1. xml = From["DcConf"] /\ xml' = "DcConf"
    BY <1>8
  <2> QED
    BY <1>1, <1>2, <1>3, <1>4, <1>5, <1>8, <2>1
    DEF Current, CurrentMaster, CurrentRecord, AtSlave, Layout, From, LastSlave
<1>9. CASE e = "Watchdog"
  <2>1. xml = From["Watchdog"] /\ xml' = "Watchdog"
    BY <1>9
  <2> QED
    BY <1>1, <1>2, <1>3, <1>4, <1>5, <1>9, <2>1
    DEF Current, CurrentMaster, CurrentRecord, AtSlave, Layout, From, LastSlave
<1>10. CASE e = "ModParam"
  <2>1. xml = From["ModParam"] /\ xml' = "ModParam"
    BY <1>10
  <2> QED
    BY <1>1, <1>2, <1>3, <1>4, <1>5, <1>10, <2>1
    DEF Current, CurrentMaster, CurrentRecord, AtSlave, Layout, From, LastSlave
<1>11. CASE e = "SdoConfig"
  <2>1. xml = From["SdoConfig"] /\ xml' = "SdoConfig"
    BY <1>11
  <2> QED
    BY <1>1, <1>2, <1>3, <1>4, <1>5, <1>11, <2>1
    DEF Current, CurrentMaster, CurrentRecord, AtSlave, Layout, From, LastSlave
<1>12. CASE e = "SyncManager"
  <2>1. xml = From["SyncManager"] /\ xml' = "SyncManager"
    BY <1>12
  <2> QED
    BY <1>1, <1>2, <1>3, <1>4, <1>5, <1>12, <2>1
    DEF Current, CurrentMaster, CurrentRecord, AtSlave, Layout, From, LastSlave
<1>13. CASE e = "Pdo"
  <2>1. xml = From["Pdo"] /\ xml' = "Pdo"
    BY <1>13
  <2> QED
    BY <1>1, <1>2, <1>3, <1>4, <1>5, <1>13, <2>1
    DEF Current, CurrentMaster, CurrentRecord, AtSlave, Layout, From, LastSlave
<1>14. CASE e = "PdoEntry"
  <2>1. xml = From["PdoEntry"] /\ xml' = "PdoEntry"
    BY <1>14
  <2> QED
    BY <1>1, <1>2, <1>3, <1>4, <1>5, <1>14, <2>1
    DEF Current, CurrentMaster, CurrentRecord, AtSlave, Layout, From, LastSlave
<1>15. CASE e = "ComplexEntry"
  <2>1. xml = From["ComplexEntry"] /\ xml' = "ComplexEntry"
    BY <1>15
  <2> QED
    BY <1>1, <1>2, <1>3, <1>4, <1>5, <1>15, <2>1
    DEF Current, CurrentMaster, CurrentRecord, AtSlave, Layout, From, LastSlave
<1> QED
  BY <1>6, <1>7, <1>8, <1>9, <1>10, <1>11, <1>12, <1>13, <1>14, <1>15 DEF Opens

(* An element starts: its record is counted, appended and pointed to.      *)
LEMMA ElementAdded ==
  ASSUME Producing, NEW e \in DOMAIN Opens, Starts(e),
         NEW c, IsSequence(c), DOMAIN c = DOMAIN chain,
         \A k \in DOMAIN chain : Alike(chain[k], c[k]),
         NEW item, item.type = e, NewItem(item), AppendTo(c, item),
         \A t \in DOMAIN chain : chain[t].type = "Slave" => \A f \in Fields :
           c[t][f] = chain[t][f] + (IF LastSlave(chain, t) THEN Weight(f, item) ELSE 0),
         DOMAIN cur' = DOMAIN cur,
         \A f \in Pointers : cur'[f] = IF f = Opens[e] THEN Top ELSE cur[f],
         e = "SyncManager" => chain[cur.slave].kind = "generic"
  PROVE  Producing'
<1>1. xml = From[e] /\ icmd = "Closed" /\ xml' = e /\ icmd' = icmd
  BY DEF Starts
<1>2. e \in DOMAIN From /\ e \in DOMAIN SizeOf
  BY DEF Opens, From, SizeOf
<1>3. Belongs(chain, Top, e)
  BY <1>1, <1>2, StartBelongs
<1>4. /\ Structure(chain', length') /\ Tallied(chain', OpenCommand')
      /\ Grown(chain, chain', e)
  BY <1>1, <1>3, Added
<1>5. Current'
  BY <1>1, <1>4, CurrentGrown
<1> QED
  BY <1>1, <1>2, <1>4, <1>5 DEF Producing

(* An element whose record nobody counts.                                  *)
LEMMA ElementEmitted ==
  ASSUME Producing, NEW e \in {"Master", "Slave", "DcConf", "Watchdog"}, Starts(e),
         NEW item, item.type = e, NewItem(item), Emit(item),
         DOMAIN cur' = DOMAIN cur,
         \A f \in Pointers : cur'[f] = IF f = Opens[e] THEN Top ELSE cur[f]
  PROVE  Producing'
<1>1. IsSequence(chain) /\ \A k \in DOMAIN chain : RecordWellFormed(chain[k])
  BY DEF Producing, Structure
<1>2. \A k \in DOMAIN chain : Alike(chain[k], chain[k])
  BY <1>1, AlikeItself
<1>3. AppendTo(chain, item)
  BY DEF Emit, AppendTo, Extent
<1>4. \A f \in Fields : Weight(f, item) = 0
  BY DEF Weight, Fields
<1>5. ASSUME NEW t \in DOMAIN chain, chain[t].type = "Slave", NEW f \in Fields
      PROVE  chain[t][f] = chain[t][f] + (IF LastSlave(chain, t) THEN Weight(f, item) ELSE 0)
  <2>1. chain[t][f] \in Nat
    BY <1>1, <1>5 DEF RecordWellFormed
  <2> QED
    BY <1>4, <2>1
<1>6. e \in DOMAIN Opens /\ e # "SyncManager"
  BY DEF Opens
<1> QED
  BY <1>1, <1>2, <1>3, <1>5, <1>6, ElementAdded

(* One pointer is set.                                                     *)
LEMMA PointerSet ==
  ASSUME Producing, NEW f \in Pointers, cur' = [cur EXCEPT ![f] = Top]
  PROVE  DOMAIN cur' = DOMAIN cur /\ \A g \in Pointers : cur'[g] = IF g = f THEN Top ELSE cur[g]
<1>1. DOMAIN cur = DOMAIN NoCur
  BY DEF Producing, Current
<1>2. Pointers \subseteq DOMAIN cur
  BY <1>1 DEF NoCur, Pointers
<1> QED
  BY <1>2

(* Masters.                                                                *)
LEMMA ProduceMaster == ASSUME Producing, parseMasterAttrs PROVE Producing'
<1>1. PICK sync \in {-1, 0, 1}, cycles \in Cycles, period \in {0, 1} :
        /\ Starts("Master")
        /\ Emit([type |-> "Master", period |-> period,
                 m2r |-> SyncToRef(sync, cycles), cycles |-> RefCycles(sync, cycles)])
        /\ cur' = [cur EXCEPT !.master = Top]
  BY DEF parseMasterAttrs
<1> DEFINE item == [type |-> "Master", period |-> period,
                    m2r |-> SyncToRef(sync, cycles), cycles |-> RefCycles(sync, cycles)]
<1>2. item.type = "Master" /\ NewItem(item)
  BY DEF NewItem, SizeOf, WithData
<1> HIDE DEF item
<1>3. DOMAIN cur' = DOMAIN cur /\ \A g \in Pointers : cur'[g] = IF g = "master" THEN Top ELSE cur[g]
  BY <1>1, PointerSet DEF Pointers
<1>4. Opens["Master"] = "master"
  BY DEF Opens
<1> QED
  BY <1>1, <1>2, <1>3, <1>4, ElementEmitted DEF item

(* Slaves.                                                                 *)
LEMMA ProduceSlave == ASSUME Producing, parseSlaveAttrs PROVE Producing'
<1>1. PICK u \in Attrs :
        /\ Starts("Slave")
        /\ Emit([type |-> "Slave", in |-> cur.master, kind |-> u.kind, unit |-> u.unit,
                 cycle |-> u.cycle, sms |-> 0, pdos |-> 0, entries |-> 0, pins |-> 0,
                 params |-> 0, sdoLength |-> 0, idnLength |-> 0])
        /\ cur' = [cur EXCEPT !.slave = Top]
  BY DEF parseSlaveAttrs
<1> DEFINE item == [type |-> "Slave", in |-> cur.master, kind |-> u.kind, unit |-> u.unit,
                    cycle |-> u.cycle, sms |-> 0, pdos |-> 0, entries |-> 0, pins |-> 0,
                    params |-> 0, sdoLength |-> 0, idnLength |-> 0]
<1>2. item.type = "Slave" /\ NewItem(item)
  BY DEF NewItem, SizeOf, WithData, Fields
<1> HIDE DEF item
<1>3. DOMAIN cur' = DOMAIN cur /\ \A g \in Pointers : cur'[g] = IF g = "slave" THEN Top ELSE cur[g]
  BY <1>1, PointerSet DEF Pointers
<1>4. Opens["Slave"] = "slave"
  BY DEF Opens
<1> QED
  BY <1>1, <1>2, <1>3, <1>4, ElementEmitted DEF item

(* Clock settings.                                                         *)
LEMMA ProduceDcConf == ASSUME Producing, parseDcConfAttrs PROVE Producing'
<1> DEFINE item == [type |-> "DcConf", in |-> cur.slave]
<1>1. Starts("DcConf") /\ Emit(item) /\ cur' = cur
  BY DEF parseDcConfAttrs
<1>2. item.type = "DcConf" /\ NewItem(item)
  BY DEF NewItem, SizeOf, WithData
<1> HIDE DEF item
<1>3. Opens["DcConf"] \notin Pointers
  BY DEF Opens, Pointers
<1> QED
  BY <1>1, <1>2, <1>3, ElementEmitted

(* Watchdog settings.                                                      *)
LEMMA ProduceWatchdog == ASSUME Producing, parseWatchdogAttrs PROVE Producing'
<1> DEFINE item == [type |-> "Watchdog", in |-> cur.slave]
<1>1. Starts("Watchdog") /\ Emit(item) /\ cur' = cur
  BY DEF parseWatchdogAttrs
<1>2. item.type = "Watchdog" /\ NewItem(item)
  BY DEF NewItem, SizeOf, WithData
<1> HIDE DEF item
<1>3. Opens["Watchdog"] \notin Pointers
  BY DEF Opens, Pointers
<1> QED
  BY <1>1, <1>2, <1>3, ElementEmitted

(* Inside a slave, the slave is in the chain and can be counted in.        *)
LEMMA SlaveIsOpen ==
  ASSUME Producing, xml \in AtSlave
  PROVE  /\ LastSlave(chain, cur.slave) /\ cur.slave \in DOMAIN chain
         /\ chain[cur.slave].type = "Slave" /\ IsSequence(chain)
         /\ \A k \in DOMAIN chain : RecordWellFormed(chain[k])
         /\ \A t \in DOMAIN chain : chain[t].type = "Slave" =>
              /\ LastSlave(chain, t) <=> t = cur.slave
              /\ \A f \in Fields : chain[t][f] \in Nat
<1>1. LastSlave(chain, cur.slave) /\ IsSequence(chain)
      /\ \A k \in DOMAIN chain : RecordWellFormed(chain[k])
  BY DEF Producing, Current, Structure
<1>2. \A t \in DOMAIN chain : chain[t].type = "Slave" => \A f \in Fields : chain[t][f] \in Nat
  BY <1>1 DEF RecordWellFormed
<1>3. cur.slave \in DOMAIN chain /\ chain[cur.slave].type = "Slave"
  BY <1>1 DEF LastSlave
<1> QED
  BY <1>1, <1>2, <1>3, OneLastSlave

(* What one count more in the open slave gives.                            *)
LEMMA SlaveCounts ==
  ASSUME Producing, xml \in AtSlave, NEW f \in Fields, NEW m \in Nat
  PROVE  LET q == [chain[cur.slave] EXCEPT ![f] = chain[cur.slave][f] + m]
             c == [chain EXCEPT ![cur.slave] = q]
         IN  /\ IsSequence(c) /\ DOMAIN c = DOMAIN chain
             /\ \A k \in DOMAIN chain : Alike(chain[k], c[k])
             /\ \A t \in DOMAIN chain : chain[t].type = "Slave" => \A g \in Fields :
                  c[t][g] = chain[t][g] + (IF t = cur.slave /\ g = f THEN m ELSE 0)
<1> DEFINE q == [chain[cur.slave] EXCEPT ![f] = chain[cur.slave][f] + m]
           c == [chain EXCEPT ![cur.slave] = q]
<1>1. /\ cur.slave \in DOMAIN chain /\ chain[cur.slave].type = "Slave" /\ IsSequence(chain)
      /\ \A k \in DOMAIN chain : RecordWellFormed(chain[k])
  BY SlaveIsOpen
<1>2. /\ DOMAIN q = DOMAIN chain[cur.slave]
      /\ \A g \in DOMAIN chain[cur.slave] :
           q[g] = IF g = f THEN chain[cur.slave][f] + m ELSE chain[cur.slave][g]
  OBVIOUS
<1> HIDE DEF q
<1>3. /\ IsSequence(c) /\ DOMAIN c = DOMAIN chain
      /\ \A k \in DOMAIN chain : c[k] = IF k = cur.slave THEN q ELSE chain[k]
  BY <1>1, Replaced
<1> HIDE DEF c
<1>4. /\ \A k \in DOMAIN chain : Alike(chain[k], c[k])
      /\ \A t \in DOMAIN chain : chain[t].type = "Slave" => \A g \in Fields :
           c[t][g] = chain[t][g] + (IF t = cur.slave /\ g = f THEN m ELSE 0)
  BY <1>1, <1>2, <1>3, CountUp
<1> QED
  BY <1>3, <1>4 DEF c, q

(* Module parameters: counted in the slave.                                *)
LEMMA ProduceModParam == ASSUME Producing, parseModParamAttrs PROVE Producing'
<1> DEFINE item == [type |-> "ModParam", in |-> cur.slave]
           q == [chain[cur.slave] EXCEPT !["params"] = chain[cur.slave]["params"] + 1]
           c == [chain EXCEPT ![cur.slave] = q]
<1>1. Starts("ModParam") /\ AppendTo(c, item) /\ cur' = cur
  BY DEF parseModParamAttrs, Counted
<1>2. item.type = "ModParam" /\ NewItem(item)
  BY DEF NewItem, SizeOf, WithData
<1>3. xml \in AtSlave
  BY <1>1 DEF Starts, From, AtSlave
<1>4. "params" \in Fields
  BY DEF Fields
<1>5. /\ IsSequence(c) /\ DOMAIN c = DOMAIN chain
      /\ \A k \in DOMAIN chain : Alike(chain[k], c[k])
      /\ \A t \in DOMAIN chain : chain[t].type = "Slave" => \A g \in Fields :
           c[t][g] = chain[t][g] + (IF t = cur.slave /\ g = "params" THEN 1 ELSE 0)
  <2>1. 1 \in Nat
    OBVIOUS
  <2> QED
    BY <1>3, <1>4, <2>1, SlaveCounts, ZenonT(40)
<1>6. \A f \in Fields : Weight(f, item) = IF f = "params" THEN 1 ELSE 0
  BY <1>2 DEF Weight, Fields
<1> HIDE DEF item, c
<1>7. \A t \in DOMAIN chain : chain[t].type = "Slave" => \A f \in Fields :
        c[t][f] = chain[t][f] + (IF LastSlave(chain, t) THEN Weight(f, item) ELSE 0)
  BY <1>3, <1>5, <1>6, SlaveIsOpen
<1>8. Opens["ModParam"] \notin Pointers /\ "ModParam" \in DOMAIN Opens
  BY DEF Opens, Pointers
<1> QED
  BY <1>1, <1>2, <1>5, <1>7, <1>8, ElementAdded

(* SDO commands: their size is counted in the slave, their data follow.    *)
LEMMA ProduceSdoConfig == ASSUME Producing, parseSdoConfigAttrs PROVE Producing'
<1>1. PICK sub \in {"complete", "whole"} :
        /\ Starts("SdoConfig")
        /\ AppendTo([chain EXCEPT ![cur.slave].sdoLength = @ + SizeOf["SdoConfig"]],
                    [type |-> "SdoConfig", in |-> cur.slave, len |-> 0, index |-> "whole",
                     subindex |-> sub])
        /\ cur' = [cur EXCEPT !.sdo = Top]
  BY DEF parseSdoConfigAttrs
<1> DEFINE item == [type |-> "SdoConfig", in |-> cur.slave, len |-> 0, index |-> "whole",
                    subindex |-> sub]
           q == [chain[cur.slave] EXCEPT !["sdoLength"] = chain[cur.slave]["sdoLength"] + 16]
           c == [chain EXCEPT ![cur.slave] = q]
<1>2. AppendTo(c, item)
  BY <1>1 DEF SizeOf
<1>3. xml \in AtSlave
  BY <1>1 DEF Starts, From, AtSlave
<1>4. /\ IsSequence(c) /\ DOMAIN c = DOMAIN chain
      /\ \A k \in DOMAIN chain : Alike(chain[k], c[k])
      /\ \A t \in DOMAIN chain : chain[t].type = "Slave" => \A g \in Fields :
           c[t][g] = chain[t][g] + (IF t = cur.slave /\ g = "sdoLength" THEN 16 ELSE 0)
  <2>1. "sdoLength" \in Fields /\ 16 \in Nat
    BY DEF Fields
  <2> QED
    BY <1>3, <2>1, SlaveCounts
<1>5. item.type = "SdoConfig" /\ NewItem(item)
  BY DEF NewItem, SizeOf, WithData
<1>6. \A f \in Fields : Weight(f, item) = IF f = "sdoLength" THEN 16 ELSE 0
  BY <1>5 DEF Weight, Fields, SizeOf
<1> HIDE DEF item, c
<1>7. \A t \in DOMAIN chain : chain[t].type = "Slave" => \A f \in Fields :
        c[t][f] = chain[t][f] + (IF LastSlave(chain, t) THEN Weight(f, item) ELSE 0)
  BY <1>3, <1>4, <1>6, SlaveIsOpen
<1>8. DOMAIN cur' = DOMAIN cur /\ \A g \in Pointers : cur'[g] = IF g = "sdo" THEN Top ELSE cur[g]
  BY <1>1, PointerSet DEF Pointers
<1>9. Opens["SdoConfig"] = "sdo" /\ "SdoConfig" \in DOMAIN Opens
  BY DEF Opens
<1> QED
  BY <1>1, <1>2, <1>4, <1>5, <1>7, <1>8, <1>9, ElementAdded

(* Sync managers: counted in the slave.                                    *)
LEMMA ProduceSyncManager == ASSUME Producing, parseSyncManagerAttrs PROVE Producing'
<1>1. PICK dir \in {"in", "out"} :
        /\ Starts("SyncManager") /\ chain[cur.slave].kind = "generic"
        /\ AppendTo(Counted(cur.slave, "sms"),
                    [type |-> "SyncManager", in |-> cur.slave, dir |-> dir, pdos |-> 0])
        /\ cur' = [cur EXCEPT !.sm = Top]
  BY DEF parseSyncManagerAttrs
<1> DEFINE item == [type |-> "SyncManager", in |-> cur.slave, dir |-> dir, pdos |-> 0]
           q == [chain[cur.slave] EXCEPT !["sms"] = chain[cur.slave]["sms"] + 1]
           c == [chain EXCEPT ![cur.slave] = q]
<1>2. AppendTo(c, item)
  BY <1>1 DEF Counted
<1>3. xml \in AtSlave
  BY <1>1 DEF Starts, From, AtSlave
<1>4. /\ IsSequence(c) /\ DOMAIN c = DOMAIN chain
      /\ \A k \in DOMAIN chain : Alike(chain[k], c[k])
      /\ \A t \in DOMAIN chain : chain[t].type = "Slave" => \A g \in Fields :
           c[t][g] = chain[t][g] + (IF t = cur.slave /\ g = "sms" THEN 1 ELSE 0)
  <2>1. "sms" \in Fields /\ 1 \in Nat
    BY DEF Fields
  <2> QED
    BY <1>3, <2>1, SlaveCounts
<1>5. item.type = "SyncManager" /\ NewItem(item)
  BY DEF NewItem, SizeOf, WithData
<1>6. \A f \in Fields : Weight(f, item) = IF f = "sms" THEN 1 ELSE 0
  BY <1>5 DEF Weight, Fields
<1> HIDE DEF item, c
<1>7. \A t \in DOMAIN chain : chain[t].type = "Slave" => \A f \in Fields :
        c[t][f] = chain[t][f] + (IF LastSlave(chain, t) THEN Weight(f, item) ELSE 0)
  BY <1>3, <1>4, <1>6, SlaveIsOpen
<1>8. DOMAIN cur' = DOMAIN cur /\ \A g \in Pointers : cur'[g] = IF g = "sm" THEN Top ELSE cur[g]
  BY <1>1, PointerSet DEF Pointers
<1>9. Opens["SyncManager"] = "sm" /\ "SyncManager" \in DOMAIN Opens
  BY DEF Opens
<1> QED
  BY <1>1, <1>2, <1>4, <1>5, <1>7, <1>8, <1>9, ElementAdded

(* Complex entries: their pins are counted in the slave.                   *)
LEMMA ProduceComplexEntry == ASSUME Producing, parseComplexEntryAttrs PROVE Producing'
<1>1. PICK pin \in BOOLEAN, bits \in BitLengths :
        /\ Starts("ComplexEntry")
        /\ AppendTo([chain EXCEPT ![cur.slave].pins = @ + PinCount(pin)],
                    [type |-> "ComplexEntry", in |-> cur.entry, pin |-> pin,
                     at |-> cur.bits, bits |-> bits])
        /\ cur' = [cur EXCEPT !.bits = @ + bits]
  BY DEF parseComplexEntryAttrs
<1> DEFINE item == [type |-> "ComplexEntry", in |-> cur.entry, pin |-> pin,
                    at |-> cur.bits, bits |-> bits]
           m == PinCount(pin)
           q == [chain[cur.slave] EXCEPT !["pins"] = chain[cur.slave]["pins"] + m]
           c == [chain EXCEPT ![cur.slave] = q]
<1>2. AppendTo(c, item)
  BY <1>1
<1>3. xml \in AtSlave
  BY <1>1 DEF Starts, From, AtSlave, Layout
<1>4. /\ IsSequence(c) /\ DOMAIN c = DOMAIN chain
      /\ \A k \in DOMAIN chain : Alike(chain[k], c[k])
      /\ \A t \in DOMAIN chain : chain[t].type = "Slave" => \A g \in Fields :
           c[t][g] = chain[t][g] + (IF t = cur.slave /\ g = "pins" THEN m ELSE 0)
  <2>1. "pins" \in Fields /\ m \in Nat
    BY DEF Fields, PinCount
  <2> HIDE DEF m
  <2> QED
    BY <1>3, <2>1, SlaveCounts
<1>5. item.type = "ComplexEntry" /\ NewItem(item)
  BY DEF NewItem, SizeOf, WithData
<1>6. \A f \in Fields : Weight(f, item) = IF f = "pins" THEN m ELSE 0
  BY <1>5 DEF Weight, Fields
<1> HIDE DEF item, c, m
<1>7. \A t \in DOMAIN chain : chain[t].type = "Slave" => \A f \in Fields :
        c[t][f] = chain[t][f] + (IF LastSlave(chain, t) THEN Weight(f, item) ELSE 0)
  BY <1>3, <1>4, <1>6, SlaveIsOpen
<1>8. DOMAIN cur' = DOMAIN cur /\ \A g \in Pointers : cur'[g] = cur[g]
  BY <1>1 DEF Pointers
<1>9. Opens["ComplexEntry"] \notin Pointers /\ "ComplexEntry" \in DOMAIN Opens
  BY DEF Opens, Pointers
<1> QED
  BY <1>1, <1>2, <1>4, <1>5, <1>7, <1>8, <1>9, ElementAdded

(* PDOs: counted in the slave and in the sync manager.                     *)
LEMMA ProducePdo == ASSUME Producing, parsePdoAttrs PROVE Producing'
<1> DEFINE item == [type |-> "Pdo", in |-> cur.sm, entries |-> 0]
           s == cur.slave
           p == cur.sm
           e == [[chain EXCEPT ![cur.slave]["pdos"] = @ + 1] EXCEPT ![cur.sm].pdos = @ + 1]
<1>1. Starts("Pdo") /\ AppendTo(e, item) /\ cur' = [cur EXCEPT !.pdo = Top]
  BY DEF parsePdoAttrs, Counted
<1>2. xml \in AtSlave /\ xml = "SyncManager" /\ xml \in Layout
  BY <1>1 DEF Starts, From, AtSlave, Layout
<1>3. /\ s \in DOMAIN chain /\ p \in DOMAIN chain /\ s # p
      /\ chain[s].type = "Slave" /\ chain[p].type = "SyncManager"
      /\ IsSequence(chain) /\ \A k \in DOMAIN chain : RecordWellFormed(chain[k])
  <2>1. CurrentRecord(cur.sm, "SyncManager")
    BY <1>2 DEF Producing, Current
  <2> QED
    BY <1>2, <2>1, SlaveIsOpen DEF CurrentRecord
<1>4. \A f \in Fields : chain[s][f] \in Nat /\ f \in DOMAIN chain[s]
  <2>1. RecordWellFormed(chain[s])
    BY <1>3
  <2> QED
    BY <1>3, <2>1 DEF RecordWellFormed
<1>5. "pdos" \in Fields
  BY DEF Fields
<1>6. /\ e = [k \in DOMAIN chain |-> e[k]] /\ DOMAIN e = DOMAIN chain
      /\ \A k \in DOMAIN chain : k # s /\ k # p => e[k] = chain[k]
  BY <1>3
<1>7. /\ DOMAIN e[s] = DOMAIN chain[s]
      /\ \A g \in DOMAIN chain[s] :
           e[s][g] = IF g = "pdos" THEN chain[s][g] + 1 ELSE chain[s][g]
  BY <1>3, <1>4, <1>5
<1>8. /\ DOMAIN e[p] = DOMAIN chain[p]
      /\ \A g \in DOMAIN chain[p] : g # "pdos" => e[p][g] = chain[p][g]
  BY <1>3
<1>9. item.type = "Pdo" /\ NewItem(item)
  BY DEF NewItem, SizeOf, WithData
<1>10. \A f \in Fields : Weight(f, item) = IF f = "pdos" THEN 1 ELSE 0
  BY <1>9 DEF Weight, Fields
<1> HIDE DEF item, e
<1>11. IsSequence(e)
  BY <1>3, <1>6, Rebuilt
<1>12. ASSUME NEW k \in DOMAIN chain
       PROVE  Alike(chain[k], e[k])
  <2>1. CASE k = s
    <3>1. \A f \in Fields : e[s][f] \in Nat
      BY <1>7, <1>4
    <3> QED
      BY <1>3, <1>7, <2>1, <3>1, Changed
  <2>2. CASE k = p
    BY <1>3, <1>8, <2>2, Changed
  <2>3. CASE k # s /\ k # p
    BY <1>3, <1>6, <2>3, AlikeItself
  <2> QED
    BY <2>1, <2>2, <2>3
<1>13. ASSUME NEW t \in DOMAIN chain, chain[t].type = "Slave", NEW f \in Fields
       PROVE  e[t][f] = chain[t][f] + (IF LastSlave(chain, t) THEN Weight(f, item) ELSE 0)
  <2>1. chain[t][f] \in Nat /\ (LastSlave(chain, t) <=> t = s)
    BY <1>2, <1>13, SlaveIsOpen
  <2>2. CASE t = s
    BY <1>7, <1>10, <1>4, <2>1, <2>2
  <2>3. CASE t # s
    BY <1>3, <1>6, <1>13, <2>1, <2>3
  <2> QED
    BY <2>2, <2>3
<1>14. DOMAIN cur' = DOMAIN cur /\ \A g \in Pointers : cur'[g] = IF g = "pdo" THEN Top ELSE cur[g]
  BY <1>1, PointerSet DEF Pointers
<1>15. Opens["Pdo"] = "pdo" /\ "Pdo" \in DOMAIN Opens
  BY DEF Opens
<1> QED
  BY <1>1, <1>6, <1>9, <1>11, <1>12, <1>13, <1>14, <1>15, ElementAdded

(* PDO entries: counted with their pins in the slave, and in the PDO.      *)
LEMMA ProducePdoEntry == ASSUME Producing, parsePdoEntryAttrs PROVE Producing'
<1>1. PICK pin \in BOOLEAN, bits \in BitLengths :
        /\ Starts("PdoEntry")
        /\ AppendTo([chain EXCEPT ![cur.slave].entries = @ + 1,
                                  ![cur.slave].pins = @ + PinCount(pin),
                                  ![cur.pdo].entries = @ + 1],
                    [type |-> "PdoEntry", in |-> cur.pdo, pin |-> pin, bits |-> bits])
        /\ cur' = [cur EXCEPT !.entry = Top, !.bits = 0]
  BY DEF parsePdoEntryAttrs
<1> DEFINE item == [type |-> "PdoEntry", in |-> cur.pdo, pin |-> pin, bits |-> bits]
           s == cur.slave
           p == cur.pdo
           m == PinCount(pin)
           e == [chain EXCEPT ![cur.slave].entries = @ + 1,
                              ![cur.slave].pins = @ + m, ![cur.pdo].entries = @ + 1]
<1>2. AppendTo(e, item)
  BY <1>1
<1>3. xml \in AtSlave /\ xml = "Pdo"
  BY <1>1 DEF Starts, From, AtSlave, Layout
<1>4. /\ s \in DOMAIN chain /\ p \in DOMAIN chain /\ s # p
      /\ chain[s].type = "Slave" /\ chain[p].type = "Pdo"
      /\ IsSequence(chain) /\ \A k \in DOMAIN chain : RecordWellFormed(chain[k])
  <2>1. CurrentRecord(cur.pdo, "Pdo")
    BY <1>3 DEF Producing, Current
  <2> QED
    BY <1>3, <2>1, SlaveIsOpen DEF CurrentRecord
<1>5. m \in Nat
  BY DEF PinCount
<1> HIDE DEF m
<1>6. {"entries", "pins"} \subseteq DOMAIN chain[s]
  <2>1. RecordWellFormed(chain[s])
    BY <1>4
  <2> QED
    BY <1>4, <2>1 DEF RecordWellFormed, Fields
<1>7. /\ e = [k \in DOMAIN chain |-> e[k]] /\ DOMAIN e = DOMAIN chain
      /\ \A k \in DOMAIN chain : k # s /\ k # p => e[k] = chain[k]
  BY <1>4
<1>8. /\ DOMAIN e[s] = DOMAIN chain[s]
      /\ \A g \in DOMAIN chain[s] :
           e[s][g] = CASE g = "entries" -> chain[s][g] + 1
                       [] g = "pins" -> chain[s][g] + m
                       [] OTHER -> chain[s][g]
  BY <1>4, <1>6
<1>9. /\ DOMAIN e[p] = DOMAIN chain[p]
      /\ \A g \in DOMAIN chain[p] : g # "entries" => e[p][g] = chain[p][g]
  BY <1>4
<1>10. item.type = "PdoEntry" /\ NewItem(item)
  BY DEF NewItem, SizeOf, WithData
<1>11. \A f \in Fields :
         Weight(f, item) = IF f = "pins" THEN m ELSE IF f = "entries" THEN 1 ELSE 0
  BY <1>10 DEF Weight, Fields, m
<1> HIDE DEF item, e
<1>12. \A f \in Fields : chain[s][f] \in Nat /\ f \in DOMAIN chain[s]
  <2>1. RecordWellFormed(chain[s])
    BY <1>4
  <2> QED
    BY <1>4, <2>1 DEF RecordWellFormed
<1>13. IsSequence(e)
  BY <1>4, <1>7, Rebuilt
<1>14. ASSUME NEW k \in DOMAIN chain
       PROVE  Alike(chain[k], e[k])
  <2>1. CASE k = s
    <3>1. \A f \in Fields : e[s][f] \in Nat
      BY <1>5, <1>8, <1>12
    <3> QED
      BY <1>4, <1>8, <2>1, <3>1, Changed
  <2>2. CASE k = p
    BY <1>4, <1>9, <2>2, Changed
  <2>3. CASE k # s /\ k # p
    BY <1>4, <1>7, <2>3, AlikeItself
  <2> QED
    BY <2>1, <2>2, <2>3
<1>15. ASSUME NEW t \in DOMAIN chain, chain[t].type = "Slave", NEW f \in Fields
       PROVE  e[t][f] = chain[t][f] + (IF LastSlave(chain, t) THEN Weight(f, item) ELSE 0)
  <2>1. chain[t][f] \in Nat /\ (LastSlave(chain, t) <=> t = s)
    BY <1>3, <1>15, SlaveIsOpen
  <2>2. CASE t = s
    BY <1>5, <1>8, <1>11, <1>12, <2>1, <2>2
  <2>3. CASE t # s
    BY <1>4, <1>7, <1>15, <2>1, <2>3
  <2> QED
    BY <2>2, <2>3
<1>16. DOMAIN cur' = DOMAIN cur /\ \A g \in Pointers : cur'[g] = IF g = "entry" THEN Top ELSE cur[g]
  <2>1. DOMAIN cur = DOMAIN NoCur /\ Pointers \subseteq DOMAIN NoCur
    BY DEF Producing, Current, NoCur, Pointers
  <2> QED
    BY <1>1, <2>1 DEF Pointers
<1>17. Opens["PdoEntry"] = "entry" /\ "PdoEntry" \in DOMAIN Opens
  BY DEF Opens
<1> QED
  BY <1>1, <1>2, <1>7, <1>10, <1>13, <1>14, <1>15, <1>16, <1>17, ElementAdded

(* What a block of m bytes changes in a chain before it is appended: the   *)
(* length x of its command, and the count g of the slave s unless the      *)
(* command is still open and counted when it ends.                         *)
Filled(c, o, s, x, g, m, v, e) ==
  /\ LastSlave(c, s) /\ LastRecord(c, x) /\ s < x /\ c[x].type \in WithData
  /\ o \in {0, x} /\ m \in Nat /\ m > 0 /\ v = IF o = 0 THEN m ELSE 0
  /\ g = IF c[x].type = "SdoConfig" THEN "sdoLength" ELSE "idnLength"
  /\ IsSequence(e) /\ DOMAIN e = DOMAIN c
  /\ \A k \in DOMAIN c : k # x /\ k # s => e[k] = c[k]
  /\ DOMAIN e[x] = DOMAIN c[x]
  /\ \A f \in DOMAIN c[x] : e[x][f] = IF f = "len" THEN c[x][f] + m ELSE c[x][f]
  /\ DOMAIN e[s] = DOMAIN c[s]
  /\ \A f \in DOMAIN c[s] : e[s][f] = IF f = g THEN c[s][f] + v ELSE c[s][f]

(* A block of data behind the command that is open.                        *)
LEMMA DataAdded ==
  ASSUME NEW c, NEW n, Structure(c, n), NEW o, Tallied(c, o), NEW s, NEW x, NEW g, NEW m, NEW v,
         NEW e, Filled(c, o, s, x, g, m, v, e),
         NEW r, r = [type |-> "Raw", len |-> m, off |-> n], NEW d, d = Append(e, r)
  PROVE  Structure(d, n + m) /\ Tallied(d, o) /\ Grown(c, d, "Raw")
<1>0. /\ LastSlave(c, s) /\ LastRecord(c, x) /\ s < x /\ c[x].type \in WithData
      /\ o \in {0, x} /\ m \in Nat /\ m > 0 /\ v = IF o = 0 THEN m ELSE 0
      /\ g \in Fields
      /\ c[x].type = "SdoConfig" => g = "sdoLength"
      /\ c[x].type = "IdnConfig" => g = "idnLength"
      /\ IsSequence(e) /\ DOMAIN e = DOMAIN c
      /\ \A k \in DOMAIN c : k # x /\ k # s => e[k] = c[k]
      /\ DOMAIN e[x] = DOMAIN c[x]
      /\ \A f \in DOMAIN c[x] : e[x][f] = IF f = "len" THEN c[x][f] + m ELSE c[x][f]
      /\ DOMAIN e[s] = DOMAIN c[s]
      /\ \A f \in DOMAIN c[s] : e[s][f] = IF f = g THEN c[s][f] + v ELSE c[s][f]
  BY DEF Filled, Fields, WithData
<1>1. n \in Nat /\ IsSequence(c) /\ \A k \in DOMAIN c : RecordWellFormed(c[k])
  BY <1>0 DEF Structure
<1>2. r.type = "Raw" /\ r.len = m /\ r.off = n /\ RecordWellFormed(r)
  BY <1>0, <1>1 DEF RecordWellFormed, Types, WithData
<1>3. /\ s \in DOMAIN c /\ x \in DOMAIN c /\ s # x /\ c[s].type = "Slave" /\ c[x].type # "Slave"
      /\ DOMAIN c = 1 .. Len(c) /\ Len(c) \in Nat /\ x # 0
  BY <1>0, <1>1, SequenceDomain DEF LastSlave, LastRecord, Records, WithData
<1>4. /\ Fields \cup {"kind", "type", "off"} \subseteq DOMAIN c[s]
      /\ \A f \in Fields : c[s][f] \in Nat
  BY <1>0, <1>1, <1>3 DEF RecordWellFormed
<1>5. {"type", "off", "len"} \subseteq DOMAIN c[x] /\ c[x].len \in Nat
  BY <1>0, <1>1, <1>3 DEF RecordWellFormed
<1>6. Alike(c[s], e[s])
  <2>1. \A f \in Fields : e[s][f] \in Nat
    BY <1>0, <1>4, SMTT(30)
  <2>2. \A f \in {"type", "off", "len", "kind", "pin"} : f # g
    BY <1>0 DEF Fields
  <2> QED
    BY <1>0, <1>1, <1>3, <2>1, <2>2, Changed
<1>7. /\ RecordWellFormed(e[x]) /\ e[x].type = c[x].type /\ e[x].off = c[x].off
      /\ e[x].len = c[x].len + m
  <2>1. e[x].type = c[x].type /\ e[x].off = c[x].off /\ e[x].len = c[x].len + m
    BY <1>0, <1>5
  <2>2. e[x].len \in Nat /\ e[x].type \in WithData
    BY <1>0, <1>5, <2>1
  <2> QED
    BY <1>0, <1>1, <1>3, <2>1, <2>2 DEF RecordWellFormed, WithData
<1>8. \A k \in DOMAIN c :
        /\ RecordWellFormed(e[k]) /\ e[k].type = c[k].type /\ e[k].off = c[k].off
        /\ k # x /\ c[k].type \in WithData \cup {"Raw"} => e[k].len = c[k].len
        /\ c[k].type = "Slave" => e[k].kind = c[k].kind
  BY <1>0, <1>1, <1>3, <1>6, <1>7 DEF Alike
<1>9. Structure(d, n + m)
  BY <1>0, <1>2, <1>7, <1>8, StructureData, SMTT(30)
<1>10. Refit(c, e)
  BY <1>0, <1>1, <1>8 DEF Refit
<1>11. ASSUME NEW f \in Fields
       PROVE  /\ \A k \in DOMAIN c : k # x => Weights(e, f, o)[k] = Weights(c, f, o)[k]
              /\ Weights(c, f, o)[x] = IF o = x THEN 0 ELSE Weight(f, c[x])
              /\ Weights(e, f, o)[x] = IF o = x THEN 0 ELSE Weight(f, e[x])
              /\ Weight(f, c[x]) \in Nat
              /\ Weight(f, e[x]) = Weight(f, c[x]) + (IF f = g THEN m ELSE 0)
              /\ Weight(f, r) = 0
  <2>1. \A k \in DOMAIN c : k # x => Weight(f, e[k]) = Weight(f, c[k])
    BY <1>0, <1>3, <1>6, WeightKept
  <2>2. Weight(f, c[x]) \in Nat
    BY <1>0, <1>1, <1>3, WeightType
  <2>3. Weight(f, e[x]) = Weight(f, c[x]) + (IF f = g THEN m ELSE 0)
    <3>1. CASE c[x].type = "SdoConfig"
      <4>1. g = "sdoLength" /\ e[x].type = "SdoConfig"
        BY <1>0, <1>7, <3>1
      <4>2. SizeOf["SdoConfig"] \in Nat
        BY <1>0 DEF SizeOf
      <4> QED
        BY <1>0, <1>5, <1>7, <3>1, <4>1, <4>2 DEF Weight, Fields
    <3>2. CASE c[x].type = "IdnConfig"
      <4>1. g = "idnLength" /\ e[x].type = "IdnConfig"
        BY <1>0, <1>7, <3>2
      <4>2. SizeOf["IdnConfig"] \in Nat
        BY <1>0 DEF SizeOf
      <4> QED
        BY <1>0, <1>5, <1>7, <3>2, <4>1, <4>2 DEF Weight, Fields
    <3> QED
      BY <1>0, <3>1, <3>2 DEF WithData
  <2>4. Weight(f, r) = 0
    BY <1>0, <1>2 DEF Weight, Fields
  <2> QED
    BY <1>0, <1>3, <2>1, <2>2, <2>3, <2>4 DEF Weights
<1>12. \A t \in DOMAIN c : c[t].type = "Slave" /\ t # s => \A f \in Fields : e[t][f] = c[t][f]
  BY <1>0, <1>3
<1>13. Tallied(e, o)
  <2>1. ASSUME NEW f \in Fields
        PROVE  e[s][f] + Weights(c, f, o)[x] = c[s][f] + Weights(e, f, o)[x]
    <3>1. e[s][f] = IF f = g THEN c[s][f] + v ELSE c[s][f]
      BY <1>0, <1>4
    <3>2. c[s][f] \in Nat
      BY <1>0, <1>4
    <3> QED
      BY <1>0, <1>3, <1>11, <3>1, <3>2
  <2>2. \A f \in Fields : \A k \in DOMAIN c : k # x => Weights(e, f, o)[k] = Weights(c, f, o)[k]
    BY <1>11
  <2>3. Corrected(c, o, e, o, s, x)
    BY <1>0, <1>3, <1>10, <1>12, <2>1, <2>2 DEF Corrected
  <2> QED
    BY <2>3, TallyAt
<1>14. Tallied(d, o)
  <2> DEFINE w == [f \in Fields |-> 0]
  <2>1. o # Len(e) + 1
    <3>1. Len(e) = Len(c)
      <4>1. Len(e) \in Nat /\ DOMAIN e = 1 .. Len(e)
        BY <1>0, SequenceDomain
      <4> QED
        BY <1>0, <1>3, <4>1, IntervalLength
    <3> QED
      BY <1>0, <1>3, <3>1
  <2>2. \A f \in Fields : w[f] = 0 /\ w[f] = IF o = Len(e) + 1 THEN 0 ELSE Weight(f, r)
    BY <1>0, <1>11, <2>1
  <2> HIDE DEF w
  <2>3. Refit(e, e)
    BY <1>0, <1>8 DEF Refit
  <2>4. \A f \in Fields : \A k \in DOMAIN e : Weights(e, f, o)[k] = Weights(e, f, o)[k]
    OBVIOUS
  <2>5. ASSUME NEW t \in DOMAIN e, e[t].type = "Slave", NEW f \in Fields
        PROVE  e[t][f] = e[t][f] + (IF LastSlave(e, t) THEN w[f] ELSE 0)
    <3>1. RecordWellFormed(e[t])
      BY <1>0, <1>8
    <3>2. e[t][f] \in Nat
      BY <1>0, <2>5, <3>1 DEF RecordWellFormed
    <3> QED
      BY <1>0, <2>2, <3>2
  <2>6. r.type # "Slave"
    BY <1>0, <1>2
  <2> QED
    BY <1>0, <1>2, <1>13, <2>2, <2>3, <2>4, <2>5, <2>6, TallyAppend
<1>15. Grown(c, d, "Raw")
  <2>1. Len(e) = Len(c)
    <3>1. Len(e) \in Nat /\ DOMAIN e = 1 .. Len(e)
      BY <1>0, SequenceDomain
    <3> QED
      BY <1>0, <1>3, <3>1, IntervalLength
  <2>2. IsSequence(d) /\ Len(d) = Len(e) + 1 /\ d[Len(e) + 1] = r
    BY <1>0, Appended
  <2>3. \A i \in DOMAIN e : i \in DOMAIN d /\ d[i] = e[i]
    BY <1>0, Appended
  <2> QED
    BY <1>0, <1>1, <1>2, <1>8, <2>1, <2>2, <2>3 DEF Grown
<1> QED
  BY <1>0, <1>9, <1>14, <1>15

(* Data leave the pointers right.                                          *)
LEMMA GrownByData ==
  ASSUME NEW c, NEW d, Grown(c, d, "Raw")
  PROVE  /\ \A i \in DOMAIN c : /\ i \in DOMAIN d /\ d[i].type = c[i].type
                                /\ c[i].type = "Slave" => d[i].kind = c[i].kind
         /\ \A s : LastSlave(c, s) => LastSlave(d, s)
         /\ \A x : LastRecord(c, x) => LastRecord(d, x)
<1>1. /\ Len(c) \in Nat /\ DOMAIN c = 1 .. Len(c) /\ DOMAIN d = 1 .. Len(c) + 1
      /\ d[Len(c) + 1].type = "Raw"
      /\ \A i \in DOMAIN c : /\ i \in DOMAIN d /\ d[i].type = c[i].type
                             /\ c[i].type = "Slave" => d[i].kind = c[i].kind
  BY SequenceDomain DEF Grown
<1>2. \A i \in DOMAIN d : i \in DOMAIN c \/ d[i].type = "Raw"
  BY <1>1
<1>3. \A s : LastSlave(c, s) => LastSlave(d, s)
  BY <1>1, <1>2 DEF LastSlave
<1>4. \A x : LastRecord(c, x) => LastRecord(d, x)
  BY <1>1, <1>2 DEF LastRecord, Records
<1> QED
  BY <1>1, <1>3, <1>4

(* Data of an SDO command: counted in the command and in the slave.        *)
LEMMA ProduceDataRaw == ASSUME Producing, parseDataRawAttrs PROVE Producing'
<1>1. PICK n \in 0 .. 2 :
        /\ Starts("SdoDataRaw")
        /\ IF n = 0
           THEN UNCHANGED <<chain, length>>
           ELSE /\ chain' = Append([chain EXCEPT ![cur.sdo].len = @ + n,
                                                 ![cur.slave].sdoLength = @ + n],
                                   [type |-> "Raw", len |-> n, off |-> length])
                /\ length' = length + n
        /\ cur' = cur
  BY DEF parseDataRawAttrs
<1> DEFINE s == cur.slave
           x == cur.sdo
           e == [chain EXCEPT ![cur.sdo].len = @ + n, ![cur.slave].sdoLength = @ + n]
<1>2. xml = "SdoConfig" /\ xml' = "SdoDataRaw" /\ icmd = "Closed" /\ icmd' = "Closed"
  BY <1>1 DEF Starts, From
<1>3. OpenCommand = 0 /\ OpenCommand' = 0 /\ ~ OpenSdo' /\ ~ OpenIdn'
  BY <1>2 DEF OpenCommand, OpenSdo, OpenIdn, CoeTexts, SoeTexts
<1>4. Structure(chain, length) /\ Tallied(chain, 0) /\ Current
  BY <1>3 DEF Producing
<1>5. /\ CurrentMaster /\ LastSlave(chain, s) /\ LastRecord(chain, x)
      /\ s < x /\ chain[x].type = "SdoConfig" /\ DOMAIN cur = DOMAIN NoCur
  BY <1>2, <1>4 DEF Current, CurrentRecord, AtSlave
<1>6. CASE n = 0
  <2>1. chain' = chain /\ length' = length /\ cur' = cur
    BY <1>1, <1>6
  <2>2. Current'
    BY <1>2, <1>3, <1>4, <1>5, <2>1 DEF Current, CurrentMaster, CurrentRecord, AtSlave, Layout
  <2> QED
    BY <1>2, <1>3, <1>4, <2>1, <2>2 DEF Producing, From
<1>7. CASE n # 0
  <2> DEFINE r == [type |-> "Raw", len |-> n, off |-> length]
  <2>1. chain' = Append(e, r) /\ length' = length + n
    BY <1>1, <1>7
  <2>2. /\ s \in DOMAIN chain /\ x \in DOMAIN chain /\ s # x /\ chain[s].type = "Slave"
        /\ IsSequence(chain) /\ RecordWellFormed(chain[s]) /\ RecordWellFormed(chain[x])
    BY <1>4, <1>5 DEF LastSlave, LastRecord, Records, Structure
  <2>3. "len" \in DOMAIN chain[x] /\ "sdoLength" \in DOMAIN chain[s]
    BY <1>5, <2>2 DEF RecordWellFormed, WithData, Fields
  <2>4. /\ e = [k \in DOMAIN chain |-> e[k]] /\ DOMAIN e = DOMAIN chain
        /\ \A k \in DOMAIN chain : k # x /\ k # s => e[k] = chain[k]
    BY <2>2
  <2>5. /\ DOMAIN e[x] = DOMAIN chain[x]
        /\ \A f \in DOMAIN chain[x] : e[x][f] = IF f = "len" THEN chain[x][f] + n ELSE chain[x][f]
    BY <2>2, <2>3
  <2>6. /\ DOMAIN e[s] = DOMAIN chain[s]
        /\ \A f \in DOMAIN chain[s] :
             e[s][f] = IF f = "sdoLength" THEN chain[s][f] + n ELSE chain[s][f]
    BY <2>2, <2>3
  <2> HIDE DEF e, r
  <2>7. IsSequence(e)
    BY <2>2, <2>4, Rebuilt
  <2>8. n \in Nat /\ n > 0 /\ chain[x].type \in WithData
    BY <1>5, <1>7 DEF WithData
  <2>9. /\ Structure(chain', length') /\ Tallied(chain', 0) /\ Grown(chain, chain', "Raw")
    <3>1. Filled(chain, 0, s, x, "sdoLength", n, n, e)
      BY <1>5, <2>4, <2>5, <2>6, <2>7, <2>8 DEF Filled
    <3>2. r = [type |-> "Raw", len |-> n, off |-> length]
      BY DEF r
    <3> QED
      BY <1>4, <2>1, <3>1, <3>2, DataAdded
  <2>10. /\ LastSlave(chain', s) /\ LastRecord(chain', x)
         /\ \A i \in DOMAIN chain : i \in DOMAIN chain' /\ chain'[i].type = chain[i].type
    BY <1>5, <2>9, GrownByData
  <2>11. Current'
    BY <1>1, <1>2, <1>3, <1>5, <2>2, <2>10
    DEF Current, CurrentMaster, CurrentRecord, AtSlave, Layout
  <2> QED
    BY <1>2, <1>3, <2>9, <2>11 DEF Producing, From
<1> QED
  BY <1>6, <1>7

(* Elements are closed, files are opened, and the first one is entered.    *)
LEMMA ProduceEnd == ASSUME Producing, EndElement PROVE Producing'
<1>1. xml' = From[xml] /\ icmd = "Closed" /\ icmd' = icmd /\ UNCHANGED <<chain, length, cur>>
      /\ xml \in DOMAIN From \ {"Masters"}
  BY DEF EndElement
<1>2. OpenCommand' = 0 /\ OpenCommand = 0 /\ ~ OpenSdo' /\ ~ OpenIdn'
  BY <1>1 DEF OpenCommand, OpenSdo, OpenIdn, CoeTexts, SoeTexts
<1>3. Current'
  BY <1>1, <1>2 DEF Producing, Current, CurrentMaster, CurrentRecord, LastSlave, From, AtSlave, Layout
<1>4. xml' \in DOMAIN From
  BY <1>1 DEF From
<1> QED
  BY <1>1, <1>2, <1>3, <1>4 DEF Producing

(* An init command file is opened.                                         *)
LEMMA ProduceFile == ASSUME Producing, parseInitCmdsAttrs PROVE Producing'
<1>1. xml = "Slave" /\ xml' = "InitCmds" /\ icmd = "Closed" /\ icmd' = "None"
      /\ UNCHANGED <<chain, length, cur>>
  BY DEF parseInitCmdsAttrs, OpenFile
<1>2. OpenCommand' = 0 /\ OpenCommand = 0 /\ ~ OpenSdo' /\ ~ OpenIdn'
  BY <1>1 DEF OpenCommand, OpenSdo, OpenIdn, CoeTexts, SoeTexts
<1>3. Current'
  BY <1>1, <1>2 DEF Producing, Current, CurrentMaster, LastSlave, AtSlave, Layout
<1> QED
  BY <1>1, <1>2, <1>3 DEF Producing, From

(* The root element.                                                       *)
LEMMA ProduceMasters == ASSUME Producing, OpenMasters PROVE Producing'
<1>1. xml = "None" /\ xml' = "Masters" /\ UNCHANGED <<chain, length, cur, icmd>>
  BY DEF OpenMasters
<1>2. icmd = "Closed"
  BY <1>1 DEF Producing, Current
<1>3. OpenCommand' = 0 /\ OpenCommand = 0 /\ ~ OpenSdo' /\ ~ OpenIdn'
  BY <1>1, <1>2 DEF OpenCommand, OpenSdo, OpenIdn, CoeTexts, SoeTexts
<1>4. Current'
  BY <1>1, <1>2, <1>3 DEF Producing, Current, AtSlave, Layout
<1> QED
  BY <1>1, <1>3, <1>4 DEF Producing, From

(* The end marker.                                                         *)
LEMMA ProduceShare == ASSUME Producing, Share PROVE Produced'
<1> DEFINE item == [type |-> "End"]
<1>1. xml = "Masters" /\ Emit(item) /\ icmd' = icmd
  BY DEF Share
<1>2. icmd = "Closed"
  BY <1>1 DEF Producing, Current
<1>3. item.type = "End" /\ NewItem(item)
  BY DEF NewItem, SizeOf, WithData
<1>4. AppendTo(chain, item)
  BY <1>1 DEF Emit, AppendTo, Extent
<1> HIDE DEF item
<1>5. IsSequence(chain) /\ \A k \in DOMAIN chain : RecordWellFormed(chain[k])
  BY DEF Producing, Structure
<1>6. \A k \in DOMAIN chain : Alike(chain[k], chain[k])
  BY <1>5, AlikeItself
<1>7. Belongs(chain, Top, "End")
  BY DEF Belongs, InSlave, Layout, WithData
<1>8. \A f \in Fields : Weight(f, item) = 0
  BY <1>3 DEF Weight, Fields
<1>9. ASSUME NEW t \in DOMAIN chain, chain[t].type = "Slave", NEW f \in Fields
      PROVE  chain[t][f] = chain[t][f] + (IF LastSlave(chain, t) THEN Weight(f, item) ELSE 0)
  <2>1. chain[t][f] \in Nat
    BY <1>5, <1>9 DEF RecordWellFormed
  <2> QED
    BY <1>8, <2>1
<1>10. /\ Structure(chain', length') /\ Tallied(chain', OpenCommand')
       /\ Grown(chain, chain', "End")
  BY <1>1, <1>2, <1>3, <1>4, <1>5, <1>6, <1>7, <1>9, Added
<1>11. OpenCommand' = 0
  BY <1>1, <1>2 DEF OpenCommand, OpenSdo, OpenIdn, CoeTexts, SoeTexts
<1>12. Len(chain') = Len(chain) + 1 /\ Len(chain) \in Nat /\ chain'[Len(chain) + 1].type = "End"
  BY <1>5, <1>10, SequenceDomain DEF Grown
<1> QED
  BY <1>10, <1>11, <1>12 DEF Produced

(* While an init command file is read, the slave stays open.               *)
LEMMA FileCurrent ==
  ASSUME Producing, xml = "InitCmds", xml' = xml, DOMAIN cur' = DOMAIN cur,
         cur'.master = cur.master, cur'.slave = cur.slave,
         \A i \in DOMAIN chain : /\ i \in DOMAIN chain' /\ chain'[i].type = chain[i].type
                                 /\ chain[i].type = "Slave" => chain'[i].kind = chain[i].kind,
         \A s : LastSlave(chain, s) => LastSlave(chain', s),
         OpenSdo' => CurrentRecord(cur.sdo, "SdoConfig")' /\ LastRecord(chain', cur'.sdo),
         OpenIdn' => CurrentRecord(cur.idn, "IdnConfig")' /\ LastRecord(chain', cur'.idn)
  PROVE  Current'
<1>1. CurrentMaster /\ LastSlave(chain, cur.slave) /\ DOMAIN cur = DOMAIN NoCur
  BY DEF Producing, Current, AtSlave
<1>2. CurrentMaster' /\ LastSlave(chain', cur'.slave)
  BY <1>1 DEF CurrentMaster
<1> QED
  BY <1>1, <1>2 DEF Current, AtSlave, Layout

(* The states of the parser in which a command is open.                    *)
LEMMA OpenStates ==
  /\ OpenSdo => OpenCommand = cur.sdo
  /\ OpenIdn => OpenCommand = cur.idn /\ ~ OpenSdo
  /\ ~ OpenSdo /\ ~ OpenIdn => OpenCommand = 0
BY DEF OpenCommand, OpenSdo, OpenIdn, CoeTexts, SoeTexts

(* A command is written when it starts.                                    *)
LEMMA CommandAdded ==
  ASSUME Producing, xml = "InitCmds", ~ OpenSdo, ~ OpenIdn,
         NEW item, NewItem(item), item.type \in WithData, Emit(item)
  PROVE  /\ Structure(chain', length') /\ Tallied(chain', Top)
         /\ Top \in DOMAIN chain' /\ chain'[Top].type = item.type /\ LastRecord(chain', Top)
         /\ \A i \in DOMAIN chain : i < Top
         /\ \A i \in DOMAIN chain : /\ i \in DOMAIN chain' /\ chain'[i].type = chain[i].type
                                    /\ chain[i].type = "Slave" => chain'[i].kind = chain[i].kind
         /\ \A s : LastSlave(chain, s) => LastSlave(chain', s)
<1>1. OpenCommand = 0
  BY OpenStates
<1>2. Structure(chain, length) /\ Tallied(chain, 0) /\ Current
  BY <1>1 DEF Producing
<1>3. IsSequence(chain) /\ \A k \in DOMAIN chain : RecordWellFormed(chain[k])
  BY <1>2 DEF Structure
<1>4. \A k \in DOMAIN chain : Alike(chain[k], chain[k])
  BY <1>3, AlikeItself
<1>5. Belongs(chain, Len(chain) + 1, item.type)
  <2>1. LastSlave(chain, cur.slave)
    BY <1>2 DEF Current, AtSlave
  <2>2. \A i \in DOMAIN chain : i < Len(chain) + 1
    <3>1. Len(chain) \in Nat /\ DOMAIN chain = 1 .. Len(chain)
      BY <1>3, SequenceDomain
    <3> QED
      BY <3>1
  <2>3. cur.slave \in DOMAIN chain /\ SlaveBefore(chain, Len(chain) + 1, cur.slave)
    BY <2>1, <2>2 DEF LastSlave, SlaveBefore
  <2> QED
    BY <2>3 DEF Belongs, WithData, Layout
<1>6. ASSUME NEW t \in DOMAIN chain, chain[t].type = "Slave", NEW f \in Fields
      PROVE  chain[t][f] = chain[t][f] + (IF LastSlave(chain, t) /\ Top = 0 THEN Weight(f, item) ELSE 0)
  <2>1. chain[t][f] \in Nat
    BY <1>3, <1>6 DEF RecordWellFormed
  <2>2. Top # 0
    BY <1>3, SequenceDomain DEF Top
  <2> QED
    BY <2>1, <2>2
<1>7. chain' = Append(chain, PlacedAt(item, length)) /\ length' = length + SizeOf[item.type]
  BY DEF Emit, Placed, PlacedAt, Extent, WithData
<1>8. Completed(chain, chain, Top, item)
  BY <1>3, <1>4, <1>6 DEF Completed, Top
<1>9. /\ Structure(chain', length') /\ Tallied(chain', Top)
      /\ Grown(chain, chain', item.type)
  BY <1>2, <1>5, <1>7, <1>8, AddItem
<1>10. item.type # "Slave" /\ item.type # "Raw"
  BY DEF WithData
<1> QED
  BY <1>9, <1>10, GrownFacts, ZenonT(40) DEF Top

(* An element of an init command file starts; commands are written here.   *)
LEMMA ProduceOpen == ASSUME Producing, xml = "InitCmds", xml' = xml, NEW s \in DOMAIN IcmdFrom, Open(s)
                     PROVE  Producing'
<1>1. icmd = IcmdFrom[s] /\ icmd' = s
  BY DEF Open
<1>2. IsSequence(chain) /\ Current /\ Structure(chain, length) /\ Tallied(chain, OpenCommand)
  BY DEF Producing, Structure
<1>3. DOMAIN cur = DOMAIN NoCur
  BY <1>2 DEF Current
<1>4. CASE s = "CoeIcmd"
  <2>1. PICK complete \in BOOLEAN :
          /\ Emit([type |-> "SdoConfig", in |-> cur.slave, len |-> 0, index |-> "unset",
                   subindex |-> IF complete THEN "complete" ELSE "unset"])
          /\ cur' = [cur EXCEPT !.sdo = Top]
    BY <1>4 DEF Open, StartCoeIcmd
  <2> DEFINE item == [type |-> "SdoConfig", in |-> cur.slave, len |-> 0, index |-> "unset",
                      subindex |-> IF complete THEN "complete" ELSE "unset"]
  <2>2. item.type = "SdoConfig" /\ NewItem(item) /\ item.type \in WithData
    BY DEF NewItem, SizeOf, WithData
  <2> HIDE DEF item
  <2>3. ~ OpenSdo /\ ~ OpenIdn /\ OpenSdo' /\ ~ OpenIdn'
    BY <1>1, <1>4 DEF IcmdFrom, OpenSdo, OpenIdn, CoeTexts, SoeTexts
  <2>4. /\ Structure(chain', length') /\ Tallied(chain', Top)
        /\ Top \in DOMAIN chain' /\ chain'[Top].type = item.type /\ LastRecord(chain', Top)
        /\ \A i \in DOMAIN chain : i < Top
        /\ \A i \in DOMAIN chain : /\ i \in DOMAIN chain' /\ chain'[i].type = chain[i].type
                                   /\ chain[i].type = "Slave" => chain'[i].kind = chain[i].kind
        /\ \A t : LastSlave(chain, t) => LastSlave(chain', t)
    BY <2>1, <2>2, <2>3, CommandAdded DEF item
  <2>5. /\ DOMAIN cur' = DOMAIN cur /\ cur'.master = cur.master /\ cur'.slave = cur.slave
        /\ cur'.sdo = Top
    BY <1>3, <2>1 DEF NoCur
  <2>7. CurrentRecord(cur.sdo, "SdoConfig")' /\ LastRecord(chain', cur'.sdo)
    <3>1. cur.slave \in DOMAIN chain
      BY <1>2 DEF Current, AtSlave, LastSlave
    <3> QED
      BY <2>2, <2>4, <2>5, <3>1 DEF CurrentRecord
  <2>8. Current'
    BY <2>3, <2>4, <2>5, <2>7, FileCurrent
  <2>9. OpenCommand' = Top
    BY <2>3, <2>5 DEF OpenCommand
  <2> QED
    BY <2>4, <2>8, <2>9 DEF Producing, From
<1>5. CASE s = "SoeIcmd"
  <2> DEFINE item == [type |-> "IdnConfig", in |-> cur.slave, len |-> 0, index |-> "unset",
                      state |-> "unset", drive |-> "default"]
  <2>1. Emit(item) /\ cur' = [cur EXCEPT !.idn = Top]
    BY <1>5 DEF Open, StartSoeIcmd
  <2>2. item.type = "IdnConfig" /\ NewItem(item) /\ item.type \in WithData
    BY DEF NewItem, SizeOf, WithData
  <2> HIDE DEF item
  <2>3. ~ OpenSdo /\ ~ OpenIdn /\ OpenIdn' /\ ~ OpenSdo'
    BY <1>1, <1>5 DEF IcmdFrom, OpenSdo, OpenIdn, CoeTexts, SoeTexts
  <2>4. /\ Structure(chain', length') /\ Tallied(chain', Top)
        /\ Top \in DOMAIN chain' /\ chain'[Top].type = item.type /\ LastRecord(chain', Top)
        /\ \A i \in DOMAIN chain : i < Top
        /\ \A i \in DOMAIN chain : /\ i \in DOMAIN chain' /\ chain'[i].type = chain[i].type
                                   /\ chain[i].type = "Slave" => chain'[i].kind = chain[i].kind
        /\ \A t : LastSlave(chain, t) => LastSlave(chain', t)
    BY <2>1, <2>2, <2>3, CommandAdded
  <2>5. /\ DOMAIN cur' = DOMAIN cur /\ cur'.master = cur.master /\ cur'.slave = cur.slave
        /\ cur'.idn = Top
    BY <1>3, <2>1 DEF NoCur
  <2>7. CurrentRecord(cur.idn, "IdnConfig")' /\ LastRecord(chain', cur'.idn)
    <3>1. cur.slave \in DOMAIN chain
      BY <1>2 DEF Current, AtSlave, LastSlave
    <3> QED
      BY <2>2, <2>4, <2>5, <3>1 DEF CurrentRecord
  <2>8. Current'
    BY <2>3, <2>4, <2>5, <2>7, FileCurrent
  <2>9. OpenCommand' = Top
    BY <2>3, <2>5 DEF OpenCommand
  <2> QED
    BY <2>4, <2>8, <2>9 DEF Producing, From
<1>6. CASE s \notin {"CoeIcmd", "SoeIcmd"}
  <2>1. UNCHANGED <<chain, length, cur>>
    BY <1>6 DEF Open
  <2>2. (OpenSdo' <=> OpenSdo) /\ (OpenIdn' <=> OpenIdn)
    BY <1>1, <1>6 DEF IcmdFrom, OpenSdo, OpenIdn, CoeTexts, SoeTexts
  <2>3. OpenCommand' = OpenCommand
    BY <2>1, <2>2 DEF OpenCommand
  <2>4. /\ OpenSdo => CurrentRecord(cur.sdo, "SdoConfig") /\ LastRecord(chain, cur.sdo)
        /\ OpenIdn => CurrentRecord(cur.idn, "IdnConfig") /\ LastRecord(chain, cur.idn)
    BY <1>2 DEF Current
  <2>5. /\ OpenSdo' => CurrentRecord(cur.sdo, "SdoConfig")' /\ LastRecord(chain', cur'.sdo)
        /\ OpenIdn' => CurrentRecord(cur.idn, "IdnConfig")' /\ LastRecord(chain', cur'.idn)
    BY <2>1, <2>2, <2>4 DEF CurrentRecord
  <2>6. Current'
    BY <2>1, <2>5, FileCurrent
  <2> QED
    BY <1>2, <2>1, <2>3, <2>6 DEF Producing
<1> QED
  BY <1>4, <1>5, <1>6

(* The open command, of either kind.                                       *)
LEMMA TheCommand ==
  ASSUME Producing, OpenSdo \/ OpenIdn
  PROVE  /\ xml = "InitCmds" /\ LastSlave(chain, cur.slave) /\ cur.slave < OpenCommand
         /\ OpenCommand \in DOMAIN chain /\ LastRecord(chain, OpenCommand) /\ CurrentMaster
         /\ OpenSdo => OpenCommand = cur.sdo /\ chain[OpenCommand].type = "SdoConfig"
         /\ OpenIdn => OpenCommand = cur.idn /\ chain[OpenCommand].type = "IdnConfig"
         /\ chain[OpenCommand].type \in WithData
<1>1. icmd # "Closed"
  BY DEF OpenSdo, OpenIdn, CoeTexts, SoeTexts
<1>2. xml = "InitCmds" /\ LastSlave(chain, cur.slave) /\ CurrentMaster
  BY <1>1 DEF Producing, Current, AtSlave
<1>3. /\ OpenSdo => /\ OpenCommand = cur.sdo /\ cur.sdo \in DOMAIN chain /\ cur.slave < cur.sdo
                    /\ chain[cur.sdo].type = "SdoConfig" /\ LastRecord(chain, cur.sdo)
      /\ OpenIdn => /\ OpenCommand = cur.idn /\ cur.idn \in DOMAIN chain /\ cur.slave < cur.idn
                    /\ chain[cur.idn].type = "IdnConfig" /\ LastRecord(chain, cur.idn)
  BY OpenStates DEF Producing, Current, CurrentRecord
<1> QED
  BY <1>2, <1>3 DEF WithData

(* Other fields of the open command are filled in.                         *)
LEMMA CommandChanged ==
  ASSUME Producing, OpenSdo \/ OpenIdn, UNCHANGED <<xml, length, cur, icmd>>, NEW q,
         DOMAIN q = DOMAIN chain[OpenCommand],
         \A f \in DOMAIN chain[OpenCommand] \cap {"type", "off", "len", "kind", "pin"} :
           q[f] = chain[OpenCommand][f],
         chain' = [chain EXCEPT ![OpenCommand] = q]
  PROVE  Producing'
<1> DEFINE k == OpenCommand
           s == cur.slave
<1>1. /\ LastSlave(chain, s) /\ s < k /\ k \in DOMAIN chain /\ LastRecord(chain, k) /\ CurrentMaster
      /\ OpenSdo => k = cur.sdo
      /\ OpenIdn => k = cur.idn
      /\ xml = "InitCmds" /\ chain[k].type # "Slave"
  BY TheCommand DEF WithData
<1>2. /\ OpenCommand' = k /\ (OpenSdo' <=> OpenSdo) /\ (OpenIdn' <=> OpenIdn)
  BY DEF OpenCommand, OpenSdo, OpenIdn
<1>3. Structure(chain, length) /\ Tallied(chain, k) /\ Current
  BY DEF Producing
<1> HIDE DEF k
<1>4. IsSequence(chain) /\ \A i \in DOMAIN chain : RecordWellFormed(chain[i])
  BY <1>3 DEF Structure
<1>5. /\ IsSequence(chain') /\ DOMAIN chain' = DOMAIN chain
      /\ \A i \in DOMAIN chain : chain'[i] = IF i = k THEN q ELSE chain[i]
  BY <1>4, Replaced DEF k
<1>6. Alike(chain[k], q)
  BY <1>1, <1>4, Changed DEF k
<1>7. \A i \in DOMAIN chain : Alike(chain[i], chain'[i])
  BY <1>4, <1>5, <1>6, AlikeItself
<1>8. Structure(chain', length)
  BY <1>3, <1>5, <1>7, StructureSame
<1>9. Refit(chain, chain')
  BY <1>4, <1>5, <1>7 DEF Refit, Alike
<1>10. \A f \in Fields : \A i \in DOMAIN chain : Weights(chain', f, k)[i] = Weights(chain, f, k)[i]
  <2>1. \A f : \A i \in DOMAIN chain : Weight(f, chain'[i]) = Weight(f, chain[i])
    BY <1>7, WeightKept
  <2> QED
    BY <1>5, <2>1 DEF Weights
<1>11. \A t \in DOMAIN chain : chain[t].type = "Slave" => chain'[t] = chain[t]
  BY <1>1, <1>5
<1>12. \A t \in DOMAIN chain : chain[t].type = "Slave" /\ t # s =>
         \A f \in Fields : chain'[t][f] = chain[t][f]
  BY <1>11
<1>13. \A f \in Fields :
         chain'[s][f] + Weights(chain, f, k)[k] = chain[s][f] + Weights(chain', f, k)[k]
  BY <1>1, <1>10, <1>11 DEF LastSlave
<1>14. Tallied(chain', k)
  <2>1. \A f \in Fields : \A i \in DOMAIN chain : i # k =>
          Weights(chain', f, k)[i] = Weights(chain, f, k)[i]
    BY <1>10
  <2>2. Corrected(chain, k, chain', k, s, k)
    BY <1>1, <1>9, <1>12, <1>13, <2>1 DEF Corrected
  <2> QED
    BY <1>3, <2>2, TallyAt
<1>15. Current'
  <2>1. \A i \in DOMAIN chain : /\ i \in DOMAIN chain' /\ chain'[i].type = chain[i].type
                                /\ chain[i].type = "Slave" => chain'[i].kind = chain[i].kind
    BY <1>5, <1>7 DEF Alike
  <2>2. \A t : LastSlave(chain, t) => LastSlave(chain', t)
    BY <1>5, <2>1 DEF LastSlave
  <2>3. LastRecord(chain', k)
    BY <1>1, <1>5, <2>1 DEF LastRecord, Records
  <2>4. /\ OpenSdo => CurrentRecord(cur.sdo, "SdoConfig")
        /\ OpenIdn => CurrentRecord(cur.idn, "IdnConfig")
    BY <1>3 DEF Current
  <2>5. /\ OpenSdo' => CurrentRecord(cur.sdo, "SdoConfig")' /\ LastRecord(chain', cur'.sdo)
        /\ OpenIdn' => CurrentRecord(cur.idn, "IdnConfig")' /\ LastRecord(chain', cur'.idn)
    BY <1>1, <1>2, <2>1, <2>3, <2>4 DEF CurrentRecord
  <2> QED
    BY <1>1, <2>1, <2>2, <2>5, FileCurrent
<1> QED
  BY <1>2, <1>8, <1>14, <1>15 DEF Producing

(* Data of the open command: the command counts them.                      *)
LEMMA CommandFilled ==
  ASSUME Producing, OpenSdo \/ OpenIdn, UNCHANGED <<xml, cur, icmd>>, NEW n \in 1 .. 4, n % 2 = 0,
         AddData(OpenCommand, n)
  PROVE  Producing'
<1> DEFINE k == OpenCommand
           s == cur.slave
           m == n \div 2
           e == [chain EXCEPT ![OpenCommand].len = @ + m]
           r == [type |-> "Raw", len |-> m, off |-> length]
           g == IF chain[k].type = "SdoConfig" THEN "sdoLength" ELSE "idnLength"
<1>1. /\ LastSlave(chain, s) /\ s < k /\ k \in DOMAIN chain /\ LastRecord(chain, k) /\ CurrentMaster
      /\ OpenSdo => k = cur.sdo
      /\ OpenIdn => k = cur.idn
      /\ xml = "InitCmds" /\ chain[k].type \in WithData
  BY TheCommand
<1>2. /\ OpenCommand' = k /\ (OpenSdo' <=> OpenSdo) /\ (OpenIdn' <=> OpenIdn)
  BY DEF OpenCommand, OpenSdo, OpenIdn
<1>3. Structure(chain, length) /\ Tallied(chain, k) /\ Current
  BY DEF Producing
<1>4. chain' = Append(e, r) /\ length' = length + m
  BY DEF AddData
<1>5. m \in Nat /\ m > 0
  OBVIOUS
<1> HIDE DEF k, m
<1>6. /\ IsSequence(chain) /\ RecordWellFormed(chain[k]) /\ RecordWellFormed(chain[s])
      /\ s \in DOMAIN chain /\ k # s /\ chain[s].type = "Slave" /\ k # 0
  <2>1. IsSequence(chain) /\ \A i \in DOMAIN chain : RecordWellFormed(chain[i])
    BY <1>3 DEF Structure
  <2>2. s \in DOMAIN chain /\ chain[s].type = "Slave"
    BY <1>1 DEF LastSlave
  <2>3. DOMAIN chain = 1 .. Len(chain)
    BY <2>1, SequenceDomain
  <2> QED
    BY <1>1, <2>1, <2>2, <2>3
<1>7. "len" \in DOMAIN chain[k] /\ \A f \in Fields : chain[s][f] \in Nat /\ f \in DOMAIN chain[s]
  BY <1>1, <1>6 DEF RecordWellFormed
<1>8. /\ e = [i \in DOMAIN chain |-> e[i]] /\ DOMAIN e = DOMAIN chain
      /\ \A i \in DOMAIN chain : i # k => e[i] = chain[i]
      /\ DOMAIN e[k] = DOMAIN chain[k]
      /\ \A f \in DOMAIN chain[k] : e[k][f] = IF f = "len" THEN chain[k][f] + m ELSE chain[k][f]
  BY <1>1, <1>7 DEF k
<1>9. g \in Fields /\ g \in DOMAIN chain[s] /\ chain[s][g] \in Nat
  BY <1>7 DEF Fields
<1>10. r = [type |-> "Raw", len |-> m, off |-> length]
  OBVIOUS
<1>11. g = IF chain[k].type = "SdoConfig" THEN "sdoLength" ELSE "idnLength"
  OBVIOUS
<1> HIDE DEF e, g, r
<1>12. IsSequence(e)
  BY <1>6, <1>8, Rebuilt
<1>13. Filled(chain, k, s, k, g, m, 0, e)
  <2>1. DOMAIN e[s] = DOMAIN chain[s]
    BY <1>6, <1>8
  <2>2. \A f \in DOMAIN chain[s] : e[s][f] = IF f = g THEN chain[s][f] + 0 ELSE chain[s][f]
    BY <1>6, <1>8, <1>9
  <2> QED
    BY <1>1, <1>5, <1>6, <1>8, <1>11, <1>12, <2>1, <2>2 DEF Filled
<1>14. /\ Structure(chain', length') /\ Tallied(chain', k) /\ Grown(chain, chain', "Raw")
  BY <1>3, <1>4, <1>10, <1>13, DataAdded
<1>15. /\ \A i \in DOMAIN chain : /\ i \in DOMAIN chain' /\ chain'[i].type = chain[i].type
                                  /\ chain[i].type = "Slave" => chain'[i].kind = chain[i].kind
       /\ \A t : LastSlave(chain, t) => LastSlave(chain', t)
       /\ LastRecord(chain', k)
  BY <1>1, <1>14, GrownByData
<1>16. Current'
  <2>1. /\ OpenSdo => CurrentRecord(cur.sdo, "SdoConfig")
        /\ OpenIdn => CurrentRecord(cur.idn, "IdnConfig")
    BY <1>3 DEF Current
  <2>2. /\ OpenSdo' => CurrentRecord(cur.sdo, "SdoConfig")' /\ LastRecord(chain', cur'.sdo)
        /\ OpenIdn' => CurrentRecord(cur.idn, "IdnConfig")' /\ LastRecord(chain', cur'.idn)
    BY <1>1, <1>2, <1>15, <2>1 DEF CurrentRecord
  <2> QED
    BY <1>1, <1>15, <2>2, FileCurrent
<1> QED
  BY <1>2, <1>14, <1>16 DEF Producing

(* A text of an init command file.                                         *)
LEMMA ProduceText ==
  ASSUME Producing, xml = "InitCmds", xml' = xml, NEW n \in 1 .. 4, Deliver(n)
  PROVE  Producing'
<1>1. UNCHANGED <<xml, cur, icmd>> /\ Accepts(n)
  BY DEF Deliver
<1>2. CASE icmd \in {"CoeData", "SoeData"}
  <2>1. n % 2 = 0
    BY <1>1, <1>2 DEF Accepts
  <2>2. OpenSdo \/ OpenIdn
    BY <1>2 DEF OpenSdo, OpenIdn, CoeTexts, SoeTexts
  <2>3. AddData(OpenCommand, n)
    BY <1>2 DEF Deliver, OpenCommand, OpenSdo, OpenIdn, CoeTexts, SoeTexts
  <2> QED
    BY <1>1, <2>1, <2>2, <2>3, CommandFilled
<1>3. CASE chain' = chain /\ length' = length
  <2>1. /\ OpenCommand' = OpenCommand /\ (OpenSdo' <=> OpenSdo) /\ (OpenIdn' <=> OpenIdn)
    BY <1>1 DEF OpenCommand, OpenSdo, OpenIdn
  <2>2. Current
    BY DEF Producing
  <2>3. Current'
    BY <1>1, <1>3, <2>1, <2>2 DEF Current, CurrentMaster, CurrentRecord
  <2> QED
    BY <1>1, <1>3, <2>1, <2>3 DEF Producing
<1>4. CASE icmd \notin {"CoeData", "SoeData"} /\ ~ (chain' = chain /\ length' = length)
  <2>1. PICK f \in {"index", "subindex", "state", "drive"} : \E v :
          /\ chain' = [chain EXCEPT ![OpenCommand] = [chain[OpenCommand] EXCEPT ![f] = v]]
          /\ length' = length /\ (OpenSdo \/ OpenIdn)
    <3>1. CASE icmd = "CoeIndex" \/ (icmd = "CoeSubindex" /\ chain[cur.sdo].subindex # "complete")
      <4>1. OpenSdo /\ OpenCommand = cur.sdo
        BY <3>1 DEF OpenCommand, OpenSdo, CoeTexts
      <4>2. \/ SetSdo("index", n)
            \/ SetSdo("subindex", n)
        BY <1>4, <3>1 DEF Deliver
      <4> QED
        BY <4>1, <4>2 DEF SetSdo, Complete
    <3>2. CASE icmd \in {"SoeTrans", "SoeDriveno", "SoeIdn"}
      <4>1. OpenIdn /\ OpenCommand = cur.idn
        BY <3>2 DEF OpenCommand, OpenSdo, OpenIdn, CoeTexts, SoeTexts
      <4>2. \/ SetIdn("drive", n)
            \/ SetIdn("index", n)
            \/ \E s \in {"PREOP", "SAFEOP"} :
                 Complete(cur.idn, [chain[cur.idn] EXCEPT !.state = s])
        BY <3>2 DEF Deliver
      <4> QED
        BY <4>1, <4>2 DEF SetIdn, Complete
    <3> QED
      BY <1>4, <3>1, <3>2 DEF Deliver
  <2>2. PICK v : /\ chain' = [chain EXCEPT ![OpenCommand] = [chain[OpenCommand] EXCEPT ![f] = v]]
                 /\ length' = length /\ (OpenSdo \/ OpenIdn)
    BY <2>1
  <2> DEFINE q == [chain[OpenCommand] EXCEPT ![f] = v]
  <2>3. /\ DOMAIN q = DOMAIN chain[OpenCommand]
        /\ \A h \in DOMAIN chain[OpenCommand] \cap {"type", "off", "len", "kind", "pin"} :
             q[h] = chain[OpenCommand][h]
    OBVIOUS
  <2>4. chain' = [chain EXCEPT ![OpenCommand] = q] /\ length' = length /\ (OpenSdo \/ OpenIdn)
    BY <2>2
  <2> HIDE DEF q
  <2> QED
    BY <1>1, <2>3, <2>4, CommandChanged
<1> QED
  BY <1>2, <1>3, <1>4

(* What the command adds to its slave when it ends.                        *)
LEMMA CommandEnded ==
  ASSUME Producing, OpenSdo \/ OpenIdn, UNCHANGED <<xml, cur>>, ~ OpenSdo', ~ OpenIdn',
         NEW g, g = IF OpenSdo THEN "sdoLength" ELSE "idnLength",
         EndIcmd(g, chain[OpenCommand])
  PROVE  Producing'
<1> DEFINE k == OpenCommand
           s == cur.slave
           m == SizeOf[chain[k].type] + chain[k].len
           q == [chain[s] EXCEPT ![g] = @ + SizeOf[chain[k].type] + chain[k].len]
<1>1. /\ LastSlave(chain, s) /\ s < k /\ k \in DOMAIN chain /\ LastRecord(chain, k) /\ CurrentMaster
      /\ xml = "InitCmds" /\ chain[k].type \in WithData
      /\ OpenSdo => chain[k].type = "SdoConfig"
      /\ OpenIdn => chain[k].type = "IdnConfig"
  BY TheCommand
<1>2. OpenCommand' = 0
  BY DEF OpenCommand
<1>3. Structure(chain, length) /\ Tallied(chain, k) /\ Current
  BY DEF Producing
<1>4. chain' = [chain EXCEPT ![s] = q] /\ length' = length
  BY DEF EndIcmd, Complete
<1>5. g = IF chain[k].type = "SdoConfig" THEN "sdoLength" ELSE "idnLength"
  BY <1>1 DEF WithData
<1> HIDE DEF k
<1>6. /\ IsSequence(chain) /\ \A i \in DOMAIN chain : RecordWellFormed(chain[i])
      /\ s \in DOMAIN chain /\ k # s /\ chain[s].type = "Slave" /\ k # 0
      /\ \A i \in DOMAIN chain : i # 0
  <2>1. IsSequence(chain) /\ \A i \in DOMAIN chain : RecordWellFormed(chain[i])
    BY <1>3 DEF Structure
  <2>2. s \in DOMAIN chain /\ chain[s].type = "Slave"
    BY <1>1 DEF LastSlave
  <2>3. DOMAIN chain = 1 .. Len(chain)
    BY <2>1, SequenceDomain
  <2> QED
    BY <1>1, <2>1, <2>2, <2>3
<1>7. /\ SizeOf[chain[k].type] \in Nat /\ chain[k].len \in Nat /\ m \in Nat
      /\ m = SizeOf[chain[k].type] + chain[k].len
  <2>1. SizeOf[chain[k].type] \in Nat
    BY <1>1 DEF SizeOf, WithData
  <2>2. chain[k].len \in Nat
    BY <1>1, <1>6 DEF RecordWellFormed
  <2> QED
    BY <2>1, <2>2
<1>8. g \in Fields /\ \A f \in Fields : chain[s][f] \in Nat /\ f \in DOMAIN chain[s]
  BY <1>5, <1>6 DEF RecordWellFormed, Fields
<1>9. /\ DOMAIN q = DOMAIN chain[s]
      /\ \A f \in DOMAIN chain[s] : q[f] = IF f = g THEN chain[s][g] + m ELSE chain[s][f]
  BY <1>7, <1>8
<1> HIDE DEF q, m
<1>10. /\ IsSequence(chain') /\ DOMAIN chain' = DOMAIN chain
       /\ \A i \in DOMAIN chain : chain'[i] = IF i = s THEN q ELSE chain[i]
  BY <1>4, <1>6, Replaced
<1>11. Alike(chain[s], q)
  <2>1. \A f \in {"type", "off", "len", "kind", "pin"} : f # g
    BY <1>8 DEF Fields
  <2>2. \A f \in Fields : q[f] \in Nat
    BY <1>7, <1>8, <1>9
  <2> QED
    BY <1>6, <1>9, <2>1, <2>2, Changed
<1>12. \A i \in DOMAIN chain : Alike(chain[i], chain'[i])
  BY <1>6, <1>10, <1>11, AlikeItself
<1>13. Structure(chain', length')
  BY <1>3, <1>4, <1>10, <1>12, StructureSame
<1>14. Refit(chain, chain')
  BY <1>6, <1>10, <1>12 DEF Refit, Alike
<1>15. ASSUME NEW f \in Fields
       PROVE  /\ \A i \in DOMAIN chain : i # k => Weights(chain', f, 0)[i] = Weights(chain, f, k)[i]
              /\ Weights(chain, f, k)[k] = 0
              /\ Weights(chain', f, 0)[k] = IF f = g THEN m ELSE 0
  <2>1. \A i \in DOMAIN chain : Weight(f, chain'[i]) = Weight(f, chain[i])
    BY <1>12, WeightKept
  <2>2. Weight(f, chain[k]) = IF f = g THEN m ELSE 0
    <3>1. CASE chain[k].type = "SdoConfig"
      BY <1>5, <1>7, <3>1 DEF Weight, Fields
    <3>2. CASE chain[k].type = "IdnConfig"
      BY <1>5, <1>7, <3>2 DEF Weight, Fields
    <3> QED
      BY <1>1, <3>1, <3>2 DEF WithData
  <2> QED
    BY <1>1, <1>6, <1>10, <2>1, <2>2 DEF Weights
<1>16. Corrected(chain, k, chain', 0, s, k)
  <2>1. \A f \in Fields : \A i \in DOMAIN chain : i # k =>
          Weights(chain', f, 0)[i] = Weights(chain, f, k)[i]
    BY <1>15
  <2>2. ASSUME NEW f \in Fields
        PROVE  chain'[s][f] + Weights(chain, f, k)[k] = chain[s][f] + Weights(chain', f, 0)[k]
    <3>1. chain'[s][f] = IF f = g THEN chain[s][f] + m ELSE chain[s][f]
      BY <1>6, <1>8, <1>9, <1>10
    <3>2. Weights(chain, f, k)[k] = 0 /\ Weights(chain', f, 0)[k] = IF f = g THEN m ELSE 0
      BY <1>15
    <3>3. chain[s][f] \in Nat /\ m \in Nat
      BY <1>7, <1>8
    <3> QED
      BY <3>1, <3>2, <3>3
  <2>3. \A t \in DOMAIN chain : chain[t].type = "Slave" /\ t # s =>
          \A f \in Fields : chain'[t][f] = chain[t][f]
    BY <1>10
  <2> QED
    BY <1>1, <1>14, <2>1, <2>2, <2>3 DEF Corrected
<1>17. Tallied(chain', 0)
  BY <1>3, <1>16, TallyAt
<1>18. Current'
  <2>1. \A i \in DOMAIN chain : /\ i \in DOMAIN chain' /\ chain'[i].type = chain[i].type
                                /\ chain[i].type = "Slave" => chain'[i].kind = chain[i].kind
    BY <1>10, <1>12 DEF Alike
  <2>2. \A t : LastSlave(chain, t) => LastSlave(chain', t)
    BY <1>10, <2>1 DEF LastSlave
  <2> QED
    BY <1>1, <2>1, <2>2, FileCurrent
<1> QED
  BY <1>2, <1>13, <1>17, <1>18 DEF Producing

(* An element of an init command file ends; commands are counted here.     *)
LEMMA ProduceClose ==
  ASSUME Producing, xml = "InitCmds", xml' = xml, Close
  PROVE  Producing'
<1>1. cur' = cur /\ icmd \in DOMAIN IcmdFrom
      /\ icmd' = IF icmd = "Mailbox" THEN "Closed" ELSE IcmdFrom[icmd]
  BY DEF Close
<1>2. CASE icmd = "CoeIcmd"
  <2>1. OpenSdo /\ OpenCommand = cur.sdo
    BY <1>2 DEF OpenSdo, OpenCommand
  <2>2. ~ OpenSdo' /\ ~ OpenIdn'
    BY <1>1, <1>2 DEF OpenSdo, OpenIdn, CoeTexts, SoeTexts, IcmdFrom
  <2>3. EndIcmd("sdoLength", chain[OpenCommand])
    BY <1>2, <2>1 DEF Close
  <2> QED
    BY <1>1, <2>1, <2>2, <2>3, CommandEnded
<1>3. CASE icmd = "SoeIcmd"
  <2>1. OpenIdn /\ ~ OpenSdo /\ OpenCommand = cur.idn
    BY <1>3 DEF OpenSdo, OpenIdn, OpenCommand, CoeTexts, SoeTexts
  <2>2. ~ OpenSdo' /\ ~ OpenIdn'
    BY <1>1, <1>3 DEF OpenSdo, OpenIdn, CoeTexts, SoeTexts, IcmdFrom
  <2>3. EndIcmd("idnLength", chain[OpenCommand])
    BY <1>3, <2>1 DEF Close
  <2> QED
    BY <1>1, <2>1, <2>2, <2>3, CommandEnded
<1>4. CASE icmd \notin {"CoeIcmd", "SoeIcmd"}
  <2>1. UNCHANGED <<chain, length>>
    BY <1>4 DEF Close
  <2>2. (OpenSdo' <=> OpenSdo) /\ (OpenIdn' <=> OpenIdn)
    BY <1>1, <1>4 DEF OpenSdo, OpenIdn, CoeTexts, SoeTexts, IcmdFrom
  <2>3. OpenCommand' = OpenCommand
    BY <1>1, <2>2 DEF OpenCommand
  <2>4. Structure(chain, length) /\ Tallied(chain, OpenCommand) /\ Current
    BY DEF Producing
  <2>5. /\ OpenSdo' => CurrentRecord(cur.sdo, "SdoConfig")' /\ LastRecord(chain', cur'.sdo)
        /\ OpenIdn' => CurrentRecord(cur.idn, "IdnConfig")' /\ LastRecord(chain', cur'.idn)
    BY <1>1, <2>1, <2>2, <2>4 DEF Current, CurrentRecord
  <2>6. Current'
    BY <1>1, <2>1, <2>5, FileCurrent
  <2> QED
    BY <2>1, <2>3, <2>4, <2>6 DEF Producing
<1> QED
  BY <1>2, <1>3, <1>4

(* Every step of the producer but the two that end it.                     *)
LEMMA ProduceStep ==
  ASSUME Producing, ConfNext
  PROVE  \/ Producing' /\ xml' \notin {"Shared", "Failed"}
         \/ Produced' /\ xml' = "Shared"
         \/ chain' = << >> /\ length' = 0 /\ xml' = "Failed"
<1>1. CASE OpenMasters
  BY <1>1, ProduceMasters DEF OpenMasters
<1>2. CASE Element
  <2>1. Producing'
    BY <1>2, ProduceMaster, ProduceSlave, ProduceDcConf, ProduceWatchdog, ProduceModParam,
       ProduceSdoConfig, ProduceDataRaw, ProduceFile, ProduceSyncManager, ProducePdo,
       ProducePdoEntry, ProduceComplexEntry DEF Element
  <2>2. xml' \in DOMAIN From \cup {"None"}
    BY <2>1 DEF Producing
  <2> QED
    BY <2>1, <2>2 DEF From
<1>3. CASE EndElement
  <2>1. Producing'
    BY <1>3, ProduceEnd
  <2>2. xml' \in DOMAIN From \cup {"None"}
    BY <2>1 DEF Producing
  <2> QED
    BY <2>1, <2>2 DEF From
<1>4. CASE InitCmdsStep
  <2>1. xml = "InitCmds" /\ xml' = xml /\ Step
    BY <1>4 DEF InitCmdsStep
  <2>2. Producing'
    BY <2>1, ProduceOpen, ProduceText, ProduceClose DEF Step
  <2> QED
    BY <2>1, <2>2
<1>5. CASE Share
  BY <1>5, ProduceShare DEF Share
<1>6. CASE Stop
  BY <1>6 DEF Stop, Refuse, Abandon
<1> QED
  BY <1>1, <1>2, <1>3, <1>4, <1>5, <1>6 DEF ConfNext

---------------------------------------------------------------------------
(* No two records start at the same place.                                 *)
LEMMA OneStart ==
  ASSUME NEW c, NEW n, Structure(c, n), NEW j \in DOMAIN c, NEW k \in DOMAIN c, c[j].off = c[k].off
  PROVE  j = k
<1>1. DOMAIN c = 1 .. Len(c) /\ Len(c) \in Nat
  BY SequenceDomain DEF Structure
<1>2. \A i \in DOMAIN c : c[i].off \in Nat /\ Extent(c[i]) \in Nat /\ Extent(c[i]) > 0
  BY Extents DEF Structure, RecordWellFormed
<1>3. /\ j < k => c[j].off + Extent(c[j]) <= c[k].off
      /\ k < j => c[k].off + Extent(c[k]) <= c[j].off
  BY DEF Structure, InPlace
<1> QED
  BY <1>1, <1>2, <1>3

(* A record that is not the end marker is followed by another.             *)
LEMMA Follows ==
  ASSUME NEW c, NEW n, Structure(c, n), Len(c) > 0, c[Len(c)].type = "End",
         NEW k \in Records(c)
  PROVE  /\ Behind(c[k]) \in Nat /\ Behind(c[k]) <= n
         /\ c[k].type # "End" => \E j \in Records(c) : NextRecord(c, k, j) /\ c[j].off = Behind(c[k])
<1>1. DOMAIN c = 1 .. Len(c) /\ Len(c) \in Nat /\ n \in Nat
  BY SequenceDomain DEF Structure
<1>2. \A i \in DOMAIN c : RecordWellFormed(c[i])
  BY DEF Structure
<1>3. k \in DOMAIN c /\ c[k].type # "Raw"
  BY DEF Records
<1>4. Behind(c[k]) \in Nat
  BY <1>2, <1>3, Behinds
<1>5. \A j \in Records(c) : c[j].off \in Nat /\ c[j].off <= n
  <2> SUFFICES ASSUME NEW j \in Records(c)
               PROVE  c[j].off \in Nat /\ c[j].off <= n
    OBVIOUS
  <2>1. j \in DOMAIN c /\ c[j].off \in Nat /\ Extent(c[j]) \in Nat
    BY <1>2, Extents DEF RecordWellFormed, Records
  <2>2. c[j].off + Extent(c[j]) <= n
    BY <2>1 DEF Structure, InPlace
  <2> QED
    BY <1>1, <2>1, <2>2
<1>6. \/ \E j \in Records(c) : NextRecord(c, k, j) /\ c[j].off = Behind(c[k])
      \/ LastRecord(c, k) /\ n = Behind(c[k])
  BY DEF Structure, Linked
<1>7. LastRecord(c, k) => k = Len(c)
  BY <1>1, <1>3 DEF LastRecord
<1> QED
  BY <1>1, <1>4, <1>5, <1>6, <1>7

(* What stands before the next record stands before this one, or is it.    *)
LEMMA BeforeNext ==
  ASSUME NEW c, IsSequence(c), NEW k \in Records(c), NEW j, NextRecord(c, k, j)
  PROVE  /\ \A i \in DOMAIN c : i < j => i < k \/ i = k \/ c[i].type = "Raw"
         /\ \A s, t : t # "Raw" /\ Between(c, s, j, t) => Between(c, s, k, t) \/ c[k].type = t
         /\ \A s \in DOMAIN c : c[k].type # "Slave" => (SlaveBefore(c, j, s) <=> SlaveBefore(c, k, s))
         /\ \A s \in DOMAIN c : c[k].type = "Slave" => (SlaveBefore(c, j, s) <=> s = k)
<1>1. DOMAIN c = 1 .. Len(c) /\ Len(c) \in Nat
  BY SequenceDomain
<1>2. /\ k \in DOMAIN c /\ j \in DOMAIN c /\ k < j
      /\ \A i \in DOMAIN c : k < i /\ i < j => c[i].type = "Raw"
  BY DEF NextRecord, Records
<1>3. \A i \in DOMAIN c : i < j => i < k \/ i = k \/ c[i].type = "Raw"
  BY <1>1, <1>2
<1>4. \A i \in DOMAIN c : i < k => i < j
  BY <1>1, <1>2
<1>5. \A s, t : t # "Raw" /\ Between(c, s, j, t) => Between(c, s, k, t) \/ c[k].type = t
  BY <1>3 DEF Between
<1>6. \A s \in DOMAIN c : c[k].type # "Slave" => (SlaveBefore(c, j, s) <=> SlaveBefore(c, k, s))
  BY <1>2, <1>3, <1>4 DEF SlaveBefore
<1>7. ASSUME NEW s \in DOMAIN c, c[k].type = "Slave"
      PROVE  SlaveBefore(c, j, s) <=> s = k
  <2>1. SlaveBefore(c, j, k)
    <3>1. \A i \in DOMAIN c : k < i /\ i < j => c[i].type # "Slave"
      BY <1>2
    <3> QED
      BY <1>2, <1>7, <3>1 DEF SlaveBefore
  <2>2. SlaveBefore(c, j, s) => s = k
    BY <1>1, <1>2, <1>3, <1>7 DEF SlaveBefore
  <2> QED
    BY <2>1, <2>2
<1> QED
  BY <1>3, <1>5, <1>6, <1>7

(* What has been read of a slave, and what one record more adds to it.     *)
LEMMA PartType ==
  ASSUME NEW c, IsSequence(c), \A k \in DOMAIN c : RecordWellFormed(c[k]), NEW f \in Fields,
         NEW s, NEW k
  PROVE  Part(c, f, s, k) \in Nat
<1> DEFINE S == {i \in DOMAIN c : s < i /\ i < k}
<1>1. IsFiniteSet(S) /\ \A i \in S : Weights(c, f, 0)[i] \in Nat
  BY Weighed
<1> QED
  BY <1>1, TotalType DEF Part

(* A record adds no more than all of them.                                 *)
LEMMA PartOne ==
  ASSUME NEW c, IsSequence(c), \A k \in DOMAIN c : RecordWellFormed(c[k]), NEW f \in Fields,
         NEW s, NEW k, NEW i \in DOMAIN c, s < i, i < k
  PROVE  Weight(f, c[i]) <= Part(c, f, s, k)
<1> DEFINE S == {x \in DOMAIN c : s < x /\ x < k}
           W == Weights(c, f, 0)
<1>1. DOMAIN c = 1 .. Len(c) /\ Len(c) \in Nat
  BY SequenceDomain
<1>2. /\ IsFiniteSet(S) /\ IsFiniteSet(S \ {i}) /\ i \in S
      /\ \A x \in S : W[x] \in Nat
  BY Weighed
<1>3. W[i] = Weight(f, c[i])
  BY <1>1 DEF Weights
<1> HIDE DEF S, W
<1>4. Total(W, S) = W[i] + Total(W, S \ {i})
  BY <1>2, TotalOthers
<1>5. Total(W, S \ {i}) \in Nat /\ W[i] \in Nat
  BY <1>2, TotalType
<1>6. Part(c, f, s, k) = Total(W, S)
  BY DEF Part, S, W
<1> QED
  BY <1>3, <1>4, <1>5, <1>6

(* What has been read of a slave is no more than its record counts.        *)
LEMMA PartWhole ==
  ASSUME NEW c, NEW n, Structure(c, n), Tallied(c, 0), NEW f \in Fields,
         NEW k \in DOMAIN c, NEW s \in DOMAIN c, SlaveBefore(c, k, s)
  PROVE  Part(c, f, s, k) <= c[s][f] /\ c[s][f] \in Nat
<1> DEFINE S == {i \in DOMAIN c : s < i /\ i < k}
           W == Weights(c, f, 0)
           T == Own(c, s)
<1>1. IsSequence(c) /\ \A i \in DOMAIN c : RecordWellFormed(c[i])
  BY DEF Structure
<1>2. DOMAIN c = 1 .. Len(c) /\ Len(c) \in Nat
  BY <1>1, SequenceDomain
<1>3. S \subseteq T
  <2> SUFFICES ASSUME NEW i \in S, NEW h \in DOMAIN c, s < h, h <= i, i \in DOMAIN c, i < k
               PROVE  c[h].type # "Slave"
    BY DEF Own
  <2>1. h < k
    BY <1>2
  <2> QED
    BY <2>1 DEF SlaveBefore
<1>4. IsFiniteSet(S) /\ IsFiniteSet(T \ S) /\ \A i \in T : W[i] \in Nat
  BY <1>1, Weighed DEF Own
<1>5. c[s][f] = Total(W, T)
  BY DEF SlaveBefore, Tallied, Tally
<1>6. Part(c, f, s, k) = Total(W, S)
  BY DEF Part
<1> HIDE DEF S, W, T
<1>7. T = S \cup (T \ S) /\ S \cap (T \ S) = {} /\ \A i \in S \cup (T \ S) : W[i] \in Nat
  BY <1>3, <1>4
<1>8. Total(W, T) = Total(W, S) + Total(W, T \ S)
  BY <1>4, <1>7, TotalUnion
<1>9. Total(W, S) \in Nat /\ Total(W, T \ S) \in Nat
  BY <1>3, <1>4, TotalType
<1> QED
  BY <1>5, <1>6, <1>8, <1>9

(* The next record adds its own; a new slave starts from nothing.          *)
LEMMA PartNext ==
  ASSUME NEW c, IsSequence(c), \A i \in DOMAIN c : RecordWellFormed(c[i]), NEW f \in Fields,
         NEW k \in Records(c), NEW j, NextRecord(c, k, j), NEW s \in DOMAIN c
  PROVE  /\ s < k => Part(c, f, s, j) = Part(c, f, s, k) + Weight(f, c[k])
         /\ s = k => Part(c, f, s, j) = 0
<1> DEFINE S == {i \in DOMAIN c : s < i /\ i < k}
           T == {i \in DOMAIN c : s < i /\ i < j}
           W == Weights(c, f, 0)
<1>1. DOMAIN c = 1 .. Len(c) /\ Len(c) \in Nat
  BY SequenceDomain
<1>2. /\ k \in DOMAIN c /\ j \in DOMAIN c /\ k < j
      /\ \A i \in DOMAIN c : k < i /\ i < j => c[i].type = "Raw"
  BY DEF NextRecord, Records
<1>3. \A i \in DOMAIN c : i # 0 => W[i] = Weight(f, c[i])
  BY DEF Weights
<1>4. \A i \in DOMAIN c : k < i /\ i < j => W[i] = 0
  BY <1>1, <1>2, <1>3 DEF Weight, Fields
<1>5. IsFiniteSet(S) /\ IsFiniteSet(T) /\ \A i \in T : W[i] \in Nat
  BY Weighed
<1>6. W[k] = Weight(f, c[k])
  BY <1>1, <1>2, <1>3
<1>7. ASSUME NEW U, IsFiniteSet(U), \A i \in U : W[i] = 0
      PROVE  Total(W, U) = 0
  BY <1>7, TotalZero
<1>8. CASE s < k
  <2> DEFINE U == T \ (S \cup {k})
  <2>1. S \subseteq T /\ k \in T /\ k \notin S
    BY <1>1, <1>2, <1>8
  <2>2. \A i \in U : W[i] = 0
    BY <1>1, <1>2, <1>4
  <2>3. IsFiniteSet(U) /\ IsFiniteSet(T \ {k})
    BY <1>5, FS_Subset
  <2> HIDE DEF W
  <2>4. Total(W, T) = W[k] + Total(W, T \ {k})
    <3> HIDE DEF T
    <3> QED
      BY <1>5, <2>1, TotalOthers
  <2>5. T \ {k} = S \cup U /\ S \cap U = {} /\ \A i \in S \cup U : W[i] \in Nat
    <3> HIDE DEF S, T
    <3> QED
      BY <1>5, <2>1
  <2> HIDE DEF S, T, U
  <2>6. Total(W, T \ {k}) = Total(W, S) + Total(W, U)
    BY <1>5, <2>3, <2>5, TotalUnion
  <2>7. Total(W, U) = 0
    BY <1>7, <2>2, <2>3
  <2>8. Total(W, S) \in Nat /\ W[k] \in Nat
    BY <1>5, <2>1, TotalType
  <2>9. Part(c, f, s, j) = Total(W, T) /\ Part(c, f, s, k) = Total(W, S)
    BY DEF Part, S, T, W
  <2> QED
    BY <1>1, <1>2, <1>6, <1>8, <2>4, <2>6, <2>7, <2>8, <2>9
<1>9. CASE s = k
  <2>1. \A i \in T : W[i] = 0
    BY <1>4, <1>9
  <2>2. Total(W, T) = 0
    <3> HIDE DEF W, T
    <3> QED
      BY <1>5, <1>7, <2>1
  <2> QED
    BY <1>1, <1>2, <1>9, <2>2 DEF Part
<1> QED
  BY <1>8, <1>9

(* What a record of a slave adds to the slave that is being filled.        *)
Advanced(old, new, r) ==
  /\ DOMAIN new = DOMAIN old
  /\ IsSequence(new.sms) /\ IsSequence(new.pdos) /\ IsSequence(new.entries) /\ IsSequence(new.pins)
  /\ new.generic = old.generic /\ new.nsms = old.nsms /\ new.npdos = old.npdos
  /\ new.nentries = old.nentries /\ new.npins = old.npins /\ new.nparams = old.nparams
  /\ new.sdoSize = old.sdoSize /\ new.idnSize = old.idnSize
  /\ Len(new.sms) = Len(old.sms) + Weight("sms", r)
  /\ Len(new.pdos) = Len(old.pdos) + Weight("pdos", r)
  /\ Len(new.entries) = Len(old.entries) + Weight("entries", r)
  /\ Len(new.pins) = Len(old.pins) + Weight("pins", r)
  /\ new.params = old.params + Weight("params", r)
  /\ new.sdoUsed = old.sdoUsed + Weight("sdoLength", r)
  /\ new.idnUsed \in Nat /\ new.idnUsed <= old.idnUsed + Weight("idnLength", r)
  /\ old.dir # "unspecified" \/ r.type = "SyncManager" => new.dir # "unspecified"

(* A slave that advances with its records stays within its counts.         *)
LEMMA ReadAdvances ==
  ASSUME NEW c, NEW n, Structure(c, n), Tallied(c, 0),
         NEW k \in Records(c), c[k].type # "Slave", NEW j \in Records(c), NextRecord(c, k, j),
         NEW s \in DOMAIN c, SlaveBefore(c, k, s),
         NEW old, SlaveRead(c, old, s, k), NEW new, Advanced(old, new, c[k])
  PROVE  SlaveRead(c, new, s, j) /\ SlaveFits(new)
<1>1. IsSequence(c) /\ \A i \in DOMAIN c : RecordWellFormed(c[i])
  BY DEF Structure
<1>2. s < k /\ SlaveBefore(c, j, s) /\ j \in DOMAIN c /\ k \in DOMAIN c
  BY <1>1, BeforeNext DEF SlaveBefore, Records
<1>3. ASSUME NEW f \in Fields
      PROVE  /\ Part(c, f, s, j) = Part(c, f, s, k) + Weight(f, c[k])
             /\ Part(c, f, s, j) <= c[s][f] /\ c[s][f] \in Nat
             /\ Part(c, f, s, j) \in Nat /\ Part(c, f, s, k) \in Nat /\ Weight(f, c[k]) \in Nat
  <2>1. Part(c, f, s, j) = Part(c, f, s, k) + Weight(f, c[k])
    BY <1>1, <1>2, PartNext
  <2>2. Part(c, f, s, j) <= c[s][f] /\ c[s][f] \in Nat
    BY <1>2, PartWhole
  <2>3. Part(c, f, s, j) \in Nat /\ Part(c, f, s, k) \in Nat /\ Weight(f, c[k]) \in Nat
    BY <1>1, <1>2, PartType, WeightType
  <2> QED
    BY <2>1, <2>2, <2>3
<1>4. Fields = {"sms", "pdos", "entries", "pins", "params", "sdoLength", "idnLength"}
  BY DEF Fields
<1>5. Between(c, s, j, "SyncManager") => Between(c, s, k, "SyncManager") \/ c[k].type = "SyncManager"
  BY <1>1, BeforeNext
<1>6. Allocated(old, c[s]) /\ Allocated(new, c[s])
  BY DEF SlaveRead, Allocated, Advanced
<1>7. /\ Len(new.sms) = Part(c, "sms", s, j) /\ Len(new.pdos) = Part(c, "pdos", s, j)
      /\ Len(new.entries) = Part(c, "entries", s, j) /\ Len(new.pins) = Part(c, "pins", s, j)
      /\ new.params = Part(c, "params", s, j) /\ new.sdoUsed = Part(c, "sdoLength", s, j)
  BY <1>3, <1>4 DEF SlaveRead, Advanced
<1>8. new.idnUsed \in Nat /\ new.idnUsed <= Part(c, "idnLength", s, j)
  <2>1. /\ Part(c, "idnLength", s, j) = Part(c, "idnLength", s, k) + Weight("idnLength", c[k])
        /\ Part(c, "idnLength", s, k) \in Nat /\ Weight("idnLength", c[k]) \in Nat
    BY <1>3, <1>4
  <2>2. /\ old.idnUsed \in Nat /\ old.idnUsed <= Part(c, "idnLength", s, k)
        /\ new.idnUsed \in Nat /\ new.idnUsed <= old.idnUsed + Weight("idnLength", c[k])
    BY DEF SlaveRead, Advanced
  <2> QED
    BY <2>1, <2>2
<1>9. Between(c, s, j, "SyncManager") => new.dir # "unspecified"
  BY <1>5 DEF SlaveRead, Advanced
<1>10. SlaveRead(c, new, s, j)
  BY <1>6, <1>7, <1>8, <1>9 DEF SlaveRead, Advanced
<1>11. \A f \in Fields : Part(c, f, s, j) <= c[s][f] /\ c[s][f] \in Nat /\ Part(c, f, s, j) \in Nat
  BY <1>3
<1>12. SlaveFits(new)
  BY <1>4, <1>6, <1>7, <1>8, <1>11 DEF SlaveFits, Allocated
<1> QED
  BY <1>10, <1>12

(* The parser is at a record of the image that is not the end marker.      *)
LEMMA AtRecord ==
  ASSUME Produced, Consuming, load = "Parsing", NEW k \in DOMAIN chain, NEW type, type # "Raw",
         Take(type, k)
  PROVE  /\ ReadUpTo(k) /\ k \in Records(chain) /\ chain[k].type = type
         /\ pos' = Behind(chain[k]) /\ pos' \in Nat /\ pos' <= length
         /\ type # "End" => \E j \in Records(chain) : NextRecord(chain, k, j) /\ chain[j].off = pos'
<1>1. PICK i \in DOMAIN chain : ReadUpTo(i)
  BY DEF Consuming
<1>2. chain[k].off = pos /\ chain[k].type = type
  BY DEF Take, StartsAt
<1>3. i = k
  <2>1. chain[i].off = chain[k].off
    BY <1>1, <1>2 DEF ReadUpTo
  <2> QED
    BY <2>1, OneStart DEF Produced
<1>4. k \in Records(chain)
  BY <1>2 DEF Records
<1>5. pos' = Behind(chain[k])
  <2>1. pos' = pos + SizeOf[type] + (IF type \in {"SdoConfig", "IdnConfig"} THEN chain[k].len ELSE 0)
    BY DEF Take
  <2> QED
    BY <1>2, <2>1 DEF Behind, WithData
<1>6. /\ Behind(chain[k]) \in Nat /\ Behind(chain[k]) <= length
      /\ chain[k].type # "End" =>
           \E j \in Records(chain) : NextRecord(chain, k, j) /\ chain[j].off = Behind(chain[k])
  BY <1>4, Follows DEF Produced
<1> QED
  BY <1>1, <1>2, <1>3, <1>4, <1>5, <1>6

(* The slave that a record inside a slave belongs to.                      *)
LEMMA TheSlave ==
  ASSUME Produced, NEW k \in Records(chain), ReadUpTo(k), chain[k].type \in InSlave,
         NEW j \in Records(chain), NextRecord(chain, k, j)
  PROVE  /\ Len(slaves) > 0
         /\ \E s \in DOMAIN chain :
              SlaveBefore(chain, k, s) /\ SlaveRead(chain, slaves[Len(slaves)], s, k)
         /\ chain[k].type \in Layout => slaves[Len(slaves)].generic
         /\ chain[k].type = "PdoEntry" => slaves[Len(slaves)].dir # "unspecified"
         /\ chain[k].type = "ComplexEntry" => Len(slaves[Len(slaves)].entries) > 0
         /\ chain[k].type = "ModParam" => slaves[Len(slaves)].nparams # 0
         /\ chain[k].type = "SdoConfig" => slaves[Len(slaves)].sdoSize # 0
         /\ chain[k].type = "IdnConfig" => slaves[Len(slaves)].idnSize # 0
<1> DEFINE sl == slaves[Len(slaves)]
           r == chain[k]
<1>1. /\ Structure(chain, length) /\ Tallied(chain, 0) /\ k \in DOMAIN chain /\ j \in DOMAIN chain
      /\ IsSequence(chain) /\ \A i \in DOMAIN chain : RecordWellFormed(chain[i])
  BY DEF Produced, Structure, Records
<1>2. Belongs(chain, k, chain[k].type)
  BY <1>1 DEF Structure
<1>3. PICK s \in DOMAIN chain :
        /\ SlaveBefore(chain, k, s)
        /\ r.type \in Layout => chain[s].kind = "generic"
        /\ r.type = "PdoEntry" => Between(chain, s, k, "SyncManager")
        /\ r.type = "ComplexEntry" => Between(chain, s, k, "PdoEntry")
  BY <1>2 DEF Belongs
<1>4. Len(slaves) > 0 /\ SlaveRead(chain, sl, s, k)
  BY <1>3 DEF ReadUpTo
<1> HIDE DEF sl
<1>5. s < k /\ k < j /\ SlaveBefore(chain, j, s)
  <2>1. chain[k].type # "Slave"
    BY DEF InSlave, Layout, WithData
  <2> QED
    BY <1>1, <1>3, <2>1, BeforeNext DEF SlaveBefore, NextRecord
<1>6. ASSUME NEW f \in Fields
      PROVE  Weight(f, r) <= chain[s][f] /\ chain[s][f] \in Nat /\ Weight(f, r) \in Nat
  <2>1. Weight(f, r) <= Part(chain, f, s, j)
    BY <1>1, <1>5, PartOne
  <2>2. Part(chain, f, s, j) <= chain[s][f] /\ chain[s][f] \in Nat
    BY <1>1, <1>5, PartWhole
  <2>3. Part(chain, f, s, j) \in Nat /\ Weight(f, r) \in Nat
    BY <1>1, PartType, WeightType
  <2> QED
    BY <2>1, <2>2, <2>3
<1>7. Allocated(sl, chain[s])
  BY <1>4 DEF SlaveRead
<1>8. r.type \in Layout => sl.generic
  BY <1>3, <1>7 DEF Allocated
<1>9. r.type = "PdoEntry" => sl.dir # "unspecified"
  BY <1>3, <1>4 DEF SlaveRead
<1>10. ASSUME r.type = "ComplexEntry"
       PROVE  Len(sl.entries) > 0
  <2>1. PICK i \in DOMAIN chain : s < i /\ i < k /\ chain[i].type = "PdoEntry"
    BY <1>3, <1>10 DEF Between
  <2>2. "entries" \in Fields
    BY DEF Fields
  <2>3. Weight("entries", chain[i]) <= Part(chain, "entries", s, k)
    BY <1>1, <2>1, <2>2, PartOne
  <2>4. Weight("entries", chain[i]) = 1
    BY <2>1 DEF Weight
  <2>5. Part(chain, "entries", s, k) \in Nat /\ Len(sl.entries) = Part(chain, "entries", s, k)
    BY <1>1, <1>4, <2>2, PartType DEF SlaveRead
  <2> QED
    BY <2>3, <2>4, <2>5
<1>11. ASSUME r.type = "ModParam"
       PROVE  sl.nparams # 0
  <2>1. "params" \in Fields /\ Weight("params", r) = 1
    BY <1>11 DEF Fields, Weight
  <2> QED
    BY <1>6, <1>7, <2>1 DEF Allocated
<1>12. ASSUME r.type = "SdoConfig"
       PROVE  sl.sdoSize # 0
  <2>1. "sdoLength" \in Fields /\ Weight("sdoLength", r) = 16 + r.len
    BY <1>12 DEF Fields, Weight, SizeOf
  <2>2. r.len \in Nat
    BY <1>1, <1>12 DEF RecordWellFormed, WithData
  <2> QED
    BY <1>6, <1>7, <2>1, <2>2 DEF Allocated
<1>13. ASSUME r.type = "IdnConfig"
       PROVE  sl.idnSize # 0
  <2>1. "idnLength" \in Fields /\ Weight("idnLength", r) = 24 + r.len
    BY <1>13 DEF Fields, Weight, SizeOf
  <2>2. r.len \in Nat
    BY <1>1, <1>13 DEF RecordWellFormed, WithData
  <2> QED
    BY <1>6, <1>7, <2>1, <2>2 DEF Allocated
<1> QED
  BY <1>3, <1>4, <1>8, <1>9, <1>10, <1>11, <1>12, <1>13 DEF sl

(* What a reader finds, what it leaves of the others, and where it is then. *)
Reads(type, k) ==
  /\ load = "Parsing" /\ k \in DOMAIN chain /\ Take(type, k)
  /\ Produced /\ Consuming /\ TreeInv /\ TreeInv' /\ UNCHANGED <<chain, length>>

(* A reader fills the slave read last, and does nothing else.              *)
Filling(k) ==
  /\ load' = load /\ masters' = masters
  /\ IsSequence(slaves') /\ Len(slaves') = Len(slaves)
  /\ \A i \in DOMAIN slaves : i # Len(slaves) => slaves'[i] = slaves[i]
  /\ Advanced(slaves[Len(slaves)], slaves'[Len(slaves)], chain[k])

(* A reader that fills the slave leaves the next one at the next record.   *)
LEMMA InnerRead ==
  ASSUME NEW type \in InSlave, NEW k, Reads(type, k), Filling(k)
  PROVE  Consuming'
<1>1. /\ Structure(chain, length) /\ Tallied(chain, 0) /\ IsSequence(chain) /\ Produced
      /\ load = "Parsing" /\ Consuming /\ IsSequence(slaves) /\ chain' = chain /\ length' = length
  BY DEF Reads, Produced, Structure, TreeInv
<1>2. type \notin {"Raw", "End", "Slave", "Master"}
  BY DEF InSlave, Layout, WithData
<1>3. /\ ReadUpTo(k) /\ k \in Records(chain) /\ chain[k].type = type
      /\ pos' \in Nat /\ pos' <= length
      /\ \E j \in Records(chain) : NextRecord(chain, k, j) /\ chain[j].off = pos'
  BY <1>2, AtRecord DEF Reads
<1>4. PICK j \in Records(chain) : NextRecord(chain, k, j) /\ chain[j].off = pos'
  BY <1>3
<1>5. PICK s \in DOMAIN chain :
        SlaveBefore(chain, k, s) /\ SlaveRead(chain, slaves[Len(slaves)], s, k)
  BY <1>1, <1>3, <1>4, TheSlave
<1>6. Len(slaves) > 0
  BY <1>1, <1>3, <1>4, TheSlave
<1>7. SlaveRead(chain, slaves'[Len(slaves)], s, j) /\ SlaveFits(slaves'[Len(slaves)])
  BY <1>1, <1>2, <1>3, <1>4, <1>5, ReadAdvances DEF Filling
<1>8. /\ IsSequence(slaves') /\ Len(slaves') = Len(slaves) /\ DOMAIN slaves' = DOMAIN slaves
      /\ \A i \in DOMAIN slaves : i # Len(slaves) => slaves'[i] = slaves[i]
      /\ masters' = masters /\ load' = "Parsing"
  BY <1>1, SequenceDomain DEF Filling
<1>9. \A t \in DOMAIN chain : SlaveBefore(chain, j, t) => t = s
  <2>1. \A t \in DOMAIN chain : SlaveBefore(chain, j, t) => SlaveBefore(chain, k, t)
    BY <1>1, <1>2, <1>3, <1>4, BeforeNext
  <2>2. DOMAIN chain = 1 .. Len(chain) /\ Len(chain) \in Nat /\ k \in DOMAIN chain
    BY <1>1, <1>3, SequenceDomain DEF Records
  <2>3. \A t \in DOMAIN chain : SlaveBefore(chain, k, t) => t = s
    BY <1>5, <2>2 DEF SlaveBefore
  <2> QED
    BY <2>1, <2>3
<1>10. Between(chain, 0, j, "Master") => Len(masters') > 0
  <2>1. Between(chain, 0, j, "Master") => Between(chain, 0, k, "Master")
    BY <1>1, <1>2, <1>3, <1>4, BeforeNext
  <2> QED
    BY <1>3, <1>8, <2>1 DEF ReadUpTo
<1>11. ReadUpTo(j)'
  BY <1>1, <1>4, <1>6, <1>7, <1>8, <1>9, <1>10 DEF ReadUpTo
<1>12. \A i \in DOMAIN slaves' : SlaveFits(slaves'[i])
  BY <1>1, <1>7, <1>8 DEF Consuming
<1>13. j \in DOMAIN chain
  BY DEF Records
<1> QED
  BY <1>1, <1>3, <1>8, <1>11, <1>12, <1>13 DEF Consuming

(* The slave that is being filled, as its readers see it.                  *)
LEMMA FillingSlave ==
  ASSUME NEW type \in InSlave, NEW k, Reads(type, k)
  PROVE  /\ chain[k].type = type /\ RecordWellFormed(chain[k]) /\ IsSequence(slaves)
         /\ slave \in Nat /\ slave > 0 /\ slave \in DOMAIN slaves
         /\ SizesOf \cup Contents \subseteq DOMAIN Slave
         /\ IsSequence(Slave.sms) /\ IsSequence(Slave.pdos)
         /\ IsSequence(Slave.entries) /\ IsSequence(Slave.pins)
         /\ Slave.params \in Nat /\ Slave.sdoUsed \in Nat /\ Slave.idnUsed \in Nat
         /\ type \in Layout => Slave.generic
         /\ type = "PdoEntry" => Slave.dir # "unspecified"
         /\ type = "ComplexEntry" => Len(Slave.entries) > 0
         /\ type = "ModParam" => Slave.nparams # 0
         /\ type = "SdoConfig" => Slave.sdoSize # 0
         /\ type = "IdnConfig" => Slave.idnSize # 0
<1>1. /\ Structure(chain, length) /\ Tallied(chain, 0) /\ IsSequence(chain) /\ Produced
      /\ \A i \in DOMAIN chain : RecordWellFormed(chain[i])
      /\ load = "Parsing" /\ Consuming /\ IsSequence(slaves)
  BY DEF Reads, Produced, Structure, TreeInv
<1>2. type \notin {"Raw", "End"}
  BY DEF InSlave, Layout, WithData
<1>3. /\ ReadUpTo(k) /\ k \in Records(chain) /\ chain[k].type = type
      /\ \E j \in Records(chain) : NextRecord(chain, k, j)
  BY <1>2, AtRecord DEF Reads
<1>4. PICK j \in Records(chain) : NextRecord(chain, k, j)
  BY <1>3
<1>5. PICK s \in DOMAIN chain :
        SlaveBefore(chain, k, s) /\ SlaveRead(chain, slaves[Len(slaves)], s, k)
  BY <1>1, <1>3, <1>4, TheSlave
<1>6. /\ Len(slaves) > 0
      /\ type \in Layout => slaves[Len(slaves)].generic
      /\ type = "PdoEntry" => slaves[Len(slaves)].dir # "unspecified"
      /\ type = "ComplexEntry" => Len(slaves[Len(slaves)].entries) > 0
      /\ type = "ModParam" => slaves[Len(slaves)].nparams # 0
      /\ type = "SdoConfig" => slaves[Len(slaves)].sdoSize # 0
      /\ type = "IdnConfig" => slaves[Len(slaves)].idnSize # 0
  BY <1>1, <1>3, <1>4, TheSlave
<1>7. slave \in Nat /\ slave > 0 /\ slave \in DOMAIN slaves
  BY <1>1, <1>6, SequenceDomain DEF slave
<1>8. slaves[Len(slaves)].params \in Nat /\ slaves[Len(slaves)].sdoUsed \in Nat
  <2>1. "params" \in Fields /\ "sdoLength" \in Fields
    BY DEF Fields
  <2>2. Part(chain, "params", s, k) \in Nat /\ Part(chain, "sdoLength", s, k) \in Nat
    BY <1>1, <2>1, PartType
  <2> QED
    BY <1>5, <2>2 DEF SlaveRead
<1>9. k \in DOMAIN chain
  BY <1>3 DEF Records
<1> QED
  BY <1>1, <1>3, <1>5, <1>6, <1>7, <1>8, <1>9 DEF Slave, slave, SlaveRead

(* Fields of the slave are set.                                            *)
LEMMA FieldsSet ==
  ASSUME IsSequence(slaves), slave \in DOMAIN slaves, NEW h, Set(h)
  PROVE  /\ load' = load /\ masters' = masters
         /\ IsSequence(slaves') /\ Len(slaves') = Len(slaves)
         /\ \A i \in DOMAIN slaves : i # Len(slaves) => slaves'[i] = slaves[i]
         /\ DOMAIN slaves'[Len(slaves)] = DOMAIN Slave
         /\ \A f \in DOMAIN Slave :
              slaves'[Len(slaves)][f] = IF f \in DOMAIN h THEN h[f] ELSE Slave[f]
<1> DEFINE s == [f \in DOMAIN Slave |-> IF f \in DOMAIN h THEN h[f] ELSE Slave[f]]
<1>1. slaves' = [slaves EXCEPT ![slave] = s] /\ masters' = masters /\ load' = load
  BY DEF Set, Slave
<1>2. /\ DOMAIN s = DOMAIN Slave
      /\ \A f \in DOMAIN Slave : s[f] = IF f \in DOMAIN h THEN h[f] ELSE Slave[f]
  OBVIOUS
<1> HIDE DEF s
<1>3. /\ IsSequence(slaves') /\ Len(slaves') = Len(slaves)
      /\ \A j \in DOMAIN slaves : slaves'[j] = IF j = slave THEN s ELSE slaves[j]
  BY <1>1, Replaced
<1> QED
  BY <1>1, <1>2, <1>3 DEF slave

(* A reader sets some of the fields; what is set fits the record.          *)
Wanted(h, f) == IF f \in DOMAIN h THEN h[f] ELSE Slave[f]

(* What is set fits the record.                                            *)
Adds(h, r) ==
  /\ DOMAIN h \subseteq Contents
  /\ IsSequence(Wanted(h, "sms")) /\ IsSequence(Wanted(h, "pdos"))
  /\ IsSequence(Wanted(h, "entries")) /\ IsSequence(Wanted(h, "pins"))
  /\ Len(Wanted(h, "sms")) = Len(Slave.sms) + Weight("sms", r)
  /\ Len(Wanted(h, "pdos")) = Len(Slave.pdos) + Weight("pdos", r)
  /\ Len(Wanted(h, "entries")) = Len(Slave.entries) + Weight("entries", r)
  /\ Len(Wanted(h, "pins")) = Len(Slave.pins) + Weight("pins", r)
  /\ Wanted(h, "params") = Slave.params + Weight("params", r)
  /\ Wanted(h, "sdoUsed") = Slave.sdoUsed + Weight("sdoLength", r)
  /\ Wanted(h, "idnUsed") \in Nat
  /\ Wanted(h, "idnUsed") <= Slave.idnUsed + Weight("idnLength", r)
  /\ Slave.dir # "unspecified" \/ r.type = "SyncManager" => Wanted(h, "dir") # "unspecified"

(* A reader whose fields fit the record fills the slave.                   *)
LEMMA SetFills ==
  ASSUME NEW type \in InSlave, NEW k, Reads(type, k), NEW h, Set(h), Adds(h, chain[k])
  PROVE  Consuming'
<1>1. /\ IsSequence(slaves) /\ slave \in DOMAIN slaves /\ SizesOf \cup Contents \subseteq DOMAIN Slave
  BY FillingSlave
<1>2. /\ load' = load /\ masters' = masters
      /\ IsSequence(slaves') /\ Len(slaves') = Len(slaves)
      /\ \A i \in DOMAIN slaves : i # Len(slaves) => slaves'[i] = slaves[i]
      /\ DOMAIN slaves'[Len(slaves)] = DOMAIN Slave
      /\ \A f \in DOMAIN Slave : slaves'[Len(slaves)][f] = Wanted(h, f)
  BY <1>1, FieldsSet DEF Wanted
<1> DEFINE new == slaves'[Len(slaves)]
           old == slaves[Len(slaves)]
<1>3. old = Slave
  BY DEF Slave, slave
<1> HIDE DEF new, old
<1>4. /\ \A f \in SizesOf : f \in DOMAIN Slave /\ f \notin DOMAIN h
      /\ \A f \in Contents : f \in DOMAIN Slave
  BY <1>1 DEF Adds, SizesOf, Contents
<1>5. /\ \A f \in SizesOf : new[f] = old[f]
      /\ \A f \in Contents : new[f] = Wanted(h, f)
  BY <1>2, <1>3, <1>4 DEF new, Wanted
<1>6. DOMAIN new = DOMAIN old
  BY <1>2, <1>3 DEF new
<1>7. Advanced(old, new, chain[k])
  BY <1>3, <1>5, <1>6 DEF Advanced, Adds, SizesOf, Contents
<1>8. Filling(k)
  BY <1>2, <1>7 DEF Filling, old, new
<1> QED
  BY <1>8, InnerRead

(* Readers that leave the slave as it is.                                  *)
LEMMA KeepFills ==
  ASSUME NEW type \in {"DcConf", "Watchdog"}, NEW k, Reads(type, k), Keep
  PROVE  Consuming'
<1>1. type \in InSlave
  BY DEF InSlave
<1>2. /\ IsSequence(slaves) /\ chain[k].type = type
      /\ IsSequence(Slave.sms) /\ IsSequence(Slave.pdos)
      /\ IsSequence(Slave.entries) /\ IsSequence(Slave.pins)
      /\ Slave.params \in Nat /\ Slave.sdoUsed \in Nat /\ Slave.idnUsed \in Nat
  BY <1>1, FillingSlave
<1>3. Len(Slave.sms) \in Nat /\ Len(Slave.pdos) \in Nat /\ Len(Slave.entries) \in Nat /\ Len(Slave.pins) \in Nat
  BY <1>2, SequenceDomain
<1>4. \A f \in Fields : Weight(f, chain[k]) = 0
  BY <1>2 DEF Weight, Fields
<1>5. Advanced(Slave, Slave, chain[k])
  BY <1>2, <1>3, <1>4 DEF Advanced, Fields
<1>6. load' = load /\ masters' = masters /\ slaves' = slaves
  BY DEF Keep
<1>7. Filling(k)
  BY <1>2, <1>5, <1>6 DEF Filling, Slave, slave
<1> QED
  BY <1>1, <1>7, InnerRead

(* What the readers of the records inside a slave set fits the record.     *)
LEMMA SettingsRead ==
  ASSUME NEW type \in {"DcConf", "Watchdog", "ModParam"}, NEW k, Reads(type, k),
         ReadDcConf(k) \/ ReadWatchdog(k) \/ ReadModParam(k)
  PROVE  Consuming'
<1>1. type \in InSlave
  BY DEF InSlave
<1>2. /\ IsSequence(slaves) /\ chain[k].type = type
      /\ IsSequence(Slave.sms) /\ IsSequence(Slave.pdos)
      /\ IsSequence(Slave.entries) /\ IsSequence(Slave.pins)
      /\ Slave.params \in Nat /\ Slave.sdoUsed \in Nat /\ Slave.idnUsed \in Nat
      /\ slave \in Nat /\ slave > 0 /\ (type = "ModParam" => Slave.nparams # 0)
  BY <1>1, FillingSlave
<1>3. Len(Slave.sms) \in Nat /\ Len(Slave.pdos) \in Nat /\ Len(Slave.entries) \in Nat /\ Len(Slave.pins) \in Nat
  BY <1>2, SequenceDomain
<1>4. /\ \A f \in Fields \ {"params"} : Weight(f, chain[k]) = 0
      /\ Weight("params", chain[k]) = IF type = "ModParam" THEN 1 ELSE 0
  BY <1>2 DEF Weight, Fields
<1>5. CASE type \in {"DcConf", "Watchdog"} /\ Keep
  BY <1>5, KeepFills
<1>6. CASE type = "DcConf" /\ Set([dc |-> k])
  <2> DEFINE h == [dc |-> k]
  <2>1. DOMAIN h = {"dc"}
    OBVIOUS
  <2>2. \A f \in Contents \ {"dc"} : Wanted(h, f) = Slave[f]
    BY <2>1 DEF Wanted
  <2> HIDE DEF h
  <2>3. Adds(h, chain[k])
    BY <1>2, <1>3, <1>4, <1>6, <2>1, <2>2 DEF Adds, Contents, Fields
  <2> QED
    BY <1>1, <1>6, <2>3, SetFills DEF h
<1>7. CASE type = "Watchdog" /\ Set([wd |-> k])
  <2> DEFINE h == [wd |-> k]
  <2>1. DOMAIN h = {"wd"}
    OBVIOUS
  <2>2. \A f \in Contents \ {"wd"} : Wanted(h, f) = Slave[f]
    BY <2>1 DEF Wanted
  <2> HIDE DEF h
  <2>3. Adds(h, chain[k])
    BY <1>2, <1>3, <1>4, <1>7, <2>1, <2>2 DEF Adds, Contents, Fields
  <2> QED
    BY <1>1, <1>7, <2>3, SetFills DEF h
<1>8. CASE type = "ModParam" /\ Set([params |-> Slave.params + 1])
  <2> DEFINE h == [params |-> Slave.params + 1]
  <2>1. DOMAIN h = {"params"} /\ h["params"] = Slave.params + 1
    OBVIOUS
  <2>2. /\ \A f \in Contents \ {"params"} : Wanted(h, f) = Slave[f]
        /\ Wanted(h, "params") = Slave.params + 1
    BY <2>1 DEF Wanted
  <2> HIDE DEF h
  <2>3. Adds(h, chain[k])
    BY <1>2, <1>3, <1>4, <1>8, <2>1, <2>2 DEF Adds, Contents, Fields
  <2> QED
    BY <1>1, <1>8, <2>3, SetFills DEF h
<1>9. \/ type \in {"DcConf", "Watchdog"} /\ Keep
      \/ type = "DcConf" /\ Set([dc |-> k])
      \/ type = "Watchdog" /\ Set([wd |-> k])
      \/ type = "ModParam" /\ Set([params |-> Slave.params + 1])
  <2>1. slave # 0
    BY <1>2
  <2>2. Take("DcConf", k) => type = "DcConf"
    BY <1>2 DEF Take
  <2>3. Take("Watchdog", k) => type = "Watchdog"
    BY <1>2 DEF Take
  <2>4. Take("ModParam", k) => type = "ModParam"
    BY <1>2 DEF Take
  <2>5. ReadDcConf(k) => type = "DcConf" /\ (Keep \/ Set([dc |-> k]))
    BY <2>1, <2>2 DEF ReadDcConf
  <2>6. ReadWatchdog(k) => type = "Watchdog" /\ (Keep \/ Set([wd |-> k]))
    BY <2>1, <2>3 DEF ReadWatchdog
  <2>7. ReadModParam(k) => type = "ModParam" /\ Set([params |-> Slave.params + 1])
    BY <1>2, <2>1, <2>4 DEF ReadModParam
  <2> QED
    BY <2>5, <2>6, <2>7
<1> QED
  BY <1>5, <1>6, <1>7, <1>8, <1>9

(* A sync manager fills one place of its array, and sets the direction.    *)
LEMMA ManagerRead ==
  ASSUME NEW k, Reads("SyncManager", k), ReadSyncManager(k)
  PROVE  Consuming'
<1> DEFINE h == [sms |-> Append(Slave.sms, Slice(k, Slave.pdos, chain[k].pdos)),
                 dir |-> IF chain[k].dir = "in" THEN "HAL_OUT" ELSE "HAL_IN"]
<1>1. "SyncManager" \in InSlave /\ "SyncManager" \in Layout
  BY DEF InSlave, Layout
<1>2. /\ chain[k].type = "SyncManager"
      /\ IsSequence(Slave.sms) /\ IsSequence(Slave.pdos)
      /\ IsSequence(Slave.entries) /\ IsSequence(Slave.pins)
      /\ Slave.params \in Nat /\ Slave.sdoUsed \in Nat /\ Slave.idnUsed \in Nat
      /\ slave \in Nat /\ slave > 0 /\ Slave.generic
  BY <1>1, FillingSlave
<1>3. Len(Slave.sms) \in Nat /\ Len(Slave.pdos) \in Nat /\ Len(Slave.entries) \in Nat /\ Len(Slave.pins) \in Nat
  BY <1>2, SequenceDomain
<1>4. /\ \A f \in Fields \ {"sms"} : Weight(f, chain[k]) = 0
      /\ Weight("sms", chain[k]) = 1
  BY <1>2 DEF Weight, Fields
<1>5. Set(h)
  BY <1>2 DEF ReadSyncManager
<1>6. DOMAIN h = {"sms", "dir"} /\ h["dir"] \in {"HAL_OUT", "HAL_IN"}
  OBVIOUS
<1>7. IsSequence(h["sms"]) /\ Len(h["sms"]) = Len(Slave.sms) + 1
  BY <1>2, Appended
<1>8. /\ \A f \in Contents \ {"sms", "dir"} : Wanted(h, f) = Slave[f]
      /\ Wanted(h, "sms") = h["sms"] /\ Wanted(h, "dir") = h["dir"]
  BY <1>6 DEF Wanted
<1> HIDE DEF h
<1>9. Adds(h, chain[k])
  BY <1>2, <1>3, <1>4, <1>6, <1>7, <1>8 DEF Adds, Contents, Fields
<1> QED
  BY <1>1, <1>5, <1>9, SetFills

(* A PDO fills one place of its array.                                     *)
LEMMA PdoRead ==
  ASSUME NEW k, Reads("Pdo", k), ReadPdo(k)
  PROVE  Consuming'
<1> DEFINE h == [pdos |-> Append(Slave.pdos, Slice(k, Slave.entries, chain[k].entries))]
<1>1. "Pdo" \in InSlave /\ "Pdo" \in Layout
  BY DEF InSlave, Layout
<1>2. /\ chain[k].type = "Pdo"
      /\ IsSequence(Slave.sms) /\ IsSequence(Slave.pdos)
      /\ IsSequence(Slave.entries) /\ IsSequence(Slave.pins)
      /\ Slave.params \in Nat /\ Slave.sdoUsed \in Nat /\ Slave.idnUsed \in Nat
      /\ slave \in Nat /\ slave > 0 /\ Slave.generic
  BY <1>1, FillingSlave
<1>3. Len(Slave.sms) \in Nat /\ Len(Slave.pdos) \in Nat /\ Len(Slave.entries) \in Nat /\ Len(Slave.pins) \in Nat
  BY <1>2, SequenceDomain
<1>4. /\ \A f \in Fields \ {"pdos"} : Weight(f, chain[k]) = 0
      /\ Weight("pdos", chain[k]) = 1
  BY <1>2 DEF Weight, Fields
<1>5. Set(h)
  BY <1>2 DEF ReadPdo
<1>6. DOMAIN h = {"pdos"}
  OBVIOUS
<1>7. IsSequence(h["pdos"]) /\ Len(h["pdos"]) = Len(Slave.pdos) + 1
  BY <1>2, Appended
<1>8. /\ \A f \in Contents \ {"pdos"} : Wanted(h, f) = Slave[f]
      /\ Wanted(h, "pdos") = h["pdos"]
  BY <1>6 DEF Wanted
<1> HIDE DEF h
<1>9. Adds(h, chain[k])
  BY <1>2, <1>3, <1>4, <1>6, <1>7, <1>8 DEF Adds, Contents, Fields
<1> QED
  BY <1>1, <1>5, <1>9, SetFills

(* A pin is allocated for every entry that has one.                        *)
LEMMA PinRead ==
  ASSUME NEW k, IsSequence(Slave.pins), NEW p, NEW e, e = chain[k].pin,
         NEW new, new = IF e THEN Append(Slave.pins, p) ELSE Slave.pins
  PROVE  IsSequence(new) /\ Len(new) = Len(Slave.pins) + PinCount(chain[k].pin)
<1>1. IsSequence(Append(Slave.pins, p)) /\ Len(Append(Slave.pins, p)) = Len(Slave.pins) + 1
  BY Appended
<1>2. Len(Slave.pins) \in Nat
  BY SequenceDomain
<1>3. CASE e
  BY <1>1, <1>3 DEF PinCount
<1>4. CASE ~ e
  BY <1>2, <1>4 DEF PinCount
<1> QED
  BY <1>3, <1>4

(* A PDO entry fills one place, and one pin if it has one.                 *)
LEMMA EntryRead ==
  ASSUME NEW k, Reads("PdoEntry", k), ReadPdoEntry(k)
  PROVE  Consuming'
<1> DEFINE h == [entries |-> Append(Slave.entries, k),
                 pins |-> IF chain[k].pin THEN Append(Slave.pins, Pin(k, k)) ELSE Slave.pins]
<1>1. "PdoEntry" \in InSlave /\ "PdoEntry" \in Layout
  BY DEF InSlave, Layout
<1>2. /\ chain[k].type = "PdoEntry"
      /\ IsSequence(Slave.sms) /\ IsSequence(Slave.pdos)
      /\ IsSequence(Slave.entries) /\ IsSequence(Slave.pins)
      /\ Slave.params \in Nat /\ Slave.sdoUsed \in Nat /\ Slave.idnUsed \in Nat
      /\ slave \in Nat /\ slave > 0 /\ Slave.generic /\ Slave.dir # "unspecified"
  BY <1>1, FillingSlave
<1>3. Len(Slave.sms) \in Nat /\ Len(Slave.pdos) \in Nat /\ Len(Slave.entries) \in Nat /\ Len(Slave.pins) \in Nat
  BY <1>2, SequenceDomain
<1>4. /\ \A f \in Fields \ {"entries", "pins"} : Weight(f, chain[k]) = 0
      /\ Weight("entries", chain[k]) = 1
      /\ Weight("pins", chain[k]) = PinCount(chain[k].pin)
  BY <1>2 DEF Weight, Fields
<1>5. Set(h)
  BY <1>2 DEF ReadPdoEntry
<1>6. DOMAIN h = {"entries", "pins"}
  OBVIOUS
<1>7. IsSequence(h["entries"]) /\ Len(h["entries"]) = Len(Slave.entries) + 1
  BY <1>2, Appended
<1>8. IsSequence(h["pins"]) /\ Len(h["pins"]) = Len(Slave.pins) + PinCount(chain[k].pin)
  BY <1>2, PinRead
<1>9. /\ \A f \in Contents \ {"entries", "pins"} : Wanted(h, f) = Slave[f]
      /\ Wanted(h, "entries") = h["entries"] /\ Wanted(h, "pins") = h["pins"]
  BY <1>6 DEF Wanted
<1> HIDE DEF h
<1>10. /\ \A f \in {"sms", "pdos", "params", "sdoUsed", "idnUsed", "dir"} : Wanted(h, f) = Slave[f]
       /\ \A f \in {"sms", "pdos", "params", "sdoLength", "idnLength"} : Weight(f, chain[k]) = 0
       /\ DOMAIN h \subseteq Contents
  BY <1>4, <1>6, <1>9 DEF Contents, Fields
<1>11. /\ Wanted(h, "sms") = Slave.sms /\ Wanted(h, "pdos") = Slave.pdos
       /\ Wanted(h, "params") = Slave.params /\ Wanted(h, "dir") = Slave.dir
       /\ Wanted(h, "sdoUsed") = Slave.sdoUsed /\ Wanted(h, "idnUsed") = Slave.idnUsed
       /\ Weight("sms", chain[k]) = 0 /\ Weight("pdos", chain[k]) = 0
       /\ Weight("params", chain[k]) = 0
       /\ Weight("sdoLength", chain[k]) = 0 /\ Weight("idnLength", chain[k]) = 0
  BY <1>10
<1>12. /\ IsSequence(Wanted(h, "entries")) /\ IsSequence(Wanted(h, "pins"))
       /\ Len(Wanted(h, "entries")) = Len(Slave.entries) + Weight("entries", chain[k])
       /\ Len(Wanted(h, "pins")) = Len(Slave.pins) + Weight("pins", chain[k])
  BY <1>4, <1>7, <1>8, <1>9
<1>13. chain[k].type # "SyncManager"
  BY <1>2
<1>14. Adds(h, chain[k])
  BY <1>2, <1>3, <1>10, <1>11, <1>12, <1>13 DEF Adds
<1> QED
  BY <1>1, <1>5, <1>14, SetFills

(* A complex entry fills one pin if it has one.                            *)
LEMMA ComplexRead ==
  ASSUME NEW k, Reads("ComplexEntry", k), ReadComplexEntry(k)
  PROVE  Consuming'
<1> DEFINE h == [pins |-> IF chain[k].pin
                          THEN Append(Slave.pins, Pin(k, Slave.entries[Len(Slave.entries)]))
                          ELSE Slave.pins]
<1>1. "ComplexEntry" \in InSlave /\ "ComplexEntry" \in Layout
  BY DEF InSlave, Layout
<1>2. /\ chain[k].type = "ComplexEntry"
      /\ IsSequence(Slave.sms) /\ IsSequence(Slave.pdos)
      /\ IsSequence(Slave.entries) /\ IsSequence(Slave.pins)
      /\ Slave.params \in Nat /\ Slave.sdoUsed \in Nat /\ Slave.idnUsed \in Nat
      /\ slave \in Nat /\ slave > 0 /\ Slave.generic /\ Len(Slave.entries) > 0
  BY <1>1, FillingSlave
<1>3. Len(Slave.sms) \in Nat /\ Len(Slave.pdos) \in Nat /\ Len(Slave.entries) \in Nat /\ Len(Slave.pins) \in Nat
  BY <1>2, SequenceDomain
<1>4. /\ \A f \in Fields \ {"pins"} : Weight(f, chain[k]) = 0
      /\ Weight("pins", chain[k]) = PinCount(chain[k].pin)
  BY <1>2 DEF Weight, Fields
<1>5. Set(h)
  <2>1. Slave.entries # << >>
    BY <1>2
  <2> QED
    BY <1>2, <2>1 DEF ReadComplexEntry
<1>6. DOMAIN h = {"pins"}
  OBVIOUS
<1>7. IsSequence(h["pins"]) /\ Len(h["pins"]) = Len(Slave.pins) + PinCount(chain[k].pin)
  BY <1>2, PinRead
<1>8. /\ \A f \in Contents \ {"pins"} : Wanted(h, f) = Slave[f]
      /\ Wanted(h, "pins") = h["pins"]
  BY <1>6 DEF Wanted
<1> HIDE DEF h
<1>9. Adds(h, chain[k])
  BY <1>2, <1>3, <1>4, <1>6, <1>7, <1>8 DEF Adds, Contents, Fields
<1> QED
  BY <1>1, <1>5, <1>9, SetFills

(* A command and its data fill no more than their record takes.            *)
LEMMA CommandRead ==
  ASSUME NEW type \in WithData, NEW k, Reads(type, k), ReadSdoConfig(k) \/ ReadIdnConfig(k)
  PROVE  Consuming'
<1> DEFINE used == IF type = "SdoConfig" THEN "sdoUsed" ELSE "idnUsed"
           list == IF type = "SdoConfig" THEN "sdos" ELSE "idns"
           hs == [sdoUsed |-> Slave.sdoUsed + 16 + chain[k].len, sdos |-> Append(Slave.sdos, k)]
           hi == [idnUsed |-> Slave.idnUsed + 16 + chain[k].len, idns |-> Append(Slave.idns, k)]
           h == IF type = "SdoConfig" THEN hs ELSE hi
<1>1. type \in InSlave /\ type \in {"SdoConfig", "IdnConfig"}
  BY DEF InSlave, WithData
<1>2. /\ chain[k].type = type /\ RecordWellFormed(chain[k])
      /\ IsSequence(Slave.sms) /\ IsSequence(Slave.pdos)
      /\ IsSequence(Slave.entries) /\ IsSequence(Slave.pins)
      /\ Slave.params \in Nat /\ Slave.sdoUsed \in Nat /\ Slave.idnUsed \in Nat
      /\ slave \in Nat /\ slave > 0
      /\ type = "SdoConfig" => Slave.sdoSize # 0
      /\ type = "IdnConfig" => Slave.idnSize # 0
  BY <1>1, FillingSlave
<1>3. Len(Slave.sms) \in Nat /\ Len(Slave.pdos) \in Nat /\ Len(Slave.entries) \in Nat /\ Len(Slave.pins) \in Nat
  BY <1>2, SequenceDomain
<1>4. chain[k].len \in Nat
  BY <1>2 DEF RecordWellFormed
<1>5. /\ \A f \in Fields \ {"sdoLength", "idnLength"} : Weight(f, chain[k]) = 0
      /\ Weight("sdoLength", chain[k]) = IF type = "SdoConfig" THEN 16 + chain[k].len ELSE 0
      /\ Weight("idnLength", chain[k]) = IF type = "IdnConfig" THEN 24 + chain[k].len ELSE 0
  BY <1>1, <1>2 DEF Weight, Fields, SizeOf
<1>6. Set(h)
  <2>1. slave # 0
    BY <1>2
  <2>2. ReadSdoConfig(k) => type = "SdoConfig" /\ Set(hs)
    BY <1>2, <2>1 DEF ReadSdoConfig, Take
  <2>3. ReadIdnConfig(k) => type = "IdnConfig" /\ Set(hi)
    BY <1>2, <2>1 DEF ReadIdnConfig, Take
  <2> QED
    BY <2>2, <2>3
<1>7. DOMAIN h = {used, list} /\ h[used] = Slave[used] + 16 + chain[k].len
  BY <1>1
<1> HIDE DEF h
<1>8. /\ \A f \in Contents \ {used, list} : Wanted(h, f) = Slave[f]
      /\ Wanted(h, used) = Slave[used] + 16 + chain[k].len
  BY <1>7 DEF Wanted
<1>9. Adds(h, chain[k])
  <2>1. CASE type = "SdoConfig"
    <3>1. /\ \A f \in Contents \ {"sdoUsed", "sdos"} : Wanted(h, f) = Slave[f]
          /\ Wanted(h, "sdoUsed") = Slave.sdoUsed + 16 + chain[k].len
      BY <1>8, <2>1
    <3>2. DOMAIN h = {"sdoUsed", "sdos"}
      BY <1>7, <2>1
    <3>3. /\ \A f \in {"sms", "pdos", "entries", "pins", "params", "idnUsed", "dir"} : Wanted(h, f) = Slave[f]
          /\ DOMAIN h \subseteq Contents
      BY <3>1, <3>2 DEF Contents
    <3>4. /\ \A f \in {"sms", "pdos", "entries", "pins", "params"} : Weight(f, chain[k]) = 0
      BY <1>5 DEF Fields
    <3>5. Weight("sdoLength", chain[k]) = 16 + chain[k].len /\ Weight("idnLength", chain[k]) = 0
      BY <1>5, <2>1
    <3>6. /\ Wanted(h, "sdoUsed") = Slave.sdoUsed + 16 + chain[k].len
          /\ Wanted(h, "idnUsed") = Slave.idnUsed /\ Wanted(h, "dir") = Slave.dir
          /\ Wanted(h, "sms") = Slave.sms /\ Wanted(h, "pdos") = Slave.pdos
          /\ Wanted(h, "entries") = Slave.entries /\ Wanted(h, "pins") = Slave.pins
          /\ Wanted(h, "params") = Slave.params
      BY <3>1, <3>3
    <3>7. chain[k].type # "SyncManager"
      BY <1>2, <2>1
    <3>8. Slave.sdoUsed + 16 + chain[k].len = Slave.sdoUsed + (16 + chain[k].len)
      BY <1>2, <1>4
    <3>9. /\ Wanted(h, "sdoUsed") = Slave.sdoUsed + Weight("sdoLength", chain[k])
          /\ Wanted(h, "idnUsed") \in Nat
          /\ Wanted(h, "idnUsed") <= Slave.idnUsed + Weight("idnLength", chain[k])
      BY <1>2, <3>5, <3>6, <3>8
    <3> QED
      BY <1>2, <1>3, <3>3, <3>4, <3>6, <3>7, <3>9 DEF Adds
  <2>2. CASE type = "IdnConfig"
    <3>1. /\ \A f \in Contents \ {"idnUsed", "idns"} : Wanted(h, f) = Slave[f]
          /\ Wanted(h, "idnUsed") = Slave.idnUsed + 16 + chain[k].len
      BY <1>8, <2>2
    <3>2. DOMAIN h = {"idnUsed", "idns"}
      BY <1>7, <2>2
    <3>3. /\ \A f \in {"sms", "pdos", "entries", "pins", "params", "sdoUsed", "dir"} : Wanted(h, f) = Slave[f]
          /\ DOMAIN h \subseteq Contents
      BY <3>1, <3>2 DEF Contents
    <3>4. /\ \A f \in {"sms", "pdos", "entries", "pins", "params"} : Weight(f, chain[k]) = 0
      BY <1>5 DEF Fields
    <3>5. Weight("sdoLength", chain[k]) = 0 /\ Weight("idnLength", chain[k]) = 24 + chain[k].len
      BY <1>5, <2>2
    <3>6. /\ Wanted(h, "idnUsed") = Slave.idnUsed + 16 + chain[k].len
          /\ Wanted(h, "sdoUsed") = Slave.sdoUsed /\ Wanted(h, "dir") = Slave.dir
          /\ Wanted(h, "sms") = Slave.sms /\ Wanted(h, "pdos") = Slave.pdos
          /\ Wanted(h, "entries") = Slave.entries /\ Wanted(h, "pins") = Slave.pins
          /\ Wanted(h, "params") = Slave.params
      BY <3>1, <3>3
    <3>7. chain[k].type # "SyncManager"
      BY <1>2, <2>2
    <3>8. Slave.idnUsed + 16 + chain[k].len <= Slave.idnUsed + (24 + chain[k].len)
      BY <1>2, <1>4
    <3>9. /\ Wanted(h, "sdoUsed") = Slave.sdoUsed + Weight("sdoLength", chain[k])
          /\ Wanted(h, "idnUsed") \in Nat
          /\ Wanted(h, "idnUsed") <= Slave.idnUsed + Weight("idnLength", chain[k])
      BY <1>2, <1>4, <3>5, <3>6, <3>8
    <3> QED
      BY <1>2, <1>3, <3>3, <3>4, <3>6, <3>7, <3>9 DEF Adds
  <2> QED
    BY <1>1, <2>1, <2>2
<1> QED
  BY <1>1, <1>6, <1>9, SetFills

(* A record outside the slaves leaves what was read of them as it is.      *)
LEMMA MasterRead ==
  ASSUME NEW k, Reads("Master", k), ReadMaster(k)
  PROVE  Consuming'
<1>1. /\ Structure(chain, length) /\ Tallied(chain, 0) /\ IsSequence(chain) /\ Produced
      /\ \A i \in DOMAIN chain : RecordWellFormed(chain[i])
      /\ load = "Parsing" /\ Consuming /\ IsSequence(masters) /\ chain' = chain /\ length' = length
  BY DEF Reads, Produced, Structure, TreeInv
<1>2. /\ ReadUpTo(k) /\ k \in Records(chain) /\ chain[k].type = "Master"
      /\ pos' \in Nat /\ pos' <= length
      /\ \E j \in Records(chain) : NextRecord(chain, k, j) /\ chain[j].off = pos'
  BY AtRecord DEF Reads
<1>3. PICK j \in Records(chain) : NextRecord(chain, k, j) /\ chain[j].off = pos'
  BY <1>2
<1>4. load' = "Parsing" /\ slaves' = slaves /\ Len(masters') > 0
  <2>1. masters' = Append(masters, [id |-> k, units |-> << >>])
    BY DEF ReadMaster
  <2>2. Len(masters') = Len(masters) + 1
    BY <1>1, <2>1, Appended
  <2>3. Len(masters) \in Nat
    BY <1>1, SequenceDomain
  <2> QED
    BY <1>1, <2>2, <2>3 DEF ReadMaster
<1>5. ASSUME NEW s \in DOMAIN chain, SlaveBefore(chain, j, s)
      PROVE  Len(slaves) > 0 /\ SlaveRead(chain, slaves[Len(slaves)], s, j)
  <2> DEFINE sl == slaves[Len(slaves)]
  <2>1. SlaveBefore(chain, k, s)
    BY <1>1, <1>2, <1>3, <1>5, BeforeNext
  <2>2. Len(slaves) > 0 /\ SlaveRead(chain, sl, s, k)
    BY <1>2, <2>1 DEF ReadUpTo
  <2> HIDE DEF sl
  <2>3. \A f \in Fields : Part(chain, f, s, k) \in Nat /\ Weight(f, chain[k]) = 0
    BY <1>1, <1>2, PartType DEF Weight, Fields
  <2>4. Advanced(sl, sl, chain[k])
    BY <1>2, <2>2, <2>3 DEF Advanced, SlaveRead, Fields
  <2>5. SlaveRead(chain, sl, s, j)
    BY <1>1, <1>2, <1>3, <2>1, <2>2, <2>4, ReadAdvances
  <2> QED
    BY <2>2, <2>5 DEF sl
<1>6. ReadUpTo(j)'
  BY <1>1, <1>3, <1>4, <1>5 DEF ReadUpTo
<1>7. j \in DOMAIN chain
  BY DEF Records
<1>8. \A i \in DOMAIN slaves' : SlaveFits(slaves'[i])
  BY <1>1, <1>4 DEF Consuming
<1> QED
  BY <1>1, <1>2, <1>4, <1>6, <1>7, <1>8 DEF Consuming

(* A new slave has the memory its record asks for, and nothing in it yet.  *)
LEMMA NewSlaveFits ==
  ASSUME NEW c, IsSequence(c), \A i \in DOMAIN c : RecordWellFormed(c[i]),
         NEW k \in Records(c), c[k].type = "Slave", NEW j, NextRecord(c, k, j)
  PROVE  /\ SlaveFits(NewSlave(k, c[k])) /\ SlaveRead(c, NewSlave(k, c[k]), k, j)
         /\ "master" \in DOMAIN NewSlave(k, c[k])
<1> DEFINE sl == NewSlave(k, c[k])
<1>1. k \in DOMAIN c /\ RecordWellFormed(c[k])
  BY DEF Records
<1>2. \A f \in Fields : c[k][f] \in Nat
  BY <1>1 DEF RecordWellFormed
<1>3. IsSequence(<< >>) /\ Len(<< >>) = 0
  <2>1. << >> \in Seq({})
    OBVIOUS
  <2> QED
    BY <2>1 DEF IsSequence
<1>4. /\ DOMAIN sl = {"id", "master", "unit", "generic", "nsms", "npdos", "nentries", "npins",
                      "nparams", "sdoSize", "idnSize", "dir", "sms", "pdos", "entries", "pins",
                      "params", "sdoUsed", "idnUsed", "sdos", "idns", "dc", "wd"}
      /\ sl.generic = (c[k].kind = "generic")
      /\ sl.nsms = c[k].sms /\ sl.npdos = c[k].pdos /\ sl.nentries = c[k].entries
      /\ sl.npins = c[k].pins /\ sl.nparams = c[k].params
      /\ sl.sdoSize = c[k].sdoLength /\ sl.idnSize = c[k].idnLength
      /\ sl.sms = << >> /\ sl.pdos = << >> /\ sl.entries = << >> /\ sl.pins = << >>
      /\ sl.params = 0 /\ sl.sdoUsed = 0 /\ sl.idnUsed = 0
  BY DEF NewSlave
<1> HIDE DEF sl
<1>5. SlaveFits(sl)
  BY <1>2, <1>3, <1>4 DEF SlaveFits, Fields
<1>6. Allocated(sl, c[k])
  BY <1>4 DEF Allocated
<1>7. \A f \in Fields : Part(c, f, k, j) = 0
  BY <1>1, PartNext
<1>8. ~ Between(c, k, j, "SyncManager")
  BY DEF Between, NextRecord
<1>9. SizesOf \cup Contents \subseteq DOMAIN sl
  BY <1>4 DEF SizesOf, Contents
<1>10. SlaveRead(c, sl, k, j)
  BY <1>3, <1>4, <1>6, <1>7, <1>8, <1>9 DEF SlaveRead, Fields
<1> QED
  BY <1>4, <1>5, <1>10 DEF sl

(* A slave stands behind a master, and starts empty.                       *)
LEMMA SlaveRecordRead ==
  ASSUME NEW k, Reads("Slave", k), ReadSlave(k)
  PROVE  Consuming'
<1>1. /\ Structure(chain, length) /\ Tallied(chain, 0) /\ IsSequence(chain) /\ Produced
      /\ \A i \in DOMAIN chain : RecordWellFormed(chain[i])
      /\ load = "Parsing" /\ Consuming /\ IsSequence(slaves) /\ chain' = chain /\ length' = length
      /\ IsSequence(masters) /\ IsSequence(slaves') /\ IsSequence(masters')
  BY DEF Reads, Produced, Structure, TreeInv
<1>2. /\ ReadUpTo(k) /\ k \in Records(chain) /\ chain[k].type = "Slave"
      /\ pos' \in Nat /\ pos' <= length
      /\ \E j \in Records(chain) : NextRecord(chain, k, j) /\ chain[j].off = pos'
  BY AtRecord DEF Reads
<1>3. PICK j \in Records(chain) : NextRecord(chain, k, j) /\ chain[j].off = pos'
  BY <1>2
<1>4. \A i \in DOMAIN slaves : SlaveFits(slaves[i])
  BY <1>1 DEF Consuming
<1>5. Len(masters) > 0 /\ master # 0
  <2>1. Between(chain, 0, k, "Master")
    BY <1>1, <1>2 DEF Structure, Belongs, Records
  <2> QED
    BY <1>2, <2>1 DEF ReadUpTo, master
<1>6. \/ load' = "Refused" /\ slaves' = slaves
      \/ load' = "Parsing" /\ slaves' = Append(slaves, NewSlave(k, chain[k]))
  BY <1>1, <1>5 DEF ReadSlave, Reject
<1>7. CASE load' = "Refused" /\ slaves' = slaves
  BY <1>1, <1>2, <1>4, <1>7 DEF Consuming
<1>8. CASE load' = "Parsing" /\ slaves' = Append(slaves, NewSlave(k, chain[k]))
  <2> DEFINE sl == NewSlave(k, chain[k])
  <2>1. SlaveFits(sl) /\ SlaveRead(chain, sl, k, j)
    BY <1>1, <1>2, <1>3, NewSlaveFits
  <2> HIDE DEF sl
  <2>2. /\ Len(slaves') = Len(slaves) + 1 /\ DOMAIN slaves' = DOMAIN slaves \cup {Len(slaves) + 1}
        /\ slaves'[Len(slaves) + 1] = sl /\ \A i \in DOMAIN slaves : slaves'[i] = slaves[i]
    BY <1>1, <1>8, Appended DEF sl
  <2>3. Len(slaves) \in Nat /\ Len(slaves') > 0 /\ slaves'[Len(slaves')] = sl
    BY <1>1, <2>2, SequenceDomain
  <2>4. \A i \in DOMAIN slaves' : SlaveFits(slaves'[i])
    BY <1>4, <2>1, <2>2
  <2>5. Len(masters') > 0
    <3>1. slaves'[Len(slaves) + 1].master \in DOMAIN masters'
      BY <2>2 DEF Reads, TreeInv, SlaveWellFormed
    <3>2. DOMAIN masters' = 1 .. Len(masters') /\ Len(masters') \in Nat
      BY <1>1, SequenceDomain
    <3> QED
      BY <3>1, <3>2
  <2>6. \A s \in DOMAIN chain : SlaveBefore(chain, j, s) => s = k
    BY <1>1, <1>2, <1>3, BeforeNext
  <2>7. ReadUpTo(j)'
    BY <1>1, <1>3, <2>1, <2>3, <2>5, <2>6 DEF ReadUpTo
  <2>8. j \in DOMAIN chain
    BY DEF Records
  <2> QED
    BY <1>1, <1>2, <1>8, <2>4, <2>7, <2>8 DEF Consuming
<1> QED
  BY <1>6, <1>7, <1>8

(* The end marker ends the walk.                                           *)
LEMMA EndRead ==
  ASSUME NEW k, Reads("End", k), ReadEnd(k)
  PROVE  Consuming'
<1>1. pos' \in Nat /\ pos' <= length /\ length' = length
  BY AtRecord DEF Reads
<1>2. load' = "Preinit" /\ slaves' = slaves
  BY DEF ReadEnd
<1>3. \A i \in DOMAIN slaves : SlaveFits(slaves[i])
  BY DEF Reads, Consuming
<1> QED
  BY <1>1, <1>2, <1>3 DEF Consuming

(* Whatever the record, its reader leaves the next one in its place.       *)
LEMMA RecordRead ==
  ASSUME TreeInv, TreeInv', Produced, Consuming, UNCHANGED <<chain, length>>,
         NEW k \in DOMAIN chain, ReadRecord(k)
  PROVE  Consuming' /\ load = "Parsing" /\ load' # "Unmapped"
<1>1. ASSUME NEW type, Take(type, k)
      PROVE  Reads(type, k) /\ load = "Parsing"
  BY <1>1 DEF Reads, Take
<1>2. CASE ReadMaster(k)
  BY <1>1, <1>2, MasterRead DEF ReadMaster
<1>3. CASE ReadSlave(k)
  <2>1. Reads("Slave", k) /\ load = "Parsing"
    BY <1>1, <1>3 DEF ReadSlave
  <2>2. load' # "Unmapped"
    BY <1>3, <2>1 DEF ReadSlave, Reject
  <2> QED
    BY <1>3, <2>1, <2>2, SlaveRecordRead
<1>4. CASE ReadDcConf(k)
  <2>1. Reads("DcConf", k) /\ load = "Parsing"
    BY <1>1, <1>4 DEF ReadDcConf
  <2>2. load' # "Unmapped"
    BY <1>4, <2>1 DEF ReadDcConf, Reject, Keep, Set
  <2> QED
    BY <1>4, <2>1, <2>2, SettingsRead
<1>5. CASE ReadWatchdog(k)
  <2>1. Reads("Watchdog", k) /\ load = "Parsing"
    BY <1>1, <1>5 DEF ReadWatchdog
  <2>2. load' # "Unmapped"
    BY <1>5, <2>1 DEF ReadWatchdog, Reject, Keep, Set
  <2> QED
    BY <1>5, <2>1, <2>2, SettingsRead
<1>6. CASE ReadModParam(k)
  <2>1. Reads("ModParam", k) /\ load = "Parsing"
    BY <1>1, <1>6 DEF ReadModParam
  <2>2. load' # "Unmapped"
    BY <1>6, <2>1 DEF ReadModParam, Reject, Set
  <2> QED
    BY <1>6, <2>1, <2>2, SettingsRead
<1>7. CASE ReadSyncManager(k)
  <2>1. Reads("SyncManager", k) /\ load = "Parsing"
    BY <1>1, <1>7 DEF ReadSyncManager
  <2>2. load' # "Unmapped"
    BY <1>7, <2>1 DEF ReadSyncManager, Reject, Set
  <2> QED
    BY <1>7, <2>1, <2>2, ManagerRead
<1>8. CASE ReadPdo(k)
  <2>1. Reads("Pdo", k) /\ load = "Parsing"
    BY <1>1, <1>8 DEF ReadPdo
  <2>2. load' # "Unmapped"
    BY <1>8, <2>1 DEF ReadPdo, Reject, Set
  <2> QED
    BY <1>8, <2>1, <2>2, PdoRead
<1>9. CASE ReadPdoEntry(k)
  <2>1. Reads("PdoEntry", k) /\ load = "Parsing"
    BY <1>1, <1>9 DEF ReadPdoEntry
  <2>2. load' # "Unmapped"
    BY <1>9, <2>1 DEF ReadPdoEntry, Reject, Set
  <2> QED
    BY <1>9, <2>1, <2>2, EntryRead
<1>10. CASE ReadComplexEntry(k)
  <2>1. Reads("ComplexEntry", k) /\ load = "Parsing"
    BY <1>1, <1>10 DEF ReadComplexEntry
  <2>2. load' # "Unmapped"
    BY <1>10, <2>1 DEF ReadComplexEntry, Reject, Set
  <2> QED
    BY <1>10, <2>1, <2>2, ComplexRead
<1>11. CASE ReadSdoConfig(k)
  <2>1. Reads("SdoConfig", k) /\ load = "Parsing" /\ "SdoConfig" \in WithData
    BY <1>1, <1>11 DEF ReadSdoConfig, WithData
  <2>2. load' # "Unmapped"
    BY <1>11, <2>1 DEF ReadSdoConfig, Reject, Set
  <2> QED
    BY <1>11, <2>1, <2>2, CommandRead
<1>12. CASE ReadIdnConfig(k)
  <2>1. Reads("IdnConfig", k) /\ load = "Parsing" /\ "IdnConfig" \in WithData
    BY <1>1, <1>12 DEF ReadIdnConfig, WithData
  <2>2. load' # "Unmapped"
    BY <1>12, <2>1 DEF ReadIdnConfig, Reject, Set
  <2> QED
    BY <1>12, <2>1, <2>2, CommandRead
<1>13. CASE ReadEnd(k)
  <2>1. Reads("End", k) /\ load = "Parsing"
    BY <1>1, <1>13 DEF ReadEnd
  <2>2. load' # "Unmapped"
    BY <1>13 DEF ReadEnd
  <2> QED
    BY <1>13, <2>1, <2>2, EndRead
<1> QED
  BY <1>2, <1>3, <1>4, <1>5, <1>6, <1>7, <1>8, <1>9, <1>10, <1>11, <1>12, <1>13 DEF ReadRecord

(* The walk starts at the first record.                                    *)
LEMMA FirstRecord ==
  ASSUME Produced, Consuming, load = "Idle", load' = "Parsing",
         UNCHANGED <<chain, length, pos, masters, slaves>>
  PROVE  Consuming'
<1>1. Structure(chain, length) /\ IsSequence(chain) /\ Len(chain) > 0
  BY DEF Produced, Structure
<1>2. DOMAIN chain = 1 .. Len(chain) /\ Len(chain) \in Nat /\ 1 \in DOMAIN chain
  BY <1>1, SequenceDomain
<1>3. 1 \in Records(chain) /\ chain[1].off = 0
  BY <1>1, <1>2 DEF Structure, Linked
<1>4. ~ Between(chain, 0, 1, "Master")
  BY <1>2 DEF Between
<1>5. \A s \in DOMAIN chain : ~ SlaveBefore(chain, 1, s)
  BY <1>2 DEF SlaveBefore
<1>6. pos = 0
  BY DEF Consuming
<1>7. ReadUpTo(1)'
  BY <1>3, <1>4, <1>5, <1>6 DEF ReadUpTo
<1> QED
  BY <1>2, <1>7 DEF Consuming

(* The parser, from the header to the end of the walk.                     *)
LEMMA ParseImage ==
  ASSUME ReleaseInv, ReleaseInv', ImageInv, xml \in {"Shared", "Failed"}, Parse
  PROVE  ImageInv'
<1>1. /\ boot = "parse" /\ ParseNext /\ UNCHANGED <<xml, chain, length, boot>>
      /\ load # "Unmapped" /\ Consuming /\ TreeInv /\ TreeInv'
  BY DEF Parse, confVars, bootVars, ImageInv, Before, ReleaseInv
<1>2. CASE xml = "Failed"
  <2>1. chain = << >> /\ length = 0 /\ load \in {"Idle", "Refused"} /\ DOMAIN chain = {}
    BY <1>2 DEF ImageInv
  <2>2. Attach
    BY <1>1, <2>1 DEF ParseNext, Lost, Preinit
  <2>3. load' = "Refused" /\ UNCHANGED <<pos, masters, slaves>>
    BY <1>2, <2>2 DEF Attach
  <2>4. Consuming'
    BY <1>1, <2>3 DEF Consuming
  <2> QED
    BY <1>1, <1>2, <2>1, <2>3, <2>4 DEF ImageInv
<1>3. CASE xml = "Shared"
  <2>1. Produced /\ Produced'
    BY <1>1, <1>3 DEF ImageInv, Produced
  <2>2. Consuming' /\ load' # "Unmapped"
    <3>1. CASE Attach
      <4>1. load = "Idle" /\ load' = "Parsing" /\ UNCHANGED <<pos, masters, slaves>>
        BY <1>3, <3>1 DEF Attach
      <4> QED
        BY <1>1, <2>1, <4>1, FirstRecord
    <3>2. CASE \E k \in DOMAIN chain : ReadRecord(k)
      BY <1>1, <2>1, <3>2, RecordRead
    <3>3. CASE Lost
      <4>1. PICK k \in DOMAIN chain : ReadUpTo(k)
        BY <1>1, <3>3 DEF Lost, Consuming
      <4>2. k \in StartsAt(pos) /\ chain[k].type # "Raw"
        BY <4>1 DEF ReadUpTo, Records, StartsAt
      <4> QED
        BY <3>3, <4>2 DEF Lost
    <3>4. CASE Preinit
      BY <1>1, <3>4 DEF Preinit, Consuming
    <3> QED
      BY <1>1, <3>1, <3>2, <3>3, <3>4 DEF ParseNext
  <2> QED
    BY <1>1, <1>3, <2>1, <2>2 DEF ImageInv
<1> QED
  BY <1>2, <1>3

(* Nothing has been read or written before the start.                      *)
LEMMA ImageInit == Init => ImageInv
<1> SUFFICES ASSUME Init
             PROVE  ImageInv
  OBVIOUS
<1>1. /\ xml = "None" /\ chain = << >> /\ length = 0 /\ cur = NoCur /\ icmd = "Closed"
      /\ load = "Idle" /\ pos = 0 /\ masters = << >> /\ slaves = << >> /\ boot = "hal_init"
  BY DEF Init, ConfInit, ParseInit, StartInit
<1>2. IsSequence(<< >>)
  <2>1. << >> \in Seq({})
    OBVIOUS
  <2> QED
    BY <2>1 DEF IsSequence
<1>3. DOMAIN chain = {} /\ DOMAIN slaves = {}
  BY <1>1
<1>4. Structure(chain, length)
  BY <1>1, <1>2, <1>3 DEF Structure, InPlace, Linked, Records
<1>5. Tallied(chain, OpenCommand)
  BY <1>3 DEF Tallied
<1>6. xml \notin AtSlave \cup {"Master", "InitCmds"} /\ ~ OpenSdo /\ ~ OpenIdn
  BY <1>1 DEF AtSlave, Layout, OpenSdo, OpenIdn, CoeTexts, SoeTexts
<1>7. Current
  BY <1>1, <1>6 DEF Current, AtSlave, Layout
<1>8. Consuming
  BY <1>1, <1>3 DEF Consuming
<1> QED
  BY <1>1, <1>4, <1>5, <1>7, <1>8 DEF ImageInv, Producing, Before

(* A step that leaves the image and the reader alone.                      *)
LEMMA ImageKept ==
  ASSUME ImageInv, UNCHANGED <<confVars, parseVars>>, boot \notin Before => boot' \notin Before
  PROVE  ImageInv'
<1>1. UNCHANGED <<xml, chain, length, cur, icmd, load, pos, masters, slaves>>
  BY DEF confVars, parseVars
<1>2. Consuming'
  BY <1>1 DEF ImageInv, Consuming, ReadUpTo
<1>3. Producing => Producing'
  BY <1>1 DEF Producing, Current, CurrentMaster, CurrentRecord, OpenCommand, OpenSdo, OpenIdn
<1>4. Produced => Produced'
  BY <1>1 DEF Produced
<1> QED
  BY <1>1, <1>2, <1>3, <1>4 DEF ImageInv

(* The image is given up once the tree is built.                           *)
LEMMA UnmapImage ==
  ASSUME ImageInv, GlobalPins, load = "Parsed"
  PROVE  ImageInv'
<1>1. Unmap /\ boot' \notin Before
  BY DEF GlobalPins, Before
<1>2. xml = "Shared"
  BY DEF ImageInv
<1>3. load' = "Unmapped" /\ pos' = 0 /\ length' = 0 /\ xml' = "Shared"
  BY <1>1, <1>2 DEF Unmap
<1>4. Consuming'
  BY <1>3 DEF Consuming
<1> QED
  BY <1>1, <1>3, <1>4 DEF ImageInv

(* What comes behind the parser has no use for the image.                  *)
Onward == \/ HalInit \/ (GlobalPins /\ load # "Parsed") \/ RequestMaster \/ CreateDomain
          \/ InitSlave \/ RegisterUnit \/ MasterPins \/ ActivateMaster \/ ExportMaster
          \/ ExportAll \/ ClearMaster \/ HalExit \/ AppExit

(* None of it touches the image, or goes back to the parser.               *)
LEMMA OnwardKeeps ==
  ASSUME Onward
  PROVE  UNCHANGED <<confVars, parseVars>> /\ (boot \notin Before => boot' \notin Before)
<1> DEFINE P == UNCHANGED <<confVars, parseVars>> /\ (boot \notin Before => boot' \notin Before)
<1>1. \A label, i, j : Goto(label) \/ Enter(label, i, j) =>
        UNCHANGED <<confVars, parseVars>> /\ boot' = label
  BY DEF Goto, Enter
<1>2. Fail2 => P
  BY <1>1 DEF Fail2, Before
<1>3. \A k : NextSlave(k) => P
  BY <1>1 DEF NextSlave, Before
<1>4. HalInit => P
  BY <1>1 DEF HalInit, Before
<1>5. GlobalPins /\ load # "Parsed" => P
  BY <1>1 DEF GlobalPins, Before
<1>6. RequestMaster => P
  BY <1>1, <1>2 DEF RequestMaster, Before
<1>7. CreateDomain => P
  BY <1>1, <1>2, <1>3 DEF CreateDomain, Before
<1>8. InitSlave => P
  BY <1>2, <1>3 DEF InitSlave
<1>9. RegisterUnit => P
  BY <1>1, <1>2 DEF RegisterUnit, Before
<1>10. MasterPins => P
  BY <1>1 DEF MasterPins, Before
<1>11. ActivateMaster => P
  BY <1>1, <1>2 DEF ActivateMaster, Before
<1>12. ExportMaster => P
  BY <1>1, <1>2 DEF ExportMaster, Before
<1>13. ExportAll => P
  BY <1>1, <1>2 DEF ExportAll, Before
<1>14. ClearMaster => P
  BY <1>1 DEF ClearMaster, Before
<1>15. HalExit => P
  BY <1>1 DEF HalExit, Before
<1>16. AppExit => P
  BY <1>2 DEF AppExit
<1> QED
  BY <1>4, <1>5, <1>6, <1>7, <1>8, <1>9, <1>10, <1>11, <1>12, <1>13, <1>14, <1>15, <1>16 DEF Onward

(* Every step keeps the image in order and the reader in its place.        *)
LEMMA ImageStep ==
  ASSUME ReleaseInv, ReleaseInv', ImageInv, [Next]_vars
  PROVE  ImageInv'
<1>1. CASE UNCHANGED vars
  BY <1>1, ImageKept DEF vars, bootVars
<1>2. CASE Conf
  <2>1. /\ Producing /\ load = "Idle" /\ ConfNext /\ pos = 0 /\ slaves = << >> /\ masters = << >>
        /\ UNCHANGED <<load, pos, masters, slaves>>
    BY <1>2 DEF Conf, parseVars, ImageInv, Consuming
  <2>2. \/ Producing' /\ xml' \notin {"Shared", "Failed"}
        \/ Produced' /\ xml' = "Shared"
        \/ chain' = << >> /\ length' = 0 /\ xml' = "Failed"
    BY <2>1, ProduceStep
  <2>3. length' \in Nat
    BY <2>2 DEF Producing, Produced, Structure
  <2>4. Consuming'
    BY <2>1, <2>3 DEF Consuming
  <2> QED
    BY <2>1, <2>2, <2>4 DEF ImageInv
<1>3. CASE xml \in {"Shared", "Failed"} /\ Parse
  BY <1>3, ParseImage
<1>4. CASE GlobalPins /\ load = "Parsed"
  BY <1>4, UnmapImage
<1>5. CASE Onward
  BY <1>5, OnwardKeeps, ImageKept
<1>6. Loading \/ AppExit => Parse \/ (GlobalPins /\ load = "Parsed") \/ Onward
  BY DEF Loading, Onward
<1>7. UNCHANGED vars \/ Conf \/ (xml \in {"Shared", "Failed"} /\ (Loading \/ AppExit))
  BY DEF Next
<1> QED
  BY <1>1, <1>2, <1>3, <1>4, <1>5, <1>6, <1>7

(* What is read of the image is what was written: the reader never leaves  *)
(* it or takes one record for another, and what it writes for a slave      *)
(* stays within what the counts of the producer asked for.                 *)
THEOREM ImageUnderstoodCorrect == Spec => []ImageUnderstood
<1>1. ASSUME ImageInv
      PROVE  ImageUnderstood
  BY <1>1 DEF ImageInv, Consuming, SlaveFits, ImageUnderstood
<1> QED
  BY <1>1, ImageInit, ImageStep, ReleaseInit, ReleaseStep, PTL DEF Spec
=============================================================================
