------------------------ MODULE LcecTerminalSettings ------------------------
(***************************************************************************)
(* What the init functions of EL5002, EL5021, EL7041, EL7332, EP5101 and   *)
(* FC302 write to the objects of their terminal.  A terminal keeps its     *)
(* objects when the module is unloaded, and other tools write them too.    *)
(* Two objects: those of a terminal are treated alike, save for EL7041.    *)
(***************************************************************************)
EXTENDS LcecSlave, SequencesExt

CONSTANTS Values,  \* values of module parameters; 0 is the factory default
          Width,   \* number of values of an object: larger ones do not fit
          Entries  \* bound: entries of a configuration

Params == <<"first", "second">>
Objects == ToSet(Params)
Configs == UNION {[1..n -> Objects \X Values] : n \in 0..Entries}

\* The last entry of a configuration for an object, or what stands without one.
Setting(cfg, p, none) ==
  LET i == SelectLastInSeq(cfg, LAMBDA e : e[1] = p)
  IN  IF i = 0 THEN none ELSE cfg[i][2]

Fits(e) == <<e[1], e[2] % Width>>
Fitting(cfg) == [i \in DOMAIN cfg |-> Fits(cfg[i])]

(***************************************************************************)
(* The writes of a start, in order.                                        *)
(***************************************************************************)
AllOf(cfg) == [i \in DOMAIN Params |-> <<Params[i], Setting(Fitting(cfg), Params[i], 0)>>]

\* EL5002, EL7332: nothing is written for the factory default.
el7332_sdo_write(cfg) == {e \in ToSet(AllOf(cfg)) : e[2] # 0}
el5002_sdo_write(cfg) == {e \in ToSet(AllOf(cfg)) : e[2] # 0}

\* slip: the write is skipped for the factory default
el5021_sdo_write_changed(cfg) == {e \in ToSet(AllOf(cfg)) : e[2] # 0}
el5021_sdo_write(cfg) == ToSet(AllOf(cfg))

lcec_ep5101_write_modparams(cfg) == Fitting(cfg)

\* The case of motorFullsteps runs into that of encoderIncrements, and so on.
el7041_handle_modparams(cfg) ==
  FlattenSeq([i \in DOMAIN cfg |->
    IF cfg[i][1] = "first" THEN <<Fits(cfg[i]), <<"second", Fits(cfg[i])[2]>>>>
                           ELSE <<Fits(cfg[i])>>])

\* FC302 refuses what does not fit.
fc302_handle_modparams(cfg) == cfg
fc302_refuses(cfg) == \E i \in DOMAIN cfg : cfg[i][2] >= Width

\* The objects after those of the writes that were done.
Written(coe, writes, done) ==
  FoldLeft(LAMBDA c, e : IF e \in done THEN [c EXCEPT ![e[1]] = e[2]] ELSE c, coe, writes)

\* drv.cfg: the configuration of this run; drv.startup: its SDOs that are
\* registered with the master; env.coe: the objects; env.old: as others left
\* them; env.failed: a write was reported to have failed.
Init ==
  /\ device \in {"EL5002 cfg", "EL5021 cfg", "EL7041 cfg", "EL7332 cfg", "EP5101 cfg", "FC302 cfg"}
  /\ phase = "stopped" /\ up = FALSE
  /\ hal = <<>> /\ in = <<>> /\ out = <<>>
  /\ drv = [cfg |-> <<>>, startup |-> {}]
  /\ env = [coe |-> [p \in Objects |-> 0], old |-> [p \in Objects |-> 0], failed |-> FALSE]

Started(cfg, startup, coe, failed) ==
  /\ phase' = "running"
  /\ drv' = [cfg |-> cfg, startup |-> startup]
  /\ env' = [coe |-> coe, old |-> env.coe, failed |-> failed]

Refused(coe) ==
  /\ phase' = "stopped"
  /\ env' = [env EXCEPT !.coe = coe] /\ UNCHANGED drv

\* A write that fails is reported and passed over.  EL7332 refuses a mode it
\* does not know before it writes, and EL5021 and EL7332 end init when a request
\* cannot be made, after the writes.
PassOver(cfg, writes) ==
  \E done \in SUBSET writes :
    LET coe == Written(env.coe, AllOf(cfg), done)
    IN  \/ Started(cfg, {}, coe, done # writes)
        \/ device # "EL5002 cfg" /\ Refused(coe)

\* A write that fails ends init; so does, on EL7041, a speed or a number of
\* microsteps that the driver does not know.
GiveUp(cfg, writes) ==
  LET coe(n) == Written(env.coe, SubSeq(writes, 1, n), ToSet(writes))
  IN  \/ Started(cfg, {}, coe(Len(writes)), FALSE)
      \/ \E k \in DOMAIN writes : Refused(coe(k - 1))

lcec_el5002_init(cfg) == device = "EL5002 cfg" /\ PassOver(cfg, el5002_sdo_write(cfg))
lcec_el7332_init(cfg) == device = "EL7332 cfg" /\ PassOver(cfg, el7332_sdo_write(cfg))
lcec_el5021_init(cfg) == device = "EL5021 cfg" /\ PassOver(cfg, el5021_sdo_write(cfg))
lcec_ep5101_init(cfg) == device = "EP5101 cfg" /\ GiveUp(cfg, lcec_ep5101_write_modparams(cfg))
lcec_el7041_init(cfg) == device = "EL7041 cfg" /\ GiveUp(cfg, el7041_handle_modparams(cfg))

\* Nothing is written: the master has a list of what it will write.  What cannot
\* be put on the list is reported, save for the profile of the control word.
lcec_danfoss_fc302_init(cfg) ==
  /\ device = "FC302 cfg"
  /\ \/ Refused(env.coe)
     \/ /\ ~fc302_refuses(cfg)
        /\ \E done \in SUBSET ToSet(fc302_handle_modparams(cfg)) :
             Started(cfg, done, env.coe, done # ToSet(cfg))

Load ==
  /\ phase = "stopped" /\ UNCHANGED <<device, up, hal, in, out>>
  /\ \E cfg \in Configs :
       \/ lcec_el5002_init(cfg) \/ lcec_el7332_init(cfg) \/ lcec_el5021_init(cfg)
       \/ lcec_ep5101_init(cfg) \/ lcec_el7041_init(cfg) \/ lcec_danfoss_fc302_init(cfg)

Unload == Turn("running", "stopped") /\ up' = FALSE /\ UNCHANGED <<hal, drv, in, out, env>>

\* The master writes its list on every way to SAFEOP.
Bus ==
  /\ device = "FC302 cfg" /\ Turn("running", "running") /\ UNCHANGED <<hal, drv, in, out>>
  /\ \/ up /\ up' = FALSE /\ UNCHANGED env
     \/ ~up /\ up' = TRUE
        /\ env' = [env EXCEPT !.coe = Written(@, fc302_handle_modparams(drv.cfg), drv.startup)]

\* Another tool, or the keys of the inverter.
Foreign ==
  /\ phase = "stopped" \/ (device = "FC302 cfg" /\ ~up)
  /\ \E p \in Objects, v \in 0..Width - 1 : env' = [env EXCEPT !.coe[p] = v, !.old[p] = v]
  /\ UNCHANGED <<device, phase, up, hal, drv, in, out>>

Next == Load \/ Unload \/ Bus \/ Foreign
Spec == Init /\ [][Next]_slaveVars

-----------------------------------------------------------------------------
\* A start went through without a report; FC302 has been written its list.
InForce == phase = "running" /\ ~env.failed /\ (device = "FC302 cfg" => up)

\* The objects that a start gives a value.
Gives(p) == CASE device = "EL5021 cfg" -> TRUE
              [] device \in {"EL5002 cfg", "EL7332 cfg"} -> Setting(drv.cfg, p, 0) # 0
              [] OTHER -> \E i \in DOMAIN drv.cfg : drv.cfg[i][1] = p

\* An object holds the value of this run, if it fits, or is as others left it.
HoldsItsOwn(p) == IF Gives(p) THEN LET v == Setting(drv.cfg, p, 0) IN v >= Width \/ env.coe[p] = v
                              ELSE env.coe[p] = env.old[p]

\* An object of EL7041 holds the setting that ran into it.
HoldsAnothers(p) ==
  /\ device = "EL7041 cfg" /\ p = "second"
  /\ drv.cfg # <<>> /\ Last(drv.cfg)[1] = "first"
  /\ env.coe[p] = Last(drv.cfg)[2] % Width

\* After a start without a report, what it gives a value is what this run's
\* configuration says last, whatever an earlier run or another tool left there,
\* and nothing else was touched (lcec_el5021.c 354-405, lcec_ep5101.c 295-371,
\* lcec_el7041.c 361-505, lcec_fc302.c 437-700).  EL5021 gives all objects a value;
\* EL5002 and EL7332 those whose setting is not the factory default (lcec_el5002.c
\* 268-333, lcec_el7332.c 907-957): for the others the terminal goes on with what an
\* earlier run wrote, where the comment at lcec_el5002.c 272-275 says that it is "at
\* its own (identical) default".  And a setting of EL7041 whose case does not end in
\* a break is written to the next object too, unless that has a later entry of its
\* own (lcec_el7041.c 404-413; el7041.md 67-68 has them as settings of their own).
SettingsAsConfigured == InForce => \A p \in Objects : HoldsItsOwn(p) \/ HoldsAnothers(p)
=============================================================================
