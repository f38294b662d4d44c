------------------------------ MODULE LcecFsoe ------------------------------
(***************************************************************************)
(* Safety over EtherCAT.  A logic terminal (EL6900, EL1918, EL1918_LOGIC)  *)
(* exchanges frames with its safety slaves (EL1904, EL2904, EK1914, and    *)
(* AX5805, the option of an AX5000 drive) through the process data image:  *)
(* the read function of a slave copies its frame to the area of its        *)
(* connection in the logic's outputs and the answer back.  A frame is a    *)
(* number; "other" is what lies at that offset in another Sync Unit's.     *)
(* None of these drivers looks whether its slave is operational.           *)
(***************************************************************************)
EXTENDS LcecSlave, SequencesExt

CONSTANTS Orders,  \* orders of the slaves in the configuration
          Links    \* what the parameters fsoeSlaveIdx name, in their order

Logics == {"EL6900", "EL1918", "EL1918_LOGIC"}
Carriers == {"EL1904", "EL2904", "EK1914", "AX5805"}  \* these copy frames
Slaves == Carriers \cup {"AX5000", "plain"}
Frames == 0..1

\* beside: what stands before AX5805 on the bus; std: the names of standard
\* inputs and outputs are not too many; apart: the logic has its own Sync Unit.
Configs == [order : Orders, links : Links, beside : {"AX5000", "plain"},
            std : BOOLEAN, apart : BOOLEAN]

Init ==
  /\ device \in Logics /\ phase = "stopped" /\ up = FALSE
  /\ hal = <<>> /\ drv = <<>> /\ in = <<>> /\ out = <<>> /\ env = <<>>

(***************************************************************************)
(* Preinit: the other slaves first, then the logic.  conf: the number of   *)
(* channels, or 0 where there is none; -1 for all once a slave refused.    *)
(***************************************************************************)
lcec_el1904_preinit(conf) == [conf EXCEPT !["EL1904"] = 1]
lcec_el2904_preinit(conf) == [conf EXCEPT !["EL2904"] = 1]
lcec_ek1914_preinit(conf) == [conf EXCEPT !["EK1914"] = 1]
lcec_ax5200_preinit(conf) == IF conf["AX5000"] # 0 THEN conf ELSE [conf EXCEPT !["AX5000"] = 2]
lcec_ax5805_preinit(c, conf) ==
  LET done == lcec_ax5200_preinit(conf)
  IN  IF c.beside = "AX5000" THEN [done EXCEPT !["AX5805"] = done["AX5000"]]
      ELSE [s \in Slaves |-> -1]

Preinit(c, conf, s) ==
  IF conf["plain"] = -1 THEN conf
  ELSE CASE s = "EL1904" -> lcec_el1904_preinit(conf)
         [] s = "EL2904" -> lcec_el2904_preinit(conf)
         [] s = "EK1914" -> lcec_ek1914_preinit(conf)
         [] s = "AX5000" -> lcec_ax5200_preinit(conf)
         [] s = "AX5805" -> lcec_ax5805_preinit(c, conf)
         [] OTHER -> conf

Position(order, s) == SelectInSeq(order, LAMBDA t : t = s)

\* slip: one stage, with the logic in its place among the slaves
PreinitOneStage(c) ==
  FoldLeft(LAMBDA conf, s : Preinit(c, conf, s), [s \in Slaves |-> 0],
           SubSeq(c.order, 1, Position(c.order, "logic")))
PreinitSlaves(c) ==
  FoldLeft(LAMBDA conf, s : Preinit(c, conf, s), [s \in Slaves |-> 0], c.order)

\* Each slave the logic names is there and has a configuration.
NamesAreSafe(c, conf) ==
  c.std /\ \A k \in DOMAIN c.links : c.links[k] \in Slaves /\ conf[c.links[k]] > 0
lcec_el6900_preinit(c, conf) == device = "EL6900" /\ NamesAreSafe(c, conf)
lcec_el1918_preinit(c, conf) == device = "EL1918" /\ NamesAreSafe(c, conf)
lcec_el1918_logic_preinit(c, conf) == device = "EL1918_LOGIC" /\ NamesAreSafe(c, conf)

(***************************************************************************)
(* Init of the logic: a slave copies to and from the last connection that  *)
(* names it, or nowhere (0).  in: frames from the slaves and from the      *)
(* logic; out: frames to them; env.was: in before the last exchange;       *)
(* env.got: what the terminals then took.                                  *)
(***************************************************************************)
Linked(c) == ToSet(c.links) \cap Carriers

Connect(c) ==
  LET none == [slave |-> [s \in Linked(c) |-> 0], logic |-> [k \in DOMAIN c.links |-> 0]]
  IN  /\ drv' = [cfg |-> c, to |-> [s \in Slaves |-> SelectLastInSeq(c.links, LAMBDA l : l = s)]]
      /\ hal' = [logic |-> none.logic, slave |-> none.logic, std |-> 0]
      /\ in' = none
      /\ out' = [frames |-> none, std |-> 0]
      /\ env' = [was |-> none, got |-> none, cycles |-> 0]
lcec_el6900_init(c) == device = "EL6900" /\ Connect(c)
lcec_el1918_init(c) == device = "EL1918" /\ Connect(c)
lcec_el1918_logic_init(c) == device = "EL1918_LOGIC" /\ Connect(c)

Load ==
  /\ phase \in {"stopped", "refused"} /\ UNCHANGED <<device, up>>
  /\ \E c \in Configs :
       LET conf == PreinitSlaves(c)
           logic == \/ lcec_el6900_preinit(c, conf)
                    \/ lcec_el1918_preinit(c, conf)
                    \/ lcec_el1918_logic_preinit(c, conf)
       IN  IF conf["plain"] = -1 \/ ~logic
           THEN phase' = "refused" /\ drv' = [cfg |-> c] /\ UNCHANGED <<hal, in, out, env>>
           ELSE /\ phase' = "bus"
                /\ lcec_el6900_init(c) \/ lcec_el1918_init(c) \/ lcec_el1918_logic_init(c)

\* The terminals take their outputs and give new inputs, or the frame is lost.
Bus ==
  /\ Turn("bus", "read") /\ UNCHANGED <<up, hal, drv, out>>
  /\ \/ UNCHANGED <<in, env>>
     \/ /\ in' \in [slave : [DOMAIN in.slave -> Frames], logic : [DOMAIN in.logic -> Frames]]
        /\ env' = [was |-> in, got |-> out.frames, cycles |-> IF env.cycles = 0 THEN 1 ELSE 2]

\* slip: the frame of the logic is taken from the area of the first connection
copy_fsoe_data_first(s, frames) ==
  [frames EXCEPT !.slave[s] = in.logic[1], !.logic[drv.to[s]] = in.slave[s]]
copy_fsoe_data(s, frames) ==
  [frames EXCEPT !.slave[s] = in.logic[drv.to[s]], !.logic[drv.to[s]] = in.slave[s]]

Copied(s, frames) ==
  CASE drv.to[s] = 0 -> frames
    [] drv.to[s] # 0 /\ drv.cfg.apart -> [frames EXCEPT !.slave[s] = "other"]
    [] OTHER -> copy_fsoe_data(s, frames)
lcec_el1904_read(frames) == Copied("EL1904", frames)
lcec_el2904_read(frames) == Copied("EL2904", frames)
lcec_ek1914_read(frames) == Copied("EK1914", frames)
lcec_ax5805_read(frames) == Copied("AX5805", frames)

\* The frames after the slaves up to the nth have been read.
ReadUpTo(n) ==
  FoldLeft(LAMBDA f, s : CASE s = "EL1904" -> lcec_el1904_read(f)
                           [] s = "EL2904" -> lcec_el2904_read(f)
                           [] s = "EK1914" -> lcec_ek1914_read(f)
                           [] s = "AX5805" -> lcec_ax5805_read(f)
                           [] OTHER -> f,
           out.frames, SubSeq(drv.cfg.order, 1, n))

\* What the pins of the logic show of a connection depends on which slaves were
\* read before it.
Show == hal' = [hal EXCEPT !.logic = in.logic,
                           !.slave = ReadUpTo(Position(drv.cfg.order, "logic")).logic]
lcec_el6900_read == device = "EL6900" /\ Show
lcec_el1918_read == device = "EL1918" /\ Show
lcec_el1918_logic_read == device = "EL1918_LOGIC" /\ Show

Read ==
  /\ Turn("read", "user") /\ UNCHANGED <<up, drv, in, env>>
  /\ lcec_el6900_read \/ lcec_el1918_read \/ lcec_el1918_logic_read
  /\ out' = [out EXCEPT !.frames = ReadUpTo(Len(drv.cfg.order))]

User ==
  /\ Turn("user", "write") /\ UNCHANGED <<up, drv, in, out, env>>
  /\ \E v \in 0..1 : hal' = [hal EXCEPT !.std = v]

\* The standard inputs of the logic, and the outputs of EL2904 and EK1914.
Write ==
  /\ Turn("write", "bus") /\ UNCHANGED <<up, hal, drv, in, env>>
  /\ out' = [out EXCEPT !.std = hal.std]

Unload ==
  /\ Turn("bus", "stopped") /\ UNCHANGED up
  /\ hal' = <<>> /\ drv' = <<>> /\ in' = <<>> /\ out' = <<>> /\ env' = <<>>

Next == Load \/ Bus \/ Read \/ User \/ Write \/ Unload
Spec == Init /\ [][Next]_slaveVars

-----------------------------------------------------------------------------
\* Whatever the order of the slaves, a configuration is accepted when the logic
\* names safety slaves only and AX5805 stands beside its drive (lcec_main.c
\* 998-1018, lcec_ax5805.c 94-126).  In one Sync Unit each connection that is the
\* last to name its slave carries the frames of the last exchange both ways, at
\* the next one, and no others (lcec_ethercat.c 43-59); what the pins show is of
\* this exchange or the one before.
FramesArrive ==
  /\ phase = "refused" =>
       \/ drv.cfg.beside # "AX5000" \/ ~drv.cfg.std
       \/ \E k \in DOMAIN drv.cfg.links : drv.cfg.links[k] \notin Carriers \cup {"AX5000"}
  /\ phase = "read" /\ env.cycles = 2 /\ ~drv.cfg.apart =>
       \A s \in Linked(drv.cfg) :
         /\ env.got.logic[drv.to[s]] = env.was.slave[s]
         /\ env.got.slave[s] = env.was.logic[drv.to[s]]
  /\ phase = "user" /\ env.cycles = 2 /\ ~drv.cfg.apart =>
       \A s \in Linked(drv.cfg) :
         hal.slave[drv.to[s]] \in {in.slave[s], env.was.slave[s]}
=============================================================================
