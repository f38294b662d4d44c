------------------------- MODULE SyncUnitSchedule -------------------------
(***************************************************************************)
(* What one master promises about its Sync Units, without counters: until  *)
(* it is running every unit is exchanged in every cycle, from then on a    *)
(* unit is exchanged in the cycles whose number is a multiple of its       *)
(* divider, and whatever was sent is collected by the read of the next     *)
(* cycle.  Documented in documentation/distributed-clocks.md, "Process-    *)
(* data Sync Units"; the code is lcec_read_master and lcec_write_master.   *)
(***************************************************************************)
EXTENDS Integers, FiniteSets

CONSTANTS
  Units,       \* the Sync Units of the master
  Divider,     \* [Units -> Nat \ {0}]
  Hyperperiod  \* the least common multiple of the dividers

VARIABLES
  turn,     \* the half of the cycle that comes next
  active,   \* the master is activated
  running,  \* every responding slave has been in OP
  tick,     \* the number of the cycle since then, modulo the hyperperiod
  pending   \* the units that were sent and not collected yet

vars == <<turn, active, running, tick, pending>>

(* The units whose turn it is in cycle t.                                  *)
DueAt(t) == {u \in Units : t % Divider[u] = 0}

TypeOK ==
  /\ turn \in {"collect", "exchange"}
  /\ active \in BOOLEAN /\ running \in BOOLEAN
  /\ tick \in 0 .. Hyperperiod - 1
  /\ pending \subseteq Units

Init ==
  /\ turn = "collect"
  /\ active \in BOOLEAN
  /\ running = FALSE /\ tick = 0 /\ pending = {}

Enable ==
  /\ ~active /\ active' = TRUE
  /\ UNCHANGED <<turn, running, tick, pending>>

(* The read half: everything that is pending is collected, and an active   *)
(* master may find all of its slaves in OP.                                *)
Collect ==
  /\ turn = "collect" /\ turn' = "exchange"
  /\ pending' = {}
  /\ running' \in {running, running \/ active}
  /\ UNCHANGED <<active, tick>>

(* The write half.  Only a master that is not active may let a cycle pass. *)
Exchange ==
  /\ turn = "exchange" /\ turn' = "collect"
  /\ active' = TRUE
  /\ pending' = IF running THEN DueAt(tick) ELSE Units
  /\ tick' = IF running THEN (tick + 1) % Hyperperiod ELSE 0
  /\ UNCHANGED running

Idle ==
  /\ turn = "exchange" /\ turn' = "collect"
  /\ ~active
  /\ UNCHANGED <<active, running, tick, pending>>

Next == Enable \/ Collect \/ Exchange \/ Idle

Spec == Init /\ [][Next]_vars
=============================================================================
