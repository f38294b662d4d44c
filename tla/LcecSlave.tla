----------------------------- MODULE LcecSlave -----------------------------
(***************************************************************************)
(* What the drivers of the slaves share: one slave in the cycle of its     *)
(* thread.  The bus exchanges the images, the driver reads, the user of    *)
(* the HAL pins (or another component) acts, the driver writes.            *)
(***************************************************************************)
EXTENDS Integers, FiniteSets, TLC

VARIABLES device,  \* type of the slave
          phase,   \* "bus", "read", "user", "write"
          up,      \* slave->state.operational
          hal,     \* pins and parameters
          drv,     \* private fields of hal_data
          in,      \* inputs in the process data image
          out,     \* outputs in the process data image
          env      \* the terminal and what is attached to it, and history

slaveVars == <<device, phase, up, hal, drv, in, out, env>>

Turn(from, to) == phase = from /\ phase' = to /\ UNCHANGED device

\* The value of a signed integer that has m values in all.
Signed(x, m) == LET r == x % m IN IF r < m \div 2 THEN r ELSE r - m
=============================================================================
