-------------------------- MODULE LcecSlavesProofs --------------------------
(***************************************************************************)
(* Theorems about the drivers of the slaves, for any number of messages,   *)
(* of objects to poll, of retries and of acts of the user.                 *)
(***************************************************************************)
EXTENDS LcecSlaves, SetSums, SequenceTheorems, TLAPS

(* A step of a slave is one of its own driver, which stays the same.       *)
LEMMA OneDriver ==
  ASSUME [Next]_slaveVars
  PROVE  /\ device' = device
         /\ device = "EL6002" => [Serial!Next]_slaveVars
         /\ device \in Polled => [Polling!Next]_slaveVars
         /\ device \in Servo!Servos => [Servo!Next]_slaveVars
         /\ device \in Duty!Outputs => [Duty!Next]_slaveVars
         /\ device \in Counting => [Counters!Next]_slaveVars
         /\ device \in Encoders!Encoding => [Encoders!Next]_slaveVars
         /\ device \in Fsoe!Logics => [Fsoe!Next]_slaveVars
         /\ device \in Set => [Settings!Next]_slaveVars
<1> USE DEF Counting, Encoders!Encoding, Servo!Servos, Servo!Asda, Duty!Outputs, Polled, Set, Fsoe!Logics
<1>1. CASE device \in Counting /\ Counters!Next
  <2>1. device' = device
    BY <1>1 DEF Counters!Next, Counters!Bus, Counters!Read, Counters!User, Counters!Write, Counters!Turn
  <2> QED
    BY <1>1, <2>1
<1>2. CASE device \in Encoders!Encoding /\ Encoders!Next
  <2>1. device' = device
    BY <1>2 DEF Encoders!Next, Encoders!Bus, Encoders!Read, Encoders!User, Encoders!Write, Encoders!Turn
  <2> QED
    BY <1>2, <2>1
<1>3. CASE device \in Servo!Servos /\ Servo!Next
  <2>1. device' = device
    BY <1>3 DEF Servo!Next, Servo!Bus, Servo!Read, Servo!User, Servo!Write, Servo!Turn
  <2> QED
    BY <1>3, <2>1
<1>4. CASE device \in Duty!Outputs /\ Duty!Next
  <2>1. device' = device
    BY <1>4 DEF Duty!Next, Duty!Bus, Duty!Read, Duty!User, Duty!Write, Duty!Turn
  <2> QED
    BY <1>4, <2>1
<1>5. CASE device \in Polled /\ Polling!Next
  <2>1. device' = device
    BY <1>5 DEF Polling!Next, Polling!Bus, Polling!Read, Polling!Turn
  <2> QED
    BY <1>5, <2>1
<1>6. CASE device \in Set /\ Settings!Next
  <2>1. device' = device
    BY <1>6 DEF Settings!Next, Settings!Load, Settings!Unload, Settings!Bus, Settings!Foreign, Settings!Turn
  <2> QED
    BY <1>6, <2>1
<1>7. CASE device = "EL6002" /\ Serial!Next
  <2>1. device' = device
    BY <1>7 DEF Serial!Next, Serial!Bus, Serial!Restart, Serial!lcec_el6002_read, Serial!User,
                Serial!lcec_el6002_write, Serial!Turn
  <2> QED
    BY <1>7, <2>1
<1>8. CASE device \in Fsoe!Logics /\ Fsoe!Next
  <2>1. device' = device
    BY <1>8 DEF Fsoe!Next, Fsoe!Load, Fsoe!Bus, Fsoe!Read, Fsoe!User, Fsoe!Write, Fsoe!Unload, Fsoe!Turn
  <2> QED
    BY <1>8, <2>1
<1>9. CASE UNCHANGED slaveVars
  BY <1>9 DEF slaveVars
<1> QED
  BY <1>1, <1>2, <1>3, <1>4, <1>5, <1>6, <1>7, <1>8, <1>9 DEF Next

(* A slave starts as its own driver starts.                                *)
LEMMA OneStart ==
  ASSUME Init
  PROVE  /\ device = "EL6002" => Serial!Init
         /\ device \in Polled => Polling!Init
         /\ device \in Servo!Servos => Servo!Init
         /\ device \in Duty!Outputs => Duty!Init
         /\ device \in Counting => Counters!Init
         /\ device \in Encoders!Encoding => Encoders!Init
         /\ device \in Fsoe!Logics => Fsoe!Init
         /\ device \in Set => Settings!Init
<1> USE DEF Counting, Encoders!Encoding, Servo!Servos, Servo!Asda, Duty!Outputs, Polled, Set, Fsoe!Logics
<1>1. CASE Counters!Init
  <2>1. device \in Counting
    BY <1>1 DEF Counters!Init, Counters!lcec_el5101_init, Counters!lcec_el5102_init,
                Counters!lcec_el5151_init, Counters!lcec_el5152_init, Counters!lcec_el5032_init,
                Counters!lcec_el5002_init, Counters!lcec_ep5101_init, Counters!lcec_el7041_init,
                Counters!lcec_el7342_init, Counters!lcec_em7004_init
  <2> QED
    BY <1>1, <2>1
<1>2. CASE Encoders!Init
  BY <1>2 DEF Encoders!Init
<1>3. CASE Duty!Init
  <2>1. device \in Duty!Outputs
    BY <1>3 DEF Duty!Init, Duty!lcec_aout_register_channel, Duty!lcec_el41x2_init,
                Duty!lcec_em7004_init, Duty!lcec_el7342_init, Duty!lcec_el7041_init
  <2> QED
    BY <1>3, <2>1
<1>4. CASE Servo!Init
  <2>1. device \in Servo!Servos
    BY <1>4 DEF Servo!Init, Servo!lcec_deasda_init, Servo!lcec_omrg5_init, Servo!lcec_el7211_init
  <2> QED
    BY <1>4, <2>1
<1>5. CASE Polling!Init
  <2>1. device \in Polled
    BY <1>5 DEF Polling!Init, Polling!lcec_el7332_init, Polling!lcec_danfoss_fc302_init,
                Polling!lcec_el5021_init
  <2> QED
    BY <1>5, <2>1
<1>6. CASE Settings!Init
  BY <1>6 DEF Settings!Init
<1>7. CASE Serial!Init
  BY <1>7 DEF Serial!Init, Serial!lcec_el6002_init
<1>8. CASE Fsoe!Init
  BY <1>8 DEF Fsoe!Init
<1> QED
  BY <1>1, <1>2, <1>3, <1>4, <1>5, <1>6, <1>7, <1>8 DEF Init

---------------------------------------------------------------------------
(* EL6002.  Toggles are bits.                                              *)
Bit == {0, 1}

HalType == [tx_len : Bit, tx_data : Nat, tx_busy : BOOLEAN, rx_data : Nat, rx_ready : Bit]
DrvType == [tx_send_toggle : Bit, rx_req_last : Bit, tx_ack_last : Bit, accept : Bit]
InType == [ack : Bit, recv : Bit, data : Nat]
OutType == [send : Bit, accept : Bit, data : Nat]
EnvType == [line : Seq(Nat), given : Nat, seen : Seq(Nat), arrived : Nat, ready : Bit,
            req : Bit, ack : Bit, strange : BOOLEAN]

SerialType ==
  /\ phase \in {"bus", "read", "user", "write"} /\ up \in BOOLEAN
  /\ hal \in HalType /\ drv \in DrvType /\ in \in InType /\ out \in OutType /\ env \in EnvType

(* A message on its way out is waiting for the write callback, requested,  *)
(* taken, or acknowledged; each has its own differences between the four   *)
(* toggles.                                                                *)
Waits == ~hal.tx_busy /\ hal.tx_len = 1
Requested == hal.tx_busy /\ out.send # env.req
Taken == hal.tx_busy /\ out.send = env.req

Sending ==
  /\ drv.tx_send_toggle = out.send /\ env.req = env.ack
  /\ env.line = Serial!UpTo(IF Waits \/ Requested THEN env.given - 1 ELSE env.given)
  /\ Waits \/ Requested => env.given > 0
  /\ Waits => phase = "write" /\ hal.tx_data = env.given
  /\ Requested => in.ack = env.ack /\ drv.tx_ack_last = in.ack /\ out.data = env.given
  /\ Taken => drv.tx_ack_last # env.ack
  /\ ~hal.tx_busy => out.send = env.req /\ in.ack = env.ack /\ drv.tx_ack_last = in.ack
  /\ hal.tx_busy /\ hal.tx_len = 1 =>
       /\ in.ack = drv.tx_ack_last /\ phase # "write" /\ (phase = "bus" => Requested)
  /\ phase = "user" /\ up /\ hal.tx_busy => in.ack = drv.tx_ack_last

(* A message on its way in is shown by the terminal, read by the driver,   *)
(* or seen by the user.                                                    *)
Shown == in.recv # drv.rx_req_last
Fetched == hal.rx_ready # env.ready

Receiving ==
  /\ drv.accept = drv.rx_req_last
  /\ env.seen = Serial!UpTo(IF Shown \/ Fetched THEN env.arrived - 1 ELSE env.arrived)
  /\ Shown \/ Fetched => env.arrived > 0
  /\ Shown => ~Fetched /\ in.data = env.arrived /\ out.accept = drv.accept
  /\ Fetched => phase = "user" /\ hal.rx_data = env.arrived
  /\ phase \in {"bus", "read"} => out.accept = drv.accept

SerialInv == SerialType /\ (~env.strange => Sending /\ Receiving)

(* The numbers up to n, in order.                                          *)
LEMMA UpToExtended ==
  ASSUME NEW n \in Nat
  PROVE  /\ Serial!UpTo(n) \in Seq(Nat) /\ Len(Serial!UpTo(n)) = n
         /\ Append(Serial!UpTo(n), n + 1) = Serial!UpTo(n + 1)
<1>1. Serial!UpTo(n) \in Seq(Nat) /\ Len(Serial!UpTo(n)) = n
  BY DEF Serial!UpTo
<1>2. Serial!UpTo(n + 1) \in Seq(Nat) /\ Len(Serial!UpTo(n + 1)) = n + 1
  BY DEF Serial!UpTo
<1>3. Append(Serial!UpTo(n), n + 1) \in Seq(Nat) /\ Len(Append(Serial!UpTo(n), n + 1)) = n + 1
  BY <1>1
<1>4. \A i \in 1..n + 1 : Append(Serial!UpTo(n), n + 1)[i] = Serial!UpTo(n + 1)[i]
  BY <1>1, <1>2 DEF Serial!UpTo
<1> QED
  BY <1>1, <1>2, <1>3, <1>4, SeqEqual

(* The terminal starts with all its toggles at 0 and nothing sent.         *)
LEMMA SerialStart == ASSUME Serial!Init PROVE SerialInv
<1>1. PICK old \in 0..1 :
        /\ in = [ack |-> old, recv |-> 0, data |-> 0]
        /\ env = [line |-> <<>>, given |-> 0, seen |-> <<>>, arrived |-> 0, ready |-> 0,
                 req |-> 0, ack |-> old, strange |-> old # 0]
  BY DEF Serial!Init
<1> DEFINE none == <<>>
           strange == old # 0
<1>2. none \in Seq(Nat) /\ strange \in BOOLEAN /\ Serial!UpTo(0) = none
  BY DEF Serial!UpTo
<1>3. env = [line |-> none, given |-> 0, seen |-> none, arrived |-> 0, ready |-> 0,
             req |-> 0, ack |-> old, strange |-> strange]
  BY <1>1
<1> HIDE DEF none, strange
<1>4. env \in EnvType /\ in \in InType
  BY <1>1, <1>2, <1>3 DEF EnvType, InType, Bit
<1>5. phase = "bus" /\ up = FALSE /\ hal \in HalType /\ drv \in DrvType /\ out \in OutType
  BY DEF Serial!Init, Serial!lcec_el6002_init, HalType, DrvType, OutType, Bit
<1>6. SerialType
  BY <1>4, <1>5 DEF SerialType
<1>7. ASSUME ~env.strange PROVE Sending /\ Receiving
  <2>1. env.strange = strange
    BY <1>3
  <2>2. old = 0
    BY <1>7, <2>1 DEF strange
  <2>3. /\ env.line = none /\ env.given = 0 /\ env.seen = none /\ env.arrived = 0
        /\ env.ready = 0 /\ env.req = 0 /\ env.ack = 0 /\ in.ack = 0 /\ in.recv = 0
    BY <1>1, <1>3, <2>2
  <2>4. /\ drv.tx_send_toggle = 0 /\ drv.rx_req_last = 0 /\ drv.tx_ack_last = 0 /\ drv.accept = 0
        /\ hal.tx_len = 0 /\ ~hal.tx_busy /\ hal.rx_ready = 0 /\ out.send = 0 /\ out.accept = 0
    BY DEF Serial!Init, Serial!lcec_el6002_init
  <2> QED
    BY <1>2, <2>3, <2>4, <1>5 DEF Sending, Receiving, Waits, Requested, Taken, Shown, Fetched
<1> QED
  BY <1>6, <1>7 DEF SerialInv

(* The toggles stay bits and the histories sequences.                      *)
LEMMA SerialTypeStep == ASSUME SerialType, Serial!Next PROVE SerialType'
<1>1. /\ phase \in {"bus", "read", "user", "write"} /\ up \in BOOLEAN
      /\ hal \in HalType /\ drv \in DrvType /\ in \in InType /\ out \in OutType /\ env \in EnvType
  BY DEF SerialType
<1>2. SUFFICES /\ phase' \in {"bus", "read", "user", "write"} /\ up' \in BOOLEAN
               /\ hal' \in HalType /\ drv' \in DrvType /\ in' \in InType
               /\ out' \in OutType /\ env' \in EnvType
  BY DEF SerialType
<1>3. CASE Serial!Bus
  <2>1. Serial!Turn("bus", "read") /\ UNCHANGED <<hal, drv, out>>
    BY <1>3 DEF Serial!Bus
  <2>2. CASE up' \in BOOLEAN /\ UNCHANGED <<in, env>>
    BY <1>1, <2>1, <2>2 DEF Serial!Turn
  <2>3. ASSUME NEW takes \in BOOLEAN, NEW shows \in BOOLEAN, Serial!Exchange(takes, shows)
        PROVE  up' \in BOOLEAN /\ in' \in InType /\ env' \in EnvType
    <3>1. /\ up' = TRUE
          /\ in' = [ack |-> env.ack,
                    recv |-> IF shows THEN 1 - in.recv ELSE in.recv,
                    data |-> IF shows THEN env.arrived + 1 ELSE in.data]
          /\ env' = [env EXCEPT !.line = IF takes THEN Append(@, out.data) ELSE @,
                        !.req = IF takes THEN out.send ELSE @,
                        !.ack = IF takes THEN 1 - @ ELSE @,
                        !.arrived = IF shows THEN @ + 1 ELSE @]
      BY <2>3 DEF Serial!Exchange
    <3>2. in' \in InType
      BY <1>1, <3>1 DEF InType, EnvType, Bit
    <3>3. (IF takes THEN Append(env.line, out.data) ELSE env.line) \in Seq(Nat)
      BY <1>1 DEF EnvType, OutType
    <3>4. env' \in EnvType
      <4>1. PICK line \in Seq(Nat), req \in Bit, ack \in Bit, arrived \in Nat :
              env' = [env EXCEPT !.line = line, !.req = req, !.ack = ack, !.arrived = arrived]
        <5>1. /\ (IF takes THEN out.send ELSE env.req) \in Bit
              /\ (IF takes THEN 1 - env.ack ELSE env.ack) \in Bit
              /\ (IF shows THEN env.arrived + 1 ELSE env.arrived) \in Nat
          BY <1>1 DEF EnvType, OutType, Bit
        <5> QED
          BY <3>1, <3>3, <5>1
      <4> QED
        BY <1>1, <4>1 DEF EnvType
    <3> QED
      BY <3>1, <3>2, <3>4
  <2> QED
    BY <1>1, <1>3, <2>1, <2>2, <2>3 DEF Serial!Bus, Serial!Turn
<1>4. CASE Serial!Restart
  <2>1. in' \in InType
    BY <1>4 DEF Serial!Restart, InType, Bit
  <2>2. env' \in EnvType
    BY <1>1, <1>4 DEF Serial!Restart, EnvType, Bit
  <2> QED
    BY <1>1, <1>4, <2>1, <2>2 DEF Serial!Restart
<1>5. CASE Serial!lcec_el6002_read
  <2>1. Serial!Turn("read", "user") /\ UNCHANGED <<up, in, out, env>>
    BY <1>5 DEF Serial!lcec_el6002_read
  <2>2. hal' \in HalType
    <3>1. CASE ~up /\ UNCHANGED <<hal, drv>>
      BY <1>1, <3>1
    <3>2. CASE up
      <4> DEFINE new == in.recv # drv.rx_req_last
      <4>1. PICK busy \in BOOLEAN, data \in Nat, ready \in Bit :
              hal' = [hal EXCEPT !.tx_busy = busy, !.rx_data = data, !.rx_ready = ready]
        <5>1. hal' = [hal EXCEPT !.tx_busy = @ /\ ~Serial!Acked,
                                 !.rx_data = IF new THEN in.data ELSE @,
                                 !.rx_ready = IF new THEN 1 - @ ELSE @]
          BY <1>5, <3>2 DEF Serial!lcec_el6002_read
        <5>2. /\ (hal.tx_busy /\ ~Serial!Acked) \in BOOLEAN
              /\ (IF new THEN in.data ELSE hal.rx_data) \in Nat
              /\ (IF new THEN 1 - hal.rx_ready ELSE hal.rx_ready) \in Bit
          BY <1>1 DEF HalType, InType, Bit
        <5> HIDE DEF new
        <5> QED
          BY <5>1, <5>2
      <4> QED
        BY <1>1, <4>1 DEF HalType
    <3> QED
      BY <1>5, <3>1, <3>2 DEF Serial!lcec_el6002_read
  <2>3. drv' \in DrvType
    BY <1>1, <1>5 DEF Serial!lcec_el6002_read, DrvType, InType, Bit
  <2> QED
    BY <1>1, <2>1, <2>2, <2>3 DEF Serial!Turn
<1>6. CASE Serial!User
  <2>1. Serial!Turn("user", "write") /\ UNCHANGED <<up, drv, in, out>>
    BY <1>6 DEF Serial!User
  <2>2. hal' \in HalType
    <3>1. \/ hal' = [hal EXCEPT !.tx_len = 1, !.tx_data = env.given + 1]
          \/ hal' = [hal EXCEPT !.tx_len = 0]
          \/ hal' = hal
      BY <1>6 DEF Serial!User
    <3>2. env.given + 1 \in Nat
      BY <1>1 DEF EnvType
    <3> QED
      BY <1>1, <3>1, <3>2 DEF HalType, Bit
  <2>3. env' \in EnvType
    <3>1. PICK given \in Nat, seen \in Seq(Nat) :
            env' = [env EXCEPT !.given = given, !.seen = seen, !.ready = hal.rx_ready]
      <4>1. env' = [env EXCEPT !.given = IF hal'.tx_len > hal.tx_len THEN @ + 1 ELSE @,
                      !.seen = IF hal.rx_ready # env.ready THEN Append(@, hal.rx_data) ELSE @,
                      !.ready = hal.rx_ready]
        BY <1>6 DEF Serial!User
      <4>2. /\ (IF hal'.tx_len > hal.tx_len THEN env.given + 1 ELSE env.given) \in Nat
            /\ (IF hal.rx_ready # env.ready THEN Append(env.seen, hal.rx_data) ELSE env.seen) \in Seq(Nat)
        BY <1>1 DEF EnvType, HalType
      <4> QED
        BY <4>1, <4>2
    <3> QED
      BY <1>1, <3>1 DEF EnvType, HalType
  <2> QED
    BY <1>1, <2>1, <2>2, <2>3 DEF Serial!Turn
<1>7. CASE Serial!lcec_el6002_write
  <2>1. Serial!Turn("write", "bus") /\ UNCHANGED <<up, in, env>>
    BY <1>7 DEF Serial!lcec_el6002_write
  <2>2. hal' \in HalType /\ drv' \in DrvType
    <3>1. \/ /\ drv' = [drv EXCEPT !.tx_send_toggle = 1 - @]
             /\ hal' = [hal EXCEPT !.tx_busy = TRUE]
          \/ UNCHANGED <<drv, hal>>
      BY <1>7 DEF Serial!lcec_el6002_write
    <3>2. 1 - drv.tx_send_toggle \in Bit
      BY <1>1 DEF DrvType, Bit
    <3> QED
      BY <1>1, <3>1, <3>2 DEF HalType, DrvType
  <2>3. out' \in OutType
    <3>1. \/ out' = [send |-> 1 - drv.tx_send_toggle, accept |-> drv.accept, data |-> hal.tx_data]
          \/ out' = [out EXCEPT !.accept = drv.accept]
      BY <1>7 DEF Serial!lcec_el6002_write
    <3>2. 1 - drv.tx_send_toggle \in Bit /\ drv.accept \in Bit /\ hal.tx_data \in Nat
      BY <1>1 DEF DrvType, HalType, Bit
    <3> QED
      BY <1>1, <3>1, <3>2 DEF OutType
  <2> QED
    BY <1>1, <2>1, <2>2, <2>3 DEF Serial!Turn
<1> QED
  BY <1>3, <1>4, <1>5, <1>6, <1>7 DEF Serial!Next

(* The exchange of the images, with what it does to each field.            *)
LEMMA SerialBusStep ==
  ASSUME SerialType, ~env.strange, Sending, Receiving, Serial!Bus
  PROVE  Sending' /\ Receiving'
<1>1. /\ phase = "bus" /\ phase' = "read" /\ hal' = hal /\ drv' = drv /\ out' = out
      /\ env.line \in Seq(Nat) /\ env.given \in Nat /\ env.arrived \in Nat /\ env.seen \in Seq(Nat)
      /\ env.req \in Bit /\ env.ack \in Bit /\ env.ready \in Bit /\ hal.tx_busy \in BOOLEAN
      /\ hal.tx_len \in Bit /\ hal.rx_ready \in Bit /\ in.ack \in Bit /\ in.recv \in Bit
      /\ out.send \in Bit /\ out.accept \in Bit /\ drv.tx_ack_last \in Bit /\ drv.accept \in Bit
      /\ drv.rx_req_last \in Bit
  BY DEF Serial!Bus, Serial!Turn, SerialType, HalType, DrvType, InType, OutType, EnvType
<1>2. CASE UNCHANGED <<in, env>>
  BY <1>1, <1>2 DEF Sending, Receiving, Waits, Requested, Taken, Shown, Fetched
<1>3. ASSUME NEW takes \in BOOLEAN, NEW shows \in BOOLEAN, Serial!Exchange(takes, shows)
      PROVE  Sending' /\ Receiving'
  <2>1. /\ takes => env.req # out.send
        /\ shows => out.accept = in.recv
        /\ in' = [ack |-> env.ack,
                  recv |-> IF shows THEN 1 - in.recv ELSE in.recv,
                  data |-> IF shows THEN env.arrived + 1 ELSE in.data]
        /\ env' = [env EXCEPT !.line = IF takes THEN Append(@, out.data) ELSE @,
                      !.req = IF takes THEN out.send ELSE @,
                      !.ack = IF takes THEN 1 - @ ELSE @,
                      !.arrived = IF shows THEN @ + 1 ELSE @]
    BY <1>3 DEF Serial!Exchange, Serial!Takes, Serial!Shows
  <2>2. /\ in'.ack = env.ack
        /\ in'.recv = (IF shows THEN 1 - in.recv ELSE in.recv)
        /\ in'.data = (IF shows THEN env.arrived + 1 ELSE in.data)
    BY <2>1
  <2>3. /\ env'.line = (IF takes THEN Append(env.line, out.data) ELSE env.line)
        /\ env'.req = (IF takes THEN out.send ELSE env.req)
        /\ env'.ack = (IF takes THEN 1 - env.ack ELSE env.ack)
        /\ env'.arrived = (IF shows THEN env.arrived + 1 ELSE env.arrived)
        /\ env'.given = env.given /\ env'.seen = env.seen /\ env'.ready = env.ready
    BY <2>1 DEF SerialType, EnvType
  <2>4. Sending'
    <3>1. CASE takes
      <4>1. Requested /\ ~Waits
        BY <1>1, <2>1, <3>1 DEF Sending, Requested, Waits, Bit
      <4>2. /\ Taken' /\ ~Requested' /\ ~Waits'
            /\ env'.req = env'.ack /\ drv'.tx_ack_last # env'.ack /\ in'.ack = drv'.tx_ack_last
        BY <1>1, <2>1, <2>2, <2>3, <3>1, <4>1 DEF Sending, Requested, Taken, Waits, Bit
      <4>3. env'.line = Serial!UpTo(env'.given)
        <5>1. env.line = Serial!UpTo(env.given - 1) /\ out.data = env.given /\ env.given > 0
          BY <1>1, <4>1 DEF Sending
        <5>2. env.given - 1 \in Nat /\ (env.given - 1) + 1 = env.given
          BY <1>1, <5>1
        <5>3. Append(Serial!UpTo(env.given - 1), (env.given - 1) + 1) = Serial!UpTo((env.given - 1) + 1)
          BY <5>2, UpToExtended
        <5> QED
          BY <2>3, <3>1, <5>1, <5>2, <5>3
      <4> QED
        BY <1>1, <2>3, <3>1, <4>1, <4>2, <4>3 DEF Sending, Taken, Requested, Waits
    <3>2. CASE ~takes
      BY <1>1, <2>2, <2>3, <3>2 DEF Sending, Requested, Taken, Waits, Bit
    <3> QED
      BY <3>1, <3>2
  <2>5. Receiving'
    <3>1. CASE shows
      <4>1. ~Shown /\ ~Fetched
        BY <1>1, <2>1, <3>1 DEF Receiving, Shown, Fetched
      <4>2. Shown' /\ ~Fetched' /\ in'.data = env'.arrived /\ env'.arrived > 0
        BY <1>1, <2>1, <2>2, <2>3, <3>1, <4>1 DEF Receiving, Shown, Fetched, Bit
      <4>3. env.seen = Serial!UpTo(env.arrived) /\ env'.arrived - 1 = env.arrived
        BY <1>1, <2>3, <3>1, <4>1 DEF Receiving
      <4> QED
        BY <1>1, <2>3, <4>2, <4>3 DEF Receiving
    <3>2. CASE ~shows
      BY <1>1, <2>2, <2>3, <3>2 DEF Receiving, Shown, Fetched, Bit
    <3> QED
      BY <3>1, <3>2
  <2> QED
    BY <2>4, <2>5
<1> QED
  BY <1>2, <1>3 DEF Serial!Bus

(* A read takes a string that the terminal shows, once.                    *)
LEMMA SerialReadStep ==
  ASSUME SerialType, ~env.strange, Sending, Receiving, Serial!lcec_el6002_read
  PROVE  Sending' /\ Receiving'
<1>1. /\ phase = "read" /\ phase' = "user" /\ up' = up /\ in' = in /\ env' = env /\ out' = out
      /\ env.ready \in Bit /\ hal.rx_ready \in Bit /\ hal.tx_busy \in BOOLEAN /\ up \in BOOLEAN
      /\ hal.tx_len \in Bit /\ in.ack \in Bit /\ in.recv \in Bit
      /\ drv.tx_ack_last \in Bit /\ drv.accept \in Bit /\ drv.rx_req_last \in Bit
      /\ env.ack \in Bit /\ env.req \in Bit /\ out.send \in Bit /\ out.accept \in Bit
  BY DEF Serial!lcec_el6002_read, Serial!Turn, SerialType, HalType, DrvType, InType, OutType, EnvType
<1>2. CASE ~up /\ UNCHANGED <<hal, drv>>
  BY <1>1, <1>2 DEF Sending, Receiving, Waits, Requested, Taken, Shown, Fetched
<1>3. CASE up /\ ~(~up /\ UNCHANGED <<hal, drv>>)
  <2>1. /\ hal' = [hal EXCEPT !.tx_busy = @ /\ ~Serial!Acked,
                              !.rx_data = IF Shown THEN in.data ELSE @,
                              !.rx_ready = IF Shown THEN 1 - @ ELSE @]
        /\ drv' = [drv EXCEPT !.tx_ack_last = in.ack, !.rx_req_last = in.recv,
                              !.accept = IF Shown THEN in.recv ELSE @]
    BY <1>3 DEF Serial!lcec_el6002_read, Shown
  <2>2. /\ drv'.tx_send_toggle = drv.tx_send_toggle /\ drv'.tx_ack_last = in.ack
        /\ drv'.rx_req_last = in.recv
        /\ drv'.accept = (IF Shown THEN in.recv ELSE drv.accept)
    BY <2>1 DEF SerialType, DrvType
  <2>3. /\ hal'.tx_len = hal.tx_len /\ hal'.tx_data = hal.tx_data
        /\ hal'.tx_busy <=> (hal.tx_busy /\ in.ack = drv.tx_ack_last)
        /\ hal'.rx_data = (IF Shown THEN in.data ELSE hal.rx_data)
        /\ hal'.rx_ready = (IF Shown THEN 1 - hal.rx_ready ELSE hal.rx_ready)
    BY <2>1 DEF SerialType, HalType, Serial!Acked
  <2>4. Sending'
    <3>1. CASE hal.tx_busy /\ in.ack # drv.tx_ack_last
      \* The acknowledgement has come: nothing is under way any more.
      <4>1. Taken /\ ~Requested /\ hal.tx_len = 0 /\ ~hal'.tx_busy
        BY <1>1, <2>3, <3>1 DEF Sending, Taken, Requested, Bit
      <4>2. in.ack = env.ack
        BY <1>1, <3>1, <4>1 DEF Sending, Bit
      <4>3. ~Waits' /\ ~Requested' /\ ~Taken' /\ ~Waits
        BY <2>3, <3>1, <4>1 DEF Waits, Requested, Taken
      <4>4. /\ drv.tx_send_toggle = out.send /\ env.req = env.ack /\ out.send = env.req
            /\ env.line = Serial!UpTo(env.given)
        BY <4>1, <4>3 DEF Sending, Taken
      <4> QED
        BY <1>1, <2>2, <2>3, <4>1, <4>2, <4>3, <4>4 DEF Sending
    <3>2. CASE ~(hal.tx_busy /\ in.ack # drv.tx_ack_last)
      <4>1. hal'.tx_busy <=> hal.tx_busy
        BY <2>3, <3>2
      <4>2. (Waits' <=> Waits) /\ (Requested' <=> Requested) /\ (Taken' <=> Taken)
        BY <1>1, <2>3, <4>1 DEF Waits, Requested, Taken
      <4> QED
        BY <1>1, <2>2, <2>3, <3>2, <4>1, <4>2 DEF Sending
    <3> QED
      BY <3>1, <3>2
  <2>5. Receiving'
    <3>1. ~Shown'
      BY <1>1, <2>2 DEF Shown
    <3>2. ~Fetched
      BY <1>1 DEF Receiving
    <3>3. Fetched' <=> Shown
      BY <1>1, <2>3, <3>2 DEF Fetched, Bit
    <3>4. drv'.accept = drv'.rx_req_last
      BY <1>1, <2>2 DEF Receiving, Shown
    <3> QED
      BY <1>1, <2>3, <3>1, <3>2, <3>3, <3>4 DEF Receiving
  <2> QED
    BY <2>4, <2>5
<1> QED
  BY <1>1, <1>2, <1>3 DEF Serial!lcec_el6002_read

(* The user hands a message over or fetches one.                           *)
LEMMA SerialUserStep ==
  ASSUME SerialType, ~env.strange, Sending, Receiving, Serial!User
  PROVE  Sending' /\ Receiving'
<1>1. /\ phase = "user" /\ phase' = "write" /\ up' = up /\ in' = in /\ drv' = drv /\ out' = out
      /\ env.ready \in Bit /\ hal.rx_ready \in Bit /\ hal.tx_busy \in BOOLEAN /\ hal.tx_len \in Bit
      /\ env.given \in Nat /\ env.arrived \in Nat /\ env.seen \in Seq(Nat) /\ hal.rx_data \in Nat
  BY DEF Serial!User, Serial!Turn, SerialType, HalType, EnvType
<1>2. \/ /\ ~hal.tx_busy /\ hal.tx_len = 0
         /\ hal' = [hal EXCEPT !.tx_len = 1, !.tx_data = env.given + 1]
      \/ hal.tx_busy /\ hal' = [hal EXCEPT !.tx_len = 0]
      \/ ~hal.tx_busy /\ hal' = hal
  BY DEF Serial!User
<1>3. env' = [env EXCEPT !.given = IF hal'.tx_len > hal.tx_len THEN @ + 1 ELSE @,
                         !.seen = IF Fetched THEN Append(@, hal.rx_data) ELSE @,
                         !.ready = hal.rx_ready]
  BY DEF Serial!User, Fetched
<1>4. /\ env'.given = (IF hal'.tx_len > hal.tx_len THEN env.given + 1 ELSE env.given)
      /\ env'.seen = (IF Fetched THEN Append(env.seen, hal.rx_data) ELSE env.seen)
      /\ env'.ready = hal.rx_ready /\ env'.line = env.line /\ env'.arrived = env.arrived
      /\ env'.req = env.req /\ env'.ack = env.ack
  BY <1>3 DEF SerialType, EnvType
<1>5. /\ hal'.tx_busy = hal.tx_busy /\ hal'.rx_data = hal.rx_data /\ hal'.rx_ready = hal.rx_ready
      /\ \/ ~hal.tx_busy /\ hal.tx_len = 0 /\ hal'.tx_len = 1 /\ hal'.tx_data = env.given + 1
         \/ hal.tx_busy /\ hal'.tx_len = 0
         \/ ~hal.tx_busy /\ hal'.tx_len = hal.tx_len
  BY <1>2 DEF SerialType, HalType
<1>6. Sending'
  <2>1. ~Waits
    BY <1>1 DEF Sending
  <2>2. CASE hal.tx_busy
    <3>1. hal'.tx_busy /\ hal'.tx_len = 0 /\ env'.given = env.given
      BY <1>1, <1>4, <1>5, <2>2 DEF Bit
    <3>2. ~Waits' /\ (Requested' <=> Requested) /\ (Taken' <=> Taken)
      BY <1>1, <1>4, <2>2, <3>1 DEF Waits, Requested, Taken
    <3> QED
      BY <1>1, <1>4, <2>1, <2>2, <3>1, <3>2 DEF Sending
  <2>3. CASE ~hal.tx_busy
    <3>1. ~hal'.tx_busy /\ ~Requested /\ ~Taken /\ ~Requested' /\ ~Taken'
      BY <1>5, <2>3 DEF Requested, Taken
    <3>2. hal.tx_len = 0
      BY <1>1, <2>1, <2>3 DEF Waits, Bit
    <3>3. \/ hal'.tx_len = 1 /\ hal'.tx_data = env.given + 1 /\ env'.given = env.given + 1 /\ Waits'
          \/ hal'.tx_len = 0 /\ env'.given = env.given /\ ~Waits'
      BY <1>1, <1>4, <1>5, <2>3, <3>1, <3>2 DEF Waits
    <3> QED
      BY <1>1, <1>4, <2>1, <2>3, <3>1, <3>3 DEF Sending
  <2> QED
    BY <2>2, <2>3
<1>7. Receiving'
  <2>1. ~Fetched' /\ (Shown' <=> Shown)
    BY <1>1, <1>4, <1>5 DEF Fetched, Shown
  <2>2. CASE Fetched
    <3>1. /\ ~Shown /\ env.seen = Serial!UpTo(env.arrived - 1) /\ hal.rx_data = env.arrived
          /\ env.arrived - 1 \in Nat /\ (env.arrived - 1) + 1 = env.arrived
      BY <1>1, <2>2 DEF Receiving
    <3>2. env'.seen = Serial!UpTo(env'.arrived)
      BY <1>4, <2>2, <3>1, UpToExtended
    <3> QED
      BY <1>1, <1>4, <2>1, <2>2, <3>1, <3>2 DEF Receiving
  <2>3. CASE ~Fetched
    BY <1>1, <1>4, <2>1, <2>3 DEF Receiving
  <2> QED
    BY <2>2, <2>3
<1> QED
  BY <1>6, <1>7

(* A write sends the message that waits and answers the terminal.          *)
LEMMA SerialWriteStep ==
  ASSUME SerialType, ~env.strange, Sending, Receiving, Serial!lcec_el6002_write
  PROVE  Sending' /\ Receiving'
<1>1. /\ phase = "write" /\ phase' = "bus" /\ up' = up /\ in' = in /\ env' = env
      /\ hal.tx_busy \in BOOLEAN /\ hal.tx_len \in Bit /\ drv.tx_send_toggle \in Bit
      /\ env.req \in Bit /\ env.ack \in Bit /\ env.given \in Nat
  BY DEF Serial!lcec_el6002_write, Serial!Turn, SerialType, HalType, DrvType, EnvType
<1>2. CASE hal.tx_len > 0 /\ ~hal.tx_busy
  <2>1. /\ drv' = [drv EXCEPT !.tx_send_toggle = 1 - @]
        /\ hal' = [hal EXCEPT !.tx_busy = TRUE]
        /\ out' = [send |-> 1 - drv.tx_send_toggle, accept |-> drv.accept, data |-> hal.tx_data]
    BY <1>2 DEF Serial!lcec_el6002_write
  <2>2. /\ drv'.tx_send_toggle = 1 - drv.tx_send_toggle /\ drv'.tx_ack_last = drv.tx_ack_last
        /\ drv'.rx_req_last = drv.rx_req_last /\ drv'.accept = drv.accept
        /\ hal'.tx_busy /\ hal'.tx_len = hal.tx_len /\ hal'.tx_data = hal.tx_data
        /\ hal'.rx_data = hal.rx_data /\ hal'.rx_ready = hal.rx_ready
        /\ out'.send = 1 - drv.tx_send_toggle /\ out'.accept = drv.accept /\ out'.data = hal.tx_data
    BY <2>1 DEF SerialType, HalType, DrvType
  <2>3. Waits /\ hal.tx_len = 1
    BY <1>1, <1>2 DEF Waits, Bit
  <2>4. Requested' /\ ~Waits' /\ ~Taken'
    BY <1>1, <1>2, <2>2 DEF Sending, Requested, Waits, Taken, Bit
  <2>5. Sending'
    BY <1>1, <1>2, <2>2, <2>3, <2>4 DEF Sending
  <2>6. Receiving'
    BY <1>1, <2>2 DEF Receiving, Shown, Fetched
  <2> QED
    BY <2>5, <2>6
<1>3. CASE ~(hal.tx_len > 0 /\ ~hal.tx_busy)
  <2>1. out' = [out EXCEPT !.accept = drv.accept] /\ drv' = drv /\ hal' = hal
    BY <1>3 DEF Serial!lcec_el6002_write
  <2>2. out'.send = out.send /\ out'.data = out.data /\ out'.accept = drv.accept
    BY <2>1 DEF SerialType, OutType
  <2>3. ~Waits /\ ~Waits' /\ (Requested' <=> Requested) /\ (Taken' <=> Taken)
    BY <1>1, <1>3, <2>1, <2>2 DEF Waits, Requested, Taken
  <2>4. ~(hal.tx_busy /\ hal.tx_len = 1)
    BY <1>1 DEF Sending
  <2>5. Sending'
    BY <1>1, <2>1, <2>2, <2>3, <2>4 DEF Sending
  <2>6. Receiving'
    BY <1>1, <2>1, <2>2 DEF Receiving, Shown, Fetched
  <2> QED
    BY <2>5, <2>6
<1> QED
  BY <1>2, <1>3

(* So each step keeps the two halves of the handshake.                     *)
LEMMA SerialStep ==
  ASSUME SerialInv, [Serial!Next]_slaveVars
  PROVE  SerialInv'
<1>1. CASE UNCHANGED slaveVars
  BY <1>1 DEF slaveVars, SerialInv, SerialType, Sending, Receiving, Waits, Requested, Taken, Shown, Fetched
<1>2. CASE Serial!Next
  <2>1. SerialType'
    BY <1>2, SerialTypeStep DEF SerialInv
  <2>2. ASSUME ~env'.strange PROVE ~env.strange /\ ~Serial!Restart
    <3>1. ~Serial!Restart
      BY <2>2 DEF Serial!Restart, SerialInv, SerialType, EnvType
    <3>2. env'.strange = env.strange
      BY <1>2, <3>1 DEF Serial!Next, Serial!Bus, Serial!Exchange, Serial!lcec_el6002_read, Serial!User,
                        Serial!lcec_el6002_write, SerialInv, SerialType, EnvType
    <3> QED
      BY <2>2, <3>1, <3>2
  <2>3. ASSUME ~env'.strange PROVE Sending' /\ Receiving'
    BY <1>2, <2>2, <2>3, SerialBusStep, SerialReadStep, SerialUserStep, SerialWriteStep
       DEF SerialInv, Serial!Next
  <2> QED
    BY <2>1, <2>3 DEF SerialInv
<1> QED
  BY <1>1, <1>2

(* A channel that is in step has its messages in order.                    *)
LEMMA SerialInOrder == ASSUME SerialInv PROVE Serial!MessagesInOrder
<1> SUFFICES ASSUME ~env.strange
             PROVE  /\ env.line = Serial!UpTo(Len(env.line)) /\ Len(env.line) <= env.given
                    /\ env.seen = Serial!UpTo(Len(env.seen)) /\ Len(env.seen) <= env.arrived
                    /\ ~hal.tx_busy /\ hal.tx_len = 0 => Len(env.line) = env.given
                    /\ phase = "write" /\ out.accept = in.recv => Len(env.seen) = env.arrived
  BY DEF Serial!MessagesInOrder
<1>1. env.given \in Nat /\ env.arrived \in Nat /\ Sending /\ Receiving
  BY DEF SerialInv, SerialType, EnvType
<1> DEFINE sent == IF Waits \/ Requested THEN env.given - 1 ELSE env.given
           seen == IF Shown \/ Fetched THEN env.arrived - 1 ELSE env.arrived
<1>2. sent \in Nat /\ sent <= env.given /\ env.line = Serial!UpTo(sent)
  BY <1>1 DEF Sending
<1>3. seen \in Nat /\ seen <= env.arrived /\ env.seen = Serial!UpTo(seen)
  BY <1>1 DEF Receiving
<1>4. Len(env.line) = sent /\ Len(env.seen) = seen
  <2> HIDE DEF sent, seen
  <2> QED
    BY <1>2, <1>3, UpToExtended
<1>5. ~hal.tx_busy /\ hal.tx_len = 0 => sent = env.given
  BY DEF Waits, Requested
<1>6. phase = "write" /\ out.accept = in.recv => seen = env.arrived
  BY <1>1 DEF Receiving, Shown, Fetched
<1> HIDE DEF sent, seen
<1> QED
  BY <1>2, <1>3, <1>4, <1>5, <1>6

(* While the terminal keeps its toggles, every message goes over the line  *)
(* once and in order, and reaches the user once and in order, for any      *)
(* number of messages and of outages (lcec_el6002.c 285-380).              *)
THEOREM MessagesInOrderCorrect == Spec => []MessagesInOrder
<1> DEFINE Inv == device = "EL6002" => SerialInv
<1>1. Init => Inv
  BY OneStart, SerialStart
<1>2. Inv /\ [Next]_slaveVars => Inv'
  BY OneDriver, SerialStep
<1>3. Inv => MessagesInOrder
  BY SerialInOrder DEF MessagesInOrder
<1> QED
  BY <1>1, <1>2, <1>3, PTL DEF Spec

---------------------------------------------------------------------------
(* Requests of EL7332, FC302 and EL5021.                                   *)
Status == {"unused", "busy", "success", "error"}

(* What is known of the mailbox, and what an exchange leaves of it.        *)
Mail ==
  /\ env = [sdo |-> env.sdo, taken |-> env.taken, astray |-> env.astray, lost |-> env.lost]
  /\ env.sdo \in [Polling!Objects -> Status]
  /\ env.taken \subseteq Polling!Objects /\ env.astray \subseteq Polling!Objects
  /\ env.lost = FALSE

Elements(q) == {q[i] : i \in DOMAIN q}

(* What sequences hold when they are put together.                         *)
LEMMA Joined ==
  ASSUME NEW S, NEW q \in Seq(S), NEW r \in Seq(S)
  PROVE  /\ q \o r \in Seq(S) /\ Len(q \o r) = Len(q) + Len(r)
         /\ Elements(q \o r) = Elements(q) \cup Elements(r)
<1>1. /\ q \o r \in Seq(S) /\ Len(q \o r) = Len(q) + Len(r)
      /\ Len(q) \in Nat /\ Len(r) \in Nat
      /\ DOMAIN (q \o r) = 1..Len(q) + Len(r) /\ DOMAIN q = 1..Len(q) /\ DOMAIN r = 1..Len(r)
  BY ConcatProperties, LenProperties
<1>2. \A i \in 1..Len(q) + Len(r) : (q \o r)[i] = IF i <= Len(q) THEN q[i] ELSE r[i - Len(q)]
  BY ConcatProperties
<1>3. ASSUME NEW i \in 1..Len(q) + Len(r) PROVE (q \o r)[i] \in Elements(q) \cup Elements(r)
  <2>1. CASE i <= Len(q)
    BY <1>1, <1>2, <2>1 DEF Elements
  <2>2. CASE ~(i <= Len(q))
    <3>1. i - Len(q) \in 1..Len(r)
      BY <1>1, <2>2
    <3> QED
      BY <1>1, <1>2, <2>2, <3>1 DEF Elements
  <2> QED
    BY <2>1, <2>2
<1>4. ASSUME NEW i \in 1..Len(q) PROVE q[i] \in Elements(q \o r)
  <2>1. i \in 1..Len(q) + Len(r) /\ (q \o r)[i] = q[i]
    BY <1>1, <1>2
  <2> QED
    BY <1>1, <2>1 DEF Elements
<1>5. ASSUME NEW i \in 1..Len(r) PROVE r[i] \in Elements(q \o r)
  <2>1. /\ i + Len(q) \in 1..Len(q) + Len(r) /\ ~(i + Len(q) <= Len(q))
        /\ (i + Len(q)) - Len(q) = i
    BY <1>1
  <2>2. (q \o r)[i + Len(q)] = r[i]
    BY <1>2, <2>1
  <2> QED
    BY <1>1, <2>1, <2>2 DEF Elements
<1> QED
  BY <1>1, <1>3, <1>4, <1>5 DEF Elements

(* Every slot that EL7332 may poll names one of its objects.               *)
LEMMA SlotsAreObjects ==
  ASSUME NEW ok \in BOOLEAN, NEW info \in BOOLEAN
  PROVE  /\ Len(Polling!EL7332Slots(ok, info)) \in Nat \ {0}
         /\ \A i \in 1..Len(Polling!EL7332Slots(ok, info)) :
              Polling!EL7332Slots(ok, info)[i] \in Polling!ToSet(Polling!EL7332Slots(TRUE, TRUE))
<1> DEFINE Names == {"temp", "supply"} \cup Elements(Diag) \cup Elements(Info)
           none == <<>>
           first == <<"temp", "supply">>
           head == IF ok THEN first ELSE none
           tail == IF info THEN Info ELSE none
<1>1. none \in Seq(Names) /\ first \in Seq(Names) /\ Len(none) = 0 /\ Elements(none) = {}
  <2>1. none \in Seq(Names) /\ Len(none) = 0
    BY EmptySeq
  <2>2. DOMAIN none = {}
    BY <2>1
  <2>3. first \in Seq(Names)
    BY DEF Elements
  <2> QED
    BY <2>1, <2>2, <2>3 DEF Elements
<1>2. Diag \in Seq(Names) /\ Diag # none /\ Info \in Seq(Names)
  <2>1. Diag \in Seq(Elements(Diag)) /\ Info \in Seq(Elements(Info)) /\ Diag # none
    BY PollingAssumption DEF IsSequence, Elements
  <2> QED
    BY <2>1
<1>3. Len(Diag) \in Nat \ {0}
  BY <1>2, EmptySeq
<1>4. /\ Polling!EL7332Slots(ok, info) = (head \o Diag) \o tail
      /\ Polling!EL7332Slots(TRUE, TRUE) = (first \o Diag) \o Info
  BY DEF Polling!EL7332Slots
<1> HIDE DEF none, first, Names
<1>5. /\ head \in Seq(Names) /\ Elements(head) \subseteq Elements(first) /\ Len(head) \in Nat
      /\ tail \in Seq(Names) /\ Elements(tail) \subseteq Elements(Info) /\ Len(tail) \in Nat
  BY <1>1, <1>2, LenProperties
<1> HIDE DEF head, tail
<1> DEFINE start == head \o Diag
           slots == start \o tail
           allStart == first \o Diag
           all == allStart \o Info
<1>6. /\ start \in Seq(Names) /\ Len(start) = Len(head) + Len(Diag)
      /\ Elements(start) = Elements(head) \cup Elements(Diag)
  BY <1>2, <1>5, Joined
<1>7. /\ allStart \in Seq(Names) /\ Elements(allStart) = Elements(first) \cup Elements(Diag)
  BY <1>1, <1>2, Joined
<1> HIDE DEF start, allStart
<1>8. /\ slots \in Seq(Names) /\ Len(slots) = Len(start) + Len(tail)
      /\ Elements(slots) = Elements(start) \cup Elements(tail)
  BY <1>5, <1>6, Joined
<1>9. all \in Seq(Names) /\ Elements(all) = Elements(allStart) \cup Elements(Info)
  BY <1>2, <1>7, Joined
<1>10. Polling!EL7332Slots(ok, info) = slots /\ Polling!EL7332Slots(TRUE, TRUE) = all
  BY <1>4 DEF start, allStart
<1> HIDE DEF slots, all
<1>11. Elements(slots) \subseteq Polling!ToSet(all)
  BY <1>5, <1>6, <1>7, <1>8, <1>9 DEF Elements, Polling!ToSet
<1>12. \A i \in 1..Len(slots) : slots[i] \in Elements(slots)
  BY <1>8 DEF Elements
<1>13. Len(slots) \in Nat \ {0}
  BY <1>3, <1>5, <1>6, <1>8
<1> QED
  BY <1>8, <1>10, <1>11, <1>12, <1>13

(* An exchange that starts requests whose answers are not awaited.         *)
Spared(started, shown, strays) ==
  \A s \in started : env.sdo[s] = "success" =>
    s \in env.taken \/ s \in shown \/ s \in env.astray \/ s \in strays

Exchanged(started, shown, strays) ==
  /\ Mail' /\ Polling!Objects' = Polling!Objects
  /\ env'.sdo = [s \in Polling!Objects |-> IF s \in started THEN "busy" ELSE env.sdo[s]]
  /\ env'.taken = env.taken \cup shown
  /\ env'.astray = (env.astray \cup strays) \ started

(* An exchange with the mailbox leaves the objects it does not touch.      *)
LEMMA MailboxStep ==
  ASSUME Mail, device' = device, NEW started, NEW shown, NEW strays,
         shown \subseteq Polling!Objects, strays \subseteq Polling!Objects,
         Polling!Mailbox(started, shown, strays), Spared(started, shown, strays)
  PROVE  Exchanged(started, shown, strays)
<1>1. Polling!Objects' = Polling!Objects
  BY DEF Polling!Objects
<1> DEFINE sdo == [s \in Polling!Objects |-> IF s \in started THEN "busy" ELSE env.sdo[s]]
           forgets == \E s \in started \ UNION {env.taken, shown, env.astray, strays} :
                        env.sdo[s] = "success"
           lost == env.lost \/ forgets
<1>2. env' = [env EXCEPT !.sdo = sdo, !.taken = @ \cup shown,
                         !.astray = (@ \cup strays) \ started, !.lost = lost]
  BY DEF Polling!Mailbox, Mail
<1>3. lost = FALSE
  <2>1. ~forgets
    BY DEF Spared
  <2> HIDE DEF forgets
  <2> QED
    BY <2>1 DEF Mail
<1>4. sdo \in [Polling!Objects -> Status]
  BY DEF Mail, Status
<1> HIDE DEF sdo, lost
<1>5. /\ env'.sdo = sdo /\ env'.taken = env.taken \cup shown
      /\ env'.astray = (env.astray \cup strays) \ started /\ env'.lost = FALSE
      /\ env' = [sdo |-> env'.sdo, taken |-> env'.taken, astray |-> env'.astray, lost |-> env'.lost]
  BY <1>2, <1>3 DEF Mail
<1>6. Mail'
  BY <1>1, <1>4, <1>5 DEF Mail
<1> QED
  BY <1>1, <1>5, <1>6 DEF sdo, Exchanged

(* Requests that are under way or whose answer nobody has taken.  EL7332   *)
(* has its current one and what went astray; FC302 that of the mode of     *)
(* operation and the current one of Infos-RO, and has started what it says *)
(* it has started.                                                         *)
EL7332Inv ==
  /\ drv = [info |-> drv.info, timer |-> drv.timer, index |-> drv.index, current |-> drv.current]
  /\ drv.info \in BOOLEAN /\ drv.index \in Nat \ {0}
  /\ in.error \in BOOLEAN
  /\ Polling!Open \subseteq {drv.current} \cup env.astray

Current == InfosRO[drv.current]

FC302Inv ==
  /\ drv \in [count : 0..Len(InfosRO), delay : Int, modes : BOOLEAN, running : BOOLEAN,
              current : Nat \ {0}]
  /\ Polling!Open \subseteq {"modes", Current}
  /\ ~drv.modes => env.sdo["modes"] = "unused"
  /\ drv.running => /\ drv.count > 0 /\ drv.current <= drv.count
                    /\ env.sdo[Current] # "unused" /\ hal.busy
  /\ ~drv.running => /\ drv.current = 1
                     /\ \A i \in 1..Len(InfosRO) : env.sdo[InfosRO[i]] = "unused"

PollingInv ==
  /\ Mail
  /\ device = "EL7332" => EL7332Inv
  /\ device = "FC302" => FC302Inv

(* Nothing has been asked for at the start.                                *)
LEMMA PollingStart == ASSUME Polling!Init PROVE PollingInv
<1>1. /\ env = [sdo |-> [s \in Polling!Objects |-> "unused"], taken |-> {}, astray |-> {}, lost |-> FALSE]
      /\ in = [error |-> FALSE]
  BY DEF Polling!Init
<1>2. Mail
  <2> DEFINE sdo == [s \in Polling!Objects |-> "unused"]
  <2>1. sdo \in [Polling!Objects -> Status]
    BY DEF Status
  <2> HIDE DEF sdo
  <2>2. /\ env.sdo = sdo /\ env.taken = {} /\ env.astray = {} /\ env.lost = FALSE
        /\ env = [sdo |-> env.sdo, taken |-> env.taken, astray |-> env.astray, lost |-> env.lost]
    BY <1>1 DEF sdo
  <2> QED
    BY <2>1, <2>2 DEF Mail
<1>3. Polling!Open = {}
  BY <1>1 DEF Polling!Open
<1>4. ASSUME device = "EL7332" PROVE EL7332Inv
  <2>1. PICK info \in BOOLEAN :
          drv = [info |-> info, timer |-> Interval - 1, index |-> 1, current |-> "temp"]
    BY <1>4 DEF Polling!Init, Polling!lcec_el7332_init, Polling!lcec_danfoss_fc302_init,
                Polling!lcec_el5021_init
  <2>3. /\ drv = [info |-> drv.info, timer |-> drv.timer, index |-> drv.index, current |-> drv.current]
        /\ drv.info \in BOOLEAN /\ drv.index \in Nat \ {0}
    BY <2>1
  <2>4. in.error \in BOOLEAN
    BY <1>1
  <2> QED
    BY <1>3, <2>3, <2>4 DEF EL7332Inv
<1>5. ASSUME device = "FC302" PROVE FC302Inv
  <2>1. PICK n \in 0..Len(InfosRO) :
          drv = [count |-> n, delay |-> StartDelay, modes |-> FALSE, running |-> FALSE, current |-> 1]
    BY <1>5 DEF Polling!Init, Polling!lcec_el7332_init, Polling!lcec_danfoss_fc302_init,
                Polling!lcec_el5021_init
  <2>2. /\ drv \in [count : 0..Len(InfosRO), delay : Int, modes : BOOLEAN, running : BOOLEAN,
                    current : Nat \ {0}]
        /\ ~drv.modes /\ ~drv.running /\ drv.current = 1
    BY <2>1, PollingAssumption
  <2>3. Polling!Objects = {"modes"} \cup Polling!ToSet(InfosRO)
    BY <1>5 DEF Polling!Objects
  <2>4. \A s \in Polling!Objects : env.sdo[s] = "unused"
    BY <1>1
  <2>5. \A i \in 1..Len(InfosRO) : InfosRO[i] \in Polling!ToSet(InfosRO)
    BY PollingAssumption DEF Polling!ToSet
  <2> QED
    BY <1>3, <2>2, <2>3, <2>4, <2>5 DEF FC302Inv
<1> QED
  BY <1>2, <1>4, <1>5 DEF PollingInv

(* An answer opens nothing, and closes nothing that was not taken.         *)
LEMMA PollingBusStep ==
  ASSUME PollingInv, Polling!Bus
  PROVE  PollingInv'
<1>1. device' = device /\ UNCHANGED <<hal, drv, out>> /\ Polling!Objects' = Polling!Objects
  BY DEF Polling!Bus, Polling!Turn, Polling!Objects
<1>2. device = "EL7332" => in.error \in BOOLEAN /\ in'.error \in BOOLEAN
  BY DEF Polling!Bus, PollingInv, EL7332Inv
<1> DEFINE Answered ==
      /\ Mail' /\ env'.astray = env.astray
      /\ \A s \in Polling!Objects : env'.sdo[s] = env.sdo[s]
                                   \/ (env.sdo[s] = "busy" /\ env'.sdo[s] \in {"success", "error"})
      /\ Polling!Open' \subseteq Polling!Open
<1>3. Answered
  <2>1. CASE UNCHANGED env
    <3>1. env' = env /\ Mail
      BY <2>1 DEF PollingInv
    <3>2. Mail'
      BY <1>1, <3>1 DEF Mail
    <3>3. Polling!Open' = Polling!Open
      BY <1>1, <3>1 DEF Polling!Open
    <3> QED
      BY <3>1, <3>2, <3>3
  <2>2. ASSUME NEW s \in Polling!Objects, Polling!Answer(s)
        PROVE  Answered
    <3>1. PICK answer \in {"success", "error"} :
            env' = [env EXCEPT !.sdo[s] = answer, !.taken = @ \ {s}]
      BY <2>2 DEF Polling!Answer
    <3>2. /\ env'.sdo = [env.sdo EXCEPT ![s] = answer] /\ env'.taken = env.taken \ {s}
          /\ env'.astray = env.astray /\ env'.lost = env.lost
          /\ env' = [sdo |-> env'.sdo, taken |-> env'.taken, astray |-> env'.astray, lost |-> env'.lost]
      BY <3>1 DEF PollingInv, Mail
    <3>3. env.sdo[s] = "busy" /\ env.sdo \in [Polling!Objects -> Status]
      BY <2>2 DEF Polling!Answer, Polling!Busy, PollingInv, Mail
    <3>4. Mail'
      BY <1>1, <3>2, <3>3 DEF Mail, PollingInv, Status
    <3>5. \A t \in Polling!Objects : env'.sdo[t] = IF t = s THEN answer ELSE env.sdo[t]
      BY <3>2, <3>3
    <3>6. Polling!Open' \subseteq Polling!Open
      BY <1>1, <3>2, <3>3, <3>5 DEF Polling!Open
    <3> QED
      BY <3>2, <3>3, <3>4, <3>5, <3>6
  <2> QED
    BY <2>1, <2>2 DEF Polling!Bus
<1>4. ASSUME device = "FC302" PROVE FC302Inv'
  <2>1. FC302Inv /\ Polling!Objects = {"modes"} \cup Polling!ToSet(InfosRO)
    BY <1>4 DEF PollingInv, Polling!Objects
  <2>2. \A i \in 1..Len(InfosRO) : InfosRO[i] \in Polling!Objects
    BY <2>1, PollingAssumption DEF Polling!ToSet
  <2>3. Current' = Current /\ (drv.running => Current \in Polling!Objects)
    BY <1>1, <2>1, <2>2 DEF Current, FC302Inv
  <2> QED
    BY <1>1, <1>3, <2>1, <2>2, <2>3 DEF FC302Inv
<1> QED
  BY <1>1, <1>2, <1>3, <1>4 DEF PollingInv, EL7332Inv

(* EL7332: a step starts the slot it makes the current one, or none.       *)
LEMMA EL7332Step ==
  ASSUME Mail, EL7332Inv, device = "EL7332", device' = device, in' = in, Polling!lcec_el7332_read
  PROVE  Mail' /\ EL7332Inv'
<1> DEFINE slots == Polling!EL7332Slots(~in.error, drv.info)
           index == IF drv.index > Len(slots) THEN 1 ELSE drv.index
           next == Polling!After(index, Len(slots))
           s == slots[index]
           strays == IF s = drv.current THEN {} ELSE Polling!Open \ {s}
           Keep(i, timer) == drv' = [drv EXCEPT !.index = i, !.current = slots[i], !.timer = timer]
<1>1. /\ Polling!Objects = Polling!ToSet(Polling!EL7332Slots(TRUE, TRUE))
      /\ Len(slots) \in Nat \ {0}
      /\ \A i \in 1..Len(slots) : slots[i] \in Polling!Objects
  <2>1. Polling!Objects = Polling!ToSet(Polling!EL7332Slots(TRUE, TRUE))
    BY DEF Polling!Objects
  <2>2. (~in.error) \in BOOLEAN /\ drv.info \in BOOLEAN
    BY DEF EL7332Inv
  <2> QED
    BY <2>1, <2>2, SlotsAreObjects
<1> HIDE DEF slots
<1>2. index \in 1..Len(slots) /\ next \in 1..Len(slots)
  <2>1. index \in 1..Len(slots)
    BY <1>1 DEF EL7332Inv
  <2> HIDE DEF index
  <2>2. index % Len(slots) \in 0..Len(slots) - 1
    BY <1>1, <2>1
  <2> QED
    BY <1>1, <2>1, <2>2 DEF Polling!After
<1> HIDE DEF index, next
<1>3. s \in Polling!Objects /\ slots[next] \in Polling!Objects
  BY <1>1, <1>2
<1>4. /\ \A t : t \in Polling!Open <=>
          t \in Polling!Objects /\ (env.sdo[t] = "busy" \/ (env.sdo[t] = "success" /\ t \notin env.taken))
      /\ Polling!Open \subseteq {drv.current} \cup env.astray
      /\ strays \subseteq Polling!Objects
  <2>1. \A t : t \in Polling!Open <=>
          t \in Polling!Objects /\ (env.sdo[t] = "busy" \/ (env.sdo[t] = "success" /\ t \notin env.taken))
    BY DEF Polling!Open
  <2>2. Polling!Open \subseteq {drv.current} \cup env.astray
    BY DEF EL7332Inv
  <2>3. strays \subseteq Polling!Objects
    BY <2>1
  <2> QED
    BY <2>1, <2>2, <2>3
<1>5. ASSUME NEW i \in 1..Len(slots), NEW timer, Keep(i, timer)
      PROVE  /\ drv' = [info |-> drv'.info, timer |-> drv'.timer, index |-> drv'.index, current |-> drv'.current]
             /\ drv'.info \in BOOLEAN /\ drv'.index \in Nat \ {0} /\ drv'.current = slots[i]
  <2>1. /\ drv' = [drv EXCEPT !.index = i, !.current = slots[i], !.timer = timer]
        /\ drv = [info |-> drv.info, timer |-> drv.timer, index |-> drv.index, current |-> drv.current]
    BY <1>5 DEF EL7332Inv
  <2>2. drv' = [info |-> drv.info, timer |-> timer, index |-> i, current |-> slots[i]]
    BY <2>1
  <2>3. drv.info \in BOOLEAN
    BY DEF EL7332Inv
  <2>4. drv'.info = drv.info /\ drv'.timer = timer /\ drv'.index = i /\ drv'.current = slots[i]
    BY <2>2
  <2>5. i \in Nat \ {0}
    BY <1>1
  <2> QED
    BY <2>2, <2>3, <2>4, <2>5
<1>6. in'.error \in BOOLEAN
  BY DEF EL7332Inv
<1>7. \A t : t \in Polling!Open' <=>
          t \in Polling!Objects' /\ (env'.sdo[t] = "busy" \/ (env'.sdo[t] = "success" /\ t \notin env'.taken))
  BY DEF Polling!Open
<1>8. CASE Polling!Asleep
  <2>1. env' = env /\ drv' = drv /\ Polling!Objects' = Polling!Objects
    BY <1>8 DEF Polling!Asleep, Polling!Objects
  <2>2. Mail'
    BY <2>1 DEF Mail
  <2> QED
    BY <1>4, <1>6, <1>7, <2>1, <2>2 DEF EL7332Inv
<1>9. ASSUME NEW timer, Keep(index, timer), Polling!Mailbox({}, {}, strays)
      PROVE  Mail' /\ EL7332Inv'
  <2>1. Exchanged({}, {}, strays)
    <3>1. strays \subseteq Polling!Objects /\ {} \subseteq Polling!Objects
      BY <1>4
    <3>2. Polling!Mailbox({}, {}, strays) /\ Spared({}, {}, strays)
      BY <1>9 DEF Spared
    <3> HIDE DEF strays
    <3> QED
      BY <3>1, <3>2, MailboxStep
  <2>2. drv'.current = s
    BY <1>2, <1>5, <1>9
  <2>3. Polling!Open' = Polling!Open
    BY <1>4, <1>7, <2>1 DEF Exchanged
  <2>4. Polling!Open' \subseteq {drv'.current} \cup env'.astray
    BY <1>4, <2>1, <2>2, <2>3 DEF Exchanged
  <2> QED
    BY <1>2, <1>5, <1>6, <1>9, <2>1, <2>4 DEF EL7332Inv, Exchanged
<1>10. ASSUME NEW timer, env.sdo[s] = "unused", Keep(index, timer), Polling!Mailbox({s}, {}, strays)
       PROVE  Mail' /\ EL7332Inv'
  <2>1. Exchanged({s}, {}, strays)
    <3>1. Spared({s}, {}, strays)
      BY <1>10 DEF Spared
    <3>2. {} \subseteq Polling!Objects /\ strays \subseteq Polling!Objects
      BY <1>4
    <3>3. Polling!Mailbox({s}, {}, strays)
      BY <1>10
    <3> HIDE DEF s, strays
    <3> QED
      BY <3>1, <3>2, <3>3, MailboxStep
  <2>2. drv'.current = s
    BY <1>2, <1>5, <1>10
  <2>3. Polling!Open' \subseteq Polling!Open \cup {s}
    <3>1. ASSUME NEW t \in Polling!Open' PROVE t \in Polling!Open \/ t = s
      <4>1. t \in Polling!Objects
        BY <1>7, <2>1 DEF Exchanged
      <4>2. (t # s => env'.sdo[t] = env.sdo[t]) /\ env'.taken = env.taken
        BY <2>1, <4>1 DEF Exchanged
      <4> QED
        BY <1>4, <1>7, <4>1, <4>2
    <3> QED
      BY <3>1
  <2>4. Polling!Open' \subseteq {drv'.current} \cup env'.astray
    BY <1>4, <2>1, <2>2, <2>3 DEF Exchanged
  <2> QED
    BY <1>2, <1>5, <1>6, <1>10, <2>1, <2>4 DEF EL7332Inv, Exchanged
<1>11. ASSUME NEW timer, Polling!Ended(s), Keep(next, timer),
              Polling!Mailbox({slots[next]}, Polling!Answered(s), strays)
       PROVE  Mail' /\ EL7332Inv'
  <2>1. Polling!Answered(s) = {t \in {s} : env.sdo[t] = "success"}
    BY DEF Polling!Answered
  <2>2. Spared({slots[next]}, Polling!Answered(s), strays)
    BY <1>3, <1>4, <2>1 DEF Spared
  <2>3. Exchanged({slots[next]}, Polling!Answered(s), strays)
    <3>1. Polling!Answered(s) \subseteq Polling!Objects /\ strays \subseteq Polling!Objects
      BY <1>3, <1>4, <2>1
    <3>2. Polling!Mailbox({slots[next]}, Polling!Answered(s), strays)
      BY <1>11
    <3> HIDE DEF s, strays
    <3> QED
      BY <2>2, <3>1, <3>2, MailboxStep
  <2>4. drv'.current = slots[next]
    BY <1>2, <1>5, <1>11
  <2>5. env.sdo[s] # "busy"
    BY <1>11 DEF Polling!Ended
  <2>6. Polling!Open' \subseteq (Polling!Open \ {s}) \cup {slots[next]}
    BY <1>4, <1>7, <2>1, <2>3, <2>5 DEF Exchanged
  <2>7. Polling!Open' \subseteq {drv'.current} \cup env'.astray
    BY <1>4, <2>3, <2>4, <2>6 DEF Exchanged
  <2> QED
    BY <1>2, <1>5, <1>6, <1>11, <2>3, <2>7 DEF EL7332Inv, Exchanged
<1>12. \/ Polling!Asleep
       \/ Keep(index, drv.timer + 1) /\ Polling!Mailbox({}, {}, strays)
       \/ env.sdo[s] = "unused" /\ Keep(index, 0) /\ Polling!Mailbox({s}, {}, strays)
       \/ Polling!Ended(s) /\ Keep(next, 0)
          /\ Polling!Mailbox({slots[next]}, Polling!Answered(s), strays)
       \/ Keep(index, Interval) /\ Polling!Mailbox({}, {}, strays)
  BY DEF Polling!lcec_el7332_read, slots, index, next
<1> QED
  BY <1>8, <1>9, <1>10, <1>11, <1>12

(* EL5021: every request that is not under way is started anew.            *)
LEMMA EL5021Step ==
  ASSUME Mail, device' = device, Polling!lcec_el5021_read
  PROVE  Mail'
<1>1. CASE env' = env
  BY <1>1 DEF Mail, Polling!Objects
<1>2. CASE Polling!Mailbox({s \in Polling!Objects : env.sdo[s] = "unused" \/ Polling!Ended(s)},
                           UNION {Polling!Answered(s) : s \in Polling!Objects}, {})
  <2> DEFINE started == {s \in Polling!Objects : env.sdo[s] = "unused" \/ Polling!Ended(s)}
             shown == UNION {Polling!Answered(s) : s \in Polling!Objects}
  <2>1. \A s : s \in shown <=> s \in Polling!Objects /\ env.sdo[s] = "success"
    BY DEF Polling!Answered
  <2>2. \A s \in started : env.sdo[s] = "success" => s \in shown
    BY <2>1
  <2>3. Polling!Mailbox(started, shown, {})
    BY <1>2
  <2>4. shown \subseteq Polling!Objects
    BY <2>1
  <2>5. Spared(started, shown, {})
    BY <2>2 DEF Spared
  <2> HIDE DEF started, shown
  <2>6. Exchanged(started, shown, {})
    BY <2>3, <2>4, <2>5, MailboxStep
  <2> QED
    BY <2>6 DEF Exchanged
<1> QED
  BY <1>1, <1>2 DEF Polling!lcec_el5021_read, Polling!Asleep

(* An exchange with nothing in flight out of turn.                         *)
LEMMA Exchange ==
  ASSUME Mail, device' = device, NEW x, NEW y, y \subseteq Polling!Objects,
         Polling!Mailbox(x, y, {}),
         \A s \in x : env.sdo[s] = "success" => s \in env.taken \/ s \in y
  PROVE  /\ Mail' /\ Polling!Objects' = Polling!Objects
         /\ \A s \in Polling!Objects : env'.sdo[s] = IF s \in x THEN "busy" ELSE env.sdo[s]
         /\ \A s \in Polling!Open' :
              s \in x \/ (s \in Polling!Open /\ ~(env.sdo[s] = "success" /\ s \in y))
<1>1. /\ Mail' /\ Polling!Objects' = Polling!Objects
      /\ env'.sdo = [s \in Polling!Objects |-> IF s \in x THEN "busy" ELSE env.sdo[s]]
      /\ env'.taken = env.taken \cup y
  <2>1. Spared(x, y, {})
    BY DEF Spared
  <2>2. Exchanged(x, y, {})
    BY <2>1, MailboxStep
  <2> QED
    BY <2>2 DEF Exchanged
<1>2. \A s \in Polling!Objects : env'.sdo[s] = IF s \in x THEN "busy" ELSE env.sdo[s]
  BY <1>1
<1>3. ASSUME NEW s \in Polling!Open', s \notin x
      PROVE  s \in Polling!Open /\ ~(env.sdo[s] = "success" /\ s \in y)
  <2>1. /\ s \in Polling!Objects
        /\ env'.sdo[s] = "busy" \/ (env'.sdo[s] = "success" /\ s \notin env'.taken)
    BY <1>1 DEF Polling!Open
  <2>2. env'.sdo[s] = env.sdo[s]
    BY <1>2, <1>3, <2>1
  <2> QED
    BY <1>1, <2>1, <2>2 DEF Polling!Open
<1> QED
  BY <1>1, <1>2, <1>3

(* FC302: a step starts the request for the mode of operation when none is *)
(* under way, and the next of Infos-RO when the current one is answered.   *)
LEMMA FC302Step ==
  ASSUME Mail, FC302Inv, device = "FC302", device' = device, Polling!lcec_danfoss_fc302_read
  PROVE  Mail' /\ FC302Inv'
<1> DEFINE modes == IF drv.delay = 0 /\ (~drv.modes \/ Polling!Ended("modes")) THEN {"modes"} ELSE {}
           shown == IF drv.delay = 0 /\ drv.modes THEN Polling!Answered("modes") ELSE {}
           next == Polling!After(drv.current, drv.count)
<1>1. /\ Polling!Objects = {"modes"} \cup Polling!ToSet(InfosRO)
      /\ Len(InfosRO) \in Nat
      /\ \A i \in 1..Len(InfosRO) : InfosRO[i] \in Polling!Objects /\ InfosRO[i] # "modes"
  <2>1. Polling!Objects = {"modes"} \cup Polling!ToSet(InfosRO)
    BY DEF Polling!Objects
  <2>2. DOMAIN InfosRO = 1..Len(InfosRO) /\ Len(InfosRO) \in Nat
    BY PollingAssumption, LenProperties DEF IsSequence
  <2> QED
    BY <2>1, <2>2, PollingAssumption DEF Polling!ToSet
<1>2. /\ modes \subseteq {"modes"} /\ shown \subseteq {"modes"}
      /\ "modes" \in modes /\ env.sdo["modes"] = "success" => "modes" \in shown
  <2>1. Polling!Answered("modes") = {t \in {"modes"} : env.sdo[t] = "success"}
    BY DEF Polling!Answered
  <2> QED
    BY <2>1 DEF FC302Inv
<1> HIDE DEF modes, shown
<1>3. /\ drv.count \in 0..Len(InfosRO) /\ drv.delay \in Int /\ drv.modes \in BOOLEAN
      /\ drv.running \in BOOLEAN /\ drv.current \in Nat \ {0}
      /\ Polling!Open \subseteq {"modes", Current} /\ "modes" \in Polling!Objects
  BY <1>1 DEF FC302Inv
<1>4. \A s \in Polling!Objects : env.sdo[s] = "success" => s \in env.taken \/ s \in {"modes", Current}
  BY <1>3 DEF Polling!Open
<1>5. ASSUME env' = env, hal' = hal, drv' = drv \/ drv' = [drv EXCEPT !.delay = @ - 1]
      PROVE  Mail' /\ FC302Inv'
  <2>1. /\ drv' \in [count : 0..Len(InfosRO), delay : Int, modes : BOOLEAN, running : BOOLEAN,
                    current : Nat \ {0}]
        /\ drv'.count = drv.count /\ drv'.modes = drv.modes /\ drv'.running = drv.running
        /\ drv'.current = drv.current
    BY <1>5 DEF FC302Inv
  <2>2. Mail'
    BY <1>5 DEF Mail, Polling!Objects
  <2>3. Polling!Open' = Polling!Open /\ Current' = Current
    BY <1>5, <2>1 DEF Polling!Open, Polling!Objects, Current
  <2> QED
    BY <1>5, <2>1, <2>2, <2>3 DEF FC302Inv
<1>6. ASSUME drv' = [drv EXCEPT !.modes = TRUE], Polling!Mailbox(modes, shown, {}), hal' = hal \/ hal'.busy,
             drv.running => hal'.busy
      PROVE  Mail' /\ FC302Inv'
  <2>1. /\ drv' \in [count : 0..Len(InfosRO), delay : Int, modes : BOOLEAN, running : BOOLEAN,
                    current : Nat \ {0}]
        /\ drv'.count = drv.count /\ drv'.modes /\ drv'.running = drv.running
        /\ drv'.current = drv.current
    BY <1>6 DEF FC302Inv
  <2>2. /\ shown \subseteq Polling!Objects
        /\ \A s \in modes : env.sdo[s] = "success" => s \in env.taken \/ s \in shown
    BY <1>2, <1>3
  <2>3. /\ Mail' /\ Polling!Objects' = Polling!Objects
        /\ \A s \in Polling!Objects : env'.sdo[s] = IF s \in modes THEN "busy" ELSE env.sdo[s]
        /\ \A s \in Polling!Open' :
             s \in modes \/ (s \in Polling!Open /\ ~(env.sdo[s] = "success" /\ s \in shown))
    BY <1>6, <2>2, Exchange
  <2>4. Current' = Current
    BY <2>1 DEF Current
  <2>5. Polling!Open' \subseteq {"modes", Current}
    BY <1>2, <1>3, <2>3
  <2>6. \A i \in 1..Len(InfosRO) : env'.sdo[InfosRO[i]] = env.sdo[InfosRO[i]]
    BY <1>1, <1>2, <2>3
  <2>7. drv.running => drv.current \in 1..Len(InfosRO)
    BY <1>1, <1>3 DEF FC302Inv
  <2>8. drv.running => env'.sdo[Current] # "unused"
    BY <2>6, <2>7 DEF FC302Inv, Current
  <2> QED
    BY <1>6, <2>1, <2>3, <2>4, <2>5, <2>6, <2>8 DEF FC302Inv
<1>7. ASSUME NEW to \in 1..Len(InfosRO), to <= drv.count, NEW told, told \subseteq {Current},
             drv' = [drv EXCEPT !.modes = TRUE, !.running = TRUE, !.current = to],
             Polling!Mailbox(modes \cup {InfosRO[to]}, shown \cup told, {}), hal'.busy,
             ~drv.running => told = {},
             drv.running => /\ env.sdo[Current] # "busy"
                            /\ env.sdo[Current] = "success" => Current \in told
      PROVE  Mail' /\ FC302Inv'
  <2> DEFINE x == modes \cup {InfosRO[to]}
             y == shown \cup told
  <2>1. /\ drv' \in [count : 0..Len(InfosRO), delay : Int, modes : BOOLEAN, running : BOOLEAN,
                    current : Nat \ {0}]
        /\ drv'.count = drv.count /\ drv'.modes /\ drv'.running /\ drv'.current = to
    <3>1. to \in Nat \ {0}
      BY <1>1
    <3>2. drv = [count |-> drv.count, delay |-> drv.delay, modes |-> drv.modes,
                 running |-> drv.running, current |-> drv.current]
      BY DEF FC302Inv
    <3>3. drv' = [count |-> drv.count, delay |-> drv.delay, modes |-> TRUE,
                  running |-> TRUE, current |-> to]
      BY <1>7, <3>2
    <3> QED
      BY <1>3, <3>1, <3>3
  <2>2. drv.running => Current \in Polling!Objects
    BY <1>1, <1>3 DEF FC302Inv, Current
  <2>3. y \subseteq Polling!Objects
    BY <1>2, <1>3, <1>7, <2>2
  <2>4. ~drv.running => env.sdo[InfosRO[to]] = "unused" /\ (Current \in Polling!Objects => env.sdo[Current] = "unused")
    <3>1. ~drv.running => env.sdo[InfosRO[to]] = "unused" /\ drv.current = 1
      BY DEF FC302Inv
    <3>2. ~drv.running => env.sdo[InfosRO[1]] = "unused"
      BY <1>1 DEF FC302Inv
    <3> QED
      BY <3>1, <3>2 DEF Current
  <2>5. \A s \in x : env.sdo[s] = "success" => s \in env.taken \/ s \in y
    <3>1. ASSUME env.sdo[InfosRO[to]] = "success" PROVE InfosRO[to] \in env.taken \/ InfosRO[to] \in y
      BY <1>1, <1>4, <1>7, <2>4, <3>1
    <3> QED
      BY <1>2, <3>1
  <2>6. Polling!Mailbox(x, y, {})
    BY <1>7
  <2> HIDE DEF y
  <2>7. /\ Mail' /\ Polling!Objects' = Polling!Objects
        /\ \A s \in Polling!Objects : env'.sdo[s] = IF s \in x THEN "busy" ELSE env.sdo[s]
        /\ \A s \in Polling!Open' :
             s \in x \/ (s \in Polling!Open /\ ~(env.sdo[s] = "success" /\ s \in y))
    BY <2>3, <2>5, <2>6, Exchange
  <2>8. Current' = InfosRO[to]
    BY <2>1 DEF Current
  <2>9. Current \notin Polling!Open \/ (env.sdo[Current] = "success" /\ Current \in y)
    <3>1. Current \in Polling!Open => Current \in Polling!Objects /\ env.sdo[Current] \in {"busy", "success"}
      BY DEF Polling!Open
    <3> QED
      BY <1>7, <2>4, <3>1 DEF y
  <2>10. Polling!Open' \subseteq {"modes", Current'}
    BY <1>2, <1>3, <2>7, <2>8, <2>9
  <2>11. env'.sdo[Current'] # "unused"
    BY <1>1, <2>7, <2>8
  <2>12. drv'.count > 0 /\ drv'.current <= drv'.count
    BY <1>3, <1>7, <2>1
  <2> QED
    BY <1>7, <2>1, <2>7, <2>10, <2>11, <2>12 DEF FC302Inv
<1>8. CASE /\ drv.count > 0 /\ ~drv.running
           /\ drv' = [[drv EXCEPT !.modes = TRUE] EXCEPT !.running = TRUE]
           /\ Polling!Mailbox(modes \cup {InfosRO[1]}, shown, {})
           /\ hal' = [busy |-> TRUE]
  <2>1. drv.current = 1 /\ 1 \in 1..Len(InfosRO) /\ 1 <= drv.count
    BY <1>1, <1>3, <1>8 DEF FC302Inv
  <2>2. drv' = [drv EXCEPT !.modes = TRUE, !.running = TRUE, !.current = 1]
    BY <1>8, <2>1 DEF FC302Inv
  <2>3. hal'.busy
    BY <1>8
  <2>4. ASSUME NEW none, none = {} PROVE Mail' /\ FC302Inv'
    <3>1. Polling!Mailbox(modes \cup {InfosRO[1]}, shown \cup none, {})
      <4>1. shown \cup none = shown
        BY <2>4
      <4> QED
        BY <1>8, <4>1
    <3>2. none \subseteq {Current}
      BY <2>4
    <3> QED
      BY <1>7, <1>8, <2>1, <2>2, <2>3, <2>4, <3>1, <3>2
  <2> QED
    BY <2>4
<1>9. CASE drv.running /\ Polling!Ended(Current) /\ hal' = [busy |-> TRUE]
           /\ drv' = [[drv EXCEPT !.modes = TRUE] EXCEPT !.current = next]
           /\ Polling!Mailbox(modes \cup {InfosRO[next]}, shown \cup Polling!Answered(Current), {})
  <2>1. drv.count > 0 /\ drv.current <= drv.count
    BY <1>9 DEF FC302Inv
  <2>2. next \in 1..Len(InfosRO) /\ next <= drv.count
    <3>1. (drv.current % drv.count) \in 0..drv.count - 1
      BY <1>3, <2>1
    <3> QED
      BY <1>1, <1>3, <3>1 DEF Polling!After
  <2> HIDE DEF next
  <2>3. drv' = [drv EXCEPT !.modes = TRUE, !.running = TRUE, !.current = next]
    BY <1>3, <1>9 DEF FC302Inv
  <2>4. Polling!Answered(Current) = {t \in {Current} : env.sdo[t] = "success"}
    BY DEF Polling!Answered
  <2>5. /\ env.sdo[Current] # "busy" /\ hal'.busy
        /\ env.sdo[Current] = "success" => Current \in Polling!Answered(Current)
        /\ Polling!Answered(Current) \subseteq {Current}
    BY <1>9, <2>4 DEF Polling!Ended
  <2> QED
    BY <1>7, <1>9, <2>2, <2>3, <2>5
<1>10. CASE drv.running /\ ~Polling!Ended(Current) /\ hal' = [busy |-> env.sdo[Current] = "busy"]
            /\ drv' = [drv EXCEPT !.modes = TRUE] /\ Polling!Mailbox(modes, shown, {})
  <2>1. Current \in Polling!Objects /\ env.sdo[Current] # "unused"
    BY <1>1, <1>3, <1>10 DEF FC302Inv, Current
  <2>2. env.sdo[Current] = "busy"
    BY <1>10, <2>1 DEF Polling!Ended, Mail, Status
  <2>3. hal'.busy
    BY <1>10, <2>2
  <2> QED
    BY <1>6, <1>10, <2>3
<1> DEFINE Polled1 == [drv EXCEPT !.modes = TRUE]
<1>11. \/ env' = env /\ hal' = hal /\ (drv' = drv \/ drv' = [drv EXCEPT !.delay = @ - 1])
       \/ /\ drv.count = 0
          /\ drv' = Polled1 /\ Polling!Mailbox(modes, shown, {}) /\ hal' = hal
       \/ /\ drv.count > 0 /\ ~drv.running
          /\ drv' = [Polled1 EXCEPT !.running = TRUE]
          /\ Polling!Mailbox(modes \cup {InfosRO[1]}, shown, {})
          /\ hal' = [busy |-> TRUE]
       \/ /\ drv.running /\ Polling!Ended(Current) /\ hal' = [busy |-> TRUE]
          /\ drv' = [Polled1 EXCEPT !.current = next]
          /\ Polling!Mailbox(modes \cup {InfosRO[next]}, shown \cup Polling!Answered(Current), {})
       \/ /\ drv.running /\ ~Polling!Ended(Current) /\ hal' = [busy |-> env.sdo[Current] = "busy"]
          /\ drv' = Polled1 /\ Polling!Mailbox(modes, shown, {})
  <2> HIDE DEF Polled1
  <2> QED
    BY Zenon DEF Polling!lcec_danfoss_fc302_read, Polling!Asleep, Current, modes, shown, next, Polled1
<1>12. drv.count = 0 => ~drv.running
  BY DEF FC302Inv
<1> QED
  BY <1>5, <1>6, <1>8, <1>9, <1>10, <1>11, <1>12

(* So each step of a polling driver keeps its bookkeeping.                 *)
LEMMA PollingStep ==
  ASSUME PollingInv, [Polling!Next]_slaveVars, device \in Polled, device' = device
  PROVE  PollingInv'
<1>1. CASE Polling!Bus
  BY <1>1, PollingBusStep
<1>2. CASE Polling!Read
  <2>1. in' = in
    BY <1>2 DEF Polling!Read
  <2>2. CASE Polling!lcec_el7332_read
    <3>1. device = "EL7332" /\ device' = "EL7332"
      BY <2>2 DEF Polling!lcec_el7332_read
    <3>2. Mail' /\ EL7332Inv'
      BY <2>1, <2>2, <3>1, EL7332Step DEF PollingInv
    <3> QED
      BY <3>1, <3>2 DEF PollingInv
  <2>3. CASE Polling!lcec_danfoss_fc302_read
    <3>1. device = "FC302" /\ device' = "FC302"
      BY <2>3 DEF Polling!lcec_danfoss_fc302_read
    <3>2. Mail' /\ FC302Inv'
      BY <2>3, <3>1, FC302Step DEF PollingInv
    <3> QED
      BY <3>1, <3>2 DEF PollingInv
  <2>4. CASE Polling!lcec_el5021_read
    <3>1. device' = "EL5021"
      BY <2>4 DEF Polling!lcec_el5021_read
    <3>2. Mail'
      BY <2>4, EL5021Step DEF PollingInv
    <3> QED
      BY <3>1, <3>2 DEF PollingInv
  <2> QED
    BY <1>2, <2>2, <2>3, <2>4 DEF Polling!Read
<1>3. CASE UNCHANGED slaveVars
  <2>1. env' = env /\ drv' = drv /\ hal' = hal /\ in' = in
    BY <1>3 DEF slaveVars
  <2> QED
    BY <2>1 DEF PollingInv, Mail, EL7332Inv, FC302Inv, Current, Polling!Open, Polling!Objects
<1> QED
  BY <1>1, <1>2, <1>3 DEF Polling!Next

(* The bookkeeping is what the property asks for.                          *)
LEMMA PollingInTurn == ASSUME PollingInv PROVE Polling!PollsInTurn
<1>1. Polling!Busy \subseteq Polling!Open
  BY DEF Polling!Busy, Polling!Open
<1>2. ~env.lost
  BY DEF PollingInv, Mail
<1>3. device = "EL7332" => Polling!Busy \subseteq {drv.current} \cup env.astray
  BY <1>1 DEF PollingInv, EL7332Inv
<1>4. ASSUME device = "FC302"
      PROVE  /\ Polling!Busy \subseteq {"modes"} \cup {InfosRO[i] : i \in {drv.current}}
             /\ drv.running => env.sdo[InfosRO[drv.current]] # "unused" /\ hal.busy
  <2>1. Current \in {InfosRO[i] : i \in {drv.current}}
    BY DEF Current
  <2> QED
    BY <1>1, <1>4, <2>1 DEF PollingInv, FC302Inv, Current
<1> QED
  BY <1>2, <1>3, <1>4 DEF Polling!PollsInTurn

(* EL7332, FC302 and EL5021 ask for their objects in turn and put each     *)
(* answer on its pin before they ask anew, for any lists of objects, any   *)
(* answers and any losses of the slave (lcec_el7332.c 1116-1160,           *)
(* lcec_fc302.c 1089-1139, lcec_el5021.c 464-492).                         *)
THEOREM PollsInTurnCorrect == Spec => []PollsInTurn
<1> DEFINE Inv == device \in Polled => PollingInv
<1>1. Init => Inv
  BY OneStart, PollingStart
<1>2. Inv /\ [Next]_slaveVars => Inv'
  <2>1. ASSUME Inv, [Next]_slaveVars PROVE Inv'
    <3>1. device' = device /\ (device \in Polled => [Polling!Next]_slaveVars)
      BY <2>1, OneDriver
    <3>2. ASSUME device \in Polled PROVE PollingInv'
      BY <2>1, <3>1, <3>2, PollingStep
    <3> QED
      BY <3>1, <3>2
  <2> QED
    BY <2>1
<1>3. Inv => PollsInTurn
  BY PollingInTurn DEF PollsInTurn
<1> QED
  BY <1>1, <1>2, <1>3, PTL DEF Spec

---------------------------------------------------------------------------
(* Servo drives.                                                           *)
ServoType ==
  /\ hal = [on |-> hal.on, enable |-> hal.enable, reset |-> hal.reset, cmd |-> hal.cmd,
            auto |-> hal.auto, shown |-> hal.shown, fault |-> hal.fault, velo |-> hal.velo]
  /\ hal.on \in BOOLEAN /\ hal.enable \in BOOLEAN /\ hal.reset \in BOOLEAN
  /\ hal.cmd \in Int /\ hal.auto \in BOOLEAN /\ hal.fault \in BOOLEAN /\ hal.velo \in Int
  /\ drv = [retries |-> drv.retries, cycles |-> drv.cycles, retry |-> drv.retry, cycle |-> drv.cycle,
            state |-> drv.state, fault |-> drv.fault, old |-> drv.old, timer |-> drv.timer]
  /\ drv.retries \in Nat /\ drv.cycles \in Nat /\ drv.retry \in Nat /\ drv.cycle \in Nat
  /\ drv.state \in BOOLEAN /\ drv.fault \in BOOLEAN /\ drv.old \in BOOLEAN /\ drv.timer \in Nat
  /\ env = [left |-> env.left, hidden |-> env.hidden, asked |-> env.asked, off |-> env.off]
  /\ env.left \in Int /\ env.hidden \in Nat /\ env.asked \in BOOLEAN /\ env.off \in Nat
  /\ out = [ctl |-> out.ctl, velo |-> out.velo]
  /\ in = [state |-> in.state]

(* The reads that are left to the retries of DeASDA, the one under way     *)
(* included: twice cycles + 1 of them for each, half of which are over     *)
(* when reset is off.                                                      *)
ToRetry == 2 * drv.retry * (drv.cycles + 1) - (IF drv.state THEN 0 ELSE drv.cycles + 1) - drv.cycle

(* A fault is hidden within the time it may be; what a retry goes by was   *)
(* asked for; EL7211 slows down by the ramp.                               *)
Hides ==
  /\ device \in Servo!Asda =>
       /\ drv.cycle <= drv.cycles
       /\ drv.retry > 0 => /\ env.hidden + ToRetry <= Servo!MayHide
                           /\ env.asked
  /\ device \notin Servo!Asda /\ drv.timer > 0 => env.hidden + drv.timer <= ServoWindow

Knows ==
  /\ device \in Servo!Asda => (phase = "read" /\ up) \/ drv.fault = Servo!Faulty
  /\ device = "OMRG5" /\ phase \in {"user", "write"} => hal.shown = in.state
  /\ up /\ phase \in {"user", "write"} => 
       /\ hal.shown = in.state
       /\ device \in Servo!Asda /\ ~Servo!Faulty => drv.retry = 0
  /\ up => in.state \in Servo!States

Asks ==
  device # "EL7211 servo" =>
    /\ phase # "write" => drv.old = hal.on
    /\ hal.on /\ ~drv.old /\ Servo!Faulty => env.asked

Slows ==
  device = "EL7211 servo" =>
    \/ hal.velo = 0
    \/ /\ hal.velo + env.off * Ramp <= Speed
       /\ -hal.velo + env.off * Ramp <= Speed

ServoInv == ServoType /\ Hides /\ Knows /\ Asks /\ Slows
              /\ Servo!FaultIsShown /\ Servo!ResetWhenAsked /\ Servo!DriveIsLed

(* A servo drive starts without a fault known to it.                       *)
LEMMA ServoStart == ASSUME Servo!Init PROVE ServoInv
<1>1. /\ hal = [on |-> FALSE, enable |-> FALSE, reset |-> FALSE, cmd |-> 0,
                auto |-> TRUE, shown |-> "none", fault |-> FALSE, velo |-> 0]
      /\ phase = "bus" /\ up = FALSE /\ in = [state |-> "none"] /\ out = [ctl |-> {}, velo |-> 0]
      /\ env = [left |-> ServoActs, hidden |-> 0, asked |-> FALSE, off |-> 0]
  BY DEF Servo!Init
<1>2. PICK retries \in Nat, cycles \in Nat :
        drv = [retries |-> retries, cycles |-> cycles, retry |-> 0, cycle |-> 0, state |-> FALSE,
               fault |-> FALSE, old |-> FALSE, timer |-> 0]
  <2>1. \A a \in Autoresets : a[1] \in Nat /\ a[2] \in Nat
    BY ServoAssumption
  <2> QED
    BY <2>1 DEF Servo!Init, Servo!lcec_deasda_init, Servo!lcec_omrg5_init, Servo!lcec_el7211_init
<1>3. ServoType
  BY <1>1, <1>2, ServoAssumption DEF ServoType
<1>4. Hides /\ Knows /\ Asks /\ Slows
  <2>1. /\ drv.retry = 0 /\ drv.cycle = 0 /\ drv.cycles \in Nat /\ drv.timer = 0
        /\ drv.fault = FALSE /\ drv.old = FALSE
    BY <1>2
  <2>2. /\ hal.velo = 0 /\ hal.on = FALSE /\ in.state = "none" /\ ~Servo!Faulty
    BY <1>1 DEF Servo!Faulty
  <2>3. Hides
    BY <2>1 DEF Hides
  <2>4. Knows
    <3>1. drv.fault = Servo!Faulty
      BY <1>1, <2>1 DEF Servo!Faulty
    <3> QED
      BY <1>1, <3>1 DEF Knows
  <2> QED
    BY <1>1, <2>1, <2>2, <2>3, <2>4 DEF Asks, Slows
<1>5. Servo!FaultIsShown /\ Servo!ResetWhenAsked /\ Servo!DriveIsLed
  BY <1>1 DEF Servo!FaultIsShown, Servo!ResetWhenAsked, Servo!DriveIsLed
<1> QED
  BY <1>3, <1>4, <1>5 DEF ServoInv

(* The drive goes on by itself.                                            *)
LEMMA ServoBusStep == ASSUME ServoInv, Servo!Bus PROVE ServoInv'
<1>1. /\ phase = "bus" /\ phase' = "read" /\ device' = device
      /\ hal' = hal /\ drv' = drv /\ out' = out /\ env' = env /\ up' \in BOOLEAN
  BY DEF Servo!Bus, Servo!Turn
<1>2. PICK s \in IF up THEN {in.state, Servo!Leads(in.state, out.ctl), "fault"} ELSE Servo!States :
        in' = IF up' THEN [state |-> s] ELSE in
  BY DEF Servo!Bus
<1>3. up => in.state \in Servo!States
  BY DEF ServoInv, Knows
<1>4. s \in Servo!States
  <2>1. in.state \in Servo!States => Servo!Leads(in.state, out.ctl) \in Servo!States
    BY DEF Servo!States, Servo!Leads
  <2> QED
    BY <1>2, <1>3, <2>1 DEF Servo!States
<1>5. /\ in' = [state |-> in'.state]
      /\ up' => in'.state \in Servo!States
      /\ ~up' => in' = in
  BY <1>2, <1>4 DEF ServoInv, ServoType
<1>6. ServoType' /\ Slows'
  BY <1>1, <1>5 DEF ServoInv, ServoType, Slows
<1>7. Hides'
  BY <1>1 DEF ServoInv, Hides, ToRetry, Servo!MayHide
<1>8. Knows' /\ Asks'
  BY <1>1, <1>5 DEF ServoInv, Knows, Asks, Servo!Faulty
<1>9. Servo!FaultIsShown' /\ Servo!ResetWhenAsked' /\ Servo!DriveIsLed'
  BY <1>1 DEF Servo!FaultIsShown, Servo!ResetWhenAsked, Servo!DriveIsLed
<1> QED
  BY <1>6, <1>7, <1>8, <1>9 DEF ServoInv

(* What an act of the user on the pins makes of them is well-formed.       *)
LEMMA ServoUserStep == ASSUME ServoInv, Servo!User, device \in Servo!Servos PROVE ServoInv'
<1>1. /\ phase = "user" /\ phase' = "write" /\ device' = device
      /\ up' = up /\ drv' = drv /\ in' = in /\ out' = out
  BY DEF Servo!User, Servo!Turn
<1> DEFINE Acted(on, enable, reset, cmd, auto, left, asked) ==
             /\ hal' = [hal EXCEPT !.on = on, !.enable = enable, !.reset = reset, !.cmd = cmd, !.auto = auto]
             /\ env' = [env EXCEPT !.left = left, !.asked = asked]
             /\ env.asked => asked
             /\ on /\ ~hal.on /\ Servo!Faulty => asked
           Acts == \E on \in BOOLEAN, enable \in BOOLEAN, reset \in BOOLEAN, cmd \in Int, auto \in BOOLEAN,
                      left \in Int, asked \in BOOLEAN : Acted(on, enable, reset, cmd, auto, left, asked)
           Like(pins) == /\ pins.on \in BOOLEAN /\ pins.enable \in BOOLEAN /\ pins.reset \in BOOLEAN
                         /\ pins.cmd \in Int /\ pins.auto \in BOOLEAN
                         /\ pins = [hal EXCEPT !.on = pins.on, !.enable = pins.enable,
                                     !.reset = pins.reset, !.cmd = pins.cmd, !.auto = pins.auto]
<1>0. Acts
  <2>1. CASE UNCHANGED <<hal, env>>
    <3>0. /\ hal.on \in BOOLEAN /\ hal.enable \in BOOLEAN /\ hal.reset \in BOOLEAN /\ hal.cmd \in Int /\ hal.auto \in BOOLEAN
          /\ env.left \in Int /\ env.asked \in BOOLEAN
      BY DEF ServoInv, ServoType
    <3>1. hal' = [hal EXCEPT !.on = hal.on, !.enable = hal.enable, !.reset = hal.reset, !.cmd = hal.cmd, !.auto = hal.auto]
      BY <2>1 DEF ServoInv, ServoType
    <3>2. env' = [env EXCEPT !.left = env.left, !.asked = env.asked]
      BY <2>1 DEF ServoInv, ServoType
    <3>3. Acted(hal.on, hal.enable, hal.reset, hal.cmd, hal.auto, env.left, env.asked)
      BY <3>1, <3>2
    <3> HIDE DEF Acted
    <3> QED
      BY <3>0, <3>3
  <2>2. ASSUME NEW pins, Servo!Put(pins), Like(pins) PROVE Acts
    <3> DEFINE asked == env.asked \/ (Servo!Faulty /\ ((pins.on /\ ~hal.on) \/ pins.reset))
    <3>1. hal' = pins /\ env' = [env EXCEPT !.left = env.left - 1, !.asked = asked]
      BY <2>2 DEF Servo!Put
    <3>2. env.left - 1 \in Int /\ asked \in BOOLEAN
      BY <2>2 DEF ServoInv, ServoType
    <3>3. (env.asked => asked) /\ (pins.on /\ ~hal.on /\ Servo!Faulty => asked)
      OBVIOUS
    <3> HIDE DEF asked
    <3>4. Acted(pins.on, pins.enable, pins.reset, pins.cmd, pins.auto, env.left - 1, asked)
      BY <2>2, <3>1, <3>3
    <3> HIDE DEF Acted
    <3> QED
      BY <2>2, <3>2, <3>4
  <2>3. CASE ~UNCHANGED <<hal, env>>
    <3> HIDE DEF Acts
    <3>1. \/ Servo!Put([hal EXCEPT !.on = ~@])
          \/ Servo!Put([hal EXCEPT !.enable = ~@])
          \/ Servo!Put([hal EXCEPT !.reset = ~@])
          \/ Servo!Put([hal EXCEPT !.auto = ~@])
          \/ \E v \in ServoCommands : Servo!Put([hal EXCEPT !.cmd = v])
      BY <2>3 DEF Servo!User
    <3>2. CASE Servo!Put([hal EXCEPT !.on = ~@])
      <4> DEFINE pins == [hal EXCEPT !.on = ~@]
      <4>1. Like(pins)
        BY DEF ServoInv, ServoType
      <4> HIDE DEF Like
      <4> QED
        BY <2>2, <3>2, <4>1
    <3>3. CASE Servo!Put([hal EXCEPT !.enable = ~@])
      <4> DEFINE pins == [hal EXCEPT !.enable = ~@]
      <4>1. Like(pins)
        BY DEF ServoInv, ServoType
      <4> HIDE DEF Like
      <4> QED
        BY <2>2, <3>3, <4>1
    <3>4. CASE Servo!Put([hal EXCEPT !.reset = ~@])
      <4> DEFINE pins == [hal EXCEPT !.reset = ~@]
      <4>1. Like(pins)
        BY DEF ServoInv, ServoType
      <4> HIDE DEF Like
      <4> QED
        BY <2>2, <3>4, <4>1
    <3>6. CASE Servo!Put([hal EXCEPT !.auto = ~@])
      <4> DEFINE pins == [hal EXCEPT !.auto = ~@]
      <4>1. Like(pins)
        BY DEF ServoInv, ServoType
      <4> HIDE DEF Like
      <4> QED
        BY <2>2, <3>6, <4>1
    <3>5. ASSUME NEW v \in ServoCommands, Servo!Put([hal EXCEPT !.cmd = v])
          PROVE  Acts
      <4> DEFINE pins == [hal EXCEPT !.cmd = v]
      <4>1. Like(pins)
        BY ServoAssumption DEF ServoInv, ServoType
      <4> HIDE DEF Like
      <4> QED
        BY <2>2, <3>5, <4>1
    <3> QED
      BY <3>1, <3>2, <3>3, <3>4, <3>5, <3>6
  <2> QED
    BY <2>1, <2>3
<1>2. PICK on \in BOOLEAN, enable \in BOOLEAN, reset \in BOOLEAN, cmd \in Int, auto \in BOOLEAN,
           left \in Int, asked \in BOOLEAN :
        Acted(on, enable, reset, cmd, auto, left, asked)
  BY <1>0
<1>3. /\ hal'.on = on /\ hal'.enable = enable /\ hal'.reset = reset /\ hal'.cmd = cmd /\ hal'.auto = auto
      /\ hal'.shown = hal.shown /\ hal'.fault = hal.fault /\ hal'.velo = hal.velo
      /\ hal' = [on |-> hal'.on, enable |-> hal'.enable, reset |-> hal'.reset, cmd |-> hal'.cmd,
                 auto |-> hal'.auto, shown |-> hal'.shown, fault |-> hal'.fault, velo |-> hal'.velo]
      /\ env'.left = left /\ env'.asked = asked /\ env'.hidden = env.hidden /\ env'.off = env.off
      /\ env' = [left |-> env'.left, hidden |-> env'.hidden, asked |-> env'.asked, off |-> env'.off]
  BY <1>2 DEF ServoInv, ServoType
<1>4. ServoType' /\ Slows'
  BY <1>1, <1>3 DEF ServoInv, ServoType, Slows
<1>5. Hides'
  BY <1>1, <1>2, <1>3 DEF ServoInv, Hides, ToRetry, Servo!MayHide
<1>6. Knows' /\ Asks'
  BY <1>1, <1>2, <1>3 DEF ServoInv, Knows, Asks, Servo!Faulty
<1>7. Servo!FaultIsShown' /\ Servo!ResetWhenAsked' /\ Servo!DriveIsLed'
  BY <1>1 DEF Servo!FaultIsShown, Servo!ResetWhenAsked, Servo!DriveIsLed
<1> QED
  BY <1>4, <1>5, <1>6, <1>7 DEF ServoInv

(* What a read of the status word leaves alone, and how it remembers.      *)
Remembers ==
  /\ env'.off = env.off /\ env'.left = env.left
  /\ env' = [left |-> env'.left, hidden |-> env'.hidden, asked |-> env'.asked, off |-> env'.off]
  /\ env'.hidden \in Nat /\ env'.hidden <= env.hidden + 1
  /\ env'.asked = (env.asked /\ Servo!Faulty) /\ env'.asked \in BOOLEAN

(* What the history keeps of a fault at the end of a read.                 *)
LEMMA Remembered ==
  ASSUME ServoType, device \in Servo!Servos, env' = Servo!Remember
  PROVE  Remembers
<1> DEFINE asked == env.asked /\ Servo!Faulty
           hidden == IF env.hidden <= Servo!MayHide THEN env.hidden + 1 ELSE env.hidden
<1>1. env' = [env EXCEPT !.hidden = hidden, !.asked = asked]
  BY DEF Servo!Remember
<1>2. hidden \in Nat /\ hidden <= env.hidden + 1 /\ asked \in BOOLEAN
  BY DEF ServoType
<1> HIDE DEF asked, hidden
<1>3. /\ env'.hidden = hidden /\ env'.asked = asked /\ env'.off = env.off /\ env'.left = env.left
      /\ env' = [left |-> env'.left, hidden |-> env'.hidden, asked |-> env'.asked, off |-> env'.off]
  BY <1>1 DEF ServoType
<1> QED
  BY <1>2, <1>3 DEF Remembers, asked

(* DeASDA, which counts the periods of its retries.                        *)
LEMMA DeasdaReadStep ==
  ASSUME ServoInv, phase = "read", phase' = "user", device' = device,
         up' = up, in' = in, out' = out, Servo!lcec_deasda_read
  PROVE  ServoInv'
<1>1. device \in Servo!Asda /\ device # "OMRG5" /\ device # "EL7211 servo" /\ device \in Servo!Servos
  BY DEF Servo!lcec_deasda_read, Servo!Asda, Servo!Servos
<1>2. CASE ~up
  <2>1. drv' = drv /\ env' = env /\ hal' = [hal EXCEPT !.shown = "none", !.fault = TRUE]
    BY <1>2 DEF Servo!lcec_deasda_read
  <2>2. /\ hal'.on = hal.on /\ hal'.enable = hal.enable /\ hal'.reset = hal.reset /\ hal'.cmd = hal.cmd /\ hal'.auto = hal.auto
        /\ hal'.velo = hal.velo /\ hal'.fault = TRUE
        /\ hal' = [on |-> hal'.on, enable |-> hal'.enable, reset |-> hal'.reset, cmd |-> hal'.cmd,
                   auto |-> hal'.auto, shown |-> hal'.shown, fault |-> hal'.fault, velo |-> hal'.velo]
    BY <2>1 DEF ServoInv, ServoType
  <2>3. ServoType'
    BY <2>1, <2>2 DEF ServoInv, ServoType
  <2>4. Hides'
    BY <2>1 DEF ServoInv, Hides, ToRetry, Servo!MayHide
  <2>5. Knows' /\ Asks' /\ Slows'
    BY <1>1, <1>2, <2>1, <2>2 DEF ServoInv, Knows, Asks, Slows, Servo!Faulty
  <2>6. Servo!FaultIsShown' /\ Servo!ResetWhenAsked' /\ Servo!DriveIsLed'
    BY <1>2 DEF Servo!FaultIsShown, Servo!ResetWhenAsked, Servo!DriveIsLed
  <2> QED
    BY <2>3, <2>4, <2>5, <2>6 DEF ServoInv
<1>3. CASE up
  <2> DEFINE fault == Servo!Faulty
             left == Servo!Retry
             turns == Servo!Turns
             state == IF turns THEN ~drv.state ELSE drv.state
             retry == IF turns /\ ~drv.state THEN left - 1 ELSE left
             cycle == CASE turns -> 0
                        [] ~turns /\ left > 0 -> drv.cycle + 1
                        [] OTHER -> drv.cycle
             shows == Servo!Faulty /\ left = 0
  <2>1. /\ env' = Servo!Remember
        /\ drv' = [drv EXCEPT !.fault = fault, !.state = state, !.retry = retry, !.cycle = cycle]
        /\ hal' = [hal EXCEPT !.shown = in.state, !.fault = shows]
    BY <1>3 DEF Servo!lcec_deasda_read
  <2>2. /\ left = (IF fault THEN drv.retry ELSE 0) /\ left \in Nat
        /\ turns <=> left > 0 /\ drv.cycle >= drv.cycles
    BY DEF Servo!Retry, Servo!Turns, ServoInv, ServoType
  <2>3. /\ fault \in BOOLEAN /\ shows \in BOOLEAN /\ turns \in BOOLEAN
        /\ state \in BOOLEAN
    BY DEF Servo!Faulty, Servo!Turns, ServoInv, ServoType
  <2>4. retry \in Nat /\ cycle \in Nat
    BY <2>2 DEF ServoInv, ServoType
  <2>5. Remembers
    BY <1>1, <2>1, Remembered DEF ServoInv
  <2> HIDE DEF fault, left, turns, state, retry, cycle, shows
  <2>6. /\ drv'.retries = drv.retries /\ drv'.cycles = drv.cycles /\ drv'.old = drv.old
        /\ drv'.timer = drv.timer /\ drv'.fault = fault /\ drv'.state = state
        /\ drv'.retry = retry /\ drv'.cycle = cycle
        /\ drv' = [retries |-> drv'.retries, cycles |-> drv'.cycles, retry |-> drv'.retry, cycle |-> drv'.cycle,
                   state |-> drv'.state, fault |-> drv'.fault, old |-> drv'.old, timer |-> drv'.timer]
    BY <2>1 DEF ServoInv, ServoType
  <2>7. /\ hal'.on = hal.on /\ hal'.enable = hal.enable /\ hal'.reset = hal.reset /\ hal'.cmd = hal.cmd /\ hal'.auto = hal.auto
        /\ hal'.velo = hal.velo /\ hal'.shown = in.state /\ hal'.fault = shows
        /\ hal' = [on |-> hal'.on, enable |-> hal'.enable, reset |-> hal'.reset, cmd |-> hal'.cmd,
                   auto |-> hal'.auto, shown |-> hal'.shown, fault |-> hal'.fault, velo |-> hal'.velo]
    BY <2>1 DEF ServoInv, ServoType
  <2>8. ServoType'
    <3>1. /\ drv'.retries \in Nat /\ drv'.cycles \in Nat /\ drv'.retry \in Nat /\ drv'.cycle \in Nat
          /\ drv'.state \in BOOLEAN /\ drv'.fault \in BOOLEAN /\ drv'.old \in BOOLEAN /\ drv'.timer \in Nat
      BY <2>3, <2>4, <2>6 DEF ServoInv, ServoType
    <3>2. /\ hal'.on \in BOOLEAN /\ hal'.enable \in BOOLEAN /\ hal'.reset \in BOOLEAN
          /\ hal'.cmd \in Int /\ hal'.auto \in BOOLEAN /\ hal'.fault \in BOOLEAN /\ hal'.velo \in Int
      BY <2>3, <2>7 DEF ServoInv, ServoType
    <3> QED
      BY <2>5, <2>6, <2>7, <3>1, <3>2 DEF ServoInv, ServoType, Remembers
  <2>9. /\ ~fault => left = 0 /\ retry = 0
        /\ left > 0 => left = drv.retry /\ fault
        /\ retry > 0 => left > 0
        /\ shows = (fault /\ left = 0)
    BY <2>2, <2>3 DEF retry, shows, fault, ServoInv, ServoType
  <2>10. drv.cycle <= drv.cycles /\ Servo!MayHide' = Servo!MayHide /\ Servo!MayHide \in Nat
    <3>1. drv.cycle <= drv.cycles
      BY <1>1 DEF ServoInv, Hides
    <3>2. Servo!MayHide = 2 * drv.retries * (drv.cycles + 1)
      BY <1>1 DEF Servo!MayHide
    <3>3. Servo!MayHide' = 2 * drv.retries * (drv.cycles + 1)
      BY <1>1, <2>6 DEF Servo!MayHide
    <3>4. 2 * drv.retries * (drv.cycles + 1) \in Nat
      BY DEF ServoInv, ServoType
    <3> QED
      BY <3>1, <3>2, <3>3, <3>4
  <2>11. cycle <= drv.cycles
    BY <2>2, <2>10 DEF cycle, ServoInv, ServoType
  <2>12. left > 0 =>
           /\ env'.hidden <= Servo!MayHide /\ env.asked
           /\ retry > 0 => env'.hidden + (2 * retry * (drv.cycles + 1)
                              - (IF state THEN 0 ELSE drv.cycles + 1) - cycle) <= Servo!MayHide
    <3>1. SUFFICES ASSUME left > 0
                   PROVE  /\ env'.hidden <= Servo!MayHide /\ env.asked
                          /\ retry > 0 => env'.hidden + (2 * retry * (drv.cycles + 1)
                               - (IF state THEN 0 ELSE drv.cycles + 1) - cycle) <= Servo!MayHide
      OBVIOUS
    <3>2. /\ left = drv.retry /\ drv.retry > 0 /\ env.asked
          /\ env.hidden + (2 * drv.retry * (drv.cycles + 1)
                - (IF drv.state THEN 0 ELSE drv.cycles + 1) - drv.cycle) <= Servo!MayHide
      BY <1>1, <2>9, <3>1 DEF ServoInv, Hides, ToRetry
    <3>3. /\ drv.cycle < drv.cycles => env'.hidden + (2 * drv.retry * (drv.cycles + 1)
                - (IF drv.state THEN 0 ELSE drv.cycles + 1) - (drv.cycle + 1)) <= Servo!MayHide
          /\ drv.cycle >= drv.cycles /\ drv.state =>
               env'.hidden + (2 * drv.retry * (drv.cycles + 1) - (drv.cycles + 1) - 0) <= Servo!MayHide
          /\ drv.cycle >= drv.cycles /\ ~drv.state =>
               env'.hidden + (2 * (drv.retry - 1) * (drv.cycles + 1) - 0 - 0) <= Servo!MayHide
          /\ env'.hidden <= Servo!MayHide
      <4>1. /\ env.hidden \in Nat /\ env'.hidden \in Nat /\ drv.retry \in Nat /\ drv.cycle \in Nat
            /\ drv.cycles \in Nat /\ drv.state \in BOOLEAN /\ env'.hidden <= env.hidden + 1
        BY <2>5 DEF ServoInv, ServoType, Remembers
      <4> QED
        <5> DEFINE total == 2 * drv.retry * (drv.cycles + 1)
                   off == IF drv.state THEN 0 ELSE drv.cycles + 1
        <5>1. total \in Int /\ total >= 2 * (drv.cycles + 1)
          BY <3>2, <4>1
        <5>2. 2 * (drv.retry - 1) * (drv.cycles + 1) = total - 2 * (drv.cycles + 1)
          BY <4>1
        <5>3. /\ off \in Int /\ (drv.state => off = 0) /\ (~drv.state => off = drv.cycles + 1)
              /\ env.hidden + (total - off - drv.cycle) <= Servo!MayHide
          BY <3>2, <4>1
        <5> HIDE DEF total, off
        <5>4. env'.hidden <= Servo!MayHide
          BY <2>10, <4>1, <5>1, <5>3
        <5>5. drv.cycle < drv.cycles => env'.hidden + (total - off - (drv.cycle + 1)) <= Servo!MayHide
          BY <2>10, <4>1, <5>1, <5>3
        <5>6. drv.cycle >= drv.cycles /\ drv.state =>
                env'.hidden + (total - (drv.cycles + 1) - 0) <= Servo!MayHide
          BY <2>10, <4>1, <5>1, <5>3
        <5>7. drv.cycle >= drv.cycles /\ ~drv.state =>
                env'.hidden + ((total - 2 * (drv.cycles + 1)) - 0 - 0) <= Servo!MayHide
          BY <2>10, <4>1, <5>1, <5>3
        <5> QED
          BY <5>2, <5>4, <5>5, <5>6, <5>7 DEF total, off
    <3>4. CASE turns /\ drv.state
      <4>1. drv.cycle >= drv.cycles /\ ~state /\ retry = drv.retry /\ cycle = 0
        BY <2>2, <3>2, <3>4 DEF state, retry, cycle
      <4> QED
        BY <3>2, <3>3, <3>4, <4>1
    <3>5. CASE turns /\ ~drv.state
      <4>1. drv.cycle >= drv.cycles /\ state /\ retry = drv.retry - 1 /\ cycle = 0
        BY <2>2, <3>2, <3>5 DEF state, retry, cycle
      <4> QED
        BY <3>2, <3>3, <3>5, <4>1
    <3>6. CASE ~turns
      <4>1. drv.cycle < drv.cycles /\ retry = drv.retry /\ cycle = drv.cycle + 1
        BY <2>2, <2>10, <3>1, <3>2, <3>6 DEF retry, cycle, ServoInv, ServoType
      <4>2. state = drv.state
        BY <3>6 DEF state
      <4> QED
        BY <3>2, <3>3, <4>1, <4>2
    <3> QED
      BY <2>3, <3>4, <3>5, <3>6
  <2>13. Hides'
    <3>1. retry > 0 => env'.asked
      BY <2>5, <2>9, <2>12 DEF Remembers, fault
    <3> QED
      BY <1>1, <2>6, <2>9, <2>10, <2>11, <2>12, <3>1 DEF Hides, ToRetry
  <2>14. Servo!Faulty' = Servo!Faulty /\ fault = Servo!Faulty
    BY DEF Servo!Faulty, fault
  <2>15. Knows'
    <3>1. drv'.fault = Servo!Faulty'
      BY <2>6, <2>14
    <3>2. up' => in'.state \in Servo!States
      BY DEF ServoInv, Knows
    <3>3. ~Servo!Faulty' => drv'.retry = 0
      BY <2>6, <2>9, <2>14
    <3> QED
      BY <1>1, <2>7, <3>1, <3>2, <3>3 DEF Knows
  <2>16. Asks' /\ Slows'
    <3>1. drv.old = hal.on
      BY <1>1 DEF ServoInv, Asks
    <3> QED
      BY <1>1, <2>6, <2>7, <3>1 DEF Asks, Slows
  <2>17. Servo!FaultIsShown'
    <3>1. env'.hidden > Servo!MayHide => left = 0
      BY <2>2, <2>5, <2>10, <2>12 DEF Remembers
    <3> QED
      BY <2>3, <2>7, <2>9, <2>10, <2>14, <3>1 DEF Servo!FaultIsShown
  <2>18. Servo!ResetWhenAsked' /\ Servo!DriveIsLed'
    BY DEF Servo!ResetWhenAsked, Servo!DriveIsLed
  <2> QED
    BY <2>8, <2>13, <2>15, <2>16, <2>17, <2>18 DEF ServoInv
<1> QED
  BY <1>2, <1>3 DEF ServoInv, Knows

(* OMRG5, whose timer runs down read by read.                              *)
LEMMA Omrg5ReadStep ==
  ASSUME ServoInv, phase = "read", phase' = "user", device' = device,
         up' = up, in' = in, out' = out, Servo!lcec_omrg5_read
  PROVE  ServoInv'
<1> DEFINE shows == drv.timer = 0 /\ Servo!Faulty /\ hal.on
           timer == IF drv.timer > 0 THEN drv.timer - 1 ELSE 0
<1>1. /\ device = "OMRG5" /\ device \notin Servo!Asda /\ device \in Servo!Servos
      /\ device # "EL7211 servo"
  BY DEF Servo!lcec_omrg5_read, Servo!Asda, Servo!Servos
<1>2. /\ env' = Servo!Remember
      /\ hal' = [hal EXCEPT !.shown = in.state, !.fault = shows]
      /\ drv' = [drv EXCEPT !.timer = timer]
  BY DEF Servo!lcec_omrg5_read
<1>3. Remembers
  BY <1>1, <1>2, Remembered DEF ServoInv
<1>4. shows \in BOOLEAN /\ timer \in Nat
  BY DEF ServoInv, ServoType, Servo!Faulty
<1>5. timer > 0 => drv.timer = timer + 1
  BY DEF ServoInv, ServoType
<1>6. shows = (drv.timer = 0 /\ Servo!Faulty /\ hal.on)
  OBVIOUS
<1> HIDE DEF shows, timer
<1>7. /\ drv'.retries = drv.retries /\ drv'.cycles = drv.cycles /\ drv'.old = drv.old
      /\ drv'.timer = timer /\ drv'.fault = drv.fault /\ drv'.state = drv.state
      /\ drv'.retry = drv.retry /\ drv'.cycle = drv.cycle
      /\ drv' = [retries |-> drv'.retries, cycles |-> drv'.cycles, retry |-> drv'.retry, cycle |-> drv'.cycle,
                 state |-> drv'.state, fault |-> drv'.fault, old |-> drv'.old, timer |-> drv'.timer]
  BY <1>2 DEF ServoInv, ServoType
<1>8. /\ hal'.on = hal.on /\ hal'.enable = hal.enable /\ hal'.reset = hal.reset /\ hal'.cmd = hal.cmd /\ hal'.auto = hal.auto
      /\ hal'.velo = hal.velo /\ hal'.shown = in.state /\ hal'.fault = shows
      /\ hal' = [on |-> hal'.on, enable |-> hal'.enable, reset |-> hal'.reset, cmd |-> hal'.cmd,
                 auto |-> hal'.auto, shown |-> hal'.shown, fault |-> hal'.fault, velo |-> hal'.velo]
  BY <1>2 DEF ServoInv, ServoType
<1>9. ServoType'
  BY <1>3, <1>4, <1>7, <1>8 DEF ServoInv, ServoType, Remembers
<1>10. Servo!Faulty' = Servo!Faulty /\ Servo!MayHide' = ServoWindow /\ Servo!MayHide = ServoWindow
  BY <1>1 DEF Servo!Faulty, Servo!MayHide
<1>11. drv.timer > 0 => env'.hidden + timer <= ServoWindow /\ env'.hidden <= ServoWindow
  <2>1. drv.timer > 0 => env.hidden + drv.timer <= ServoWindow
    BY <1>1 DEF ServoInv, Hides
  <2>2. drv.timer > 0 => drv.timer = timer + 1
    BY DEF timer, ServoInv, ServoType
  <2> QED
    BY <1>3, <1>4, <2>1, <2>2, ServoAssumption DEF Remembers, ServoInv, ServoType
<1>12. Hides'
  BY <1>1, <1>4, <1>5, <1>7, <1>11 DEF Hides, ServoInv, ServoType
<1>13. Knows'
  BY <1>1, <1>8 DEF ServoInv, Knows
<1>14. Asks' /\ Slows'
  <2>1. drv.old = hal.on
    BY <1>1 DEF ServoInv, Asks
  <2> QED
    BY <1>1, <1>7, <1>8, <2>1 DEF Asks, Slows
<1>15. Servo!FaultIsShown'
  <2>1. env'.hidden > ServoWindow => drv.timer = 0
    BY <1>3, <1>11, ServoAssumption DEF Remembers, ServoInv, ServoType
  <2> QED
    BY <1>1, <1>4, <1>6, <1>8, <1>10, <2>1 DEF Servo!FaultIsShown
<1>16. Servo!ResetWhenAsked' /\ Servo!DriveIsLed'
  BY DEF Servo!ResetWhenAsked, Servo!DriveIsLed
<1> QED
  BY <1>9, <1>12, <1>13, <1>14, <1>15, <1>16 DEF ServoInv

(* EL7211, whose timer is wound up while there is no fault to hide.        *)
LEMMA El7211ReadStep ==
  ASSUME ServoInv, phase = "read", phase' = "user", device' = device,
         up' = up, in' = in, out' = out, Servo!lcec_el7211_read
  PROVE  ServoInv'
<1>1. /\ device = "EL7211 servo" /\ device \notin Servo!Asda /\ device \in Servo!Servos
      /\ device # "OMRG5"
  BY DEF Servo!lcec_el7211_read, Servo!Asda, Servo!Servos
<1>2. CASE ~up
  <2>1. drv' = drv /\ env' = env /\ hal' = [hal EXCEPT !.shown = "fault"]
    BY <1>2 DEF Servo!lcec_el7211_read
  <2>2. /\ hal'.on = hal.on /\ hal'.enable = hal.enable /\ hal'.reset = hal.reset /\ hal'.cmd = hal.cmd /\ hal'.auto = hal.auto
        /\ hal'.velo = hal.velo /\ hal'.fault = hal.fault
        /\ hal' = [on |-> hal'.on, enable |-> hal'.enable, reset |-> hal'.reset, cmd |-> hal'.cmd,
                   auto |-> hal'.auto, shown |-> hal'.shown, fault |-> hal'.fault, velo |-> hal'.velo]
    BY <2>1 DEF ServoInv, ServoType
  <2>3. ServoType'
    BY <2>1, <2>2 DEF ServoInv, ServoType
  <2>4. Hides' /\ Knows' /\ Asks' /\ Slows'
    BY <1>1, <1>2, <2>1, <2>2 DEF ServoInv, Hides, Knows, Asks, Slows
  <2>5. Servo!FaultIsShown' /\ Servo!ResetWhenAsked' /\ Servo!DriveIsLed'
    BY <1>2 DEF Servo!FaultIsShown, Servo!ResetWhenAsked, Servo!DriveIsLed
  <2> QED
    BY <2>3, <2>4, <2>5 DEF ServoInv
<1>3. CASE up
  <2> DEFINE hides == hal.on /\ Servo!Faulty
             shows == hal.on /\ Servo!Faulty /\ drv.timer = 0
             timer == CASE ~hides -> ServoWindow
                        [] hides /\ drv.timer > 0 -> drv.timer - 1
                        [] OTHER -> 0
             hidden == IF hides THEN Servo!Remember.hidden ELSE 0
             asked == env.asked /\ Servo!Faulty
  <2>1. /\ env' = [Servo!Remember EXCEPT !.hidden = IF hides THEN @ ELSE 0]
        /\ hal' = [hal EXCEPT !.shown = in.state, !.fault = shows]
        /\ drv' = [drv EXCEPT !.timer = timer]
    BY <1>3 DEF Servo!lcec_el7211_read
  <2>2. shows \in BOOLEAN /\ timer \in Nat /\ hides \in BOOLEAN /\ asked \in BOOLEAN
    BY ServoAssumption DEF ServoInv, ServoType, Servo!Faulty
  <2>3. /\ hides /\ timer > 0 => drv.timer = timer + 1
        /\ shows = (hides /\ drv.timer = 0)
    BY DEF ServoInv, ServoType
  <2>4. ~hides => timer = ServoWindow
    OBVIOUS
  <2> HIDE DEF hides
  <2>5. Servo!Remember.hidden \in Nat /\ Servo!Remember.hidden <= env.hidden + 1
    <3> DEFINE h == IF env.hidden <= Servo!MayHide THEN env.hidden + 1 ELSE env.hidden
    <3>1. Servo!Remember.hidden = h
      BY DEF Servo!Remember, ServoInv, ServoType
    <3> QED
      BY <3>1 DEF ServoInv, ServoType
  <2>6. hidden \in Nat /\ (hides => hidden <= env.hidden + 1) /\ (~hides => hidden = 0)
    BY <2>5
  <2>7. env' = [env EXCEPT !.hidden = hidden, !.asked = asked]
    BY <2>1 DEF Servo!Remember, ServoInv, ServoType
  <2> HIDE DEF shows, timer, hidden, asked
  <2>8. /\ env'.hidden = hidden /\ env'.asked = asked /\ env'.off = env.off /\ env'.left = env.left
        /\ env' = [left |-> env'.left, hidden |-> env'.hidden, asked |-> env'.asked, off |-> env'.off]
    BY <2>7 DEF ServoInv, ServoType
  <2>9. /\ drv'.retries = drv.retries /\ drv'.cycles = drv.cycles /\ drv'.old = drv.old
        /\ drv'.timer = timer /\ drv'.fault = drv.fault /\ drv'.state = drv.state
        /\ drv'.retry = drv.retry /\ drv'.cycle = drv.cycle
        /\ drv' = [retries |-> drv'.retries, cycles |-> drv'.cycles, retry |-> drv'.retry, cycle |-> drv'.cycle,
                   state |-> drv'.state, fault |-> drv'.fault, old |-> drv'.old, timer |-> drv'.timer]
    BY <2>1 DEF ServoInv, ServoType
  <2>10. /\ hal'.on = hal.on /\ hal'.enable = hal.enable /\ hal'.reset = hal.reset /\ hal'.cmd = hal.cmd /\ hal'.auto = hal.auto
         /\ hal'.velo = hal.velo /\ hal'.shown = in.state /\ hal'.fault = shows
         /\ hal' = [on |-> hal'.on, enable |-> hal'.enable, reset |-> hal'.reset, cmd |-> hal'.cmd,
                    auto |-> hal'.auto, shown |-> hal'.shown, fault |-> hal'.fault, velo |-> hal'.velo]
    BY <2>1 DEF ServoInv, ServoType
  <2>11. ServoType'
    BY <2>2, <2>6, <2>8, <2>9, <2>10 DEF ServoInv, ServoType
  <2>12. Servo!Faulty' = Servo!Faulty /\ Servo!MayHide' = ServoWindow
    BY <1>1 DEF Servo!Faulty, Servo!MayHide
  <2>13. drv.timer > 0 => env.hidden + drv.timer <= ServoWindow
    BY <1>1 DEF ServoInv, Hides
  <2>14. Hides'
    <3>1. timer > 0 => hidden + timer <= ServoWindow
      <4>1. CASE hides
        BY <2>2, <2>3, <2>6, <2>13, <4>1, ServoAssumption DEF ServoInv, ServoType
      <4>2. CASE ~hides
        BY <2>4, <2>6, <4>2, ServoAssumption
      <4> QED
        BY <4>1, <4>2
    <3> QED
      BY <1>1, <2>8, <2>9, <3>1 DEF Hides
  <2>15. Knows'
    BY <1>1, <2>10 DEF ServoInv, Knows, Servo!Asda
  <2>16. Asks' /\ Slows'
    BY <1>1, <2>8, <2>10 DEF ServoInv, Asks, Slows
  <2>17. Servo!FaultIsShown'
    <3>1. hides /\ hidden > ServoWindow => drv.timer = 0
      BY <2>6, <2>13, ServoAssumption DEF ServoInv, ServoType
    <3> QED
      BY <1>1, <2>2, <2>3, <2>8, <2>10, <2>12, <3>1 DEF Servo!FaultIsShown, hides
  <2>18. Servo!ResetWhenAsked' /\ Servo!DriveIsLed'
    BY DEF Servo!ResetWhenAsked, Servo!DriveIsLed
  <2> QED
    BY <2>11, <2>14, <2>15, <2>16, <2>17, <2>18 DEF ServoInv
<1> QED
  BY <1>2, <1>3 DEF ServoInv, Knows

(* The bits that lead a drive on from each of its states.                  *)
LEMMA LedOn ==
  ASSUME NEW state \in Servo!States, NEW ctl, state # "fault", "volt" \in ctl,
         state # "disabled" => "on" \in ctl,
         state \in {"on", "op"} => "op" \in ctl
  PROVE  Servo!Leads(state, ctl) = CASE state = "disabled" -> "ready"
                                     [] state = "ready" -> "on"
                                     [] OTHER -> "op"
<1>1. CASE state = "disabled"
  BY <1>1 DEF Servo!Leads
<1>2. CASE state = "ready"
  <2>1. {"volt", "on"} \subseteq ctl
    BY <1>2
  <2> QED
    BY <1>2, <2>1 DEF Servo!Leads
<1>3. CASE state \in {"on", "op"}
  <2>1. {"volt", "on", "op"} \subseteq ctl
    BY <1>3
  <2>2. Servo!Leads(state, ctl) = "op"
    BY <1>3, <2>1 DEF Servo!Leads
  <2> QED
    BY <1>3, <2>2
<1> QED
  BY <1>1, <1>2, <1>3 DEF Servo!States

(* DeASDA tells its drive what its pins say.                               *)
LEMMA DeasdaWriteStep ==
  ASSUME ServoInv, phase = "write", phase' = "bus", device' = device, device \in Servo!Asda,
         up' = up, in' = in, Servo!DeasdaControl
  PROVE  ServoInv'
<1> DEFINE tries == Servo!Edge /\ drv.fault /\ drv.retries > 0 /\ drv.cycles > 0
           retry == IF tries THEN drv.retries ELSE drv.retry
           state == tries \/ drv.state
           cycle == IF tries THEN 0 ELSE drv.cycle
           hidden == IF tries THEN 0 ELSE env.hidden
           ctl == {"volt"}
                   \cup (IF hal.reset \/ (retry > 0 /\ state) THEN {"reset"} ELSE {})
                   \cup (IF retry = 0 /\ hal.on THEN {"on"} ELSE {})
                   \cup (IF retry = 0 /\ hal.enable /\ hal.shown \in {"on", "op"} THEN {"op"} ELSE {})
<1>1. /\ drv' = [drv EXCEPT !.old = hal.on, !.retry = retry, !.state = state, !.cycle = cycle]
      /\ out' = [out EXCEPT !.ctl = ctl] /\ hal' = hal
  BY DEF Servo!DeasdaControl
<1>2. env' = [env EXCEPT !.hidden = hidden]
  <2>1. env' = IF tries THEN [env EXCEPT !.hidden = 0] ELSE env
    BY DEF Servo!DeasdaControl
  <2> HIDE DEF tries
  <2> QED
    BY <2>1 DEF ServoInv, ServoType
<1>3. device # "EL7211 servo" /\ device # "OMRG5"
  BY DEF Servo!Asda
<1>4. /\ tries \in BOOLEAN /\ state \in BOOLEAN /\ hidden \in Nat /\ retry \in Nat /\ cycle \in Nat
  BY DEF Servo!Edge, ServoInv, ServoType
<1>5. tries => hal.on /\ ~drv.old /\ drv.fault
  BY DEF Servo!Edge
<1>6. /\ tries => retry = drv.retries /\ state /\ cycle = 0 /\ hidden = 0
      /\ ~tries => retry = drv.retry /\ state = drv.state /\ cycle = drv.cycle /\ hidden = env.hidden
  BY <1>4 DEF ServoInv, ServoType
<1>7. drv.fault = Servo!Faulty
  BY DEF ServoInv, Knows
<1>8. tries => env.asked
  BY <1>3, <1>5, <1>7 DEF ServoInv, Asks
<1>9. /\ "reset" \in ctl => hal.reset \/ retry > 0
      /\ "volt" \in ctl
      /\ retry = 0 /\ hal.on => "on" \in ctl
      /\ retry = 0 /\ hal.enable /\ hal.shown \in {"on", "op"} => "op" \in ctl
  <2> HIDE DEF retry, state
  <2> QED
    OBVIOUS
<1> HIDE DEF tries, retry, state, cycle, hidden, ctl
<1>10. /\ drv'.retries = drv.retries /\ drv'.cycles = drv.cycles /\ drv'.old = hal.on
       /\ drv'.timer = drv.timer /\ drv'.fault = drv.fault /\ drv'.state = state
       /\ drv'.retry = retry /\ drv'.cycle = cycle
       /\ drv' = [retries |-> drv'.retries, cycles |-> drv'.cycles, retry |-> drv'.retry, cycle |-> drv'.cycle,
                  state |-> drv'.state, fault |-> drv'.fault, old |-> drv'.old, timer |-> drv'.timer]
  BY <1>1 DEF ServoInv, ServoType
<1>11. /\ env'.hidden = hidden /\ env'.asked = env.asked /\ env'.off = env.off /\ env'.left = env.left
       /\ env' = [left |-> env'.left, hidden |-> env'.hidden, asked |-> env'.asked, off |-> env'.off]
  BY <1>2 DEF ServoInv, ServoType
<1>12. out'.ctl = ctl /\ out' = [ctl |-> out'.ctl, velo |-> out'.velo]
  BY <1>1 DEF ServoInv, ServoType
<1>13. ServoType'
  BY <1>1, <1>4, <1>10, <1>11, <1>12 DEF ServoInv, ServoType
<1>14. Hides'
  <2>1. Servo!MayHide = 2 * drv.retries * (drv.cycles + 1) /\ Servo!MayHide' = Servo!MayHide
    BY <1>10 DEF Servo!MayHide
  <2>2. CASE tries
    <3>1. /\ hidden = 0 /\ state /\ cycle = 0 /\ retry = drv.retries /\ env.asked
      BY <1>6, <1>8, <2>2
    <3>2. ToRetry' = Servo!MayHide - 0 - 0
      BY <1>10, <2>1, <3>1 DEF ToRetry
    <3>3. Servo!MayHide \in Nat
      BY <2>1 DEF ServoInv, ServoType
    <3>4. drv'.cycle <= drv'.cycles
      BY <1>10, <3>1 DEF ServoInv, ServoType
    <3> QED
      BY <1>10, <1>11, <2>1, <3>1, <3>2, <3>3, <3>4 DEF Hides
  <2>3. CASE ~tries
    <3>1. hidden = env.hidden /\ state = drv.state /\ cycle = drv.cycle /\ retry = drv.retry
      BY <1>6, <2>3
    <3>2. ToRetry' = ToRetry
      BY <1>10, <3>1 DEF ToRetry
    <3> QED
      BY <1>10, <1>11, <2>1, <3>1, <3>2 DEF ServoInv, Hides
  <2> QED
    BY <2>2, <2>3
<1>15. Knows'
  <2>1. drv'.fault = Servo!Faulty'
    BY <1>7, <1>10 DEF Servo!Faulty
  <2>2. up' => in'.state \in Servo!States
    BY DEF ServoInv, Knows
  <2> QED
    BY <1>3, <2>1, <2>2 DEF Knows
<1>16. Asks' /\ Slows'
  BY <1>1, <1>3, <1>10 DEF Asks, Slows
<1>17. Servo!FaultIsShown'
  BY DEF Servo!FaultIsShown
<1>18. Servo!ResetWhenAsked'
  <2>1. retry > 0 => env.asked
    BY <1>6, <1>8 DEF ServoInv, Hides
  <2>2. "reset" \in out'.ctl => hal'.reset \/ env'.asked
    BY <1>1, <1>9, <1>11, <1>12, <2>1
  <2> QED
    BY <1>3, <2>2 DEF Servo!ResetWhenAsked
<1>19. Servo!DriveIsLed'
  <2>1. ASSUME up, hal.on, hal.enable, ~Servo!Faulty
        PROVE  Servo!Leads(in.state, ctl) = CASE in.state = "disabled" -> "ready"
                                              [] in.state = "ready" -> "on"
                                              [] OTHER -> "op"
    <3>1. hal.shown = in.state /\ drv.retry = 0 /\ in.state \in Servo!States
      BY <2>1 DEF ServoInv, Knows
    <3>2. retry = 0
      BY <1>5, <1>6, <1>7, <2>1, <3>1
    <3>3. in.state # "fault"
      BY <2>1 DEF Servo!Faulty
    <3>4. "volt" \in ctl /\ "on" \in ctl /\ (in.state \in {"on", "op"} => "op" \in ctl)
      BY <1>9, <2>1, <3>1, <3>2
    <3> QED
      BY <3>1, <3>3, <3>4, LedOn
  <2> QED
    BY <1>1, <1>3, <1>12, <2>1 DEF Servo!DriveIsLed, Servo!Faulty
<1> QED
  BY <1>13, <1>14, <1>15, <1>16, <1>17, <1>18, <1>19 DEF ServoInv

(* So does OMRG5, one state of the drive at a time.                        *)
LEMMA Omrg5WriteStep ==
  ASSUME ServoInv, phase = "write", phase' = "bus", device' = device,
         up' = up, in' = in, Servo!lcec_omrg5_write
  PROVE  ServoInv'
<1> DEFINE resets == hal.shown = "fault" /\ hal.auto /\ Servo!Edge
           timer == IF resets THEN ServoWindow ELSE drv.timer
           hidden == IF resets THEN 0 ELSE env.hidden
           ctl == CASE resets -> {"reset"}
                    [] hal.shown # "fault" /\ hal.on ->
                         {"volt"} \cup (IF hal.shown \in {"ready", "on", "op"} THEN {"on"} ELSE {})
                                  \cup (IF hal.shown \in {"on", "op"} THEN {"op"} ELSE {})
                    [] OTHER -> {}
<1>1. device = "OMRG5" /\ device \notin Servo!Asda /\ device # "EL7211 servo"
  BY DEF Servo!lcec_omrg5_write, Servo!Asda
<1>2. /\ drv' = [drv EXCEPT !.old = hal.on, !.timer = timer]
      /\ out' = [out EXCEPT !.ctl = ctl] /\ hal' = hal
  BY DEF Servo!lcec_omrg5_write
<1>3. env' = [env EXCEPT !.hidden = hidden]
  <2>1. env' = IF resets THEN [env EXCEPT !.hidden = 0] ELSE env
    BY DEF Servo!lcec_omrg5_write
  <2> HIDE DEF resets
  <2> QED
    BY <2>1 DEF ServoInv, ServoType
<1>4. resets \in BOOLEAN /\ timer \in Nat /\ hidden \in Nat
  BY ServoAssumption DEF Servo!Edge, ServoInv, ServoType
<1>5. resets => hal.on /\ ~drv.old /\ hal.shown = "fault"
  BY DEF Servo!Edge
<1>6. hal.shown = in.state
  BY <1>1 DEF ServoInv, Knows
<1>7. resets => env.asked
  BY <1>1, <1>5, <1>6 DEF ServoInv, Asks, Servo!Faulty
<1>8. "reset" \in ctl => resets
  <2> HIDE DEF resets
  <2> QED
    OBVIOUS
<1>9. hal.shown # "fault" /\ hal.on =>
        /\ "volt" \in ctl
        /\ hal.shown \in {"ready", "on", "op"} => "on" \in ctl
        /\ hal.shown \in {"on", "op"} => "op" \in ctl
  OBVIOUS
<1>20. ~hal.on => ctl = {}
  <2>1. ~hal.on => ~resets
    BY <1>5
  <2> HIDE DEF resets
  <2> QED
    BY <2>1
<1>10. timer > 0 => hidden + timer <= ServoWindow
  <2>1. drv.timer > 0 => env.hidden + drv.timer <= ServoWindow
    BY <1>1 DEF ServoInv, Hides
  <2> QED
    BY <2>1, ServoAssumption DEF ServoInv, ServoType
<1> HIDE DEF resets, timer, hidden, ctl
<1>11. /\ drv'.retries = drv.retries /\ drv'.cycles = drv.cycles /\ drv'.old = hal.on
       /\ drv'.timer = timer /\ drv'.fault = drv.fault /\ drv'.state = drv.state
       /\ drv'.retry = drv.retry /\ drv'.cycle = drv.cycle
       /\ drv' = [retries |-> drv'.retries, cycles |-> drv'.cycles, retry |-> drv'.retry, cycle |-> drv'.cycle,
                  state |-> drv'.state, fault |-> drv'.fault, old |-> drv'.old, timer |-> drv'.timer]
  BY <1>2 DEF ServoInv, ServoType
<1>12. /\ env'.hidden = hidden /\ env'.asked = env.asked /\ env'.off = env.off /\ env'.left = env.left
       /\ env' = [left |-> env'.left, hidden |-> env'.hidden, asked |-> env'.asked, off |-> env'.off]
  BY <1>3 DEF ServoInv, ServoType
<1>13. out'.ctl = ctl /\ out' = [ctl |-> out'.ctl, velo |-> out'.velo]
  BY <1>2 DEF ServoInv, ServoType
<1>14. ServoType'
  BY <1>2, <1>4, <1>11, <1>12, <1>13 DEF ServoInv, ServoType
<1>15. Hides'
  BY <1>1, <1>10, <1>11, <1>12 DEF Hides
<1>16. Knows' /\ Asks' /\ Slows'
  BY <1>1, <1>2, <1>11 DEF ServoInv, Knows, Asks, Slows
<1>17. Servo!FaultIsShown'
  BY DEF Servo!FaultIsShown
<1>18. Servo!ResetWhenAsked'
  <2>1. "reset" \in out'.ctl => env'.asked
    BY <1>7, <1>8, <1>12, <1>13
  <2> QED
    BY <1>1, <2>1 DEF Servo!ResetWhenAsked
<1>19. Servo!DriveIsLed'
  <2>1. ASSUME up, hal.on, ~Servo!Faulty
        PROVE  Servo!Leads(in.state, ctl) = CASE in.state = "disabled" -> "ready"
                                              [] in.state = "ready" -> "on"
                                              [] OTHER -> "op"
    <3>1. in.state \in Servo!States /\ in.state # "fault"
      BY <2>1 DEF ServoInv, Knows, Servo!Faulty
    <3>2. /\ "volt" \in ctl /\ (in.state # "disabled" => "on" \in ctl)
          /\ in.state \in {"on", "op"} => "op" \in ctl
      BY <1>6, <1>9, <2>1, <3>1 DEF Servo!States
    <3> QED
      BY <3>1, <3>2, LedOn
  <2> QED
    BY <1>1, <1>2, <1>13, <1>20, <2>1 DEF Servo!DriveIsLed, Servo!Faulty
<1> QED
  BY <1>14, <1>15, <1>16, <1>17, <1>18, <1>19 DEF ServoInv

(* The ramp takes what it can off the speed of a drive that is disabled.   *)
LEMMA RampedDown ==
  ASSUME NEW velo \in Int, NEW off \in Nat, NEW velo2 \in Int,
         velo = 0 \/ (velo + off * Ramp <= Speed /\ -velo + off * Ramp <= Speed),
         velo2 = Servo!Clamp(0, velo - Ramp, velo + Ramp)
  PROVE  velo2 = 0 \/ (/\ velo2 + (off + 1) * Ramp <= Speed
                       /\ -velo2 + (off + 1) * Ramp <= Speed)
<1>1. Ramp \in Nat \ {0} /\ Speed \in Nat \ {0}
  BY ServoAssumption
<1> DEFINE been == off * Ramp
<1>2. been \in Nat /\ (off + 1) * Ramp = been + Ramp
  BY <1>1
<1>3. velo = 0 \/ (velo + been <= Speed /\ -velo + been <= Speed)
  OBVIOUS
<1> HIDE DEF been
<1>4. velo2 = IF 0 < velo - Ramp THEN velo - Ramp ELSE IF 0 > velo + Ramp THEN velo + Ramp ELSE 0
  BY DEF Servo!Clamp
<1> QED
  BY <1>1, <1>2, <1>3, <1>4

(* So does EL7211, which ramps down before it switches off.                *)
LEMMA El7211WriteStep ==
  ASSUME ServoInv, phase = "write", phase' = "bus", device' = device,
         up' = up, in' = in, Servo!lcec_el7211_write
  PROVE  ServoInv'
<1> DEFINE aim == IF hal.on THEN Servo!Clamp(hal.cmd, -Speed, Speed) ELSE 0
           velo == Servo!Clamp(aim, hal.velo - Ramp, hal.velo + Ramp)
           off == CASE hal.on -> 0 [] ~hal.on /\ env.off < Speed -> env.off + 1 [] OTHER -> env.off
           led == hal.on \/ velo # 0
           ctl == CASE ~led -> {}
                    [] led /\ hal.shown = "fault" -> {"reset"}
                    [] led /\ hal.shown = "disabled" -> {"volt"}
                    [] led /\ hal.shown = "ready" -> {"volt", "on"}
                    [] led /\ hal.shown \in {"on", "op"} -> {"volt", "on", "op"}
                    [] OTHER -> {}
<1>1. device = "EL7211 servo" /\ device \notin Servo!Asda /\ device # "OMRG5"
  BY DEF Servo!lcec_el7211_write, Servo!Asda
<1>2. /\ drv' = drv /\ hal' = [hal EXCEPT !.velo = velo] /\ out' = [velo |-> velo, ctl |-> ctl]
      /\ env' = [env EXCEPT !.off = off]
  BY DEF Servo!lcec_el7211_write
<1>3. /\ Ramp \in Nat \ {0} /\ Speed \in Nat \ {0} /\ hal.velo \in Int /\ hal.cmd \in Int
      /\ env.off \in Nat /\ hal.on \in BOOLEAN
  BY ServoAssumption DEF ServoInv, ServoType
<1>4. \/ hal.velo = 0
      \/ hal.velo + env.off * Ramp <= Speed /\ -hal.velo + env.off * Ramp <= Speed
  BY <1>1 DEF ServoInv, Slows
<1>5. off \in Nat
  BY <1>3
<1>6. hal.velo <= Speed /\ -hal.velo <= Speed
  <2>1. env.off * Ramp >= 0
    BY <1>3
  <2> QED
    BY <1>3, <1>4, <2>1
<1>7. velo \in Int /\ velo <= Speed /\ -velo <= Speed
  <2>1. aim \in Int /\ aim <= Speed /\ -aim <= Speed
    BY <1>3 DEF Servo!Clamp
  <2> HIDE DEF aim
  <2> QED
    BY <1>3, <1>6, <2>1 DEF Servo!Clamp
<1>8. /\ ~hal.on => off = env.off + 1 \/ (off = env.off /\ env.off >= Speed)
      /\ hal.on => off = 0
  BY <1>3
<1>9. ~hal.on => velo = Servo!Clamp(0, hal.velo - Ramp, hal.velo + Ramp)
  OBVIOUS
<1>10. /\ led = (hal.on \/ velo # 0)
       /\ ~led => ctl = {}
       /\ hal.shown \in Servo!States /\ hal.on /\ hal.shown # "fault" =>
            /\ "volt" \in ctl /\ (hal.shown # "disabled" => "on" \in ctl)
            /\ hal.shown \in {"on", "op"} => "op" \in ctl
  <2> HIDE DEF velo
  <2>1. led = (hal.on \/ velo # 0)
    OBVIOUS
  <2>2. hal.on => led
    BY <2>1
  <2> HIDE DEF led
  <2> QED
    BY <2>1, <2>2 DEF Servo!States
<1>11. \/ velo = 0
       \/ velo + off * Ramp <= Speed /\ -velo + off * Ramp <= Speed
  <2> HIDE DEF velo, off
  <2>1. CASE hal.on
    <3>1. off * Ramp = 0
      BY <1>3, <1>8, <2>1
    <3> QED
      BY <1>7, <3>1
  <2>2. CASE ~hal.on /\ off = env.off + 1
    BY <1>3, <1>4, <1>7, <1>9, <2>2, RampedDown
  <2>3. CASE ~hal.on /\ off = env.off /\ env.off >= Speed
    <3>1. env.off * Ramp >= Speed
      BY <1>3, <2>3
    <3>2. hal.velo = 0
      BY <1>3, <1>4, <3>1
    <3>3. velo = 0
      BY <1>3, <1>9, <2>3, <3>2 DEF Servo!Clamp
    <3> QED
      BY <3>3
  <2> QED
    BY <1>8, <2>1, <2>2, <2>3
<1> HIDE DEF velo, off, led, ctl
<1>12. /\ hal'.on = hal.on /\ hal'.enable = hal.enable /\ hal'.reset = hal.reset /\ hal'.cmd = hal.cmd /\ hal'.auto = hal.auto
       /\ hal'.velo = velo /\ hal'.fault = hal.fault /\ hal'.shown = hal.shown
       /\ hal' = [on |-> hal'.on, enable |-> hal'.enable, reset |-> hal'.reset, cmd |-> hal'.cmd,
                  auto |-> hal'.auto, shown |-> hal'.shown, fault |-> hal'.fault, velo |-> hal'.velo]
  BY <1>2 DEF ServoInv, ServoType
<1>13. /\ env'.hidden = env.hidden /\ env'.asked = env.asked /\ env'.off = off /\ env'.left = env.left
       /\ env' = [left |-> env'.left, hidden |-> env'.hidden, asked |-> env'.asked, off |-> env'.off]
  BY <1>2 DEF ServoInv, ServoType
<1>14. out'.ctl = ctl /\ out'.velo = velo /\ out' = [ctl |-> ctl, velo |-> velo]
  BY <1>2
<1>15. ServoType'
  BY <1>2, <1>5, <1>7, <1>12, <1>13, <1>14 DEF ServoInv, ServoType
<1>16. Hides' /\ Knows' /\ Asks'
  BY <1>1, <1>2, <1>13 DEF ServoInv, Hides, Knows, Asks
<1>17. Slows'
  BY <1>11, <1>12, <1>13 DEF Slows
<1>18. Servo!FaultIsShown'
  BY DEF Servo!FaultIsShown
<1>19. Servo!ResetWhenAsked'
  <2>1. "reset" \in out'.ctl => hal'.on \/ hal'.velo # 0
    BY <1>10, <1>12, <1>14
  <2> QED
    BY <1>1, <2>1 DEF Servo!ResetWhenAsked
<1>20. Servo!DriveIsLed'
  <2>1. ASSUME up, hal.on, ~Servo!Faulty
        PROVE  Servo!Leads(in.state, ctl) = CASE in.state = "disabled" -> "ready"
                                              [] in.state = "ready" -> "on"
                                              [] OTHER -> "op"
    <3>1. hal.shown = in.state /\ in.state \in Servo!States /\ in.state # "fault"
      BY <2>1 DEF ServoInv, Knows, Servo!Faulty
    <3>2. /\ "volt" \in ctl /\ (in.state # "disabled" => "on" \in ctl)
          /\ in.state \in {"on", "op"} => "op" \in ctl
      BY <1>10, <2>1, <3>1
    <3> QED
      BY <3>1, <3>2, LedOn
  <2>2. ASSUME off * Ramp >= Speed PROVE out' = [ctl |-> {}, velo |-> 0]
    <3>1. ~hal.on
      <4>1. off = 0 => off * Ramp = 0
        BY <1>3
      <4> QED
        BY <1>3, <1>8, <2>2, <4>1
    <3>2. velo = 0
      <4>1. off * Ramp \in Int
        BY <1>3, <1>5
      <4> QED
        BY <1>3, <1>7, <1>11, <2>2, <4>1
    <3> QED
      BY <1>10, <1>14, <3>1, <3>2
  <2> QED
    BY <1>1, <1>12, <1>13, <1>14, <2>1, <2>2 DEF Servo!DriveIsLed, Servo!Faulty
<1> QED
  BY <1>15, <1>16, <1>17, <1>18, <1>19, <1>20 DEF ServoInv

(* So each step of a servo drive keeps the invariant.                      *)
LEMMA ServoStep ==
  ASSUME ServoInv, [Servo!Next]_slaveVars, device \in Servo!Servos
  PROVE  ServoInv'
<1>1. CASE Servo!Read
  <2>1. /\ phase = "read" /\ phase' = "user" /\ device' = device
        /\ up' = up /\ in' = in /\ out' = out
    BY <1>1 DEF Servo!Read, Servo!Turn
  <2>2. Servo!lcec_deasda_read \/ Servo!lcec_omrg5_read \/ Servo!lcec_el7211_read
    BY <1>1 DEF Servo!Read
  <2> QED
    BY <2>1, <2>2, DeasdaReadStep, Omrg5ReadStep, El7211ReadStep
<1>2. CASE Servo!Write
  <2>1. /\ phase = "write" /\ phase' = "bus" /\ device' = device /\ up' = up /\ in' = in
    BY <1>2 DEF Servo!Write, Servo!Turn
  <2>2. \/ device \in Servo!Asda /\ Servo!DeasdaControl
        \/ Servo!lcec_omrg5_write
        \/ Servo!lcec_el7211_write
    BY <1>2 DEF Servo!Write, Servo!lcec_deasda_write_csv, Servo!lcec_deasda_write_csp, Servo!Asda
  <2> QED
    BY <2>1, <2>2, DeasdaWriteStep, Omrg5WriteStep, El7211WriteStep
<1>3. CASE UNCHANGED slaveVars
  <2>1. /\ device' = device /\ phase' = phase /\ up' = up /\ hal' = hal /\ drv' = drv
        /\ in' = in /\ out' = out /\ env' = env
    BY <1>3 DEF slaveVars
  <2>2. ServoType' /\ Hides' /\ Knows' /\ Asks' /\ Slows'
    <3>1. Servo!Faulty' = Servo!Faulty /\ Servo!MayHide' = Servo!MayHide /\ ToRetry' = ToRetry
      BY <2>1 DEF Servo!Faulty, Servo!MayHide, ToRetry
    <3>2. ServoType'
      BY <2>1 DEF ServoInv, ServoType
    <3>3. Hides'
      BY <2>1, <3>1 DEF ServoInv, Hides
    <3>4. Knows'
      BY <2>1, <3>1 DEF ServoInv, Knows
    <3>5. Asks' /\ Slows'
      BY <2>1, <3>1 DEF ServoInv, Asks, Slows
    <3> QED
      BY <3>2, <3>3, <3>4, <3>5
  <2>3. Servo!FaultIsShown' /\ Servo!ResetWhenAsked' /\ Servo!DriveIsLed'
    BY <2>1 DEF ServoInv, Servo!FaultIsShown, Servo!ResetWhenAsked, Servo!DriveIsLed,
                Servo!Faulty, Servo!MayHide
  <2> QED
    BY <2>2, <2>3 DEF ServoInv
<1> QED
  BY <1>1, <1>2, <1>3, ServoBusStep, ServoUserStep DEF Servo!Next

(* A servo drive hides a fault no longer than its reset may take and       *)
(* resets none that it was not told to, for any retries, periods, limits   *)
(* and ramp, and whatever the drive does (lcec_deasda.c 484-575,           *)
(* lcec_omrg5.c 368-397, lcec_el7211.c 403-475).                           *)
THEOREM FaultsAreHandledCorrect == Spec => []FaultsAreHandled
<1> DEFINE Inv == device \in Servo!Servos => ServoInv
<1>1. Init => Inv
  BY OneStart, ServoStart
<1>2. Inv /\ [Next]_slaveVars => Inv'
  <2>1. ASSUME Inv, [Next]_slaveVars PROVE Inv'
    <3>1. device' = device /\ (device \in Servo!Servos => [Servo!Next]_slaveVars)
      BY <2>1, OneDriver
    <3>2. ASSUME device \in Servo!Servos PROVE ServoInv'
      BY <2>1, <3>1, <3>2, ServoStep
    <3>3. Servo!Servos' = Servo!Servos
      BY DEF Servo!Servos, Servo!Asda
    <3> QED
      BY <3>1, <3>2, <3>3
  <2> QED
    BY <2>1
<1>3. Inv => FaultsAreHandled
  BY DEF FaultsAreHandled, ServoInv
<1> QED
  BY <1>1, <1>2, <1>3, PTL DEF Spec

---------------------------------------------------------------------------
(* Duty cycles.                                                            *)
DutyType ==
  /\ hal = [enable |-> hal.enable, abs |-> hal.abs, value |-> hal.value, scale |-> hal.scale,
            offset |-> hal.offset, min |-> hal.min, max |-> hal.max, curr |-> hal.curr, sign |-> hal.sign,
            velo |-> hal.velo, fault |-> hal.fault, fault_reset |-> hal.fault_reset, reset |-> hal.reset]
  /\ hal.enable \in BOOLEAN /\ hal.abs \in BOOLEAN /\ hal.fault \in BOOLEAN
  /\ hal.fault_reset \in BOOLEAN /\ hal.reset \in BOOLEAN
  /\ hal.value \in Int /\ hal.offset \in Int /\ hal.min \in Int /\ hal.max \in Int
  /\ drv = [old |-> drv.old, by |-> drv.by, fault |-> drv.fault, retry |-> drv.retry,
            state |-> drv.state, cycle |-> drv.cycle, enable |-> drv.enable]
  /\ drv.fault \in BOOLEAN /\ drv.state \in BOOLEAN /\ drv.enable \in BOOLEAN
  /\ in.error \in BOOLEAN
  /\ out = [duty |-> out.duty, enable |-> out.enable, reset |-> out.reset]
  /\ env = [left |-> env.left, since |-> env.since, twice |-> env.twice]
  /\ env.left \in Int /\ env.since \in 0..5 /\ env.twice \in BOOLEAN

(* The reciprocal is that of the scale of the last cycle, unless that has  *)
(* been 2 ever since before the first.                                     *)
Reciprocal ==
  /\ hal.scale \in Nat /\ drv.old \in Nat \ {0} /\ drv.by \in Nat \ {0}
  /\ env.twice => drv.old = 2
  /\ drv.by = IF env.twice THEN 1 ELSE drv.old

(* The reads of EL7041 since a reset began tell how far it has come.       *)
Resets ==
  /\ drv.retry \in 0..1 /\ drv.cycle \in 0..1
  /\ drv.retry = 1 => drv.fault /\ env.since = (IF drv.state THEN 0 ELSE 2) + drv.cycle

DutyInv == DutyType /\ Reciprocal /\ Resets /\ Duty!DriveAsTold

(* An output starts with its pins as registered.                           *)
LEMMA DutyStart == ASSUME Duty!Init PROVE DutyInv
<1>1. /\ hal = Duty!Pins /\ drv = Duty!Private
      /\ phase = "bus" /\ up = FALSE /\ in = [error |-> FALSE]
      /\ out = [duty |-> 0, enable |-> FALSE, reset |-> FALSE]
      /\ env = [left |-> DutyActs, since |-> 5, twice |-> TRUE]
  BY DEF Duty!Init, Duty!lcec_aout_register_channel, Duty!lcec_el41x2_init, Duty!lcec_em7004_init,
         Duty!lcec_el7342_init, Duty!lcec_el7041_init
<1>2. DutyType
  BY <1>1, DutyAssumption DEF DutyType, Duty!Pins, Duty!Private
<1>3. Reciprocal /\ Resets
  BY <1>1 DEF Reciprocal, Resets, Duty!Pins, Duty!Private
<1>4. Duty!DriveAsTold
  <2>1. /\ hal.min = -Unit /\ hal.max = Unit /\ hal.scale = 1 /\ hal.enable = FALSE
        /\ out.duty = 0 /\ up = FALSE
    BY <1>1 DEF Duty!Pins
  <2>2. -Unit <= hal.min /\ hal.min <= hal.max /\ hal.max <= Unit /\ hal.scale # 0
    BY <2>1, DutyAssumption
  <2> QED
    BY <1>1, <2>1, <2>2 DEF Duty!DriveAsTold, Duty!DutyBy
<1> QED
  BY <1>2, <1>3, <1>4 DEF DutyInv

(* An exchange leaves what an output was told.                             *)
LEMMA DutyBusStep == ASSUME DutyInv, Duty!Bus PROVE DutyInv'
<1>1. /\ phase' = "read" /\ device' = device /\ hal' = hal /\ drv' = drv /\ out' = out /\ env' = env
  BY DEF Duty!Bus, Duty!Turn
<1>2. in'.error \in BOOLEAN
  <2>1. CASE in' = in
    BY <2>1 DEF DutyInv, DutyType
  <2>2. ASSUME NEW e \in {TRUE, in.error /\ ~out.reset}, in' = [error |-> e]
        PROVE  in'.error \in BOOLEAN
    <3>1. e \in BOOLEAN
      OBVIOUS
    <3> QED
      BY <2>2, <3>1
  <2> QED
    BY <2>1, <2>2 DEF Duty!Bus
<1>3. DutyType' /\ Reciprocal' /\ Resets'
  BY <1>1, <1>2 DEF DutyInv, DutyType, Reciprocal, Resets
<1>4. Duty!DriveAsTold'
  BY <1>1 DEF Duty!DriveAsTold
<1> QED
  BY <1>3, <1>4 DEF DutyInv

(* The user may set the pins to anything.                                  *)
LEMMA DutyUserStep == ASSUME DutyInv, Duty!User PROVE DutyInv'
<1>1. /\ phase' = "write" /\ device' = device /\ up' = up /\ drv' = drv /\ in' = in /\ out' = out
  BY DEF Duty!User, Duty!Turn
<1> DEFINE Acted(pins, left) == hal' = pins /\ env' = [env EXCEPT !.left = left]
           Fine(pins) ==
             /\ pins = [enable |-> pins.enable, abs |-> pins.abs, value |-> pins.value, scale |-> pins.scale,
                        offset |-> pins.offset, min |-> pins.min, max |-> pins.max, curr |-> pins.curr,
                        sign |-> pins.sign, velo |-> pins.velo, fault |-> pins.fault,
                        fault_reset |-> pins.fault_reset, reset |-> pins.reset]
             /\ pins.enable \in BOOLEAN /\ pins.abs \in BOOLEAN /\ pins.fault \in BOOLEAN
             /\ pins.fault_reset \in BOOLEAN /\ pins.reset \in BOOLEAN
             /\ pins.value \in Int /\ pins.offset \in Int /\ pins.min \in Int /\ pins.max \in Int
             /\ pins.scale \in Nat
<1>2. Fine(hal)
  BY DEF DutyInv, DutyType, Reciprocal
<1>3. Fine(hal')
  <2>1. CASE hal' = hal
    BY <1>2, <2>1
  <2>2. CASE hal' = [hal EXCEPT !.enable = ~@]
    BY <1>2, <2>2
  <2>3. CASE hal' = [hal EXCEPT !.abs = ~@]
    BY <1>2, <2>3
  <2>4. CASE hal' = [hal EXCEPT !.fault_reset = TRUE]
    BY <1>2, <2>4
  <2>5. ASSUME NEW v \in DutyValues, hal' = [hal EXCEPT !.value = v] PROVE Fine(hal')
    BY <1>2, <2>5, DutyAssumption
  <2>6. ASSUME NEW s \in DutyScales, hal' = [hal EXCEPT !.scale = s] PROVE Fine(hal')
    BY <1>2, <2>6, DutyAssumption
  <2>7. ASSUME NEW o \in Offsets, hal' = [hal EXCEPT !.offset = o] PROVE Fine(hal')
    BY <1>2, <2>7, DutyAssumption
  <2>8. ASSUME NEW l \in Limits, hal' = [hal EXCEPT !.min = l[1], !.max = l[2]] PROVE Fine(hal')
    <3>1. l[1] \in Int /\ l[2] \in Int
      BY DutyAssumption
    <3> QED
      BY <1>2, <2>8, <3>1
  <2> HIDE DEF Fine
  <2> QED
    BY <2>1, <2>2, <2>3, <2>4, <2>5, <2>6, <2>7, <2>8 DEF Duty!User, Duty!Put
<1>4. env' = env \/ env' = [env EXCEPT !.left = env.left - 1]
  BY DEF Duty!User, Duty!Put
<1>5. /\ env' = [left |-> env'.left, since |-> env'.since, twice |-> env'.twice]
      /\ env'.left \in Int /\ env'.since = env.since
      /\ env'.twice = env.twice /\ env'.since \in 0..5
  BY <1>4 DEF DutyInv, DutyType
<1>6. DutyType'
  BY <1>1, <1>3, <1>5 DEF DutyInv, DutyType
<1>7. Reciprocal' /\ Resets'
  <2>1. Reciprocal /\ Resets
    BY DEF DutyInv
  <2>2. Reciprocal'
    <3>1. drv' = drv /\ hal'.scale \in Nat /\ env'.twice = env.twice
      BY <1>1, <1>3, <1>5
    <3> HIDE DEF Fine
    <3> QED
      BY <2>1, <3>1 DEF Reciprocal
  <2>3. Resets'
    BY <1>1, <1>5, <2>1 DEF Resets
  <2> QED
    BY <2>2, <2>3
<1>8. Duty!DriveAsTold'
  BY <1>1 DEF Duty!DriveAsTold
<1> QED
  BY <1>6, <1>7, <1>8 DEF DutyInv

(* A read resets errors and looks at nothing else.                         *)
LEMMA DutyReadStep == ASSUME DutyInv, Duty!Read PROVE DutyInv'
<1>1. /\ phase' = "user" /\ device' = device /\ up' = up /\ in' = in /\ out' = out
  BY DEF Duty!Read, Duty!Turn
<1>2. CASE device \in {"aout", "EL41x2", "EM7004 aout"} /\ UNCHANGED <<hal, drv, env>>
  <2>1. DutyType'
    BY <1>1, <1>2 DEF DutyInv, DutyType
  <2>2. Duty!DriveAsTold'
    BY <1>1, <1>2 DEF Duty!DriveAsTold
  <2>3. Reciprocal' /\ Resets'
    BY <1>1, <1>2 DEF DutyInv, Reciprocal, Resets
  <2> QED
    BY <2>1, <2>2, <2>3 DEF DutyInv
<1>3. CASE Duty!lcec_el7342_read
  <2>1. /\ drv' = drv /\ env' = env /\ device = "EL7342 dcm"
        /\ hal' = hal \/ hal' = [hal EXCEPT !.velo = drv.old]
    BY <1>3 DEF Duty!lcec_el7342_read, Duty!lcec_el7342_set_info
  <2>2. /\ hal'.enable = hal.enable /\ hal'.abs = hal.abs /\ hal'.value = hal.value /\ hal'.scale = hal.scale
        /\ hal'.offset = hal.offset /\ hal'.min = hal.min /\ hal'.max = hal.max
        /\ hal'.fault = hal.fault /\ hal'.fault_reset = hal.fault_reset /\ hal'.reset = hal.reset
        /\ hal' = [enable |-> hal'.enable, abs |-> hal'.abs, value |-> hal'.value, scale |-> hal'.scale,
                   offset |-> hal'.offset, min |-> hal'.min, max |-> hal'.max, curr |-> hal'.curr,
                   sign |-> hal'.sign, velo |-> hal'.velo, fault |-> hal'.fault,
                   fault_reset |-> hal'.fault_reset, reset |-> hal'.reset]
    BY <2>1 DEF DutyInv, DutyType
  <2>3. DutyType' /\ Reciprocal' /\ Resets'
    BY <1>1, <2>1, <2>2 DEF DutyInv, DutyType, Reciprocal, Resets
  <2>4. Duty!DriveAsTold'
    BY <1>1, <2>1 DEF Duty!DriveAsTold
  <2> QED
    BY <2>3, <2>4 DEF DutyInv
<1>4. CASE Duty!lcec_el7041_read /\ ~up
  <2>1. hal' = hal /\ drv' = drv /\ env' = env
    BY <1>4 DEF Duty!lcec_el7041_read
  <2>2. DutyType' /\ Reciprocal' /\ Resets'
    BY <1>1, <2>1 DEF DutyInv, DutyType, Reciprocal, Resets
  <2>3. Duty!DriveAsTold'
    BY <1>1, <1>4 DEF Duty!DriveAsTold
  <2> QED
    BY <2>2, <2>3 DEF DutyInv
<1>5. CASE Duty!lcec_el7041_read /\ up
  <2> DEFINE left == IF in.error THEN drv.retry ELSE 0
             turns == left > 0 /\ drv.cycle = 1
             state == IF turns THEN ~drv.state ELSE drv.state
             retry == IF turns /\ state THEN left - 1 ELSE left
             cycle == IF left > 0 THEN 1 - drv.cycle ELSE drv.cycle
             shows == in.error /\ left = 0
             since == IF env.since < 5 THEN env.since + 1 ELSE 5
  <2>1. /\ drv' = [drv EXCEPT !.fault = in.error, !.state = state, !.retry = retry, !.cycle = cycle]
        /\ hal' = [hal EXCEPT !.fault = shows]
        /\ env' = [env EXCEPT !.since = since]
    BY <1>5 DEF Duty!lcec_el7041_read
  <2>2. /\ drv.retry \in 0..1 /\ drv.cycle \in 0..1 /\ drv.state \in BOOLEAN /\ in.error \in BOOLEAN
        /\ env.since \in 0..5
        /\ drv.retry = 1 => env.since = (IF drv.state THEN 0 ELSE 2) + drv.cycle
    BY DEF DutyInv, DutyType, Resets
  <2>3. /\ left \in 0..1 /\ cycle \in 0..1 /\ since \in 0..5
        /\ left = 1 => drv.retry = 1 /\ in.error
        /\ left = 1 => since = env.since + 1
        /\ since = 5 => env.since \in 4..5
    <3>1. left = 1 => drv.retry = 1 /\ in.error
      BY <2>2
    <3>2. left \in 0..1
      BY <2>2
    <3> HIDE DEF left
    <3> QED
      BY <2>2, <3>1, <3>2
  <2>4. turns \in BOOLEAN /\ state \in BOOLEAN /\ shows \in BOOLEAN
    BY <2>2
  <2>5. /\ turns => left = 1 /\ drv.cycle = 1 /\ state = ~drv.state
        /\ ~turns => state = drv.state /\ retry = left
        /\ left = 1 /\ ~turns => drv.cycle = 0
    <3> HIDE DEF left
    <3> QED
      BY <2>2, <2>3
  <2>6. /\ turns /\ state => retry = 0
        /\ turns /\ ~state => retry = 1
        /\ left = 1 => cycle = 1 - drv.cycle
        /\ shows = (in.error /\ left = 0)
        /\ retry \in 0..1
    <3> HIDE DEF left, turns, state
    <3> QED
      BY <2>3, <2>5
  <2> HIDE DEF left, turns, state, retry, cycle, shows, since
  <2>7. /\ drv'.old = drv.old /\ drv'.by = drv.by /\ drv'.fault = in.error /\ drv'.retry = retry
        /\ drv'.state = state /\ drv'.cycle = cycle /\ drv'.enable = drv.enable
        /\ drv' = [old |-> drv'.old, by |-> drv'.by, fault |-> drv'.fault, retry |-> drv'.retry,
                   state |-> drv'.state, cycle |-> drv'.cycle, enable |-> drv'.enable]
    BY <2>1 DEF DutyInv, DutyType
  <2>8. /\ hal'.enable = hal.enable /\ hal'.abs = hal.abs /\ hal'.value = hal.value /\ hal'.scale = hal.scale
        /\ hal'.offset = hal.offset /\ hal'.min = hal.min /\ hal'.max = hal.max
        /\ hal'.fault = shows /\ hal'.fault_reset = hal.fault_reset /\ hal'.reset = hal.reset
        /\ hal' = [enable |-> hal'.enable, abs |-> hal'.abs, value |-> hal'.value, scale |-> hal'.scale,
                   offset |-> hal'.offset, min |-> hal'.min, max |-> hal'.max, curr |-> hal'.curr,
                   sign |-> hal'.sign, velo |-> hal'.velo, fault |-> hal'.fault,
                   fault_reset |-> hal'.fault_reset, reset |-> hal'.reset]
    BY <2>1 DEF DutyInv, DutyType
  <2>9. /\ env'.since = since /\ env'.left = env.left /\ env'.twice = env.twice
        /\ env' = [left |-> env'.left, since |-> env'.since, twice |-> env'.twice]
    BY <2>1 DEF DutyInv, DutyType
  <2>10. DutyType'
    BY <1>1, <2>2, <2>3, <2>4, <2>7, <2>8, <2>9 DEF DutyInv, DutyType
  <2>11. Reciprocal'
    BY <2>7, <2>8, <2>9 DEF DutyInv, Reciprocal
  <2>12. Resets'
    <3>1. ASSUME retry = 1 PROVE in.error /\ since = (IF state THEN 0 ELSE 2) + cycle
      <4>1. left = 1 /\ in.error
        BY <2>3, <2>5, <2>6, <3>1
      <4>2. CASE turns
        <5>1. ~state /\ drv.state
          <6>1. ~state
            BY <2>6, <3>1, <4>2
          <6>2. state = ~drv.state
            BY <2>5, <4>2
          <6> QED
            BY <6>1, <6>2, Zenon
        <5>2. since = (0 + 1) + 1 /\ cycle = 0
          <6>1. drv.cycle = 1 /\ cycle = 1 - drv.cycle
            BY <2>5, <2>6, <4>1, <4>2
          <6>2. env.since = (IF drv.state THEN 0 ELSE 2) + drv.cycle /\ since = env.since + 1
            BY <2>2, <2>3, <4>1
          <6>3. (IF drv.state THEN 0 ELSE 2) = 0
            BY <5>1
          <6> QED
            BY <6>1, <6>2, <6>3
        <5> QED
          BY <4>1, <5>1, <5>2
      <4>3. CASE ~turns
        <5>1. drv.cycle = 0 /\ cycle = 1 /\ state = drv.state
          BY <2>2, <2>5, <2>6, <4>1, <4>3
        <5>2. since = ((IF drv.state THEN 0 ELSE 2) + 0) + 1
          BY <2>2, <2>3, <4>1, <5>1
        <5> QED
          BY <2>2, <4>1, <5>1, <5>2
      <4> QED
        BY <4>2, <4>3
    <3> QED
      BY <2>3, <2>6, <2>7, <2>9, <3>1 DEF Resets
  <2>13. Duty!DriveAsTold'
    <3>1. since = 5 => left = 0
      BY <2>2, <2>3
    <3>2. since = 5 => shows = in.error
      BY <2>2, <2>4, <2>6, <3>1
    <3> QED
      BY <1>1, <2>8, <2>9, <3>2 DEF Duty!DriveAsTold
  <2> QED
    BY <2>10, <2>11, <2>12, <2>13 DEF DutyInv
<1> QED
  BY <1>2, <1>3, <1>4, <1>5 DEF Duty!Read

(* What a write callback takes for the limits and for the scale.           *)
LEMMA DutyLimited ==
  ASSUME DutyInv
  PROVE  /\ Duty!MinDc \in Int /\ Duty!MaxDc \in Int
         /\ -Unit <= Duty!MinDc /\ Duty!MinDc <= Duty!MaxDc /\ Duty!MaxDc <= Unit
         /\ Duty!Scale \in Nat \ {0} /\ Duty!By \in Nat \ {0}
         /\ env.twice /\ hal.scale = 2 => Duty!Scale = 2
         /\ Duty!By = IF env.twice /\ hal.scale = 2 THEN 1 ELSE Duty!Scale
<1>1. Unit \in Nat /\ hal.min \in Int /\ hal.max \in Int
  BY DutyAssumption DEF DutyInv, DutyType
<1>2. /\ Duty!MinDc \in Int /\ Duty!MaxDc \in Int
      /\ -Unit <= Duty!MinDc /\ Duty!MinDc <= Duty!MaxDc /\ Duty!MaxDc <= Unit
  BY <1>1 DEF Duty!MinDc, Duty!MaxDc, Duty!Low, Duty!High
<1>3. /\ Duty!Scale \in Nat \ {0} /\ Duty!By \in Nat \ {0}
      /\ env.twice /\ hal.scale = 2 => Duty!Scale = 2
      /\ Duty!By = IF env.twice /\ hal.scale = 2 THEN 1 ELSE Duty!Scale
  BY DEF DutyInv, DutyType, Reciprocal, Duty!Scale, Duty!By
<1> QED
  BY <1>2, <1>3

(* What every write callback does with the pins and the duty cycle.        *)
Written ==
  /\ hal'.enable = hal.enable /\ hal'.abs = hal.abs /\ hal'.value = hal.value
  /\ hal'.offset = hal.offset /\ hal'.scale = Duty!Scale
  /\ hal'.min = Duty!MinDc /\ hal'.max = Duty!MaxDc
  /\ hal' = [enable |-> hal'.enable, abs |-> hal'.abs, value |-> hal'.value, scale |-> hal'.scale,
             offset |-> hal'.offset, min |-> hal'.min, max |-> hal'.max, curr |-> hal'.curr,
             sign |-> hal'.sign, velo |-> hal'.velo, fault |-> hal'.fault,
             fault_reset |-> hal'.fault_reset, reset |-> hal'.reset]
  /\ hal'.fault = hal.fault /\ hal'.fault_reset \in BOOLEAN /\ hal'.reset \in BOOLEAN
  /\ out' = [duty |-> Duty!Duty, enable |-> out'.enable, reset |-> out'.reset]
  /\ drv'.old = Duty!Scale /\ drv'.by = Duty!By
  /\ env'.twice = (env.twice /\ hal.scale = 2)
  /\ drv' = [old |-> drv'.old, by |-> drv'.by, fault |-> drv'.fault, retry |-> drv'.retry,
             state |-> drv'.state, cycle |-> drv'.cycle, enable |-> drv'.enable]

Told ==
  /\ -Unit <= hal.min /\ hal.min <= hal.max /\ hal.max <= Unit
  /\ hal.scale # 0
  /\ out.duty = Duty!DutyBy(IF env.twice THEN 1 ELSE hal.scale)

(* What is written is what the limited value stands for.                   *)
LEMMA WrittenAsTold == ASSUME DutyInv, Written PROVE Told' /\ Reciprocal'
<1>1. /\ Duty!MinDc \in Int /\ Duty!MaxDc \in Int
      /\ -Unit <= Duty!MinDc /\ Duty!MinDc <= Duty!MaxDc /\ Duty!MaxDc <= Unit
      /\ Duty!Scale \in Nat \ {0} /\ Duty!By \in Nat \ {0}
      /\ env.twice /\ hal.scale = 2 => Duty!Scale = 2
      /\ Duty!By = IF env.twice /\ hal.scale = 2 THEN 1 ELSE Duty!Scale
  BY DutyLimited
<1>2. env'.twice = (env.twice /\ hal.scale = 2) /\ env.twice \in BOOLEAN
  BY DEF Written, DutyInv, DutyType
<1>3. Duty!By = (IF env'.twice THEN 1 ELSE hal'.scale) /\ (env'.twice => hal'.scale = 2)
  BY <1>1, <1>2 DEF Written
<1>4. Reciprocal'
  BY <1>1, <1>2, <1>3 DEF Written, Reciprocal
<1> DEFINE c == IF hal.abs /\ hal.value < 0 THEN -hal.value ELSE hal.value
           d == c \div Duty!By + hal.offset
<1>5. c \in Int /\ hal.offset \in Int
  BY DEF DutyInv, DutyType
<1>6. d \in Int /\ Duty!Command = d
  <2>1. Duty!Command = d
    BY DEF Duty!Command
  <2> HIDE DEF c
  <2>2. d \in Int
    BY <1>1, <1>5
  <2> QED
    BY <2>1, <2>2
<1>7. out'.duty = IF hal'.enable
                  THEN CASE d < hal'.min -> hal'.min
                         [] d > hal'.max -> hal'.max
                         [] OTHER -> d
                  ELSE 0
  <2>1. out'.duty = Duty!Duty
    BY DEF Written
  <2> HIDE DEF d
  <2> QED
    BY <1>1, <1>6, <2>1 DEF Duty!Duty, Duty!Low, Duty!High, Written
<1>8. Duty!DutyBy(IF env.twice THEN 1 ELSE hal.scale)' = IF hal'.enable
                  THEN CASE d < hal'.min -> hal'.min
                         [] d > hal'.max -> hal'.max
                         [] OTHER -> d
                  ELSE 0
  <2>1. hal'.enable = hal.enable /\ hal'.abs = hal.abs /\ hal'.value = hal.value /\ hal'.offset = hal.offset
    BY DEF Written
  <2> DEFINE by == IF env'.twice THEN 1 ELSE hal'.scale
  <2>2. by = Duty!By
    BY <1>3
  <2> HIDE DEF by
  <2>3. d = (IF hal'.abs /\ hal'.value < 0 THEN -hal'.value ELSE hal'.value) \div by + hal'.offset
    BY <2>1, <2>2
  <2> HIDE DEF d
  <2> QED
    BY <2>3 DEF Duty!DutyBy, Duty!Within, by
<1>9. Told'
  <2>1. -Unit <= hal'.min /\ hal'.min <= hal'.max /\ hal'.max <= Unit /\ hal'.scale # 0
    BY <1>1 DEF Written
  <2> QED
    BY <1>7, <1>8, <2>1 DEF Told
<1> QED
  BY <1>4, <1>9

(* A write limits and scales, and tells the output the result.             *)
LEMMA DutyWriteStep == ASSUME DutyInv, Duty!Write PROVE DutyInv'
<1>1. /\ phase' = "bus" /\ device' = device /\ up' = up /\ in' = in
  BY DEF Duty!Write, Duty!Turn
<1>2. CASE device # "EL7041 dcm"
  <2> DEFINE twice == env.twice /\ hal.scale = 2
  <2>1. /\ env' = [env EXCEPT !.twice = twice]
        /\ drv' = [drv EXCEPT !.old = Duty!Scale, !.by = Duty!By]
        /\ \/ /\ hal' = [hal EXCEPT !.min = Duty!MinDc, !.max = Duty!MaxDc, !.scale = Duty!Scale,
                                    !.curr = Duty!Duty, !.sign = Duty!Sign]
              /\ out' = [out EXCEPT !.duty = Duty!Duty]
           \/ /\ hal' = [hal EXCEPT !.min = Duty!MinDc, !.max = Duty!MaxDc, !.scale = Duty!Scale,
                                    !.curr = Duty!Duty]
              /\ out' = [duty |-> Duty!Duty, enable |-> hal.enable, reset |-> hal.reset]
    <3>1. \/ Duty!DriveAnalog
          \/ Duty!lcec_el7342_write
      BY <1>2 DEF Duty!Write, Duty!lcec_aout_write, Duty!lcec_el41x2_write, Duty!lcec_em7004_write,
                  Duty!lcec_el7041_write
    <3> QED
      BY <3>1 DEF Duty!DriveAnalog, Duty!lcec_el7342_write, Duty!Limited, Duty!Scaled, Duty!Noted,
                  DutyInv, DutyType
  <2>8. /\ env'.left = env.left /\ env'.since = env.since /\ env'.twice = twice /\ twice \in BOOLEAN
        /\ env' = [left |-> env'.left, since |-> env'.since, twice |-> env'.twice]
    BY <2>1 DEF DutyInv, DutyType
  <2>2. /\ drv'.fault = drv.fault /\ drv'.retry = drv.retry /\ drv'.state = drv.state
        /\ drv'.cycle = drv.cycle /\ drv'.enable = drv.enable
    BY <2>1 DEF DutyInv, DutyType
  <2>3. Written
    <3>1. /\ hal'.enable = hal.enable /\ hal'.abs = hal.abs /\ hal'.value = hal.value
          /\ hal'.offset = hal.offset /\ hal'.scale = Duty!Scale
          /\ hal'.min = Duty!MinDc /\ hal'.max = Duty!MaxDc
          /\ hal' = [enable |-> hal'.enable, abs |-> hal'.abs, value |-> hal'.value, scale |-> hal'.scale,
                     offset |-> hal'.offset, min |-> hal'.min, max |-> hal'.max, curr |-> hal'.curr,
                     sign |-> hal'.sign, velo |-> hal'.velo, fault |-> hal'.fault,
                     fault_reset |-> hal'.fault_reset, reset |-> hal'.reset]
          /\ hal'.fault = hal.fault /\ hal'.fault_reset = hal.fault_reset /\ hal'.reset = hal.reset
      BY <2>1 DEF DutyInv, DutyType
    <3>2. out' = [duty |-> Duty!Duty, enable |-> out'.enable, reset |-> out'.reset]
      BY <2>1 DEF DutyInv, DutyType
    <3>3. /\ drv'.old = Duty!Scale /\ drv'.by = Duty!By
          /\ drv' = [old |-> drv'.old, by |-> drv'.by, fault |-> drv'.fault, retry |-> drv'.retry,
                     state |-> drv'.state, cycle |-> drv'.cycle, enable |-> drv'.enable]
      BY <2>1 DEF DutyInv, DutyType
    <3>4. hal'.fault_reset \in BOOLEAN /\ hal'.reset \in BOOLEAN
      BY <3>1 DEF DutyInv, DutyType
    <3> QED
      BY <2>8, <3>1, <3>2, <3>3, <3>4 DEF Written
  <2> HIDE DEF twice
  <2>4. DutyType'
    BY <1>1, <2>2, <2>3, <2>8, DutyLimited DEF DutyInv, DutyType, Written
  <2>5. Resets'
    BY <2>2, <2>8 DEF DutyInv, Resets
  <2>6. Told' /\ Reciprocal'
    BY <2>3, WrittenAsTold
  <2>7. Duty!DriveAsTold'
    BY <1>1, <1>2, <2>6 DEF Duty!DriveAsTold, Told
  <2> QED
    BY <2>4, <2>5, <2>6, <2>7 DEF DutyInv
<1>3. CASE device = "EL7041 dcm"
  <2> DEFINE edge == hal.enable /\ ~drv.enable
             tries == IF edge /\ drv.fault THEN 1 ELSE drv.retry
             state == (edge /\ drv.fault) \/ drv.state
             cycle == IF edge /\ drv.fault THEN 0 ELSE drv.cycle
             since == IF edge THEN 0 ELSE env.since
             twice == env.twice /\ hal.scale = 2
             reset == CASE tries > 0 -> hal.reset \/ hal.fault_reset \/ state
                        [] tries = 0 /\ hal.enable -> FALSE
                        [] OTHER -> hal.reset \/ hal.fault_reset
             asked == hal.fault_reset /\ tries > 0
  <2>1. /\ hal' = [Duty!Limited EXCEPT !.reset = reset, !.fault_reset = asked]
        /\ drv' = [Duty!Scaled EXCEPT !.enable = hal.enable, !.retry = tries, !.state = state,
                                      !.cycle = cycle]
        /\ out' = [duty |-> Duty!Duty, enable |-> hal.enable, reset |-> reset]
        /\ env' = [env EXCEPT !.since = since, !.twice = twice]
    <3>1. Duty!lcec_el7041_write
      BY <1>3 DEF Duty!Write, Duty!lcec_aout_write, Duty!lcec_el41x2_write, Duty!lcec_em7004_write,
                  Duty!lcec_el7342_write, Duty!DriveAnalog
    <3>2. [Duty!Limited EXCEPT !.reset = reset, !.fault_reset = @ /\ tries > 0]
            = [Duty!Limited EXCEPT !.reset = reset, !.fault_reset = asked]
      <4>1. Duty!Limited.fault_reset = hal.fault_reset
        BY DEF Duty!Limited, DutyInv, DutyType
      <4> HIDE DEF tries, reset
      <4> QED
        BY <4>1
    <3>3. [Duty!Scaled EXCEPT !.enable = hal.enable, !.retry = tries, !.state = state,
                              !.cycle = IF edge /\ drv.fault THEN 0 ELSE @]
            = [Duty!Scaled EXCEPT !.enable = hal.enable, !.retry = tries, !.state = state,
                                  !.cycle = cycle]
      <4>1. Duty!Scaled.cycle = drv.cycle
        BY DEF Duty!Scaled, DutyInv, DutyType
      <4> HIDE DEF tries, state, edge
      <4> QED
        BY <4>1
    <3>4. /\ hal' = [Duty!Limited EXCEPT !.reset = reset, !.fault_reset = @ /\ tries > 0]
          /\ drv' = [Duty!Scaled EXCEPT !.enable = hal.enable, !.retry = tries, !.state = state,
                                        !.cycle = IF edge /\ drv.fault THEN 0 ELSE @]
          /\ out' = [duty |-> Duty!Duty, enable |-> hal.enable, reset |-> reset]
          /\ env' = [Duty!Noted EXCEPT !.since = IF edge THEN 0 ELSE @]
      BY <3>1, Zenon DEF Duty!lcec_el7041_write
    <3>5. env' = [env EXCEPT !.since = since, !.twice = twice]
      <4>1. env' = [Duty!Noted EXCEPT !.since = IF edge THEN 0 ELSE @]
        BY <3>4
      <4> HIDE DEF edge, twice
      <4>2. Duty!Noted = [env EXCEPT !.twice = twice]
        BY DEF Duty!Noted, twice, DutyInv, DutyType
      <4> QED
        BY <4>1, <4>2 DEF DutyInv, DutyType
    <3> QED
      BY <3>2, <3>3, <3>4, <3>5, Zenon
  <2>2. /\ edge \in BOOLEAN /\ state \in BOOLEAN /\ reset \in BOOLEAN /\ asked \in BOOLEAN
        /\ tries \in 0..1 /\ cycle \in 0..1 /\ since \in 0..5 /\ twice \in BOOLEAN
    <3>1. tries \in 0..1 /\ cycle \in 0..1 /\ since \in 0..5
      BY DEF DutyInv, DutyType, Resets
    <3>2. edge \in BOOLEAN /\ state \in BOOLEAN /\ twice \in BOOLEAN
      BY DEF DutyInv, DutyType
    <3> HIDE DEF edge, tries, state
    <3>3. reset \in BOOLEAN /\ asked \in BOOLEAN
      BY <3>1, <3>2 DEF DutyInv, DutyType
    <3> QED
      BY <3>1, <3>2, <3>3
  <2>3. /\ edge /\ drv.fault => tries = 1 /\ state /\ cycle = 0 /\ since = 0
        /\ ~(edge /\ drv.fault) => tries = drv.retry /\ state = drv.state /\ cycle = drv.cycle
        /\ ~edge => since = env.since
        /\ edge => since = 0
    BY DEF DutyInv, DutyType
  <2>4. tries = 0 /\ hal.enable => reset = FALSE
    <3> HIDE DEF tries
    <3> QED
      BY <2>2
  <2>15. twice = (env.twice /\ hal.scale = 2)
    OBVIOUS
  <2> HIDE DEF edge, tries, state, cycle, since, twice, reset, asked
  <2>5. /\ drv'.old = Duty!Scale /\ drv'.by = Duty!By /\ drv'.fault = drv.fault /\ drv'.retry = tries
        /\ drv'.state = state /\ drv'.cycle = cycle /\ drv'.enable = hal.enable
        /\ drv' = [old |-> drv'.old, by |-> drv'.by, fault |-> drv'.fault, retry |-> drv'.retry,
                   state |-> drv'.state, cycle |-> drv'.cycle, enable |-> drv'.enable]
    BY <2>1 DEF DutyInv, DutyType, Duty!Scaled
  <2>6. /\ hal'.enable = hal.enable /\ hal'.abs = hal.abs /\ hal'.value = hal.value
        /\ hal'.offset = hal.offset /\ hal'.scale = Duty!Scale
        /\ hal'.min = Duty!MinDc /\ hal'.max = Duty!MaxDc
        /\ hal' = [enable |-> hal'.enable, abs |-> hal'.abs, value |-> hal'.value, scale |-> hal'.scale,
                   offset |-> hal'.offset, min |-> hal'.min, max |-> hal'.max, curr |-> hal'.curr,
                   sign |-> hal'.sign, velo |-> hal'.velo, fault |-> hal'.fault,
                   fault_reset |-> hal'.fault_reset, reset |-> hal'.reset]
        /\ hal'.fault = hal.fault /\ hal'.fault_reset = asked /\ hal'.reset = reset
    BY <2>1 DEF DutyInv, DutyType, Duty!Limited
  <2>7. /\ out'.reset = reset /\ out'.enable = hal.enable
        /\ out' = [duty |-> Duty!Duty, enable |-> out'.enable, reset |-> out'.reset]
    BY <2>1
  <2>8. /\ env'.since = since /\ env'.left = env.left /\ env'.twice = twice
        /\ env' = [left |-> env'.left, since |-> env'.since, twice |-> env'.twice]
    BY <2>1 DEF DutyInv, DutyType
  <2>9. Written
    BY <2>2, <2>5, <2>6, <2>7, <2>8, <2>15 DEF Written
  <2>10. DutyType'
    <3>1. Duty!MinDc \in Int /\ Duty!MaxDc \in Int
      BY DutyLimited
    <3> QED
      BY <1>1, <2>2, <2>5, <2>6, <2>7, <2>8, <3>1 DEF DutyInv, DutyType
  <2>11. Resets'
    <3>1. tries = 1 => drv.fault /\ since = (IF state THEN 0 ELSE 2) + cycle
      <4>1. CASE edge /\ drv.fault
        BY <2>3, <4>1
      <4>2. CASE ~(edge /\ drv.fault)
        <5>1. ASSUME tries = 1 PROVE drv.fault /\ since = (IF state THEN 0 ELSE 2) + cycle
          <6>1. /\ drv.retry = 1 /\ drv.fault /\ ~edge
                /\ env.since = (IF drv.state THEN 0 ELSE 2) + drv.cycle
            BY <2>3, <4>2, <5>1 DEF DutyInv, Resets
          <6>2. since = env.since /\ state = drv.state /\ cycle = drv.cycle
            BY <2>3, <4>2, <6>1
          <6> QED
            BY <6>1, <6>2
        <5> QED
          BY <5>1
      <4> QED
        BY <4>1, <4>2
    <3> QED
      BY <2>2, <2>5, <2>8, <3>1 DEF Resets
  <2>12. Told' /\ Reciprocal'
    BY <2>9, WrittenAsTold
  <2>13. hal'.enable /\ since >= 4 => ~out'.reset
    <3>1. ASSUME hal.enable, since >= 4 PROVE tries = 0
      <4>1. ~edge /\ since = env.since /\ tries = drv.retry
        BY <2>3, <3>1
      <4>2. drv.retry = 1 => env.since <= 3
        BY DEF DutyInv, DutyType, Resets
      <4> QED
        BY <2>2, <3>1, <4>1, <4>2
    <3> QED
      BY <2>4, <2>6, <2>7, <3>1
  <2>14. Duty!DriveAsTold'
    BY <1>1, <2>8, <2>12, <2>13 DEF Duty!DriveAsTold, Told
  <2> QED
    BY <2>10, <2>11, <2>12, <2>14 DEF DutyInv
<1> QED
  BY <1>2, <1>3

(* So each step of an output keeps the invariant.                          *)
LEMMA DutyStep ==
  ASSUME DutyInv, [Duty!Next]_slaveVars
  PROVE  DutyInv'
<1>1. CASE UNCHANGED slaveVars
  <2>1. /\ device' = device /\ phase' = phase /\ up' = up /\ hal' = hal /\ drv' = drv
        /\ in' = in /\ out' = out /\ env' = env
    BY <1>1 DEF slaveVars
  <2>2. DutyType' /\ Reciprocal' /\ Resets'
    BY <2>1 DEF DutyInv, DutyType, Reciprocal, Resets
  <2>3. Duty!DriveAsTold'
    BY <2>1 DEF DutyInv, Duty!DriveAsTold, Duty!DutyBy, Duty!Within
  <2> QED
    BY <2>2, <2>3 DEF DutyInv
<1> QED
  BY <1>1, DutyBusStep, DutyReadStep, DutyUserStep, DutyWriteStep DEF Duty!Next

(* The outputs follow the pins within their limits, in whatever order the  *)
(* user sets them, a fault of EL7041 is shown and its reset withdrawn in   *)
(* time, and a servo drive is led on to where it is told to be, for any    *)
(* values, limits, retries and ramp (lcec_class_aout.c 141-212,            *)
(* lcec_el7041.c 664-820, lcec_deasda.c 547-575, lcec_omrg5.c 385-409,     *)
(* lcec_el7211.c 464-485).  A scale of 2 that is older than the first      *)
(* cycle is proved to count as 1 until it changes (128), where el4xxx.md   *)
(* 86 has curr_dc = (value / scale) + offset.                              *)
THEOREM DriveAsToldCorrect == Spec => []DriveAsTold
<1> DEFINE Inv == (device \in Duty!Outputs => DutyInv) /\ (device \in Servo!Servos => ServoInv)
<1>1. Init => Inv
  BY OneStart, DutyStart, ServoStart
<1>2. Inv /\ [Next]_slaveVars => Inv'
  <2>1. ASSUME Inv, [Next]_slaveVars PROVE Inv'
    <3>1. /\ device' = device
          /\ device \in Duty!Outputs => [Duty!Next]_slaveVars
          /\ device \in Servo!Servos => [Servo!Next]_slaveVars
      BY <2>1, OneDriver
    <3>2. ASSUME device \in Duty!Outputs PROVE DutyInv'
      BY <2>1, <3>1, <3>2, DutyStep
    <3>3. ASSUME device \in Servo!Servos PROVE ServoInv'
      BY <2>1, <3>1, <3>3, ServoStep
    <3>4. Duty!Outputs' = Duty!Outputs /\ Servo!Servos' = Servo!Servos
      BY DEF Duty!Outputs, Servo!Servos, Servo!Asda
    <3> QED
      BY <3>1, <3>2, <3>3, <3>4
  <2> QED
    BY <2>1
<1>3. Inv => DriveAsTold
  BY DEF DriveAsTold, ServoInv, DutyInv
<1> QED
  BY <1>1, <1>2, <1>3, PTL DEF Spec

---------------------------------------------------------------------------
(* Numbers modulo the number of values of a counter.                       *)
(* Two numbers are the same when they differ by a multiple of the number of values. *)
Same(a, b, m) == \E k \in Int : a = b + k * m
SignedRange(m) == -(m \div 2)..(m \div 2) - 1

(* Multiples add up to multiples.                                          *)
LEMMA Multiples ==
  ASSUME NEW m \in Nat \ {0}, NEW j \in Int, NEW k \in Int
  PROVE  /\ k * m \in Int /\ (j + k) * m = j * m + k * m /\ (j - k) * m = j * m - k * m
         /\ (-k) * m = -(k * m) /\ 0 * m = 0
OBVIOUS

(* To be the same is an equivalence that sums respect.                     *)
LEMMA SameReflexive == ASSUME NEW m \in Nat \ {0}, NEW a \in Int PROVE Same(a, a, m)
<1>1. a = a + 0 * m
  BY Multiples
<1> QED
  BY <1>1 DEF Same

(* The other way round.                                                    *)
LEMMA SameSymmetric ==
  ASSUME NEW m \in Nat \ {0}, NEW a \in Int, NEW b \in Int, Same(a, b, m)
  PROVE  Same(b, a, m)
<1>1. PICK k \in Int : a = b + k * m
  BY DEF Same
<1>2. (-k) * m = -(k * m) /\ k * m \in Int
  BY Multiples
<1>3. b = a + (-k) * m /\ -k \in Int
  BY <1>1, <1>2
<1> QED
  BY <1>3 DEF Same

(* Sums and differences of what is the same.                               *)
LEMMA SameSum ==
  ASSUME NEW m \in Nat \ {0}, NEW a \in Int, NEW b \in Int, NEW c \in Int, NEW d \in Int,
         Same(a, b, m), Same(c, d, m)
  PROVE  Same(a + c, b + d, m) /\ Same(a - c, b - d, m)
<1>1. PICK j \in Int : a = b + j * m
  BY DEF Same
<1>2. PICK k \in Int : c = d + k * m
  BY DEF Same
<1>3. /\ j * m \in Int /\ k * m \in Int /\ (j + k) * m = j * m + k * m /\ (j - k) * m = j * m - k * m
      /\ j + k \in Int /\ j - k \in Int
  BY Multiples
<1>4. a + c = (b + d) + (j + k) * m /\ a - c = (b - d) + (j - k) * m
  BY <1>1, <1>2, <1>3
<1> QED
  BY <1>3, <1>4 DEF Same

(* And on.                                                                 *)
LEMMA SameTransitive ==
  ASSUME NEW m \in Nat \ {0}, NEW a \in Int, NEW b \in Int, NEW c \in Int,
         Same(a, b, m), Same(b, c, m)
  PROVE  Same(a, c, m)
<1>1. PICK j \in Int : a = b + j * m
  BY DEF Same
<1>2. PICK k \in Int : b = c + k * m
  BY DEF Same
<1>3. j * m \in Int /\ k * m \in Int /\ (j + k) * m = j * m + k * m /\ j + k \in Int
  BY Multiples
<1>4. a = c + (j + k) * m
  BY <1>1, <1>2, <1>3
<1> QED
  BY <1>3, <1>4 DEF Same

(* A remainder is the same as what was divided.                            *)
LEMMA SameRemainder ==
  ASSUME NEW m \in Nat \ {0}, NEW a \in Int
  PROVE  a % m \in 0..m - 1 /\ Same(a % m, a, m) /\ Same(a, a % m, m)
<1> DEFINE q == a \div m
           r == a % m
<1>1. q \in Int /\ r \in 0..m - 1 /\ a = q * m + r
  OBVIOUS
<1>2. q * m \in Int
  BY <1>1, Multiples
<1> HIDE DEF q, r
<1>3. a = r + q * m
  BY <1>1, <1>2
<1>4. Same(a, r, m)
  BY <1>1, <1>3 DEF Same
<1>5. Same(r, a, m)
  BY <1>1, <1>4, SameSymmetric
<1> QED
  BY <1>1, <1>4, <1>5 DEF r

(* What is the same by a width is the same by one that divides it.         *)
LEMMA SameCoarse ==
  ASSUME NEW m \in Nat \ {0}, NEW n \in Nat \ {0}, n % m = 0, NEW a \in Int, NEW b \in Int, Same(a, b, n)
  PROVE  Same(a, b, m)
<1>1. PICK j \in Int : a = b + j * n
  BY DEF Same
<1> DEFINE q == n \div m
<1>2. q \in Int /\ n = q * m
  OBVIOUS
<1> HIDE DEF q
<1>3. j * n = (j * q) * m /\ j * q \in Int
  BY <1>2
<1>4. a = b + (j * q) * m
  BY <1>1, <1>3
<1> QED
  BY <1>3, <1>4 DEF Same

(* An even number of values has two halves.                                *)
LEMMA Halves ==
  ASSUME NEW m \in Nat \ {0}, m % 2 = 0
  PROVE  m \div 2 \in Nat \ {0} /\ m = 2 * (m \div 2)
OBVIOUS

(* A signed integer of a width is the number it is made of, in its range.  *)
LEMMA SignedIsSame ==
  ASSUME NEW m \in Nat \ {0}, m % 2 = 0, NEW a \in Int
  PROVE  Signed(a, m) \in SignedRange(m) /\ Signed(a, m) \in Int /\ Same(Signed(a, m), a, m)
<1> DEFINE r == a % m
           h == m \div 2
           s == IF r < h THEN r ELSE r - m
<1>1. r \in 0..m - 1 /\ Same(r, a, m)
  BY SameRemainder
<1>2. h \in Nat \ {0} /\ m = 2 * h
  BY Halves
<1>3. Signed(a, m) = s
  BY DEF Signed
<1> HIDE DEF r, h
<1>4. s \in -h..h - 1
  BY <1>1, <1>2
<1>5. Same(s, r, m)
  <2>1. CASE r < h
    BY <1>1, <2>1, SameReflexive
  <2>2. CASE ~(r < h)
    <3>1. (-1) * m = -m
      OBVIOUS
    <3>2. s = r + (-1) * m
      BY <1>1, <2>2, <3>1
    <3> QED
      BY <3>2 DEF Same
  <2> QED
    BY <2>1, <2>2
<1>6. SignedRange(m) = -h..h - 1
  BY DEF SignedRange, h
<1> HIDE DEF s
<1>7. s \in Int
  BY <1>2, <1>4
<1>8. Same(s, a, m)
  BY <1>1, <1>5, <1>7, SameTransitive
<1> QED
  BY <1>3, <1>4, <1>6, <1>7, <1>8

(* Two numbers of the range that are the same are equal.                   *)
LEMMA SameIsEqual ==
  ASSUME NEW m \in Nat \ {0}, m % 2 = 0, NEW a \in SignedRange(m), NEW b \in SignedRange(m), Same(a, b, m)
  PROVE  a = b
<1> DEFINE h == m \div 2
<1>1. PICK k \in Int : a = b + k * m
  BY DEF Same
<1>2. h \in Nat \ {0} /\ m = 2 * h
  BY Halves
<1>3. a \in -h..h - 1 /\ b \in -h..h - 1
  BY DEF SignedRange
<1> HIDE DEF h
<1>4. k * m \in Int /\ k * m < m /\ -m < k * m
  BY <1>1, <1>2, <1>3, Multiples
<1>5. k = 0
  BY <1>4
<1>6. 0 * m = 0
  BY Multiples
<1> QED
  BY <1>1, <1>3, <1>2, <1>5, <1>6

(* So a signed integer is known by what it is the same as.                 *)
LEMMA SignedIsKnown ==
  ASSUME NEW m \in Nat \ {0}, m % 2 = 0, NEW a \in Int, NEW b \in Int, Same(a, b, m)
  PROVE  /\ Signed(a, m) = Signed(b, m)
         /\ b \in SignedRange(m) => Signed(a, m) = b
<1>1. /\ Signed(a, m) \in SignedRange(m) /\ Signed(a, m) \in Int /\ Same(Signed(a, m), a, m)
      /\ Signed(b, m) \in SignedRange(m) /\ Signed(b, m) \in Int /\ Same(Signed(b, m), b, m)
  BY SignedIsSame
<1>2. Same(Signed(a, m), b, m) /\ Same(b, Signed(b, m), m)
  BY <1>1, SameTransitive, SameSymmetric
<1>3. Same(Signed(a, m), Signed(b, m), m)
  BY <1>1, <1>2, SameTransitive
<1> QED
  BY <1>1, <1>2, <1>3, SameIsEqual

---------------------------------------------------------------------------
(* The counters.                                                           *)
(* What the counters are made of.                                          *)
CountType ==
  /\ phase \in {"bus", "read", "user", "write"} /\ up \in BOOLEAN /\ device \in Counting
  /\ hal = [arm |-> hal.arm, set |-> hal.set, setval |-> hal.setval, reset |-> hal.reset,
            abs |-> hal.abs, index |-> hal.index, ctl |-> hal.ctl, valid |-> hal.valid,
            count |-> hal.count, scale |-> hal.scale, pos |-> hal.pos]
  /\ hal.set \in BOOLEAN /\ hal.reset \in BOOLEAN /\ hal.abs \in BOOLEAN /\ hal.index \in BOOLEAN
  /\ hal.ctl \in BOOLEAN /\ hal.setval \in Int /\ hal.count \in Int /\ hal.scale \in Int
  /\ drv = [first |-> drv.first, last |-> drv.last, accum |-> drv.accum, op |-> drv.op,
            edge |-> drv.edge, old |-> drv.old, by |-> drv.by]
  /\ drv.first \in BOOLEAN /\ drv.op \in BOOLEAN /\ drv.edge \in BOOLEAN
  /\ drv.last \in Int /\ drv.accum \in Int /\ drv.old \in Int /\ drv.by \in Int
  /\ in = [ctr |-> in.ctr, latch |-> in.latch, valid |-> in.valid, done |-> in.done]
  /\ in.ctr \in Int /\ in.latch \in Int /\ in.done \in BOOLEAN
  /\ out = [arm |-> out.arm, set |-> out.set, val |-> out.val]
  /\ out.set \in BOOLEAN /\ out.val \in Int
  /\ env = [pos |-> env.pos, base |-> env.base, at |-> env.at, zero |-> env.zero,
            met |-> env.met, stale |-> env.stale, left |-> env.left]
  /\ env.pos \in Int /\ env.base \in Int /\ env.at \in Int /\ env.zero \in Int /\ env.left \in Int

(* A latch and a preset are not asked for together, so the counter is not  *)
(* set while a latched value is kept.                                      *)
Unlatched == {"EL5152", "EL5032", "EL5002"}
Absolute == {"EL5032", "EL5002"}

Kept ==
  /\ ~up => in.valid = {}
  /\ device # "EP5101" =>
       /\ hal.arm # {} => ~hal.set
       /\ out.arm # {} => ~out.set
       /\ in.valid # {} => in.latch = Counters!Ctr(env.base + env.at)
  /\ device \in Unlatched => in.valid = {} /\ out.arm = {}
  /\ device \in Absolute => ~out.set /\ ~in.done

(* An answer to what is asked for has come since, or has stood ever since. *)
Answers == env.met \cup env.stale

Awaited ==
  /\ in.valid \cap Counters!Valid(hal.arm) \subseteq Answers
  /\ hal.set /\ in.done => "set" \in Answers
  /\ hal.index /\ ~drv.edge /\ "index" \in hal.arm => "index" \in Answers
  /\ device = "EL5152" => hal.arm \subseteq {"index"}
  /\ device # "EL5152" => ~hal.index

(* The pair of scale and divisor.                                          *)
Scaling == drv.old # 0 /\ (drv.by = drv.old \/ (drv.old = 2 /\ drv.by = 1))

(* The driver has seen the counter of the last exchange, and its count is  *)
(* the travel; before the read it is behind by what the counter has moved, *)
(* a number that the counter can tell.                                     *)
Seen == Counters!Ctr(env.base + env.pos)
Small == SignedRange(Counters!Terminal.ctr)
Travel == env.pos - env.zero

Counted ==
  /\ drv.op => ~drv.first
  /\ phase = "read" => in.ctr = Seen
  /\ phase # "read" /\ drv.op => drv.last = Seen

Follows ==
  /\ ~drv.first /\ ~(phase = "read" /\ up /\ drv.op /\ ~in.done) => Same(hal.count, Travel, CountM32)
  /\ phase = "read" /\ up /\ drv.op /\ ~in.done =>
       \E t \in Small : /\ Same(in.ctr - drv.last, t, Counters!Terminal.ctr)
                        /\ Same(hal.count + t, Travel, CountM32)

FollowsPreset ==
  /\ phase # "read" /\ drv.op => Same(drv.accum, Travel, CountM32)
  /\ phase = "read" /\ up /\ drv.op => Same(drv.accum + (in.ctr - drv.last), Travel, CountM32)
  /\ ~hal.abs

CountInv ==
  /\ CountType /\ Kept /\ Awaited /\ Scaling /\ Counted
  /\ device # "EP5101" => Follows
  /\ device = "EP5101" => FollowsPreset
  /\ Counters!CountIsTravel

(* Divisors of divisors.                                                   *)
LEMMA DividesTransitive ==
  ASSUME NEW l \in Nat \ {0}, NEW m \in Nat \ {0}, NEW n \in Nat \ {0}, m % l = 0, n % m = 0
  PROVE  n % l = 0
<1>1. /\ n % m \in Int /\ Same(n, n % m, m)
  BY SameRemainder
<1>2. Same(n, 0, l)
  BY <1>1, SameCoarse, SMTT(30)
<1>3. n % l \in 0..l - 1 /\ Same(n % l, n, l)
  BY SameRemainder
<1>4. Same(n % l, 0, l)
  BY <1>2, <1>3, SameTransitive
<1>5. PICK k \in Int : n % l = 0 + k * l
  BY <1>4 DEF Same
<1> DEFINE r == n % l
<1>6. r \in 0..l - 1 /\ r = k * l
  BY <1>3, <1>5
<1> HIDE DEF r
<1>7. k = 0
  BY <1>6
<1>8. r = 0
  BY <1>6, <1>7
<1> QED
  BY <1>8 DEF r

(* Each width divides the wider ones, and all are even.                    *)
LEMMA CountWidths ==
  /\ CountM16 \in Nat \ {0} /\ CountM32 \in Nat \ {0} /\ CountM64 \in Nat \ {0}
  /\ CountM16 % 2 = 0 /\ CountM32 % 2 = 0 /\ CountM64 % 2 = 0
  /\ CountM32 % CountM16 = 0 /\ CountM64 % CountM32 = 0 /\ CountM64 % CountM16 = 0
<1>1. /\ CountM16 \in Nat \ {0} /\ CountM32 \in Nat \ {0} /\ CountM64 \in Nat \ {0} /\ 2 \in Nat \ {0}
      /\ CountM16 % 2 = 0 /\ CountM32 % CountM16 = 0 /\ CountM64 % CountM32 = 0
  BY CountAssumption
<1>2. CountM32 % 2 = 0
  BY <1>1, DividesTransitive
<1>3. CountM64 % 2 = 0 /\ CountM64 % CountM16 = 0
  BY <1>1, <1>2, DividesTransitive
<1> QED
  BY <1>1, <1>2, <1>3

(* The counter of a terminal has one of three widths.                      *)
LEMMA CounterWidth ==
  ASSUME device \in Counting
  PROVE  /\ Counters!Terminal.ctr \in Nat \ {0} /\ Counters!Terminal.ctr % 2 = 0
         /\ CountM64 % Counters!Terminal.ctr = 0
         /\ Counters!Terminal.ctr \in {CountM16, CountM32, CountM64}
         /\ device = "EP5101" => Counters!Terminal.ctr = CountM32
<1>1. /\ Counters!Terminal.ctr \in {CountM16, CountM32, CountM64}
      /\ device = "EP5101" => Counters!Terminal.ctr = CountM32
  BY DEF Counting, Counters!Terminal, Counters!Terminals, Counters!EL5101, Counters!EL5102, Counters!EL5151,
         Counters!EL5152, Counters!EL5032, Counters!EL5002, Counters!EP5101, Counters!ELM7
<1>2. CountM64 % CountM64 = 0
  BY CountWidths
<1> QED
  BY <1>1, <1>2, CountWidths

(* What moves in a cycle is small, and so is nothing, and what a counter   *)
(* shows.                                                                  *)
LEMMA SmallMoves ==
  ASSUME device \in Counting
  PROVE  /\ 0 \in Small /\ Steps \subseteq Small /\ Small \subseteq Int
         /\ Small = -(Counters!Terminal.ctr \div 2)..(Counters!Terminal.ctr \div 2) - 1
         /\ Counters!Terminal.ctr \div 2 \in Nat \ {0}
         /\ \A x \in Int : Counters!Ctr(x) \in Small /\ Same(Counters!Ctr(x), x, Counters!Terminal.ctr)
<1> DEFINE w == Counters!Terminal.ctr
           h == w \div 2
           g == CountM16 \div 2
<1>1. w \in Nat \ {0} /\ w % 2 = 0 /\ w % CountM16 = 0
  <2>1. CountM16 % CountM16 = 0
    BY CountWidths
  <2> QED
    BY <2>1, CounterWidth, CountWidths
<1>2. Small = SignedRange(w)
  BY DEF Small
<1>3. \A x : Counters!Ctr(x) = Signed(x, w)
  BY DEF Counters!Ctr, Signed, Counters!Signed
<1> HIDE DEF w
<1>4. h \in Nat \ {0} /\ w = 2 * h /\ g \in Nat \ {0} /\ CountM16 = 2 * g
  BY <1>1, CountWidths, Halves
<1>5. CountM16 <= w
  <2>1. Same(w, w % CountM16, CountM16)
    BY <1>1, CountWidths, SameRemainder
  <2>2. PICK k \in Int : w = 0 + k * CountM16
    BY <1>1, <2>1 DEF Same
  <2>3. k > 0
    BY <1>1, <2>2, CountWidths
  <2> QED
    BY <1>1, <2>2, <2>3, CountWidths
<1>6. Small = -h..h - 1
  BY <1>2 DEF SignedRange
<1>7. g <= h /\ Steps \subseteq -g..g - 1
  BY <1>4, <1>5, CountAssumption
<1>8. \A x \in Int : Signed(x, w) \in SignedRange(w) /\ Same(Signed(x, w), x, w)
  BY <1>1, SignedIsSame
<1>9. h = Counters!Terminal.ctr \div 2 /\ w = Counters!Terminal.ctr
  BY DEF w
<1> HIDE DEF h, g
<1>10. 0 \in Small /\ Steps \subseteq Small /\ Small \subseteq Int
  BY <1>4, <1>6, <1>7
<1> QED
  BY <1>2, <1>3, <1>4, <1>6, <1>8, <1>9, <1>10

(* What the counter moves in a cycle is counted whatever its width.        *)
LEMMA MoveIsCounted ==
  ASSUME device \in Counting, NEW x \in Int, NEW t \in Small, Same(x, t, Counters!Terminal.ctr)
  PROVE  Counters!Ctr(x) \in Int /\ Same(Counters!Ctr(x), t, CountM32)
<1> DEFINE w == Counters!Terminal.ctr
<1>1. w \in Nat \ {0} /\ w % 2 = 0 /\ w \in {CountM16, CountM32, CountM64}
  BY CounterWidth
<1>2. t \in Int /\ t \in SignedRange(w)
  BY <1>1, Halves DEF Small, SignedRange
<1>3. Counters!Ctr(x) = Signed(x, w)
  BY DEF Counters!Ctr, Signed, Counters!Signed
<1> HIDE DEF w
<1>4. Signed(x, w) \in Int /\ Same(Signed(x, w), t, w)
  <2>1. Signed(x, w) \in Int /\ Same(Signed(x, w), x, w)
    BY <1>1, SignedIsSame
  <2>2. Same(x, t, w)
    BY DEF w
  <2> QED
    BY <1>1, <1>2, <2>1, <2>2, SameTransitive
<1>5. CASE w = CountM16
  <2>1. Same(x, t, w)
    BY DEF w
  <2>2. Signed(x, w) = t
    BY <1>1, <1>2, <2>1, SignedIsKnown
  <2> QED
    BY <1>2, <1>3, <2>2, CountWidths, SameReflexive
<1>6. CASE w = CountM32
  BY <1>3, <1>4, <1>6
<1>7. CASE w = CountM64
  BY <1>2, <1>3, <1>4, <1>7, CountWidths, SameCoarse
<1> QED
  BY <1>1, <1>5, <1>6, <1>7

(* What a counter shows of a position.                                     *)
LEMMA CounterShows ==
  ASSUME device \in Counting, NEW a \in Int, NEW b \in Int
  PROVE  /\ Counters!Ctr(a) \in Int
         /\ Same(Counters!Ctr(a) - Counters!Ctr(b), a - b, Counters!Terminal.ctr)
         /\ Counters!Ctr(0) = 0
<1> DEFINE w == Counters!Terminal.ctr
<1>1. w \in Nat \ {0} /\ w % 2 = 0
  BY CounterWidth
<1>2. \A x : Counters!Ctr(x) = Signed(x, w)
  BY DEF Counters!Ctr, Signed, Counters!Signed
<1> HIDE DEF w
<1>3. /\ Signed(a, w) \in Int /\ Same(Signed(a, w), a, w)
      /\ Signed(b, w) \in Int /\ Same(Signed(b, w), b, w)
  BY <1>1, SignedIsSame
<1>4. Same(Signed(a, w) - Signed(b, w), a - b, w)
  BY <1>1, <1>3, SameSum
<1>5. Signed(0, w) = 0
  <2>1. 0 \in SignedRange(w)
    BY <1>1, Halves DEF SignedRange
  <2> QED
    BY <1>1, <2>1, SameReflexive, SignedIsKnown
<1> QED
  BY <1>2, <1>3, <1>4, <1>5 DEF w

(* The counter does not tell a position from the same by 64 bits.          *)
LEMMA CounterWraps ==
  ASSUME device \in Counting, NEW a \in Int, NEW b \in Int
  PROVE  a % CountM64 \in Int /\ Counters!Ctr((a % CountM64) + b) = Counters!Ctr(a + b)
<1> DEFINE w == Counters!Terminal.ctr
<1>1. w \in Nat \ {0} /\ w % 2 = 0 /\ CountM64 % w = 0
  BY CounterWidth
<1>2. \A x : Counters!Ctr(x) = Signed(x, w)
  BY DEF Counters!Ctr, Signed, Counters!Signed
<1> HIDE DEF w
<1>3. a % CountM64 \in Int /\ Same(a % CountM64, a, CountM64)
  BY CountWidths, SameRemainder, SMTT(30)
<1> DEFINE r == a % CountM64
<1> HIDE DEF r
<1>4. r \in Int /\ Same(r, a, w)
  <2>1. r \in Int /\ Same(r, a, CountM64)
    BY <1>3 DEF r
  <2>2. CountM64 \in Nat \ {0}
    BY CountWidths
  <2> QED
    BY <1>1, <2>1, <2>2, SameCoarse
<1>5. Same(r + b, a + b, w)
  BY <1>1, <1>4, SameSum, SameReflexive
<1>6. r + b \in Int /\ a + b \in Int
  BY <1>4
<1>7. Signed(r + b, w) = Signed(a + b, w)
  BY <1>1, <1>5, <1>6, SignedIsKnown
<1> QED
  BY <1>2, <1>4, <1>7 DEF r

(* What a read callback leaves when it counts with these pins.             *)
HasCounted(pins) ==
  /\ CountType' /\ Scaling' /\ Counted' /\ Follows' /\ Counters!CountIsTravel'
  /\ hal'.arm = pins.arm /\ hal'.set = pins.set /\ hal'.index = hal.index
  /\ drv'.edge = hal.index /\ env'.met = env.met /\ env'.stale = env.stale
  /\ env'.base = env.base /\ env'.at = env.at

ReadFrame ==
  /\ phase = "read" /\ phase' = "user" /\ device' = device /\ up' = up /\ in' = in

Pinned(pins) ==
  /\ pins = [arm |-> pins.arm, set |-> pins.set, setval |-> hal.setval, reset |-> hal.reset,
             abs |-> hal.abs, index |-> hal.index, ctl |-> hal.ctl, valid |-> pins.valid,
             count |-> hal.count, scale |-> hal.scale, pos |-> hal.pos]
  /\ pins.set \in BOOLEAN

(* The end of a read callback, given how far the counter is ahead of what  *)
(* the driver starts from.                                                 *)
LEMMA FollowStep ==
  ASSUME CountType, Scaling, ReadFrame, up, out' = out, in.ctr = Seen,
         NEW count \in Int, NEW last \in Int, NEW z \in Int, NEW t \in Small, NEW pins, Pinned(pins),
         Same(in.ctr - last, t, Counters!Terminal.ctr), Same(count + t, env.pos - z, CountM32),
         Counters!Follow(count, last, pins), Counters!History(z)
  PROVE  HasCounted(pins)
<1>0. phase = "read" /\ phase' = "user" /\ device' = device /\ up' = up /\ in' = in
  BY DEF ReadFrame
<1> USE <1>0
<1> DEFINE now == Signed(count + Counters!Ctr(in.ctr - last), CountM32)
           pos == [n |-> IF hal.abs THEN in.ctr ELSE now, by |-> Counters!By]
           zero == z % CountM64
<1>1. /\ hal' = [pins EXCEPT !.count = now, !.scale = Counters!Scale, !.pos = pos]
      /\ drv' = [drv EXCEPT !.first = FALSE, !.last = in.ctr, !.op = TRUE, !.edge = hal.index,
                            !.old = Counters!Scale, !.by = Counters!By]
      /\ env' = [env EXCEPT !.zero = zero]
  BY DEF Counters!Follow, Counters!History, Signed, Counters!Signed
<1>2. t \in Int /\ device \in Counting
  BY SmallMoves DEF CountType
<1>3. Counters!Ctr(in.ctr - last) \in Int /\ Same(Counters!Ctr(in.ctr - last), t, CountM32)
  <2>1. in.ctr - last \in Int
    BY DEF CountType
  <2> QED
    BY <1>2, <2>1, MoveIsCounted
<1>4. zero \in Int /\ Same(zero, z, CountM64) /\ Same(zero, z, CountM32)
  <2>1. zero \in Int /\ Same(zero, z, CountM64)
    BY CountWidths, SameRemainder
  <2> HIDE DEF zero
  <2> QED
    BY <2>1, CountWidths, SameCoarse
<1>5. now \in Int /\ Same(now, env.pos - zero, CountM32) /\ now = Signed(env.pos - zero, CountM32)
  <2> DEFINE c == Counters!Ctr(in.ctr - last)
  <2>1. c \in Int /\ Same(c, t, CountM32) /\ env.pos \in Int
    BY <1>3 DEF CountType
  <2> HIDE DEF c, zero
  <2>2. Same(count + c, count + t, CountM32)
    BY <1>2, <2>1, CountWidths, SameSum, SameReflexive
  <2>3. Same(env.pos - z, env.pos - zero, CountM32)
    <3>1. Same(z, zero, CountM32) /\ Same(env.pos, env.pos, CountM32)
      BY <1>4, <2>1, CountWidths, SameSymmetric, SameReflexive
    <3> QED
      BY <1>4, <2>1, <3>1, CountWidths, SameSum
  <2>4. count + c \in Int /\ count + t \in Int /\ env.pos - z \in Int /\ env.pos - zero \in Int
    BY <1>2, <1>4, <2>1
  <2>5. Same(count + c, env.pos - zero, CountM32)
    <3>1. Same(count + t, env.pos - zero, CountM32)
      BY <2>3, <2>4, CountWidths, SameTransitive
    <3> QED
      BY <2>2, <2>4, <3>1, CountWidths, SameTransitive
  <2>6. Signed(count + c, CountM32) = Signed(env.pos - zero, CountM32)
    BY <2>4, <2>5, CountWidths, SignedIsKnown
  <2>7. Signed(env.pos - zero, CountM32) \in Int /\ Same(Signed(env.pos - zero, CountM32), env.pos - zero, CountM32)
    BY <2>4, CountWidths, SignedIsSame
  <2> QED
    BY <2>6, <2>7 DEF c
<1> HIDE DEF now, zero
<1>6. /\ Counters!Scale \in Int /\ Counters!By \in Int /\ Counters!Scale # 0
      /\ Counters!By = Counters!Scale \/ (Counters!Scale = 2 /\ Counters!By = 1)
  BY DEF CountType, Scaling, Counters!Scale, Counters!By
<1> HIDE DEF pos
<1>8. /\ hal'.arm = pins.arm /\ hal'.set = pins.set /\ hal'.setval = hal.setval /\ hal'.reset = hal.reset
      /\ hal'.abs = hal.abs /\ hal'.index = hal.index /\ hal'.ctl = hal.ctl /\ hal'.valid = pins.valid
      /\ hal'.count = now /\ hal'.scale = Counters!Scale /\ hal'.pos = pos
      /\ hal' = [arm |-> hal'.arm, set |-> hal'.set, setval |-> hal'.setval, reset |-> hal'.reset,
                 abs |-> hal'.abs, index |-> hal'.index, ctl |-> hal'.ctl, valid |-> hal'.valid,
                 count |-> hal'.count, scale |-> hal'.scale, pos |-> hal'.pos]
  <2> DEFINE full == [arm |-> pins.arm, set |-> pins.set, setval |-> hal.setval, reset |-> hal.reset,
                      abs |-> hal.abs, index |-> hal.index, ctl |-> hal.ctl, valid |-> pins.valid,
                      count |-> hal.count, scale |-> hal.scale, pos |-> hal.pos]
             scale == Counters!Scale
  <2>1. pins = full
    BY DEF Pinned
  <2> HIDE DEF scale
  <2>2. hal' = [full EXCEPT !.count = now, !.scale = scale, !.pos = pos]
    BY <1>1, <2>1 DEF scale
  <2>3. hal' = [arm |-> pins.arm, set |-> pins.set, setval |-> hal.setval, reset |-> hal.reset,
                abs |-> hal.abs, index |-> hal.index, ctl |-> hal.ctl, valid |-> pins.valid,
                count |-> now, scale |-> scale, pos |-> pos]
    BY <2>2
  <2> QED
    BY <2>3 DEF scale
<1>9. /\ drv'.first = FALSE /\ drv'.last = in.ctr /\ drv'.accum = drv.accum /\ drv'.op = TRUE
      /\ drv'.edge = hal.index /\ drv'.old = Counters!Scale /\ drv'.by = Counters!By
      /\ drv' = [first |-> drv'.first, last |-> drv'.last, accum |-> drv'.accum, op |-> drv'.op,
                 edge |-> drv'.edge, old |-> drv'.old, by |-> drv'.by]
  BY <1>1 DEF CountType
<1>10. /\ env'.pos = env.pos /\ env'.base = env.base /\ env'.at = env.at /\ env'.zero = zero
       /\ env'.met = env.met /\ env'.stale = env.stale /\ env'.left = env.left
       /\ env' = [pos |-> env'.pos, base |-> env'.base, at |-> env'.at, zero |-> env'.zero,
                  met |-> env'.met, stale |-> env'.stale, left |-> env'.left]
  BY <1>1 DEF CountType
<1>11. CountType'
  BY <1>4, <1>5, <1>6, <1>8, <1>9, <1>10 DEF CountType, Pinned
<1>12. Scaling'
  BY <1>6, <1>9 DEF Scaling
<1>13. Counted'
  BY <1>9, <1>10 DEF Counted, Seen, Counters!Ctr, Counters!Terminal
<1>14. Follows'
  BY <1>5, <1>8, <1>10 DEF Follows, Travel
<1>15. Counters!CountIsTravel'
  <2>1. pos.n = (IF hal.abs THEN in.ctr ELSE now) /\ pos.by = Counters!By
    BY DEF pos
  <2>2. Signed(now, CountM32) = now
    <3>1. now \in SignedRange(CountM32)
      <4>1. env.pos - zero \in Int
        BY <1>4 DEF CountType
      <4> QED
        BY <1>5, <4>1, CountWidths, SignedIsSame
    <3> QED
      BY <1>5, <3>1, CountWidths, SameReflexive, SignedIsKnown
  <2>3. now = Signed(env'.pos - env'.zero, CountM32)
    BY <1>5, <1>10
  <2>4. \A x, m : Counters!Signed(x, m) = Signed(x, m)
    BY DEF Signed, Counters!Signed
  <2>5. /\ hal'.count = Counters!Signed(env'.pos - env'.zero, CountM32)
        /\ hal'.scale # 0 /\ (hal'.pos.by = hal'.scale \/ (hal'.scale = 2 /\ hal'.pos.by = 1))
        /\ IF hal'.abs THEN hal'.pos.n = in'.ctr ELSE Counters!Signed(hal'.pos.n, CountM32) = hal'.count
    BY <1>6, <1>8, <2>1, <2>2, <2>3, <2>4
  <2> QED
    BY <2>5 DEF Counters!CountIsTravel
<1> QED
  BY <1>8, <1>9, <1>10, <1>11, <1>12, <1>13, <1>14, <1>15 DEF HasCounted

(* Where a count that goes on starts from.                                 *)
LEMMA StandsStill ==
  ASSUME CountType
  PROVE  0 \in Small /\ Same(in.ctr - in.ctr, 0, Counters!Terminal.ctr)
<1>1. in.ctr - in.ctr = 0 /\ device \in Counting
  BY DEF CountType
<1> QED
  BY <1>1, CounterWidth, SmallMoves, SameReflexive

(* A count that goes on is behind by what the counter has moved.           *)
LEMMA Resumes ==
  ASSUME CountType, Follows, phase = "read", up, ~drv.first, NEW last,
         last = IF in.done THEN in.ctr ELSE Counters!Start(in.ctr)
  PROVE  /\ last \in Int
         /\ \E t \in Small : /\ Same(in.ctr - last, t, Counters!Terminal.ctr)
                             /\ Same(hal.count + t, env.pos - env.zero, CountM32)
<1>1. CASE drv.op /\ ~in.done
  <2>1. last = drv.last
    BY <1>1 DEF Counters!Start
  <2> QED
    BY <1>1, <2>1 DEF CountType, Follows, Travel
<1>2. CASE ~(drv.op /\ ~in.done)
  <2>1. last = in.ctr
    BY <1>2 DEF Counters!Start, CountType
  <2>2. hal.count + 0 = hal.count /\ in.ctr \in Int
    BY DEF CountType
  <2>3. Same(hal.count, env.pos - env.zero, CountM32)
    BY <1>2 DEF Follows, Travel
  <2> QED
    BY <2>1, <2>2, <2>3, StandsStill
<1> QED
  BY <1>1, <1>2

(* The count after a read that may take a latch.                           *)
LEMMA LatchedCounts ==
  ASSUME CountInv, ReadFrame, out' = out, device # "EP5101", Counters!FollowLatched,
         NEW pins, pins = [hal EXCEPT !.set = Counters!StillAsked, !.valid = in.valid,
                                      !.arm = @ \ Counters!ArmsOf(in.valid)]
  PROVE  HasCounted(pins)
<1> DEFINE latched == in.valid # {}
           last == CASE latched -> in.latch
                     [] ~latched /\ (Counters!Zeroing \/ in.done) -> in.ctr
                     [] OTHER -> Counters!Start(in.ctr)
           count == IF latched \/ Counters!Zeroing THEN 0 ELSE hal.count
           z == CASE latched -> env.pos - Counters!Ctr(env.pos - env.at)
                  [] ~latched /\ Counters!Zeroing -> env.pos
                  [] OTHER -> env.zero
<1>1. /\ up /\ Counters!Follow(count, last, pins) /\ Counters!History(z)
  BY DEF Counters!FollowLatched
<1>2. Pinned(pins)
  BY DEF Pinned, CountInv, CountType, Counters!StillAsked
<1>3. /\ CountType /\ Scaling /\ Follows /\ in.ctr = Seen
      /\ in.ctr \in Int /\ in.latch \in Int /\ env.pos \in Int /\ env.at \in Int /\ env.zero \in Int
      /\ hal.count \in Int
  BY DEF CountInv, Counted, ReadFrame, CountType
<1>4. /\ count \in Int /\ last \in Int /\ z \in Int
      /\ \E t \in Small : Same(in.ctr - last, t, Counters!Terminal.ctr) /\ Same(count + t, env.pos - z, CountM32)
  <2>1. CASE latched
    <3> DEFINE t == Counters!Ctr(env.pos - env.at)
               w == Counters!Terminal.ctr
    <3>1. /\ device \in Counting /\ env.base \in Int /\ in.ctr = Counters!Ctr(env.base + env.pos)
          /\ in.latch = Counters!Ctr(env.base + env.at)
      BY <1>3, <2>1 DEF CountInv, CountType, Kept, Seen
    <3>2. /\ env.pos - env.at \in Int /\ env.base + env.pos \in Int /\ env.base + env.at \in Int
          /\ (env.base + env.pos) - (env.base + env.at) = env.pos - env.at
      BY <1>3, <3>1
    <3>3. t \in Small /\ t \in Int /\ Same(t, env.pos - env.at, w)
      BY <3>1, <3>2, SmallMoves
    <3> HIDE DEF w
    <3>4. Same(in.ctr - in.latch, t, w)
      <4>1. Same(in.ctr - in.latch, env.pos - env.at, w)
        BY <3>1, <3>2, CounterShows DEF w
      <4>2. Same(env.pos - env.at, t, w) /\ w \in Nat \ {0}
        BY <3>1, <3>2, <3>3, CounterWidth, SameSymmetric DEF w
      <4> HIDE DEF t
      <4> QED
        BY <1>3, <3>2, <3>3, <4>1, <4>2, SameTransitive
    <3>5. last = in.latch /\ count = 0 /\ z = env.pos - t
      BY <2>1
    <3> HIDE DEF last, count, z, t
    <3>6. 0 + t = env.pos - (env.pos - t) /\ 0 + t \in Int
      BY <1>3, <3>3
    <3>7. Same(0 + t, env.pos - (env.pos - t), CountM32)
      BY <3>6, CountWidths, SameReflexive
    <3> QED
      BY <1>3, <3>3, <3>4, <3>5, <3>7 DEF w
  <2>2. CASE ~latched /\ Counters!Zeroing
    <3>1. last = in.ctr /\ count = 0 /\ z = env.pos
      BY <2>2
    <3>2. Same(0 + 0, env.pos - env.pos, CountM32)
      <4>1. env.pos - env.pos = 0 /\ 0 + 0 = 0
        BY <1>3
      <4> QED
        BY <4>1, CountWidths, SameReflexive
    <3> HIDE DEF last, count, z
    <3> QED
      BY <1>3, <3>1, <3>2, StandsStill
  <2>3. CASE ~latched /\ ~Counters!Zeroing
    <3>1. /\ last = (IF in.done THEN in.ctr ELSE Counters!Start(in.ctr))
          /\ count = hal.count /\ z = env.zero
      BY <2>3
    <3>2. ~drv.first /\ phase = "read"
      BY <2>3 DEF Counters!Zeroing, ReadFrame
    <3> HIDE DEF last, count, z
    <3> QED
      BY <1>1, <1>3, <3>1, <3>2, Resumes
  <2> QED
    BY <2>1, <2>2, <2>3
<1> HIDE DEF last, count, z
<1>5. PICK t \in Small : Same(in.ctr - last, t, Counters!Terminal.ctr) /\ Same(count + t, env.pos - z, CountM32)
  BY <1>4
<1>6. HasCounted(pins)
  BY <1>1, <1>2, <1>3, <1>4, <1>5, FollowStep
<1> QED
  BY <1>6

(* The count after a read that may take an index.                          *)
LEMMA IndexedCounts ==
  ASSUME CountInv, ReadFrame, out' = out, device # "EP5101", Counters!FollowIndexed,
         NEW index, index = (hal.index /\ ~drv.edge /\ ~Counters!Zeroing /\ "index" \in hal.arm),
         NEW pins, pins = [hal EXCEPT !.set = Counters!StillAsked, !.arm = IF index THEN {} ELSE @]
  PROVE  HasCounted(pins)
<1> DEFINE zeroed == index \/ Counters!Zeroing
           last == IF index \/ Counters!Zeroing \/ in.done THEN in.ctr ELSE Counters!Start(in.ctr)
           count == IF zeroed THEN 0 ELSE hal.count
           z == IF zeroed THEN env.pos ELSE env.zero
<1>1. /\ up /\ Counters!Follow(count, last, pins) /\ Counters!History(z)
  BY DEF Counters!FollowIndexed
<1>2. Pinned(pins)
  BY DEF Pinned, CountInv, CountType, Counters!StillAsked
<1>3. /\ CountType /\ Scaling /\ Follows /\ in.ctr = Seen
      /\ in.ctr \in Int /\ env.pos \in Int /\ env.zero \in Int /\ hal.count \in Int
  BY DEF CountInv, Counted, ReadFrame, CountType
<1>4. /\ count \in Int /\ last \in Int /\ z \in Int
      /\ \E t \in Small : Same(in.ctr - last, t, Counters!Terminal.ctr) /\ Same(count + t, env.pos - z, CountM32)
  <2>1. CASE zeroed
    <3>1. last = in.ctr /\ count = 0 /\ z = env.pos
      BY <2>1
    <3>2. Same(0 + 0, env.pos - env.pos, CountM32)
      <4>1. env.pos - env.pos = 0 /\ 0 + 0 = 0
        BY <1>3
      <4> QED
        BY <4>1, CountWidths, SameReflexive
    <3> HIDE DEF last, count, z
    <3> QED
      BY <1>3, <3>1, <3>2, StandsStill
  <2>2. CASE ~zeroed
    <3>1. /\ last = (IF in.done THEN in.ctr ELSE Counters!Start(in.ctr))
          /\ count = hal.count /\ z = env.zero
      BY <2>2
    <3>2. ~drv.first /\ phase = "read"
      BY <2>2 DEF Counters!Zeroing, ReadFrame
    <3> HIDE DEF last, count, z
    <3> QED
      BY <1>1, <1>3, <3>1, <3>2, Resumes
  <2> QED
    BY <2>1, <2>2
<1> HIDE DEF last, count, z
<1>5. PICK t \in Small : Same(in.ctr - last, t, Counters!Terminal.ctr) /\ Same(count + t, env.pos - z, CountM32)
  BY <1>4
<1>6. HasCounted(pins)
  BY <1>1, <1>2, <1>3, <1>4, <1>5, FollowStep
<1> QED
  BY <1>6

(* The count of a counter that is absolute.                                *)
LEMMA AbsoluteCounts ==
  ASSUME CountInv, ReadFrame, out' = out, device \in Absolute, Counters!FollowAbsolute
  PROVE  HasCounted(hal)
<1> DEFINE last == IF Counters!Zeroing THEN in.ctr ELSE Counters!Start(in.ctr)
           count == IF Counters!Zeroing THEN 0 ELSE hal.count
           z == IF Counters!Zeroing THEN env.pos ELSE env.zero
<1>1. /\ up /\ Counters!Follow(count, last, hal) /\ Counters!History(z)
  BY DEF Counters!FollowAbsolute
<1>2. Pinned(hal)
  BY DEF Pinned, CountInv, CountType
<1>3. /\ CountType /\ Scaling /\ Follows /\ in.ctr = Seen /\ ~in.done
      /\ in.ctr \in Int /\ env.pos \in Int /\ env.zero \in Int /\ hal.count \in Int
  BY DEF CountInv, Counted, ReadFrame, CountType, Absolute, Kept
<1>4. /\ count \in Int /\ last \in Int /\ z \in Int
      /\ \E t \in Small : Same(in.ctr - last, t, Counters!Terminal.ctr) /\ Same(count + t, env.pos - z, CountM32)
  <2>1. CASE Counters!Zeroing
    <3>1. last = in.ctr /\ count = 0 /\ z = env.pos
      BY <2>1
    <3>2. Same(0 + 0, env.pos - env.pos, CountM32)
      <4>1. env.pos - env.pos = 0 /\ 0 + 0 = 0
        BY <1>3
      <4> QED
        BY <4>1, CountWidths, SameReflexive
    <3> HIDE DEF last, count, z
    <3> QED
      BY <1>3, <3>1, <3>2, StandsStill
  <2>2. CASE ~Counters!Zeroing
    <3>1. /\ last = (IF in.done THEN in.ctr ELSE Counters!Start(in.ctr))
          /\ count = hal.count /\ z = env.zero
      BY <1>3, <2>2
    <3>2. ~drv.first /\ phase = "read"
      BY <2>2 DEF Counters!Zeroing, ReadFrame
    <3> HIDE DEF last, count, z
    <3> QED
      BY <1>1, <1>3, <3>1, <3>2, Resumes
  <2> QED
    BY <2>1, <2>2
<1> HIDE DEF last, count, z
<1>5. PICK t \in Small : Same(in.ctr - last, t, Counters!Terminal.ctr) /\ Same(count + t, env.pos - z, CountM32)
  BY <1>4
<1>6. HasCounted(hal)
  BY <1>1, <1>2, <1>3, <1>4, <1>5, FollowStep
<1> QED
  BY <1>6

(* The ends of the read callbacks: the count goes on, and what is taken    *)
(* back has been met.                                                      *)
LEMMA IdleStep ==
  ASSUME CountInv, ReadFrame, out' = out, Counters!Idle
  PROVE  CountInv' /\ Counters!TakenBackWhenMet
<1>1. /\ ~up /\ phase = "read" /\ phase' = "user" /\ device' = device /\ up' = up /\ in' = in
      /\ drv' = [drv EXCEPT !.op = FALSE] /\ hal' = hal /\ env' = env
  BY DEF ReadFrame, Counters!Idle
<1>2. CountType /\ Kept /\ Awaited /\ Scaling /\ Counted
  BY DEF CountInv
<1>3. /\ drv'.first = drv.first /\ drv'.last = drv.last /\ drv'.accum = drv.accum /\ drv'.op = FALSE
      /\ drv'.edge = drv.edge /\ drv'.old = drv.old /\ drv'.by = drv.by
      /\ drv' = [first |-> drv'.first, last |-> drv'.last, accum |-> drv'.accum, op |-> drv'.op,
                 edge |-> drv'.edge, old |-> drv'.old, by |-> drv'.by]
  BY <1>1, <1>2 DEF CountType
<1>4. CountType' /\ Scaling'
  BY <1>1, <1>2, <1>3 DEF CountType, Scaling
<1>5. Kept' /\ Awaited'
  BY <1>1, <1>2, <1>3 DEF Kept, Awaited, Answers, Counters!Ctr, Counters!Terminal, Counters!Valid
<1>6. Counted'
  BY <1>1, <1>3 DEF Counted
<1>7. ASSUME device # "EP5101" PROVE Follows'
  <2>1. Follows
    BY <1>7 DEF CountInv
  <2> QED
    BY <1>1, <1>3, <2>1 DEF Follows, Travel
<1>8. ASSUME device = "EP5101" PROVE FollowsPreset'
  <2>1. FollowsPreset
    BY <1>8 DEF CountInv
  <2> QED
    BY <1>1, <1>3, <2>1 DEF FollowsPreset
<1>9. Counters!CountIsTravel' /\ Counters!TakenBackWhenMet
  BY <1>1 DEF Counters!CountIsTravel, Counters!TakenBackWhenMet
<1> QED
  BY <1>1, <1>4, <1>5, <1>6, <1>7, <1>8, <1>9 DEF CountInv

(* A latch that is taken back is one that has been valid.                  *)
LEMMA TakenBack ==
  ASSUME NEW arm, NEW valid
  PROVE  /\ Counters!Valid(arm) \ Counters!Valid(arm \ Counters!ArmsOf(valid)) \subseteq valid
         /\ valid \cap Counters!Valid(arm \ Counters!ArmsOf(valid)) = {}
         /\ "index" \notin Counters!ArmsOf(valid)
<1>1. /\ "c" \in valid <=> "c" \in Counters!ArmsOf(valid)
      /\ "ext" \in valid => "pos" \in Counters!ArmsOf(valid) /\ "neg" \in Counters!ArmsOf(valid)
      /\ "ext" \notin valid => "pos" \notin Counters!ArmsOf(valid) /\ "neg" \notin Counters!ArmsOf(valid)
      /\ "index" \notin Counters!ArmsOf(valid)
  BY DEF Counters!ArmsOf
<1>2. \A a : /\ Counters!Valid(a) \subseteq {"c", "ext"}
             /\ "c" \in Counters!Valid(a) <=> "c" \in a
             /\ "ext" \in Counters!Valid(a) <=> "pos" \in a \/ "neg" \in a
  BY DEF Counters!Valid
<1> QED
  BY <1>1, <1>2

(* A counter shows the same of the same.                                   *)
LEMMA SameCounter ==
  ASSUME device' = device, env'.base = env.base, env'.at = env.at
  PROVE  Counters!Ctr(env.base + env.at)' = Counters!Ctr(env.base + env.at)
BY DEF Counters!Ctr, Counters!Terminal

(* A read that may take a latch (EL5101 and its like).                     *)
LEMMA LatchedStep ==
  ASSUME CountInv, ReadFrame, out' = out, device # "EP5101", device \notin Unlatched,
         Counters!FollowLatched
  PROVE  CountInv' /\ Counters!TakenBackWhenMet
<1> DEFINE pins == [hal EXCEPT !.set = Counters!StillAsked, !.valid = in.valid,
                               !.arm = @ \ Counters!ArmsOf(in.valid)]
<1>1. HasCounted(pins)
  BY LatchedCounts
<1>2. /\ pins.arm = hal.arm \ Counters!ArmsOf(in.valid) /\ pins.set = (hal.set /\ ~in.done)
      /\ CountType /\ Kept /\ Awaited
  BY DEF CountInv, CountType, Counters!StillAsked
<1> HIDE DEF pins
<1>3. phase = "read" /\ phase' = "user" /\ device' = device /\ up' = up /\ in' = in /\ up
  BY DEF ReadFrame, Counters!FollowLatched
<1>4. /\ hal'.arm = hal.arm \ Counters!ArmsOf(in.valid) /\ hal'.set = (hal.set /\ ~in.done)
      /\ hal'.index = hal.index /\ drv'.edge = hal.index /\ env'.met = env.met /\ env'.stale = env.stale
      /\ env'.base = env.base /\ env'.at = env.at
  BY <1>1, <1>2 DEF HasCounted
<1>5. Kept'
  BY <1>2, <1>3, <1>4, SameCounter DEF Kept
<1>6. Awaited'
  <2>1. in.valid \cap Counters!Valid(hal'.arm) = {}
    BY <1>4, TakenBack
  <2>2. Counters!Valid(hal.arm)' = Counters!Valid(hal'.arm)
    BY DEF Counters!Valid
  <2> QED
    BY <1>2, <1>3, <1>4, <2>1, <2>2 DEF Awaited, Answers, Unlatched
<1>7. Counters!TakenBackWhenMet
  <2>1. in.valid \cap Counters!Valid(hal.arm) \subseteq Answers /\ Answers = env'.met \cup env'.stale
    BY <1>2, <1>4 DEF Awaited, Answers
  <2>2. Counters!Valid(hal.arm) \ Counters!Valid(hal'.arm) \subseteq Answers
    BY <1>4, <2>1, TakenBack
  <2>3. "index" \notin hal.arm \ hal'.arm
    BY <1>4, TakenBack
  <2>4. hal.set /\ ~hal'.set => "set" \in Answers
    BY <1>2, <1>4 DEF Awaited
  <2> QED
    BY <2>1, <2>2, <2>3, <2>4 DEF Counters!TakenBackWhenMet
<1> QED
  BY <1>1, <1>3, <1>5, <1>6, <1>7 DEF CountInv, HasCounted

(* A read that may take an index (EL5152).                                 *)
LEMMA IndexedStep ==
  ASSUME CountInv, ReadFrame, out' = out, device = "EL5152", Counters!FollowIndexed
  PROVE  CountInv' /\ Counters!TakenBackWhenMet
<1> DEFINE index == hal.index /\ ~drv.edge /\ ~Counters!Zeroing /\ "index" \in hal.arm
           pins == [hal EXCEPT !.set = Counters!StillAsked, !.arm = IF index THEN {} ELSE @]
<1>1. HasCounted(pins)
  BY IndexedCounts
<1>2. /\ pins.arm = (IF index THEN {} ELSE hal.arm) /\ pins.set = (hal.set /\ ~in.done)
      /\ CountType /\ Kept /\ Awaited
      /\ index => hal.index /\ ~drv.edge /\ "index" \in hal.arm
  BY DEF CountInv, CountType, Counters!StillAsked
<1> HIDE DEF pins, index
<1>3. phase = "read" /\ phase' = "user" /\ device' = device /\ up' = up /\ in' = in /\ up
  BY DEF ReadFrame, Counters!FollowIndexed
<1>4. /\ hal'.arm = (IF index THEN {} ELSE hal.arm) /\ hal'.set = (hal.set /\ ~in.done)
      /\ hal'.index = hal.index /\ drv'.edge = hal.index /\ env'.met = env.met /\ env'.stale = env.stale
      /\ env'.base = env.base /\ env'.at = env.at
  BY <1>1, <1>2 DEF HasCounted
<1>5. Kept'
  BY <1>2, <1>3, <1>4, SameCounter DEF Kept
<1>6. Awaited'
  <2>1. in.valid = {}
    BY <1>2 DEF Kept, Unlatched
  <2> QED
    BY <1>2, <1>3, <1>4, <2>1 DEF Awaited, Answers
<1>7. Counters!TakenBackWhenMet
  <2>1. Counters!Valid(hal.arm) = {} /\ Answers = env'.met \cup env'.stale
    BY <1>2, <1>4 DEF Awaited, Counters!Valid, Answers
  <2>2. "index" \in hal.arm \ hal'.arm => "index" \in Answers
    BY <1>2, <1>4 DEF Awaited
  <2>3. hal.set /\ ~hal'.set => "set" \in Answers
    BY <1>2, <1>4 DEF Awaited
  <2> QED
    BY <2>1, <2>2, <2>3 DEF Counters!TakenBackWhenMet
<1> QED
  BY <1>1, <1>3, <1>5, <1>6, <1>7 DEF CountInv, HasCounted

(* A read of an absolute counter (EL5032 and EL5002).                      *)
LEMMA AbsoluteStep ==
  ASSUME CountInv, ReadFrame, out' = out, device \in Absolute, Counters!FollowAbsolute
  PROVE  CountInv' /\ Counters!TakenBackWhenMet
<1>1. HasCounted(hal)
  BY AbsoluteCounts
<1>2. CountType /\ Kept /\ Awaited
  BY DEF CountInv
<1>3. phase = "read" /\ phase' = "user" /\ device' = device /\ up' = up /\ in' = in /\ up
  BY DEF ReadFrame, Counters!FollowAbsolute
<1>4. /\ hal'.arm = hal.arm /\ hal'.set = hal.set
      /\ hal'.index = hal.index /\ drv'.edge = hal.index /\ env'.met = env.met /\ env'.stale = env.stale
      /\ env'.base = env.base /\ env'.at = env.at
  BY <1>1 DEF HasCounted
<1>5. Kept'
  BY <1>2, <1>3, <1>4, SameCounter DEF Kept
<1>6. Awaited'
  <2>1. in.valid = {} /\ ~in.done /\ device # "EL5152"
    BY <1>2 DEF Kept, Unlatched, Absolute
  <2> QED
    BY <1>2, <1>3, <1>4, <2>1 DEF Awaited, Answers
<1>7. Counters!TakenBackWhenMet
  BY <1>4 DEF Counters!TakenBackWhenMet
<1>8. device # "EP5101"
  BY DEF Absolute
<1> QED
  BY <1>1, <1>3, <1>5, <1>6, <1>7, <1>8 DEF CountInv, HasCounted

(* EP5101 presets its own count.                                           *)
LEMMA PresetStep ==
  ASSUME CountInv, ReadFrame, device = "EP5101", up, Counters!lcec_ep5101_read
  PROVE  CountInv' /\ Counters!TakenBackWhenMet
<1>1. /\ phase = "read" /\ phase' = "user" /\ device' = device /\ up' = up /\ in' = in
      /\ CountType /\ Kept /\ Awaited /\ Scaling /\ Counted /\ FollowsPreset
  BY DEF ReadFrame, CountInv
<1> DEFINE starts == drv.first \/ ~drv.op
           last == IF starts \/ hal.reset \/ hal.set THEN in.ctr ELSE drv.last
           from == CASE hal.set -> hal.setval
                     [] ~hal.set /\ hal.reset -> 0
                     [] ~hal.set /\ ~hal.reset /\ starts -> in.ctr
                     [] OTHER -> drv.accum
           accum == Signed(from + Counters!Ctr(in.ctr - last), CountM64)
           again == starts \/ hal.reset \/ hal.set
           z == IF last = in.ctr /\ again THEN env.pos - from ELSE env.zero
           zero == z % CountM64
           count == Signed(accum, CountM32)
           pos == [n |-> accum, by |-> Counters!By]
<1>2. /\ hal' = [hal EXCEPT !.set = FALSE, !.valid = in.valid, !.count = count,
                            !.scale = Counters!Scale, !.pos = pos]
      /\ drv' = [drv EXCEPT !.first = FALSE, !.op = TRUE, !.last = in.ctr, !.accum = accum,
                            !.old = Counters!Scale, !.by = Counters!By]
      /\ out' = (IF hal.set THEN [out EXCEPT !.set = TRUE, !.val = hal.setval] ELSE out)
      /\ env' = [env EXCEPT !.zero = zero]
  <2>1. \A x, m : Counters!Signed(x, m) = Signed(x, m)
    BY DEF Signed, Counters!Signed
  <2> QED
    BY <2>1 DEF Counters!lcec_ep5101_read, Counters!Idle, Counters!History
<1>3. /\ in.ctr \in Int /\ env.pos \in Int /\ env.zero \in Int /\ drv.accum \in Int /\ drv.last \in Int
      /\ hal.setval \in Int /\ Counters!Terminal.ctr = CountM32
  BY <1>1, CounterWidth DEF CountType
<1>4. last \in Int /\ from \in Int /\ z \in Int
  BY <1>3
<1>5. Same(from + (in.ctr - last), env.pos - z, CountM32)
  <2>1. CASE again
    <3>1. last = in.ctr /\ z = env.pos - from
      BY <2>1
    <3>2. from \in Int
      BY <1>4
    <3> HIDE DEF from, last, z
    <3>3. from + (in.ctr - last) = from /\ env.pos - z = from
      BY <1>3, <3>1, <3>2
    <3> QED
      BY <3>2, <3>3, CountWidths, SameReflexive
  <2>2. CASE ~again
    <3>1. last = drv.last /\ from = drv.accum /\ z = env.zero /\ drv.op
      BY <2>2
    <3> HIDE DEF from, last, z
    <3> QED
      BY <1>1, <3>1 DEF FollowsPreset, Travel
  <2> QED
    BY <2>1, <2>2
<1> HIDE DEF last, from, z
<1> DEFINE c == Counters!Ctr(in.ctr - last)
<1>6. c \in Int /\ Same(c, in.ctr - last, CountM32)
  <2>1. \A x : Counters!Ctr(x) = Signed(x, CountM32)
    BY <1>3 DEF Counters!Ctr, Signed, Counters!Signed
  <2>2. in.ctr - last \in Int
    BY <1>3, <1>4
  <2> QED
    BY <2>1, <2>2, CountWidths, SignedIsSame
<1> HIDE DEF c
<1>7. zero \in Int /\ Same(zero, z, CountM32)
  <2>1. zero \in Int /\ Same(zero, z, CountM64)
    BY <1>4, CountWidths, SameRemainder, SMTT(30)
  <2> HIDE DEF zero
  <2>2. CountM64 \in Nat \ {0} /\ CountM32 \in Nat \ {0} /\ CountM64 % CountM32 = 0
    BY CountWidths
  <2> QED
    BY <1>4, <2>1, <2>2, SameCoarse
<1>8. accum = Signed(from + c, CountM64) /\ accum \in Int /\ Same(accum, from + c, CountM32)
  <2>1. accum = Signed(from + c, CountM64) /\ from + c \in Int
    BY <1>4, <1>6 DEF c
  <2>2. Signed(from + c, CountM64) \in Int /\ Same(Signed(from + c, CountM64), from + c, CountM64)
    BY <2>1, CountWidths, SignedIsSame
  <2> HIDE DEF accum
  <2> QED
    BY <2>1, <2>2, CountWidths, SameCoarse
<1> HIDE DEF accum, zero
<1>9. Same(accum, env.pos - zero, CountM32)
  <2>1. Same(from + c, from + (in.ctr - last), CountM32)
    <3>1. in.ctr - last \in Int /\ Same(from, from, CountM32)
      BY <1>3, <1>4, CountWidths, SameReflexive
    <3> QED
      BY <1>4, <1>6, <3>1, CountWidths, SameSum
  <2>2. /\ from + c \in Int /\ from + (in.ctr - last) \in Int /\ env.pos - z \in Int
        /\ env.pos - zero \in Int
    BY <1>3, <1>4, <1>6, <1>7
  <2>3. Same(env.pos - z, env.pos - zero, CountM32)
    <3>1. Same(z, zero, CountM32) /\ Same(env.pos, env.pos, CountM32)
      BY <1>3, <1>4, <1>7, CountWidths, SameSymmetric, SameReflexive
    <3> QED
      BY <1>3, <1>4, <1>7, <3>1, CountWidths, SameSum
  <2>4. Same(accum, from + (in.ctr - last), CountM32)
    BY <1>8, <2>1, <2>2, CountWidths, SameTransitive
  <2>5. Same(accum, env.pos - z, CountM32)
    BY <1>5, <1>8, <2>2, <2>4, CountWidths, SameTransitive
  <2> QED
    BY <1>8, <2>2, <2>3, <2>5, CountWidths, SameTransitive
<1>10. count \in Int /\ count = Signed(env.pos - zero, CountM32)
  <2>1. env.pos - zero \in Int
    BY <1>3, <1>7
  <2> QED
    BY <1>8, <1>9, <2>1, CountWidths, SignedIsSame, SignedIsKnown, ZenonT(40)
<1> HIDE DEF count
<1>11. /\ Counters!Scale \in Int /\ Counters!By \in Int /\ Counters!Scale # 0
       /\ Counters!By = Counters!Scale \/ (Counters!Scale = 2 /\ Counters!By = 1)
  BY <1>1 DEF CountType, Scaling, Counters!Scale, Counters!By
<1>12. pos.n = accum /\ pos.by = Counters!By
  OBVIOUS
<1> HIDE DEF pos
<1>13. /\ hal'.arm = hal.arm /\ hal'.set = FALSE /\ hal'.setval = hal.setval /\ hal'.reset = hal.reset
       /\ hal'.abs = hal.abs /\ hal'.index = hal.index /\ hal'.ctl = hal.ctl /\ hal'.valid = in.valid
       /\ hal'.count = count /\ hal'.scale = Counters!Scale /\ hal'.pos = pos
       /\ hal' = [arm |-> hal'.arm, set |-> hal'.set, setval |-> hal'.setval, reset |-> hal'.reset,
                  abs |-> hal'.abs, index |-> hal'.index, ctl |-> hal'.ctl, valid |-> hal'.valid,
                  count |-> hal'.count, scale |-> hal'.scale, pos |-> hal'.pos]
  <2> DEFINE scale == Counters!Scale
  <2> HIDE DEF scale
  <2>1. hal' = [hal EXCEPT !.set = FALSE, !.valid = in.valid, !.count = count, !.scale = scale, !.pos = pos]
    BY <1>2 DEF scale
  <2>2. hal' = [arm |-> hal.arm, set |-> FALSE, setval |-> hal.setval, reset |-> hal.reset,
                abs |-> hal.abs, index |-> hal.index, ctl |-> hal.ctl, valid |-> in.valid,
                count |-> count, scale |-> scale, pos |-> pos]
    BY <1>1, <2>1 DEF CountType
  <2> QED
    BY <2>2 DEF scale
<1>14. /\ drv'.first = FALSE /\ drv'.last = in.ctr /\ drv'.accum = accum /\ drv'.op = TRUE
       /\ drv'.edge = drv.edge /\ drv'.old = Counters!Scale /\ drv'.by = Counters!By
       /\ drv' = [first |-> drv'.first, last |-> drv'.last, accum |-> drv'.accum, op |-> drv'.op,
                  edge |-> drv'.edge, old |-> drv'.old, by |-> drv'.by]
  BY <1>1, <1>2 DEF CountType
<1>15. /\ env'.pos = env.pos /\ env'.base = env.base /\ env'.at = env.at /\ env'.zero = zero
       /\ env'.met = env.met /\ env'.stale = env.stale /\ env'.left = env.left
       /\ env' = [pos |-> env'.pos, base |-> env'.base, at |-> env'.at, zero |-> env'.zero,
                  met |-> env'.met, stale |-> env'.stale, left |-> env'.left]
  BY <1>1, <1>2 DEF CountType
<1>16. /\ out'.arm = out.arm /\ out'.set \in BOOLEAN /\ out'.val \in Int
       /\ out' = [arm |-> out'.arm, set |-> out'.set, val |-> out'.val]
  BY <1>1, <1>2, <1>3 DEF CountType
<1>17. CountType'
  BY <1>1, <1>3, <1>7, <1>8, <1>10, <1>11, <1>13, <1>14, <1>15, <1>16 DEF CountType
<1>18. Kept' /\ Awaited'
  <2>1. Counters!Valid(hal.arm)' = Counters!Valid(hal.arm)
    BY <1>13 DEF Counters!Valid
  <2> QED
    BY <1>1, <1>13, <1>15, <2>1 DEF Kept, Awaited, Answers, Unlatched, Absolute
<1>19. Scaling' /\ Counted'
  BY <1>1, <1>11, <1>14, <1>15 DEF Scaling, Counted, Seen, Counters!Ctr, Counters!Terminal
<1>20. FollowsPreset'
  BY <1>1, <1>9, <1>13, <1>14, <1>15 DEF FollowsPreset, Travel
<1>21. Counters!CountIsTravel'
  <2>1. \A x, m : Counters!Signed(x, m) = Signed(x, m)
    BY DEF Signed, Counters!Signed
  <2>2. /\ hal'.count = Counters!Signed(env'.pos - env'.zero, CountM32)
        /\ hal'.scale # 0 /\ (hal'.pos.by = hal'.scale \/ (hal'.scale = 2 /\ hal'.pos.by = 1))
        /\ ~hal'.abs /\ Counters!Signed(hal'.pos.n, CountM32) = hal'.count
    BY <1>1, <1>10, <1>11, <1>12, <1>13, <1>15, <2>1 DEF count, FollowsPreset
  <2> QED
    BY <2>2 DEF Counters!CountIsTravel
<1>22. Counters!TakenBackWhenMet
  BY <1>13 DEF Counters!TakenBackWhenMet
<1> QED
  BY <1>1, <1>17, <1>18, <1>19, <1>20, <1>21, <1>22 DEF CountInv

(* So every read callback of a counter keeps the invariant.                *)
LEMMA CountReadStep ==
  ASSUME CountInv, Counters!Read
  PROVE  CountInv' /\ Counters!TakenBackWhenMet
<1>1. ReadFrame
  BY DEF Counters!Read, Counters!Turn, ReadFrame
<1>2. ASSUME device = "EP5101", Counters!lcec_ep5101_read PROVE CountInv' /\ Counters!TakenBackWhenMet
  <2>1. CASE up
    BY <1>1, <1>2, <2>1, PresetStep
  <2>2. CASE ~up
    BY <1>1, <1>2, <2>2, IdleStep DEF Counters!lcec_ep5101_read
  <2> QED
    BY <2>1, <2>2
<1>3. ASSUME device = "EL5152", UNCHANGED out, Counters!Idle \/ Counters!FollowIndexed
      PROVE  CountInv' /\ Counters!TakenBackWhenMet
  BY <1>1, <1>3, IdleStep, IndexedStep
<1>4. ASSUME device \in Absolute, UNCHANGED out, Counters!Idle \/ Counters!FollowAbsolute
      PROVE  CountInv' /\ Counters!TakenBackWhenMet
  BY <1>1, <1>4, IdleStep, AbsoluteStep
<1>5. ASSUME device \notin Unlatched, device # "EP5101", UNCHANGED out,
             Counters!Idle \/ Counters!FollowLatched
      PROVE  CountInv' /\ Counters!TakenBackWhenMet
  BY <1>1, <1>5, IdleStep, LatchedStep
<1> DEFINE Latching == {"EL5101", "EL5102", "EL5151", "EL7041", "EL7342", "EM7004"}
<1>6. \/ device = "EP5101" /\ Counters!lcec_ep5101_read
      \/ device = "EL5152" /\ UNCHANGED out /\ (Counters!Idle \/ Counters!FollowIndexed)
      \/ device \in Absolute /\ UNCHANGED out /\ (Counters!Idle \/ Counters!FollowAbsolute)
      \/ device \in Latching /\ UNCHANGED out /\ (Counters!Idle \/ Counters!FollowLatched)
  BY DEF Counters!Read, Counters!lcec_el5101_read, Counters!lcec_el5102_read, Counters!lcec_el5151_read,
         Counters!lcec_el5152_read, Counters!lcec_el5032_read, Counters!lcec_el5002_read,
         Counters!lcec_el7041_read, Counters!lcec_el7342_read, Counters!lcec_em7004_read,
         Counters!lcec_ep5101_read, Absolute
<1>7. device \in Latching => device \notin Unlatched /\ device # "EP5101"
  BY DEF Unlatched
<1> HIDE DEF Latching
<1> QED
  BY <1>2, <1>3, <1>4, <1>5, <1>6, <1>7

(* The counters before their start.                                        *)
LEMMA CountStart == ASSUME Counters!Init PROVE CountInv
<1>1. /\ device \in Counting /\ hal = Counters!Pins /\ drv = Counters!Private
      /\ phase = "bus" /\ up = FALSE
      /\ in = [ctr |-> 0, latch |-> 0, valid |-> {}, done |-> FALSE]
      /\ out = [arm |-> {}, set |-> FALSE, val |-> 0]
      /\ env = [pos |-> 0, base |-> Counters!Terminal.ctr \div 2 - 2, at |-> 0, zero |-> 0,
                met |-> {}, stale |-> {}, left |-> CountActs]
  BY DEF Counters!Init, Counting, Counters!lcec_el5101_init, Counters!lcec_el5102_init,
         Counters!lcec_el5151_init, Counters!lcec_el5152_init, Counters!lcec_el5032_init,
         Counters!lcec_el5002_init, Counters!lcec_ep5101_init, Counters!lcec_el7041_init,
         Counters!lcec_el7342_init, Counters!lcec_em7004_init
<1> DEFINE base == Counters!Terminal.ctr \div 2 - 2
<1>2. base \in Int
  <2>1. Counters!Terminal.ctr \in Nat \ {0}
    BY <1>1, CounterWidth
  <2> QED
    BY <2>1
<1> HIDE DEF base
<1>3. /\ hal = [arm |-> {}, set |-> FALSE, setval |-> 0, reset |-> FALSE, abs |-> FALSE,
                index |-> FALSE, ctl |-> FALSE, valid |-> {}, count |-> 0,
                scale |-> 1, pos |-> [n |-> 0, by |-> 1]]
      /\ drv = [first |-> TRUE, last |-> 0, accum |-> 0, op |-> FALSE, edge |-> FALSE,
                old |-> 2, by |-> 1]
      /\ env = [pos |-> 0, base |-> base, at |-> 0, zero |-> 0, met |-> {}, stale |-> {}, left |-> CountActs]
  BY <1>1 DEF base, Counters!Pins, Counters!Private
<1>4. CountType
  <2>1. /\ phase = "bus" /\ up = FALSE /\ device \in Counting /\ base \in Int /\ CountActs \in Int
        /\ in = [ctr |-> in.ctr, latch |-> in.latch, valid |-> in.valid, done |-> in.done]
        /\ in.ctr \in Int /\ in.latch \in Int /\ in.done \in BOOLEAN
        /\ out = [arm |-> out.arm, set |-> out.set, val |-> out.val]
        /\ out.set \in BOOLEAN /\ out.val \in Int
    BY <1>1, <1>2, CountAssumption
  <2>2. /\ env = [pos |-> env.pos, base |-> env.base, at |-> env.at, zero |-> env.zero,
                  met |-> env.met, stale |-> env.stale, left |-> env.left]
        /\ env.pos \in Int /\ env.base \in Int /\ env.at \in Int /\ env.zero \in Int /\ env.left \in Int
    BY <1>2, <1>3, <2>1
  <2>3. /\ drv = [first |-> drv.first, last |-> drv.last, accum |-> drv.accum, op |-> drv.op,
                  edge |-> drv.edge, old |-> drv.old, by |-> drv.by]
        /\ drv.first \in BOOLEAN /\ drv.op \in BOOLEAN /\ drv.edge \in BOOLEAN
        /\ drv.last \in Int /\ drv.accum \in Int /\ drv.old \in Int /\ drv.by \in Int
    BY <1>3
  <2>4. /\ hal = [arm |-> hal.arm, set |-> hal.set, setval |-> hal.setval, reset |-> hal.reset,
                  abs |-> hal.abs, index |-> hal.index, ctl |-> hal.ctl, valid |-> hal.valid,
                  count |-> hal.count, scale |-> hal.scale, pos |-> hal.pos]
        /\ hal.set \in BOOLEAN /\ hal.reset \in BOOLEAN /\ hal.abs \in BOOLEAN /\ hal.index \in BOOLEAN
        /\ hal.ctl \in BOOLEAN /\ hal.setval \in Int /\ hal.count \in Int /\ hal.scale \in Int
    BY <1>3
  <2> QED
    BY <2>1, <2>2, <2>3, <2>4 DEF CountType
<1>5. Kept
  BY <1>1, <1>3 DEF Kept
<1>6. Awaited /\ Scaling /\ Counted /\ Follows /\ FollowsPreset
  BY <1>1, <1>3 DEF Awaited, Scaling, Counted, Follows, FollowsPreset
<1>7. Counters!CountIsTravel
  BY <1>1 DEF Counters!CountIsTravel
<1> QED
  BY <1>4, <1>5, <1>6, <1>7 DEF CountInv

(* The steps of the driver and the user that leave the count alone.        *)
LEMMA CountQuietStep ==
  ASSUME CountInv, UNCHANGED <<device, up, drv, in>>, phase \in {"user", "write"}, phase' \in {"write", "bus"},
         hal'.count = hal.count, hal'.abs = hal.abs \/ device # "EP5101",
         env'.pos = env.pos, env'.zero = env.zero, env'.base = env.base
  PROVE  /\ Scaling' /\ Counted' /\ (device # "EP5101" => Follows')
         /\ (device = "EP5101" => FollowsPreset') /\ Counters!CountIsTravel'
<1>1. Scaling' /\ Counted'
  BY DEF CountInv, Scaling, Counted, Seen, Counters!Ctr, Counters!Terminal
<1>2. device # "EP5101" => Follows'
  BY DEF CountInv, Follows, Travel
<1>3. device = "EP5101" => FollowsPreset'
  BY DEF CountInv, FollowsPreset, Travel
<1>4. Counters!CountIsTravel'
  BY DEF Counters!CountIsTravel
<1> QED
  BY <1>1, <1>2, <1>3, <1>4

(* A write callback hands the requests on and counts nothing.              *)
LEMMA CountWriteStep ==
  ASSUME CountInv, Counters!Write
  PROVE  CountInv'
<1>1. /\ phase = "write" /\ phase' = "bus" /\ device' = device
      /\ up' = up /\ hal' = hal /\ drv' = drv /\ in' = in /\ env' = env
      /\ CountType /\ Kept /\ Awaited
  BY DEF Counters!Write, Counters!Turn, CountInv
<1>2. \/ device \notin Unlatched /\ device # "EP5101" /\ out' = Counters!Commands
      \/ device = "EL5152" /\ out' = [Counters!Commands EXCEPT !.arm = {}]
      \/ device = "EP5101" /\ out' = (IF up THEN [out EXCEPT !.arm = hal.arm, !.set = hal.ctl] ELSE out)
      \/ device \in Absolute /\ out' = out
  BY DEF Counters!Write, Counters!lcec_el5101_write, Counters!lcec_el5102_write, Counters!lcec_el7041_write,
         Counters!lcec_el7342_write, Counters!lcec_em7004_write, Counters!lcec_el5151_write,
         Counters!lcec_el5152_write, Counters!lcec_ep5101_write, Unlatched, Absolute
<1>3. /\ hal.set \in BOOLEAN /\ hal.ctl \in BOOLEAN /\ hal.setval \in Int
      /\ out = [arm |-> out.arm, set |-> out.set, val |-> out.val] /\ out.set \in BOOLEAN /\ out.val \in Int
  BY <1>1 DEF CountType
<1>4. /\ out' = [arm |-> out'.arm, set |-> out'.set, val |-> out'.val]
      /\ out'.set \in BOOLEAN /\ out'.val \in Int
      /\ device # "EP5101" => out'.arm = {} \/ out'.arm = hal.arm \/ (out' = out /\ device \in Absolute)
      /\ device \in Unlatched => out'.arm = {} \/ (out' = out /\ device \in Absolute)
      /\ device \in Absolute => out' = out
  <2>1. CASE device \notin Unlatched /\ device # "EP5101" /\ out' = Counters!Commands
    <3>1. out' = [arm |-> hal.arm, set |-> hal.set, val |-> hal.setval]
      BY <2>1 DEF Counters!Commands
    <3>2. device \notin Absolute
      BY <2>1 DEF Absolute, Unlatched
    <3>3. out'.arm = hal.arm /\ out'.set = hal.set /\ out'.val = hal.setval
      BY <3>1
    <3>4. out' = [arm |-> out'.arm, set |-> out'.set, val |-> out'.val]
      BY <3>1, <3>3
    <3>5. out'.set \in BOOLEAN /\ out'.val \in Int
      BY <1>3, <3>3
    <3>6. /\ device # "EP5101" => out'.arm = {} \/ out'.arm = hal.arm \/ (out' = out /\ device \in Absolute)
          /\ device \in Unlatched => out'.arm = {} \/ (out' = out /\ device \in Absolute)
          /\ device \in Absolute => out' = out
      BY <2>1, <3>2, <3>3
    <3> QED
      BY <3>4, <3>5, <3>6
  <2>2. CASE device = "EL5152" /\ out' = [Counters!Commands EXCEPT !.arm = {}]
    <3>1. out' = [arm |-> {}, set |-> hal.set, val |-> hal.setval]
      BY <2>2 DEF Counters!Commands
    <3>2. device \notin Absolute
      BY <2>2 DEF Absolute
    <3>3. out'.arm = {} /\ out'.set = hal.set /\ out'.val = hal.setval
      BY <3>1
    <3>4. out' = [arm |-> out'.arm, set |-> out'.set, val |-> out'.val]
      BY <3>1, <3>3
    <3>5. out'.set \in BOOLEAN /\ out'.val \in Int
      BY <1>3, <3>3
    <3>6. /\ device # "EP5101" => out'.arm = {} \/ out'.arm = hal.arm \/ (out' = out /\ device \in Absolute)
          /\ device \in Unlatched => out'.arm = {} \/ (out' = out /\ device \in Absolute)
          /\ device \in Absolute => out' = out
      BY <2>2, <3>2, <3>3
    <3> QED
      BY <3>4, <3>5, <3>6
  <2>3. CASE device = "EP5101" /\ out' = (IF up THEN [out EXCEPT !.arm = hal.arm, !.set = hal.ctl] ELSE out)
    BY <1>3, <2>3 DEF Absolute, Unlatched
  <2>4. CASE device \in Absolute /\ out' = out
    BY <1>3, <2>4 DEF Absolute
  <2> QED
    BY <1>2, <2>1, <2>2, <2>3, <2>4
<1>5. CountType'
  BY <1>1, <1>4 DEF CountType
<1>6. Counters!Valid({}) = {}
  BY DEF Counters!Valid
<1>7. Kept'
  <2>1. device # "EP5101" /\ out'.arm # {} => ~out'.set
    <3>1. device \notin Unlatched /\ device # "EP5101" /\ out' = Counters!Commands =>
            out'.arm = hal.arm /\ out'.set = hal.set
      BY DEF Counters!Commands
    <3>2. device = "EL5152" => out'.arm = {}
      BY <1>4 DEF Unlatched, Absolute
    <3>3. device # "EP5101" => (hal.arm # {} => ~hal.set) /\ (out.arm # {} => ~out.set)
      BY <1>1 DEF Kept
    <3> QED
      BY <1>2, <3>1, <3>2, <3>3
  <2>2. Counters!Ctr(env.base + env.at)' = Counters!Ctr(env.base + env.at)
    BY <1>1, SameCounter
  <2>3. device \in Unlatched => out'.arm = {}
    BY <1>1, <1>4 DEF Kept
  <2> QED
    BY <1>1, <1>4, <2>1, <2>2, <2>3 DEF Kept
<1>8. Awaited'
  BY <1>1 DEF Awaited, Answers, Counters!Valid
<1> QED
  BY <1>1, <1>5, <1>7, <1>8, CountQuietStep DEF CountInv

(* The user raises and takes back requests, and the history follows.       *)
LEMMA CountUserStep ==
  ASSUME CountInv, Counters!User
  PROVE  CountInv'
<1>1. /\ phase = "user" /\ phase' = "write" /\ device' = device
      /\ up' = up /\ drv' = drv /\ in' = in /\ out' = out
      /\ CountType /\ Kept /\ Awaited
  BY DEF Counters!User, Counters!Turn, CountInv
<1> DEFINE Fresh(asked) == (Answers \ asked) \cup (Counters!Standing \cap asked) \subseteq Answers'
           Same2 == /\ hal'.arm = hal.arm /\ hal'.set = hal.set /\ hal'.index = hal.index
                    /\ Fresh({})
           Armed == /\ hal.arm = {} /\ ~hal.set
                    /\ \E a \in Counters!ArmChoices :
                         /\ hal'.arm = a /\ hal'.set = hal.set /\ hal'.index = hal.index
                         /\ Fresh(Counters!Valid(a) \cup {"index"})
           Given == /\ hal'.arm = {} /\ hal'.set = hal.set /\ hal'.index = hal.index
                    /\ Fresh({})
           Asked == /\ hal.arm = {} /\ hal'.arm = hal.arm /\ hal'.index = hal.index
                    /\ Fresh({"set"}) /\ device \notin Absolute
           Indexed == /\ device = "EL5152" /\ hal'.arm = hal.arm /\ hal'.set = hal.set
                      /\ Fresh({}) /\ (hal'.index /\ ~hal.index => "index" \in Answers')
           PinType == /\ hal = [arm |-> hal.arm, set |-> hal.set, setval |-> hal.setval, reset |-> hal.reset,
                                abs |-> hal.abs, index |-> hal.index, ctl |-> hal.ctl, valid |-> hal.valid,
                                count |-> hal.count, scale |-> hal.scale, pos |-> hal.pos]
                      /\ hal.set \in BOOLEAN /\ hal.reset \in BOOLEAN /\ hal.abs \in BOOLEAN
                      /\ hal.index \in BOOLEAN /\ hal.ctl \in BOOLEAN
                      /\ hal.setval \in Int /\ hal.count \in Int /\ hal.scale \in Int
           PlcType == /\ env = [pos |-> env.pos, base |-> env.base, at |-> env.at, zero |-> env.zero,
                                met |-> env.met, stale |-> env.stale, left |-> env.left]
                      /\ env.pos \in Int /\ env.base \in Int /\ env.at \in Int /\ env.zero \in Int
                      /\ env.left \in Int
           PinGoal == /\ PinType' /\ hal'.count = hal.count
                      /\ (hal'.abs = hal.abs \/ device # "EP5101")
           PlcGoal == PlcType' /\ env'.pos = env.pos /\ env'.zero = env.zero /\ env'.base = env.base
                      /\ env'.at = env.at
           Goal == PinGoal /\ PlcGoal /\ (Same2 \/ Armed \/ Given \/ Asked \/ Indexed)
<1>2. PinType /\ PlcType
  BY <1>1 DEF CountType
<1>3. ASSUME NEW pins, NEW asked, Counters!Put(pins, asked)
      PROVE  /\ PlcGoal /\ hal' = pins /\ Fresh(asked)
             /\ pins.index /\ ~hal.index => "index" \in Answers'
  <2> DEFINE raised == Counters!When(pins.index /\ ~hal.index, "index")
             stood == Counters!Standing \cap asked
  <2>1. /\ hal' = pins
        /\ env' = [env EXCEPT !.left = @ - 1, !.met = (@ \ asked) \cup raised,
                              !.stale = (@ \ asked) \cup stood]
    BY <1>3 DEF Counters!Put
  <2>2. PlcType /\ (pins.index /\ ~hal.index => "index" \in raised)
    BY <1>2 DEF Counters!When
  <2> HIDE DEF raised, stood
  <2>3. env' = [pos |-> env.pos, base |-> env.base, at |-> env.at, zero |-> env.zero,
                met |-> (env.met \ asked) \cup raised, stale |-> (env.stale \ asked) \cup stood,
                left |-> env.left - 1]
    BY <2>1, <2>2
  <2>4. PlcType' /\ env'.pos = env.pos /\ env'.zero = env.zero /\ env'.base = env.base /\ env'.at = env.at
    BY <2>2, <2>3
  <2>5. env'.met = (env.met \ asked) \cup raised /\ env'.stale = (env.stale \ asked) \cup stood
    BY <2>3
  <2>6. Answers' = (Answers \ asked) \cup raised \cup stood
    BY <2>5 DEF Answers
  <2> QED
    BY <2>1, <2>2, <2>4, <2>6 DEF stood
<1> HIDE DEF Fresh, Same2, Armed, Given, Asked, Indexed, PlcGoal, PlcType
<1>4. ASSUME UNCHANGED <<hal, env>> PROVE Goal
  <2>1. Same2
    BY <1>4 DEF Same2, Fresh, Answers
  <2>2. PlcGoal
    <3>1. PlcType
      BY <1>2
    <3> QED
      BY <1>4, <3>1 DEF PlcGoal, PlcType
  <2>3. PinGoal
    <3>1. PinType
      BY <1>2
    <3> QED
      BY <1>4, <3>1
  <2> HIDE DEF PinGoal
  <2> QED
    BY <2>1, <2>2, <2>3
<1>5. ASSUME hal.arm = {}, ~hal.set, NEW a \in Counters!ArmChoices,
             Counters!Put([hal EXCEPT !.arm = a], Counters!Valid(a) \cup {"index"})
      PROVE  Goal
  <2> DEFINE pins == [hal EXCEPT !.arm = a]
  <2>1. pins.index = hal.index /\ pins.arm = a /\ pins.set = hal.set
    BY <1>2
  <2>2. hal' = pins /\ Fresh(Counters!Valid(a) \cup {"index"}) /\ PlcGoal
    <3> DEFINE asked == Counters!Valid(a) \cup {"index"}
    <3>1. Counters!Put(pins, asked)
      BY <1>5
    <3> HIDE DEF asked, pins
    <3>2. PlcGoal /\ hal' = pins /\ Fresh(asked)
      BY <1>3, <3>1
    <3> QED
      BY <3>2 DEF asked, pins
  <2>3. PinGoal
    BY <1>2, <2>2
  <2>4. Armed
    BY <1>5, <2>1, <2>2 DEF Armed
  <2> QED
    BY <2>2, <2>3, <2>4
<1>6. ASSUME hal.arm # {}, Counters!Put([hal EXCEPT !.arm = {}], {})
      PROVE  Goal
  <2> DEFINE pins == [hal EXCEPT !.arm = {}]
  <2>1. pins.index = hal.index /\ pins.arm = {} /\ pins.set = hal.set
    BY <1>2
  <2>2. hal' = pins /\ Fresh({}) /\ PlcGoal
    BY <1>3, <1>6
  <2>3. PinGoal
    BY <1>2, <2>2
  <2>4. Given
    BY <2>1, <2>2 DEF Given
  <2> QED
    BY <2>2, <2>3, <2>4
<1>7. ASSUME Counters!Terminal.sets, hal.arm = {}, NEW v \in Presets,
             Counters!Put([hal EXCEPT !.set = TRUE, !.setval = v], {"set"})
      PROVE  Goal
  <2> DEFINE pins == [hal EXCEPT !.set = TRUE, !.setval = v]
  <2>1. pins.index = hal.index /\ pins.arm = hal.arm
    BY <1>2
  <2>2. hal' = pins /\ Fresh({"set"}) /\ PlcGoal
    BY <1>3, <1>7
  <2>3. PinGoal
    <3>1. v \in Int
      BY CountAssumption
    <3> QED
      BY <1>2, <2>2, <3>1
  <2>4. device \notin Absolute
    BY <1>7 DEF Counters!Terminal, Counters!Terminals, Counters!EL5032, Counters!EL5002, Absolute
  <2>5. Asked
    BY <1>7, <2>1, <2>2, <2>4 DEF Asked
  <2> QED
    BY <2>2, <2>3, <2>5
<1>8. ASSUME NEW pins, Counters!Put(pins, {}), PinGoal, pins.arm = hal.arm, pins.set = hal.set,
             pins.index = hal.index
      PROVE  Goal
  <2>1. hal' = pins /\ Fresh({}) /\ PlcGoal
    BY <1>3, <1>8
  <2>2. Same2
    BY <1>8, <2>1 DEF Same2
  <2> QED
    BY <1>8, <2>1, <2>2
<1>9. ASSUME Counters!Put([hal EXCEPT !.reset = ~@], {}) PROVE Goal
  <2>1. hal' = [hal EXCEPT !.reset = ~@]
    BY <1>9 DEF Counters!Put
  <2>2. PinGoal
    BY <1>2, <2>1
  <2>3. hal'.arm = hal.arm /\ hal'.set = hal.set /\ hal'.index = hal.index
    BY <1>2, <2>1
  <2> HIDE DEF PinGoal, Goal
  <2> QED
    BY <1>8, <1>9, <2>1, <2>2, <2>3
<1>10. ASSUME Counters!Terminal.abs, Counters!Put([hal EXCEPT !.abs = ~@], {}) PROVE Goal
  <2>1. hal' = [hal EXCEPT !.abs = ~@]
    BY <1>10 DEF Counters!Put
  <2>2. device # "EP5101"
    BY <1>10 DEF Counters!Terminal, Counters!Terminals, Counters!EP5101
  <2>3. PinGoal
    BY <1>2, <2>1, <2>2
  <2>4. hal'.arm = hal.arm /\ hal'.set = hal.set /\ hal'.index = hal.index
    BY <1>2, <2>1
  <2> HIDE DEF PinGoal, Goal
  <2> QED
    BY <1>8, <1>10, <2>1, <2>3, <2>4
<1>11. ASSUME Counters!Put([hal EXCEPT !.ctl = ~@], {}) PROVE Goal
  <2>1. hal' = [hal EXCEPT !.ctl = ~@]
    BY <1>11 DEF Counters!Put
  <2>2. PinGoal
    BY <1>2, <2>1
  <2>3. hal'.arm = hal.arm /\ hal'.set = hal.set /\ hal'.index = hal.index
    BY <1>2, <2>1
  <2> HIDE DEF PinGoal, Goal
  <2> QED
    BY <1>8, <1>11, <2>1, <2>2, <2>3
<1>12. ASSUME NEW x \in CountScales, Counters!Put([hal EXCEPT !.scale = x], {}) PROVE Goal
  <2>1. hal' = [hal EXCEPT !.scale = x] /\ x \in Int
    BY <1>12, CountAssumption DEF Counters!Put
  <2>2. PinGoal
    BY <1>2, <2>1
  <2>3. hal'.arm = hal.arm /\ hal'.set = hal.set /\ hal'.index = hal.index
    BY <1>2, <2>1
  <2> HIDE DEF PinGoal, Goal
  <2> QED
    BY <1>8, <1>12, <2>1, <2>2, <2>3
<1>13. ASSUME device = "EL5152", Counters!Put([hal EXCEPT !.index = ~@], {}) PROVE Goal
  <2> DEFINE pins == [hal EXCEPT !.index = ~@]
  <2>1. pins.arm = hal.arm /\ pins.set = hal.set
    BY <1>2
  <2>2. hal' = pins /\ Fresh({}) /\ PlcGoal /\ (pins.index /\ ~hal.index => "index" \in Answers')
    <3>1. Counters!Put(pins, {})
      BY <1>13
    <3> HIDE DEF pins
    <3> QED
      BY <1>3, <3>1
  <2>3. PinGoal
    BY <1>2, <2>2
  <2>4. Indexed
    BY <1>13, <2>1, <2>2 DEF Indexed
  <2> QED
    BY <2>2, <2>3, <2>4
<1> HIDE DEF PinGoal
<1>14. Goal
  <2> HIDE DEF Goal
  <2>1. ASSUME UNCHANGED <<hal, env>> PROVE Goal
    BY <1>4, <2>1
  <2>2. ASSUME hal.arm = {} /\ ~hal.set /\
               \E a \in Counters!ArmChoices : Counters!Put([hal EXCEPT !.arm = a], Counters!Valid(a) \cup {"index"}) PROVE Goal
    BY <1>5, <2>2
  <2>3. ASSUME hal.arm # {} /\ Counters!Put([hal EXCEPT !.arm = {}], {}) PROVE Goal
    BY <1>6, <2>3
  <2>4. ASSUME /\ Counters!Terminal.sets /\ hal.arm = {} /\ ~hal.set
               /\ \E v \in Presets : Counters!Put([hal EXCEPT !.set = TRUE, !.setval = v], {"set"})
        PROVE  Goal
    BY <1>7, <2>4
  <2>5. ASSUME Counters!Put([hal EXCEPT !.reset = ~@], {}) PROVE Goal
    BY <1>9, <2>5
  <2>6. ASSUME Counters!Terminal.abs /\ Counters!Put([hal EXCEPT !.abs = ~@], {}) PROVE Goal
    BY <1>10, <2>6
  <2>7. ASSUME device = "EL5152" /\ Counters!Put([hal EXCEPT !.index = ~@], {}) PROVE Goal
    BY <1>13, <2>7
  <2>8. ASSUME Counters!Put([hal EXCEPT !.ctl = ~@], {}) PROVE Goal
    BY <1>11, <2>8
  <2>9. ASSUME \E x \in CountScales : Counters!Put([hal EXCEPT !.scale = x], {}) PROVE Goal
    BY <1>12, <2>9
  <2> QED
    BY <2>1, <2>2, <2>3, <2>4, <2>5, <2>6, <2>7, <2>8, <2>9 DEF Counters!User
<1>15. CountType'
  BY <1>1, <1>14 DEF PinGoal, PlcGoal, PlcType, CountType
<1>16. /\ Counters!Valid({}) = {} /\ Counters!Valid(hal.arm)' = Counters!Valid(hal'.arm)
       /\ \A a : "set" \notin Counters!Valid(a) /\ "index" \notin Counters!Valid(a)
  BY DEF Counters!Valid
<1>17. Kept'
  <2>1. device # "EP5101" /\ hal'.arm # {} => ~hal'.set
    <3>1. device # "EP5101" /\ hal.arm # {} => ~hal.set
      BY <1>1 DEF Kept
    <3> QED
      BY <1>14, <3>1 DEF Same2, Armed, Given, Asked, Indexed
  <2>2. Counters!Ctr(env.base + env.at)' = Counters!Ctr(env.base + env.at)
    BY <1>1, <1>14, SameCounter DEF PlcGoal
  <2> QED
    BY <1>1, <2>1, <2>2 DEF Kept
<1>18. Awaited'
  <2>1. CASE Same2 \/ Given
    BY <1>1, <1>16, <2>1 DEF Awaited, Same2, Given, Fresh
  <2>2. CASE Armed
    <3>1. PICK a \in Counters!ArmChoices :
            /\ hal'.arm = a /\ hal'.set = hal.set /\ hal'.index = hal.index
            /\ Fresh(Counters!Valid(a) \cup {"index"})
      BY <2>2 DEF Armed
    <3>2. ~hal.set
      BY <2>2 DEF Armed
    <3>3. device = "EL5152" => a \subseteq {"index"}
      BY DEF Counters!ArmChoices, Counters!Terminal, Counters!Terminals, Counters!EL5152
    <3>4. in.valid \cap Counters!Valid(a) \subseteq Answers'
      BY <3>1 DEF Fresh, Counters!Standing
    <3>5. hal.index /\ ~drv.edge => "index" \in Answers'
      BY <3>1 DEF Fresh, Counters!Standing, Counters!When
    <3> QED
      BY <1>1, <1>16, <3>1, <3>2, <3>3, <3>4, <3>5 DEF Awaited
  <2>3. CASE Asked
    <3>1. in.done => "set" \in Answers'
      BY <2>3 DEF Asked, Fresh, Counters!Standing, Counters!When
    <3> QED
      BY <1>1, <1>16, <2>3, <3>1 DEF Awaited, Asked
  <2>4. CASE Indexed
    BY <1>1, <1>16, <2>4 DEF Awaited, Indexed, Fresh
  <2> QED
    BY <1>14, <2>1, <2>2, <2>3, <2>4
<1>19. /\ Scaling' /\ Counted' /\ (device # "EP5101" => Follows')
       /\ (device = "EP5101" => FollowsPreset') /\ Counters!CountIsTravel'
  <2>1. /\ hal'.count = hal.count /\ (hal'.abs = hal.abs \/ device # "EP5101")
        /\ env'.pos = env.pos /\ env'.zero = env.zero /\ env'.base = env.base
    BY <1>14 DEF PinGoal, PlcGoal
  <2> HIDE DEF Goal
  <2> QED
    BY <1>1, <2>1, CountQuietStep
<1> QED
  BY <1>1, <1>15, <1>17, <1>18, <1>19 DEF CountInv

(* What an exchange does to the count, in one place.                       *)
LEMMA CountBusStep ==
  ASSUME CountInv, Counters!Bus
  PROVE  CountInv'
<1>1. /\ phase = "bus" /\ phase' = "read" /\ device' = device /\ up' \in BOOLEAN
      /\ hal' = hal /\ drv' = drv /\ out' = out
      /\ CountType /\ Kept /\ Awaited /\ Scaling /\ Counted /\ device \in Counting
  BY DEF Counters!Bus, Counters!Turn, CountInv, CountType
<1>2. PICK d \in Steps, done \in {in.done /\ out.set /\ up', out.set /\ up'} :
       LET pos == env.pos + d
           kept == IF up' THEN in.valid \cap Counters!Valid(out.arm) ELSE {}
           sets == done /\ ~in.done
           base == IF sets THEN out.val - pos ELSE env.base
           zero == (env.zero + Counters!Unseen(d, up', done, Counters!Ctr(base + pos) - Counters!Ctr(env.base + pos))) % CountM64
       IN  /\ pos \in Reach
           /\ \E e \in (IF up' /\ Counters!Caught(kept, d) # {} THEN Counters!Caught(kept, d)
                        ELSE {[kind |-> "none", at |-> env.at]}) :
                /\ env' = [pos |-> pos, base |-> base % CountM64, at |-> e.at, zero |-> zero,
                           left |-> env.left,
                           met |-> env.met \cup Counters!Valid({e.kind}) \cup Counters!When(sets, "set"),
                           stale |-> env.stale \cap (kept \cup Counters!When(done, "set")
                                                         \cup Counters!When(hal.index, "index"))]
                /\ in' = [ctr |-> Counters!Ctr(base + pos),
                          valid |-> kept \cup Counters!Valid({e.kind}),
                          latch |-> CASE e.kind # "none" -> Counters!Ctr(base + e.at)
                                      [] e.kind = "none" /\ kept # {} -> in.latch
                                      [] OTHER -> 0,
                          done |-> done]
  BY DEF Counters!Bus
<1> DEFINE pos == env.pos + d
           kept == IF up' THEN in.valid \cap Counters!Valid(out.arm) ELSE {}
           sets == done /\ ~in.done
           base == IF sets THEN out.val - pos ELSE env.base
           shift == Counters!Ctr(base + pos) - Counters!Ctr(env.base + pos)
           unseen == Counters!Unseen(d, up', done, shift)
           zero == (env.zero + unseen) % CountM64
<1>3. PICK e \in (IF up' /\ Counters!Caught(kept, d) # {} THEN Counters!Caught(kept, d)
                  ELSE {[kind |-> "none", at |-> env.at]}) :
                /\ env' = [pos |-> pos, base |-> base % CountM64, at |-> e.at, zero |-> zero,
                           left |-> env.left,
                           met |-> env.met \cup Counters!Valid({e.kind}) \cup Counters!When(sets, "set"),
                           stale |-> env.stale \cap (kept \cup Counters!When(done, "set")
                                                         \cup Counters!When(hal.index, "index"))]
                /\ in' = [ctr |-> Counters!Ctr(base + pos),
                          valid |-> kept \cup Counters!Valid({e.kind}),
                          latch |-> CASE e.kind # "none" -> Counters!Ctr(base + e.at)
                                      [] e.kind = "none" /\ kept # {} -> in.latch
                                      [] OTHER -> 0,
                          done |-> done]
  BY <1>2
<1>4. /\ env.pos \in Int /\ env.base \in Int /\ env.at \in Int /\ env.zero \in Int /\ env.left \in Int
      /\ out.val \in Int /\ out.set \in BOOLEAN /\ in.done \in BOOLEAN /\ in.latch \in Int
      /\ hal.count \in Int /\ drv.accum \in Int
  BY <1>1 DEF CountType
<1>5. d \in Small /\ d \in Int /\ done \in BOOLEAN /\ (done => out.set /\ up')
  <2>1. d \in Small /\ d \in Int
    BY <1>1, SmallMoves
  <2> QED
    BY <1>1, <1>4, <2>1
<1>6. pos \in Int /\ base \in Int /\ (~done => base = env.base) /\ (sets <=> done /\ ~in.done) /\ pos = env.pos + d
  BY <1>4, <1>5
<1> HIDE DEF pos, base, sets
<1>7. e.kind = "none" \/ e \in Counters!Caught(kept, d)
  BY <1>3
<1>8. ASSUME e \in Counters!Caught(kept, d)
      PROVE  up' /\ e.kind \in out.arm /\ e.kind # "none" /\ e.at \in Int
  <2>1. e.kind \in out.arm /\ e.kind \in {"c", "pos", "neg"} /\ e.at \in Counters!Path(d)
    BY <1>8 DEF Counters!Caught, Counters!Edges, Counters!Marks
  <2>2. PICK k \in -3..3 : e.at = env.pos + k
    BY <2>1 DEF Counters!Path
  <2> QED
    BY <1>3, <1>4, <2>1, <2>2
<1>9. /\ e.at \in Int
      /\ e.kind = "none" => Counters!Valid({e.kind}) = {}
  <2>1. e = [kind |-> "none", at |-> env.at] \/ e \in Counters!Caught(kept, d)
    BY <1>3
  <2>2. e.at \in Int
    BY <1>4, <1>8, <2>1
  <2>3. Counters!Valid({"none"}) = {}
    BY DEF Counters!Valid
  <2> QED
    BY <2>2, <2>3
<1>10. /\ shift \in Int /\ Counters!Ctr(base + pos) \in Int /\ Counters!Ctr(base + e.at) \in Int
       /\ base % CountM64 \in Int /\ Counters!Ctr(base + pos) = Counters!Ctr((base % CountM64) + pos)
       /\ Counters!Ctr(base + e.at) = Counters!Ctr((base % CountM64) + e.at)
       /\ Counters!Ctr(env.base + env.pos) \in Int
       /\ Same(Counters!Ctr(env.base + pos) - Counters!Ctr(env.base + env.pos), d, Counters!Terminal.ctr)
  <2>1. /\ base + pos \in Int /\ env.base + pos \in Int /\ base + e.at \in Int /\ env.base + env.pos \in Int
        /\ (env.base + pos) - (env.base + env.pos) = d
    BY <1>4, <1>5, <1>6, <1>9
  <2>2. \A a, b \in Int : /\ Counters!Ctr(a) \in Int
                          /\ Same(Counters!Ctr(a) - Counters!Ctr(b), a - b, Counters!Terminal.ctr)
    BY <1>1, CounterShows
  <2>3. /\ base % CountM64 \in Int /\ Counters!Ctr((base % CountM64) + pos) = Counters!Ctr(base + pos)
        /\ Counters!Ctr((base % CountM64) + e.at) = Counters!Ctr(base + e.at)
    BY <1>1, <1>6, <1>9, CounterWraps
  <2>4. Counters!Ctr(base + pos) \in Int /\ Counters!Ctr(base + e.at) \in Int
    BY <2>1, <2>2
  <2>5. /\ Counters!Ctr(env.base + env.pos) \in Int /\ Counters!Ctr(env.base + pos) \in Int
        /\ Same(Counters!Ctr(env.base + pos) - Counters!Ctr(env.base + env.pos), d, Counters!Terminal.ctr)
    BY <2>1, <2>2
  <2>6. shift \in Int
    BY <2>4, <2>5
  <2> QED
    BY <2>3, <2>4, <2>5, <2>6
<1> HIDE DEF shift
<1>11. unseen \in Int /\ zero \in Int /\ Same(zero, env.zero + unseen, CountM32)
  <2>1. unseen \in Int
    BY <1>5, <1>10 DEF Counters!Unseen
  <2>2. env.zero + unseen \in Int
    BY <1>4, <2>1
  <2>3. zero \in Int /\ Same(zero, env.zero + unseen, CountM64)
    BY <2>2, CountWidths, SameRemainder
  <2> HIDE DEF zero, unseen
  <2> QED
    BY <2>1, <2>2, <2>3, CountWidths, SameCoarse
<1>12. /\ device = "EP5101" => unseen = -shift
       /\ device # "EP5101" /\ (~up' \/ ~drv.op \/ done) => unseen = d
       /\ device # "EP5101" /\ ~(~up' \/ ~drv.op \/ done) => unseen = 0
  <2>1. device = "EP5101" => unseen = -shift
    BY DEF Counters!Unseen
  <2>2. ASSUME device # "EP5101", ~up' \/ ~drv.op \/ done PROVE unseen = d
    BY <2>2 DEF Counters!Unseen
  <2>3. ASSUME device # "EP5101", ~(~up' \/ ~drv.op \/ done) PROVE unseen = 0
    BY <2>3 DEF Counters!Unseen
  <2> HIDE DEF unseen
  <2> QED
    BY <2>1, <2>2, <2>3
<1> HIDE DEF zero, unseen
<1> DEFINE latch == CASE e.kind # "none" -> Counters!Ctr(base + e.at)
                      [] e.kind = "none" /\ kept # {} -> in.latch
                      [] OTHER -> 0
           ctr == Counters!Ctr(base + pos)
           valid == kept \cup Counters!Valid({e.kind})
           met == env.met \cup Counters!Valid({e.kind}) \cup Counters!When(sets, "set")
           stale == env.stale \cap (kept \cup Counters!When(done, "set") \cup Counters!When(hal.index, "index"))
           base64 == base % CountM64
<1>13. /\ latch \in Int /\ (e.kind # "none" => latch = Counters!Ctr(base + e.at))
       /\ e.kind = "none" /\ kept # {} => latch = in.latch
  BY <1>4, <1>10
<1> HIDE DEF latch
<1>14. /\ env' = [pos |-> pos, base |-> base64, at |-> e.at, zero |-> zero, left |-> env.left, met |-> met, stale |-> stale]
       /\ in' = [ctr |-> ctr, valid |-> valid, latch |-> latch, done |-> done]
  BY <1>3 DEF latch
<1>15. /\ base64 \in Int /\ ctr \in Int /\ ctr = Counters!Ctr(base64 + pos)
       /\ Counters!Ctr(base + e.at) = Counters!Ctr(base64 + e.at)
       /\ valid = kept \cup Counters!Valid({e.kind}) /\ kept \subseteq in.valid
       /\ kept # {} => out.arm # {}
       /\ env.met \subseteq met /\ Counters!Valid({e.kind}) \subseteq met
       /\ env.stale \cap kept \subseteq stale
       /\ done /\ ~in.done => "set" \in met
       /\ done /\ "set" \in env.stale => "set" \in stale
       /\ hal.index /\ "index" \in env.stale => "index" \in stale
  BY <1>6, <1>10 DEF Counters!When, Counters!Valid
<1> HIDE DEF kept, ctr, base64, met, stale, valid
<1>16. /\ env'.pos = pos /\ env'.base = base64 /\ env'.at = e.at /\ env'.zero = zero
       /\ env'.left = env.left /\ env'.met = met /\ env'.stale = stale
       /\ env' = [pos |-> env'.pos, base |-> env'.base, at |-> env'.at, zero |-> env'.zero,
                  met |-> env'.met, stale |-> env'.stale, left |-> env'.left]
       /\ in'.ctr = ctr /\ in'.valid = valid /\ in'.latch = latch /\ in'.done = done
       /\ in' = [ctr |-> in'.ctr, latch |-> in'.latch, valid |-> in'.valid, done |-> in'.done]
  BY <1>14
<1>17. CountType'
  BY <1>1, <1>4, <1>5, <1>6, <1>9, <1>11, <1>13, <1>15, <1>16 DEF CountType
<1>18. /\ ~up' => valid = {}
       /\ device \in Unlatched => valid = {}
  <2>1. ~up' => kept = {}
    BY DEF kept
  <2>2. device \in Unlatched => out.arm = {} /\ in.valid = {}
    BY <1>1 DEF Kept
  <2> QED
    BY <1>7, <1>8, <1>9, <1>15, <2>1, <2>2
<1>19. Kept'
  <2>1. ASSUME device # "EP5101", valid # {} PROVE latch = Counters!Ctr(base64 + e.at)
    <3>1. CASE e.kind # "none"
      BY <1>13, <1>15, <3>1
    <3>2. CASE e.kind = "none"
      <4>1. kept # {} /\ in.valid # {} /\ out.arm # {}
        BY <1>9, <1>15, <2>1, <3>2
      <4>2. in.latch = Counters!Ctr(env.base + env.at) /\ ~out.set
        BY <1>1, <2>1, <4>1 DEF Kept
      <4>3. base = env.base
        BY <1>5, <1>6, <4>2
      <4>4. e = [kind |-> "none", at |-> env.at]
        BY <1>3, <1>8, <3>2
      <4>5. e.at = env.at
        BY <4>4
      <4> QED
        BY <1>13, <1>15, <3>2, <4>1, <4>2, <4>3, <4>5
    <3> QED
      BY <3>1, <3>2
  <2>2. Counters!Ctr(env.base + env.at)' = Counters!Ctr(base64 + e.at)
    BY <1>1, <1>16 DEF Counters!Ctr, Counters!Terminal
  <2>3. device \in Absolute => ~done
    BY <1>1, <1>5 DEF Kept
  <2> QED
    BY <1>1, <1>16, <1>18, <2>1, <2>2, <2>3 DEF Kept
<1>20. Awaited'
  <2>1. Answers' = met \cup stale /\ Counters!Valid(hal.arm)' = Counters!Valid(hal.arm)
    BY <1>1, <1>16 DEF Answers, Counters!Valid
  <2>2. valid \cap Counters!Valid(hal.arm) \subseteq met \cup stale
    BY <1>1, <1>15 DEF Awaited, Answers
  <2>3. hal.set /\ done => "set" \in met \cup stale
    BY <1>1, <1>5, <1>15 DEF Awaited, Answers
  <2>4. hal.index /\ ~drv.edge /\ "index" \in hal.arm => "index" \in met \cup stale
    BY <1>1, <1>15 DEF Awaited, Answers
  <2> QED
    BY <1>1, <1>16, <2>1, <2>2, <2>3, <2>4 DEF Awaited
<1>21. Scaling' /\ Counted'
  <2>1. Seen' = Counters!Ctr(base64 + pos)
    BY <1>1, <1>16 DEF Seen, Counters!Ctr, Counters!Terminal
  <2> QED
    BY <1>1, <1>15, <1>16, <2>1 DEF Scaling, Counted
<1>22. Counters!CountIsTravel'
  BY <1>1 DEF Counters!CountIsTravel
<1>23. Counters!Terminal' = Counters!Terminal
  BY <1>1 DEF Counters!Terminal
<1>24. Same(pos - (env.zero + unseen), pos - zero, CountM32)
  <2>1. env.zero + unseen \in Int /\ Same(pos, pos, CountM32)
    BY <1>4, <1>6, <1>11, CountWidths, SameReflexive
  <2>2. Same(env.zero + unseen, zero, CountM32)
    BY <1>11, <2>1, CountWidths, SameSymmetric
  <2> QED
    BY <1>6, <1>11, <2>1, <2>2, CountWidths, SameSum
<1>25. ASSUME device # "EP5101" PROVE Follows'
  <2>1. Follows /\ (drv.op => ~drv.first /\ drv.last = Counters!Ctr(env.base + env.pos))
    BY <1>1, <1>25 DEF CountInv, Counted, Seen
  <2>2. ASSUME ~drv.first PROVE Same(hal.count, env.pos - env.zero, CountM32)
    BY <1>1, <2>1, <2>2 DEF Follows, Travel
  <2>3. ASSUME ~drv.first, ~(up' /\ drv.op /\ ~done) PROVE Same(hal.count, pos - zero, CountM32)
    <3>1. unseen = d /\ pos - (env.zero + unseen) = env.pos - env.zero
      BY <1>4, <1>5, <1>6, <1>12, <1>25, <2>3
    <3>2. Same(pos - (env.zero + unseen), pos - zero, CountM32)
      BY <1>24
    <3> QED
      BY <1>4, <1>6, <1>11, <2>2, <2>3, <3>1, <3>2, CountWidths, SameTransitive
  <2>4. ASSUME up', drv.op, ~done
        PROVE  Same(ctr - drv.last, d, Counters!Terminal.ctr) /\ Same(hal.count + d, pos - zero, CountM32)
    <3>1. base = env.base /\ drv.last = Counters!Ctr(env.base + env.pos) /\ ctr = Counters!Ctr(env.base + pos)
      BY <1>6, <2>1, <2>4 DEF ctr
    <3>2. Same(ctr - drv.last, d, Counters!Terminal.ctr)
      BY <1>10, <3>1
    <3>3. unseen = 0 /\ pos - (env.zero + unseen) = env.pos - env.zero + d
      BY <1>4, <1>5, <1>6, <1>12, <1>25, <2>4
    <3>4. Same(hal.count + d, env.pos - env.zero + d, CountM32)
      <4>1. Same(hal.count, env.pos - env.zero, CountM32) /\ Same(d, d, CountM32) /\ env.pos - env.zero \in Int
        BY <1>4, <1>5, <2>1, <2>2, <2>4, CountWidths, SameReflexive
      <4> QED
        BY <1>4, <1>5, <4>1, CountWidths, SameSum
    <3>5. Same(pos - (env.zero + unseen), pos - zero, CountM32)
      BY <1>24
    <3>6. hal.count + d \in Int /\ env.pos - env.zero + d \in Int /\ pos - zero \in Int
      BY <1>4, <1>5, <1>6, <1>11
    <3>7. Same(hal.count + d, pos - zero, CountM32)
      BY <3>3, <3>4, <3>5, <3>6, CountWidths, SameTransitive
    <3> QED
      BY <3>2, <3>7
  <2>5. /\ drv'.first = drv.first /\ drv'.op = drv.op /\ drv'.last = drv.last /\ hal'.count = hal.count
        /\ Travel' = pos - zero
    BY <1>1, <1>16 DEF Travel
  <2>6. ~drv'.first /\ ~(phase' = "read" /\ up' /\ drv'.op /\ ~in'.done) => Same(hal'.count, Travel', CountM32)
    BY <1>1, <1>16, <2>3, <2>5
  <2>7. phase' = "read" /\ up' /\ drv'.op /\ ~in'.done =>
          \E t \in Small : /\ Same(in'.ctr - drv'.last, t, Counters!Terminal'.ctr)
                           /\ Same(hal'.count + t, Travel', CountM32)
    BY <1>5, <1>16, <1>23, <2>4, <2>5
  <2> QED
    BY <1>23, <2>6, <2>7 DEF Follows, Small, SignedRange, Same
<1>26. ASSUME device = "EP5101" PROVE FollowsPreset'
  <2>1. FollowsPreset
    BY <1>26 DEF CountInv
  <2>2. ASSUME up', drv.op PROVE Same(drv.accum + (ctr - drv.last), pos - zero, CountM32)
    <3> DEFINE seen == Counters!Ctr(env.base + env.pos)
               moved == Counters!Ctr(env.base + pos)
    <3>1. /\ drv.last = seen /\ Same(drv.accum, env.pos - env.zero, CountM32)
          /\ Same(moved - seen, d, CountM32)
          /\ shift = ctr - moved /\ unseen = -shift
      <4>1. drv.last = seen /\ Same(drv.accum, env.pos - env.zero, CountM32)
        BY <1>1, <2>1, <2>2 DEF FollowsPreset, Counted, Seen, Travel
      <4>2. Same(moved - seen, d, CountM32)
        BY <1>1, <1>10, <1>26, CounterWidth
      <4>3. shift = ctr - moved
        BY DEF shift, ctr
      <4> QED
        BY <1>12, <1>26, <4>1, <4>2, <4>3
    <3>2. seen \in Int /\ moved \in Int /\ ctr \in Int
      <4>1. env.base + pos \in Int
        BY <1>4, <1>6
      <4> QED
        BY <1>1, <1>10, <1>15, <4>1, CounterShows
    <3> HIDE DEF seen, moved
    <3>3. Same(drv.accum + (ctr - seen), (env.pos - env.zero) + (ctr - seen), CountM32)
      <4>1. ctr - seen \in Int /\ env.pos - env.zero \in Int
        BY <1>4, <3>2
      <4>2. Same(ctr - seen, ctr - seen, CountM32)
        BY <4>1, CountWidths, SameReflexive
      <4> HIDE DEF ctr
      <4> QED
        BY <1>4, <3>1, <4>1, <4>2, CountWidths, SameSum
    <3>4. Same((env.pos - env.zero) + (ctr - seen), pos - (env.zero + unseen), CountM32)
      <4> DEFINE rest == (env.pos - env.zero) + (ctr - moved)
      <4>1. /\ rest \in Int /\ rest + (moved - seen) = (env.pos - env.zero) + (ctr - seen)
            /\ rest + d = pos - (env.zero + unseen) /\ moved - seen \in Int
        BY <1>4, <1>5, <1>6, <3>1, <3>2
      <4> HIDE DEF rest
      <4>2. Same(rest, rest, CountM32)
        BY <4>1, CountWidths, SameReflexive
      <4>3. Same(rest + (moved - seen), rest + d, CountM32)
        BY <1>5, <3>1, <4>1, <4>2, CountWidths, SameSum
      <4> QED
        BY <4>1, <4>3
    <3>5. Same(pos - (env.zero + unseen), pos - zero, CountM32)
      BY <1>24
    <3>6. /\ drv.accum + (ctr - seen) \in Int /\ (env.pos - env.zero) + (ctr - seen) \in Int
          /\ pos - (env.zero + unseen) \in Int /\ pos - zero \in Int
      BY <1>4, <1>6, <1>11, <3>2
    <3>7. Same(drv.accum + (ctr - seen), pos - (env.zero + unseen), CountM32)
      BY <3>3, <3>4, <3>6, CountWidths, SameTransitive
    <3>8. Same(drv.accum + (ctr - seen), pos - zero, CountM32)
      BY <3>5, <3>6, <3>7, CountWidths, SameTransitive
    <3> QED
      BY <3>1, <3>8
  <2> QED
    BY <1>1, <1>16, <2>1, <2>2 DEF FollowsPreset, Travel
<1> QED
  BY <1>1, <1>17, <1>19, <1>20, <1>21, <1>22, <1>25, <1>26 DEF CountInv

(* So each step of a counter keeps the invariant and meets requests.       *)
LEMMA CountStep ==
  ASSUME CountInv, [Counters!Next]_slaveVars
  PROVE  CountInv' /\ Counters!TakenBackWhenMet
<1>1. CASE Counters!Bus
  <2>1. phase # "read"
    BY <1>1 DEF Counters!Bus, Counters!Turn
  <2> QED
    BY <1>1, <2>1, CountBusStep DEF Counters!TakenBackWhenMet
<1>2. CASE Counters!Read
  BY <1>2, CountReadStep
<1>3. CASE Counters!User
  <2>1. phase # "read"
    BY <1>3 DEF Counters!User, Counters!Turn
  <2> QED
    BY <1>3, <2>1, CountUserStep DEF Counters!TakenBackWhenMet
<1>4. CASE Counters!Write
  <2>1. phase # "read"
    BY <1>4 DEF Counters!Write, Counters!Turn
  <2> QED
    BY <1>4, <2>1, CountWriteStep DEF Counters!TakenBackWhenMet
<1>5. CASE UNCHANGED slaveVars
  <2>1. /\ device' = device /\ phase' = phase /\ up' = up /\ hal' = hal /\ drv' = drv
        /\ in' = in /\ out' = out /\ env' = env
    BY <1>5 DEF slaveVars
  <2>2. CountType' /\ Kept' /\ Awaited' /\ Scaling' /\ Counted'
    BY <2>1 DEF CountInv, CountType, Kept, Awaited, Answers, Scaling, Counted, Seen, Counters!Ctr,
                Counters!Terminal, Counters!Valid
  <2>3. (device # "EP5101" => Follows)' /\ (device = "EP5101" => FollowsPreset)'
    BY <2>1 DEF CountInv, Follows, FollowsPreset, Travel, Small, Counters!Terminal
  <2>4. Counters!CountIsTravel'
    BY <2>1 DEF CountInv, Counters!CountIsTravel
  <2>5. Counters!TakenBackWhenMet
    BY <2>1 DEF Counters!TakenBackWhenMet
  <2> QED
    BY <2>2, <2>3, <2>4, <2>5 DEF CountInv
<1> QED
  BY <1>1, <1>2, <1>3, <1>4, <1>5 DEF Counters!Next

---------------------------------------------------------------------------
(* The encoders.                                                           *)
(* What the encoders are made of.                                          *)
EncRaw == Encoders!Drives[device].raw
EncType ==
  /\ phase \in {"bus", "read", "user", "write"} /\ up \in BOOLEAN /\ device \in Encoders!Encoding
  /\ hal = [ext |-> hal.ext, ref |-> hal.ref, home |-> hal.home, index |-> hal.index, reset |-> hal.reset,
            pos |-> hal.pos, arm |-> hal.arm, valid |-> hal.valid]
  /\ hal.ext \in Int /\ hal.ref \in Int /\ hal.home \in Homes /\ hal.pos \in Int
  /\ hal.index \in BOOLEAN /\ hal.reset \in BOOLEAN /\ hal.arm \in BOOLEAN /\ hal.valid \in BOOLEAN
  /\ drv = [init |-> drv.init, raw |-> drv.raw, sign |-> drv.sign]
  /\ drv.init \in BOOLEAN /\ drv.raw \in Int /\ drv.sign \in {-1, 0, 1}
  /\ in = [raw |-> in.raw, valid |-> in.valid, latch |-> in.latch]
  /\ in.raw \in Int /\ in.valid \in BOOLEAN /\ in.latch \in Int
  /\ out = [arm |-> out.arm] /\ out.arm \in BOOLEAN
  /\ env = [pos |-> env.pos, seen |-> env.seen, base |-> env.base, zero |-> env.zero, at |-> env.at,
            met |-> env.met, left |-> env.left]
  /\ env.pos \in EncReach /\ env.seen \in EncReach /\ env.at \in EncReach
  /\ env.base \in Int /\ env.zero \in Int /\ env.left \in Int

(* The image shows the position that was seen, and so does the latch while *)
(* it is valid.                                                            *)
Imaged ==
  /\ Same(in.raw, env.seen + env.base, EncRaw)
  /\ in.valid => /\ Same(in.latch, env.at + env.base, EncRaw) /\ env.at = env.seen
                 /\ "latch" \in env.met
  /\ phase = "read" /\ up => env.seen = env.pos
  /\ device # "Ph3LM2RM" => ~out.arm /\ ~in.valid
  /\ device = "Ph3LM2RM" /\ phase = "user" => hal.valid = in.valid

(* A latch that is valid is no longer armed.                               *)
Unarmed ==
  in.valid => /\ phase \in {"user", "write"} => ~hal.arm
              /\ phase = "bus" => ~out.arm

(* The extended count is the place where the axis was at the last read, and *)
(* before the next one not half a counter behind.                          *)
Extended ==
  ~drv.init => /\ Same(drv.raw, hal.ext, EncRaw)
               /\ env.seen + env.base - hal.ext \in SignedRange(EncRaw)
               /\ phase # "read" \/ ~up => hal.ext = env.seen + env.base
               /\ hal.ref = Encoders!Turned(env.zero) /\ hal.pos = hal.ext - hal.home - hal.ref

(* What is not divided exactly does not leave the numbers of 64 bits.      *)
Contained ==
  device = "DeASDA" => IF drv.init THEN hal.ext = 0
                                   ELSE \A r \in EncReach : Encoders!Turned(r) < EncM64

(* The side of the mark where the axis was is the side where it is, if it  *)
(* has passed neither the mark nor the middle between two, and its place   *)
(* is divided exactly.                                                     *)
SideOf(turned) == IF turned % Encoders!pprev > Encoders!pprev \div 2 THEN -1 ELSE 1
Lost == EncM64 % Encoders!pprev # 0 /\ Encoders!Turned(env.pos) < 0
Passing == {"index", "half", "astray"}
Sided ==
  /\ ~drv.init /\ drv.sign # 0 =>
       /\ Encoders!Window > 0
       /\ \/ env.met \cap Passing # {} \/ Lost
          \/ drv.sign = SideOf(Encoders!Turned(env.pos))
  /\ phase = "read" /\ Encoders!Window = 0 => "index" \in env.met
  /\ phase = "read" /\ Encoders!Window > 0 /\ Lost => "astray" \in env.met

EncInv == EncType /\ Imaged /\ Unarmed /\ Extended /\ Contained /\ Sided /\ Encoders!PositionIsTravel

(* The widths of the counters of encoders, and what is counted in them.    *)
LEMMA EncWidths ==
  ASSUME device \in Encoders!Encoding
  PROVE  /\ EncRaw \in Nat \ {0} /\ EncRaw % 2 = 0
         /\ 0 \in SignedRange(EncRaw)
         /\ \A h \in Homes : h \in Int /\ -h \in SignedRange(EncRaw)
         /\ EncM32 \in Nat \ {0} /\ EncM32 % 2 = 0 /\ EncM24 \div 2 <= EncM32 \div 2
         /\ EncM64 \in Nat \ {0} /\ 2 * EncM32 <= EncM64
<1>1. /\ EncM24 \in Nat \ {0} /\ EncM32 \in Nat \ {0} /\ EncM64 \in Nat \ {0} /\ 2 \in Nat \ {0}
      /\ EncM24 % 2 = 0 /\ EncM32 % EncM24 = 0 /\ EncM64 % EncM32 = 0 /\ EncM32 < EncM64
  BY EncAssumption
<1>2. EncM32 % 2 = 0
  BY <1>1, DividesTransitive
<1>3. \A m, n \in Nat \ {0} : n % m = 0 => \E k \in Nat \ {0} : n = k * m
  <2>1. SUFFICES ASSUME NEW m \in Nat \ {0}, NEW n \in Nat \ {0}, n % m = 0
                 PROVE  \E k \in Nat \ {0} : n = k * m
    OBVIOUS
  <2>2. n \div m \in Int /\ n = (n \div m) * m
    BY <2>1
  <2>3. n \div m > 0
    BY <2>2
  <2> QED
    BY <2>2, <2>3
<1>4. EncM24 <= EncM32
  <2>1. PICK k \in Nat \ {0} : EncM32 = k * EncM24
    BY <1>1, <1>3
  <2> QED
    BY <1>1, <2>1
<1>5. 2 * EncM32 <= EncM64
  <2>1. PICK k \in Nat \ {0} : EncM64 = k * EncM32
    BY <1>1, <1>3
  <2>2. k >= 2
    BY <1>1, <2>1
  <2> QED
    BY <1>1, <2>1, <2>2
<1>6. EncM24 = 2 * (EncM24 \div 2) /\ EncM32 = 2 * (EncM32 \div 2) /\ EncM24 \div 2 \in Nat \ {0}
      /\ EncM32 \div 2 \in Nat \ {0}
  BY <1>1, <1>2, Halves
<1>7. EncRaw \in {EncM24, EncM32}
  BY DEF EncRaw, Encoders!Drives, Encoders!Encoding, Encoders!StMDS5k, Encoders!EL7211, Encoders!AX5,
         Encoders!DeASDA, Encoders!DeASDA3, Encoders!ExtEnc, Encoders!Ph3LM2RM
<1>8. EncM24 \div 2 <= EncM32 \div 2 /\ EncM24 \div 2 <= EncRaw \div 2
  BY <1>4, <1>6, <1>7
<1>9. EncRaw \in Nat \ {0} /\ EncRaw % 2 = 0
  BY <1>1, <1>2, <1>7
<1> DEFINE h == EncM24 \div 2
           w == EncRaw \div 2
<1>10. h \in Nat \ {0} /\ w \in Nat \ {0} /\ h <= w /\ SignedRange(EncRaw) = -w..w - 1
  BY <1>6, <1>8, <1>9, Halves DEF SignedRange
<1>11. Homes \subseteq -h + 1..h
  BY EncAssumption
<1> HIDE DEF h, w
<1>12. 0 \in SignedRange(EncRaw)
  BY <1>10
<1>13. ASSUME NEW x \in Homes PROVE x \in Int /\ -x \in SignedRange(EncRaw)
  <2>1. x \in -h + 1..h
    BY <1>11
  <2>2. x \in Int /\ -x \in -w..w - 1
    BY <1>10, <2>1
  <2> QED
    BY <1>10, <2>2
<1> QED
  BY <1>1, <1>2, <1>5, <1>8, <1>9, <1>12, <1>13

(* The pulses per revolution divide the numbers of 64 bits, with one       *)
(* exception.                                                              *)
LEMMA EncPulses ==
  ASSUME device \in Encoders!Encoding
  PROVE  /\ Encoders!pprev \in Nat
         /\ device # "DeASDA" /\ Encoders!pprev > 0 => EncM64 % Encoders!pprev = 0
         /\ device = "DeASDA" => EncRaw = EncM32 /\ Encoders!pprev = 6
         /\ device = "Ph3LM2RM" => Encoders!pprev = 0
<1>1. /\ EncM24 \in Nat \ {0} /\ EncM32 \in Nat \ {0} /\ EncM64 \in Nat \ {0}
      /\ EncM32 % EncM24 = 0 /\ EncM64 % EncM32 = 0 /\ EncM32 % 2 = 0
  BY EncAssumption, EncWidths
<1>2. EncM64 % EncM24 = 0
  BY <1>1, DividesTransitive
<1>3. EncM32 \div 2 \in Nat \ {0} /\ EncM32 = 2 * (EncM32 \div 2)
  BY <1>1, Halves
<1>4. EncM32 % (EncM32 \div 2) = 0
  <2> DEFINE h == EncM32 \div 2
  <2>1. h \in Nat \ {0} /\ EncM32 = 2 * h
    BY <1>3
  <2> HIDE DEF h
  <2>2. EncM32 % h = 0
    BY <2>1
  <2> QED
    BY <2>2 DEF h
<1>5. EncM64 % (EncM32 \div 2) = 0
  BY <1>1, <1>3, <1>4, DividesTransitive
<1>6. EncM64 % 1 = 0
  BY <1>1
<1>7. /\ device \in {"EL7211", "AX5", "DeASDA3"} => Encoders!pprev = EncM32 \div 2
      /\ device = "StMDS5k" => Encoders!pprev = EncM24
      /\ device = "DeASDA" => EncRaw = EncM32 /\ Encoders!pprev = 6
      /\ device = "DeASDA extenc" => Encoders!pprev = 1
      /\ device = "Ph3LM2RM" => Encoders!pprev = 0
  BY DEF EncRaw, Encoders!pprev, Encoders!Drives, Encoders!Encoding, Encoders!StMDS5k, Encoders!EL7211,
         Encoders!AX5, Encoders!DeASDA, Encoders!DeASDA3, Encoders!ExtEnc, Encoders!Ph3LM2RM
<1> DEFINE P == Encoders!pprev
           h == EncM32 \div 2
<1>8. P \in {h, EncM24, 1, 0} \/ (device = "DeASDA" /\ P = 6)
  <2> HIDE DEF P, h
  <2> QED
    BY <1>7 DEF Encoders!Encoding, P, h
<1>9. P \in Nat /\ (device # "DeASDA" /\ P > 0 => EncM64 % P = 0)
  <2>1. h \in Nat /\ EncM64 % h = 0
    BY <1>3, <1>5
  <2> HIDE DEF P, h
  <2>2. CASE P = h
    BY <2>1, <2>2
  <2>3. CASE P = EncM24
    BY <1>1, <1>2, <2>3
  <2>4. CASE P = 1
    BY <1>6, <2>4
  <2>5. CASE P = 0 \/ (device = "DeASDA" /\ P = 6)
    BY <2>5
  <2> QED
    BY <1>8, <2>2, <2>3, <2>4, <2>5
<1> QED
  BY <1>7, <1>9

(* What the difference of two counts is, where the axis is within reach.   *)
LEMMA DiffIsKnown ==
  ASSUME device \in Encoders!Encoding, NEW a \in Int, NEW b \in Int, NEW x \in Int, Same(a - b, x, EncRaw)
  PROVE  /\ Encoders!RawDiff(a, b) \in Int /\ Same(Encoders!RawDiff(a, b), x, EncRaw)
         /\ x \in SignedRange(EncRaw) => Encoders!RawDiff(a, b) = x
<1>1. Encoders!RawDiff(a, b) = Signed(a - b, EncRaw)
  BY DEF Encoders!RawDiff, EncRaw, Encoders!Signed, Signed
<1>2. EncRaw \in Nat \ {0} /\ EncRaw % 2 = 0 /\ a - b \in Int
  BY EncWidths
<1>3. /\ Signed(a - b, EncRaw) \in Int /\ Same(Signed(a - b, EncRaw), a - b, EncRaw)
  BY <1>2, SignedIsSame
<1>4. Same(Signed(a - b, EncRaw), x, EncRaw)
  BY <1>2, <1>3, SameTransitive
<1>5. x \in SignedRange(EncRaw) => Signed(a - b, EncRaw) = x
  BY <1>2, SignedIsKnown
<1> QED
  BY <1>1, <1>3, <1>4, <1>5

(* The count that a read extends is the place of the axis.                 *)
LEMMA ExtendIsSeen ==
  ASSUME EncType, Imaged, Extended
  PROVE  /\ Encoders!Extend \in Int /\ Same(Encoders!Extend, env.seen + env.base, EncRaw)
         /\ ~drv.init => Encoders!Extend = env.seen + env.base
         /\ drv.init => \E s \in SignedRange(EncRaw) : Encoders!Extend = hal.ext + s
<1>1. /\ device \in Encoders!Encoding /\ hal.ext \in Int /\ in.raw \in Int /\ drv.raw \in Int
      /\ env.base \in Int /\ env.seen \in EncReach /\ env.seen \in Int
      /\ Same(in.raw, env.seen + env.base, EncRaw)
      /\ EncRaw \in Nat \ {0} /\ EncRaw % 2 = 0
  BY EncAssumption, EncWidths DEF EncType, Imaged
<1> DEFINE place == env.seen + env.base
<1>2. place \in Int
  BY <1>1
<1>3. CASE drv.init
  <2> DEFINE s == Encoders!RawDiff(in.raw, hal.ext)
  <2>1. Encoders!Extend = hal.ext + s
    BY <1>3 DEF Encoders!Extend
  <2>2. s \in Int /\ s \in SignedRange(EncRaw) /\ Same(s, in.raw - hal.ext, EncRaw)
    <3>1. s = Signed(in.raw - hal.ext, EncRaw)
      BY DEF Encoders!RawDiff, EncRaw, Encoders!Signed, Signed
    <3>2. in.raw - hal.ext \in Int
      BY <1>1
    <3> QED
      BY <1>1, <3>1, <3>2, SignedIsSame
  <2> HIDE DEF s, place
  <2>3. Same(hal.ext + s, hal.ext + (in.raw - hal.ext), EncRaw)
    <3>1. Same(hal.ext, hal.ext, EncRaw) /\ in.raw - hal.ext \in Int
      BY <1>1, SameReflexive
    <3> QED
      BY <1>1, <2>2, <3>1, SameSum
  <2>4. hal.ext + (in.raw - hal.ext) = in.raw /\ hal.ext + s \in Int
    BY <1>1, <2>2
  <2>5. Same(hal.ext + s, place, EncRaw)
    BY <1>1, <1>2, <2>3, <2>4, SameTransitive DEF place
  <2> QED
    BY <1>3, <2>1, <2>2, <2>4, <2>5 DEF place
<1>4. CASE ~drv.init
  <2> DEFINE s == Encoders!RawDiff(in.raw, drv.raw)
  <2>1. place - hal.ext \in SignedRange(EncRaw) /\ Same(drv.raw, hal.ext, EncRaw)
    BY <1>1, <1>4 DEF Extended
  <2>2. Same(in.raw - drv.raw, place - hal.ext, EncRaw)
    <3> HIDE DEF place
    <3> QED
      BY <1>1, <1>2, <2>1, SameSum DEF place
  <2>3. place - hal.ext \in Int
    BY <1>1
  <2>5. s = place - hal.ext
    <3> HIDE DEF place
    <3> QED
      BY <1>1, <2>1, <2>2, <2>3, DiffIsKnown
  <2>6. Encoders!Extend = hal.ext + s
    BY <1>4 DEF Encoders!Extend
  <2> HIDE DEF s
  <2>7. Encoders!Extend = place
    BY <1>1, <2>5, <2>6
  <2> HIDE DEF place
  <2> QED
    BY <1>1, <1>2, <1>4, <2>7, SameReflexive DEF place
<1> QED
  BY <1>3, <1>4

(* Numbers that are the same have the same remainder.                      *)
LEMMA SameIsRemainder ==
  ASSUME NEW m \in Nat \ {0}, NEW a \in Int, NEW b \in Int, Same(a, b, m)
  PROVE  a % m = b % m
<1> DEFINE r == a % m
           s == b % m
<1>1. r \in 0..m - 1 /\ s \in 0..m - 1 /\ Same(r, a, m) /\ Same(b, s, m)
  BY SameRemainder
<1> HIDE DEF r, s
<1>2. Same(r, s, m)
  <2>1. r \in Int /\ s \in Int
    BY <1>1
  <2>2. Same(r, b, m)
    BY <1>1, <2>1, SameTransitive
  <2> QED
    BY <1>1, <2>1, <2>2, SameTransitive
<1>3. PICK k \in Int : r = s + k * m
  BY <1>2 DEF Same
<1>4. k * m \in Int /\ k * m < m /\ -m < k * m
  BY <1>1, <1>3, Multiples
<1>5. k = 0
  BY <1>4
<1>6. 0 * m = 0
  BY Multiples
<1>7. r = s
  BY <1>1, <1>3, <1>5, <1>6
<1> QED
  BY <1>7 DEF r, s

(* A remainder by a width is divided as the number itself.                 *)
LEMMA RemainderKept ==
  ASSUME NEW n \in Nat \ {0}, NEW m \in Nat \ {0}, NEW v \in Int, m % n = 0 \/ (0 <= v /\ v < m)
  PROVE  (v % m) % n = v % n
<1>1. CASE m % n = 0
  <2>1. v % m \in Int /\ Same(v % m, v, m)
    BY SameRemainder
  <2>2. Same(v % m, v, n)
    BY <1>1, <2>1, SameCoarse
  <2> QED
    BY <2>1, <2>2, SameIsRemainder
<1>2. CASE 0 <= v /\ v < m
  <2>1. v % m = v
    BY <1>2
  <2> QED
    BY <2>1
<1> QED
  BY <1>1, <1>2

(* A remainder grows with its number up to the divisor.                    *)
LEMMA RemainderGrows ==
  ASSUME NEW m \in Nat \ {0}, NEW v \in Int, NEW n \in Nat
  PROVE  /\ v % m \in 0..m - 1
         /\ (v % m) + n < m => (v + n) % m = (v % m) + n
         /\ (v % m) + n = m => (v + n) % m = 0
<1> DEFINE r == v % m
<1>1. r \in 0..m - 1 /\ Same(v, r, m)
  BY SameRemainder
<1> HIDE DEF r
<1>2. Same(v + n, r + n, m) /\ v + n \in Int /\ r + n \in Int
  BY <1>1, SameSum, SameReflexive
<1>3. (v + n) % m = (r + n) % m
  BY <1>2, SameIsRemainder
<1>4. r + n < m => (r + n) % m = r + n
  BY <1>1
<1>5. r + n = m => (r + n) % m = 0
  BY <1>1
<1> QED
  BY <1>1, <1>3, <1>4, <1>5 DEF r

(* The remainder of a position in the revolution, to both sides of the     *)
(* mark.                                                                   *)
LEMMA SignedRemainder ==
  ASSUME device \in Encoders!Encoding, Encoders!pprev > 0, NEW v \in Int,
         EncM64 % Encoders!pprev = 0 \/ (0 <= v /\ v < EncM64)
  PROVE  /\ Encoders!SignedMod(v) \in Int /\ Same(v, Encoders!SignedMod(v), Encoders!pprev)
         /\ -Encoders!pprev < 2 * Encoders!SignedMod(v)
         /\ SideOf(v) = IF Encoders!SignedMod(v) >= 0 THEN 1 ELSE -1
<1> DEFINE P == Encoders!pprev
           rem == (v % EncM64) % P
           s == IF rem > P \div 2 THEN rem - P ELSE rem
<1>1. P \in Nat \ {0} /\ EncM64 \in Nat \ {0}
  BY EncPulses, EncWidths
<1>2. rem = v % P
  <2> HIDE DEF P
  <2> QED
    BY <1>1, RemainderKept DEF P
<1>3. SideOf(v) = (IF rem > P \div 2 THEN -1 ELSE 1)
  BY <1>2 DEF SideOf
<1>4. Encoders!SignedMod(v) = s
  BY DEF Encoders!SignedMod
<1> HIDE DEF P
<1>5. v % P \in 0..P - 1 /\ Same(v, v % P, P)
  BY <1>1, SameRemainder
<1>6. rem \in 0..P - 1 /\ Same(v, rem, P)
  BY <1>2, <1>5
<1> HIDE DEF rem
<1>7. s \in Int /\ -P < 2 * s /\ (s >= 0 <=> ~(rem > P \div 2))
  BY <1>1, <1>6
<1>8. Same(v, s, P)
  <2>1. CASE rem > P \div 2
    <3>1. (-1) * P = -P
      BY <1>1
    <3>2. s = rem + (-1) * P
      BY <1>1, <1>6, <2>1, <3>1
    <3>3. Same(s, rem, P)
      BY <3>2 DEF Same
    <3> HIDE DEF s
    <3>4. Same(rem, s, P) /\ rem \in Int
      BY <1>1, <1>6, <1>7, <3>3, SameSymmetric
    <3> QED
      BY <1>1, <1>6, <1>7, <3>4, SameTransitive
  <2>2. CASE ~(rem > P \div 2)
    BY <1>6, <2>2
  <2> QED
    BY <2>1, <2>2
<1> HIDE DEF s
<1>9. SideOf(v) = IF s >= 0 THEN 1 ELSE -1
  BY <1>3, <1>7
<1> QED
  BY <1>4, <1>7, <1>8, <1>9 DEF P

(* The position in the revolution is an integer.                           *)
LEMMA SignedModInt ==
  ASSUME device \in Encoders!Encoding, Encoders!pprev > 0, NEW v \in Int
  PROVE  Encoders!SignedMod(v) \in Int
<1> DEFINE P == Encoders!pprev
           rem == (v % EncM64) % P
<1>1. P \in Nat \ {0} /\ EncM64 \in Nat \ {0}
  BY EncPulses, EncWidths
<1>2. Encoders!SignedMod(v) = (IF rem > P \div 2 THEN rem - P ELSE rem)
  BY DEF Encoders!SignedMod
<1> HIDE DEF P
<1>3. v % EncM64 \in Int
  BY <1>1
<1>4. rem \in Int
  BY <1>1, <1>3
<1> HIDE DEF rem
<1>5. (IF rem > P \div 2 THEN rem - P ELSE rem) \in Int
  BY <1>1, <1>4
<1> QED
  BY <1>2, <1>5

(* An axis that passes neither the mark nor the middle stays on its side.  *)
LEMMA SideKept ==
  ASSUME device \in Encoders!Encoding, Encoders!pprev > 0, hal.home \in Homes, env.base \in Int,
         NEW a \in EncReach, NEW b \in EncReach, a <= b,
         \A p \in EncReach : a <= p /\ p < b => ~Encoders!Mark(p + 1) /\ ~Encoders!Half(p)
  PROVE  SideOf(Encoders!Turned(a)) = SideOf(Encoders!Turned(b))
<1> DEFINE P == Encoders!pprev
           h == P \div 2
           t == Encoders!Turned(a)
           r == t % P
           n == b - a
<1>1. P \in Nat \ {0} /\ h \in Nat /\ h < P
  <2>1. P \in Nat \ {0}
    BY EncPulses
  <2> HIDE DEF P
  <2> QED
    BY <2>1
<1>2. /\ a \in Int /\ b \in Int /\ hal.home \in Int /\ n \in Nat /\ b = a + n
      /\ a..b \subseteq EncReach
  <2>1. a \in Int /\ b \in Int /\ a..b \subseteq EncReach
    BY EncAssumption
  <2>2. hal.home \in Int
    BY EncWidths
  <2> QED
    BY <2>1, <2>2
<1>3. \A k \in Int : Encoders!Turned(a + k) = t + k
  BY <1>2 DEF Encoders!Turned
<1>4. t \in Int
  BY <1>2 DEF Encoders!Turned
<1>5. \A p : /\ Encoders!Mark(p) <=> Encoders!Turned(p) % P = 0
             /\ Encoders!Half(p) <=> Encoders!Turned(p) % P = h
  BY <1>1 DEF Encoders!Mark, Encoders!Half
<1>6. \A v : SideOf(v) = IF v % P > h THEN -1 ELSE 1
  BY DEF SideOf
<1> HIDE DEF P, h, t, r, n
<1>7. r \in 0..P - 1
  BY <1>1, <1>4, RemainderGrows DEF r
<1>8. CASE r > h
  <2>1. r + n < P
    <3>1. SUFFICES ASSUME r + n >= P PROVE FALSE
      BY <1>1, <1>2, <1>7
    <3> DEFINE k == P - 1 - r
    <3>2. k \in Nat /\ k < n /\ a + k \in a..b /\ a <= a + k /\ a + k < b /\ k + 1 \in Nat /\ r + (k + 1) = P
          /\ (a + k) + 1 = a + (k + 1)
      BY <1>1, <1>2, <1>7, <3>1
    <3> HIDE DEF k
    <3>3. (t + (k + 1)) % P = 0
      BY <1>1, <1>4, <3>2, RemainderGrows DEF r
    <3>4. Encoders!Turned((a + k) + 1) = t + (k + 1)
      BY <1>3, <3>2
    <3>5. Encoders!Mark((a + k) + 1)
      BY <1>5, <3>3, <3>4
    <3> QED
      BY <1>2, <3>2, <3>5
  <2>2. (t + n) % P = r + n
    BY <1>1, <1>2, <1>4, <2>1, RemainderGrows DEF r
  <2>3. Encoders!Turned(b) = t + n
    BY <1>2, <1>3
  <2>4. r + n > h
    BY <1>1, <1>2, <1>7, <1>8
  <2> QED
    BY <1>6, <1>8, <2>2, <2>3, <2>4 DEF r, t
<1>9. CASE ~(r > h)
  <2>1. r + n <= h
    <3>1. SUFFICES ASSUME r + n > h PROVE FALSE
      BY <1>1, <1>2, <1>7
    <3> DEFINE k == h - r
    <3>2. k \in Nat /\ k < n /\ a + k \in a..b /\ a <= a + k /\ a + k < b /\ r + k = h
      BY <1>1, <1>2, <1>7, <1>9, <3>1
    <3> HIDE DEF k
    <3>3. (t + k) % P = h
      BY <1>1, <1>4, <3>2, RemainderGrows DEF r
    <3>4. Encoders!Turned(a + k) = t + k
      BY <1>3, <3>2
    <3>5. Encoders!Half(a + k)
      BY <1>5, <3>3, <3>4
    <3> QED
      BY <1>2, <3>2, <3>5
  <2>2. (t + n) % P = r + n
    <3>1. r + n < P
      BY <1>1, <1>2, <1>7, <2>1
    <3> QED
      BY <3>1, <1>1, <1>2, <1>4, RemainderGrows DEF r
  <2>3. Encoders!Turned(b) = t + n
    BY <1>2, <1>3
  <2>4. ~(r + n > h)
    BY <1>1, <1>2, <1>7, <2>1
  <2> QED
    BY <1>6, <1>9, <2>2, <2>3, <2>4 DEF r, t
<1> QED
  BY <1>8, <1>9

(* The mark that an index takes is the nearest.                            *)
LEMMA NearestMark ==
  ASSUME device \in Encoders!Encoding, Encoders!Window > 0, hal.home \in Homes, env.base \in Int,
         NEW p \in Int, NEW mod \in Int, Same(Encoders!Turned(p), mod, Encoders!pprev),
         -Encoders!pprev < 2 * mod, mod <= Encoders!Window
  PROVE  Encoders!Nearest(p) = p - mod
<1> DEFINE P == Encoders!pprev
           q == p - mod
           t == Encoders!Turned(p)
           IsNearest(x) == Encoders!Mark(x) /\ 2 * x \in (2 * p - P)..(2 * p + P)
<1>1. P \in Nat \ {0} /\ mod <= P \div 4
  <2>1. P \in Nat
    BY EncPulses
  <2>2. P \div 4 > 0 /\ mod <= P \div 4
    BY DEF Encoders!Window
  <2> HIDE DEF P
  <2> QED
    BY <2>1, <2>2
<1>2. hal.home \in Int
  BY EncWidths
<1>3. /\ t \in Int /\ \A x \in Int : Encoders!Turned(x) \in Int /\ Encoders!Turned(x) - t = x - p
  BY <1>2 DEF Encoders!Turned
<1>4. \A x : Encoders!Mark(x) <=> Encoders!Turned(x) % P = 0
  BY <1>1 DEF Encoders!Mark
<1>5. Same(t, mod, P) /\ -P < 2 * mod
  OBVIOUS
<1>6. Encoders!Nearest(p) = CHOOSE x \in (p - P)..(p + P) : IsNearest(x)
  BY DEF Encoders!Nearest
<1> HIDE DEF P, t, IsNearest
<1>7. q \in Int /\ q \in (p - P)..(p + P) /\ 2 * q \in (2 * p - P)..(2 * p + P)
  BY <1>1, <1>5
<1>8. Encoders!Turned(q) % P = 0
  <2>1. Encoders!Turned(q) = t - mod /\ Encoders!Turned(q) \in Int
    <3>1. Encoders!Turned(q) \in Int /\ Encoders!Turned(q) - t = q - p
      BY <1>3, <1>7
    <3>2. q - p = -mod
      BY <1>7
    <3> DEFINE turned == Encoders!Turned(q)
    <3>3. turned \in Int /\ turned - t = q - p
      BY <3>1
    <3> HIDE DEF q, turned
    <3>4. turned = t - mod
      BY <1>3, <3>2, <3>3
    <3> QED
      BY <3>1, <3>4 DEF turned
  <2>2. Same(t - mod, mod - mod, P)
    BY <1>1, <1>3, <1>5, SameSum, SameReflexive
  <2>3. mod - mod = 0 /\ 0 % P = 0
    BY <1>1
  <2>4. t - mod \in Int /\ Same(t - mod, 0, P)
    BY <1>3, <2>2, <2>3
  <2>5. (t - mod) % P = 0 % P
    <3> DEFINE y == t - mod
    <3>1. y \in Int /\ Same(y, 0, P)
      BY <2>4
    <3> HIDE DEF y
    <3>2. \A a, b \in Int : Same(a, b, P) => a % P = b % P
      BY <1>1, SameIsRemainder
    <3>3. y % P = 0 % P
      BY <3>1, <3>2
    <3> QED
      BY <3>3 DEF y
  <2> QED
    BY <2>1, <2>3, <2>5
<1>9. IsNearest(q)
  BY <1>4, <1>7, <1>8 DEF IsNearest
<1>10. ASSUME NEW x \in (p - P)..(p + P), IsNearest(x) PROVE x = q
  <2>1. x \in Int /\ Encoders!Turned(x) % P = 0 /\ 2 * x \in (2 * p - P)..(2 * p + P)
    BY <1>1, <1>4, <1>10 DEF IsNearest
  <2>2. Encoders!Turned(x) \in Int /\ Encoders!Turned(q) \in Int /\ Encoders!Turned(x) - Encoders!Turned(q) = x - q
    <3>1. /\ Encoders!Turned(x) \in Int /\ Encoders!Turned(x) - t = x - p
          /\ Encoders!Turned(q) \in Int /\ Encoders!Turned(q) - t = q - p
      BY <1>3, <1>7, <2>1
    <3>2. q \in Int
      BY <1>7
    <3> DEFINE turned == Encoders!Turned(q)
               other == Encoders!Turned(x)
    <3>3. turned \in Int /\ other \in Int /\ other - t = x - p /\ turned - t = q - p
      BY <3>1
    <3> HIDE DEF q, turned, other
    <3>4. other - turned = x - q
      BY <1>3, <2>1, <3>2, <3>3
    <3> QED
      BY <3>1, <3>4 DEF turned, other
  <2>3. Same(Encoders!Turned(x), 0, P) /\ Same(Encoders!Turned(q), 0, P)
    <3>1. /\ Same(Encoders!Turned(x), Encoders!Turned(x) % P, P)
          /\ Same(Encoders!Turned(q), Encoders!Turned(q) % P, P)
      BY <1>1, <2>2, SameRemainder
    <3> QED
      BY <1>8, <2>1, <3>1
  <2>4. Same(x - q, 0, P)
    <3>1. Same(Encoders!Turned(x) - Encoders!Turned(q), 0 - 0, P)
      BY <1>1, <2>2, <2>3, SameSum
    <3>2. 0 - 0 = 0
      OBVIOUS
    <3> QED
      BY <2>2, <3>1, <3>2
  <2>5. PICK k \in Int : x - q = 0 + k * P
    BY <2>4 DEF Same
  <2>6. k * P \in Int /\ k * P < P /\ -P < k * P
    <3>1. x - q < P /\ -P < x - q
      BY <1>1, <1>5, <2>1
    <3>2. k * P \in Int
      BY <1>1, Multiples
    <3> HIDE DEF q
    <3> QED
      BY <1>7, <2>1, <2>5, <3>1, <3>2
  <2>7. k = 0
    BY <1>1, <2>6
  <2>8. 0 * P = 0
    BY <1>1, Multiples
  <2>9. x - q = 0 /\ q \in Int
    <3>1. 0 + k * P = 0
      BY <2>7, <2>8
    <3>2. x - q = 0
      BY <2>5, <3>1
    <3> QED
      BY <1>7, <3>2
  <2> HIDE DEF q
  <2> QED
    BY <2>1, <2>9
<1> HIDE DEF q
<1> QED
  BY <1>6, <1>7, <1>9, <1>10 DEF q

(* What a read callback of an encoder leaves.                              *)
LEMMA EncUpdateStep ==
  ASSUME EncInv, ReadFrame, out' = out, up \/ device = "Ph3LM2RM", NEW latched \in BOOLEAN,
         latched = (device = "Ph3LM2RM" /\ in.valid), Encoders!class_enc_update(latched)
  PROVE  EncInv' /\ Encoders!IndexWhenMet
<1>0. /\ phase = "read" /\ phase' = "user" /\ device' = device /\ up' = up /\ in' = in
      /\ EncType /\ Imaged /\ Extended /\ Contained /\ Sided
  BY DEF ReadFrame, EncInv
<1> DEFINE ext == Encoders!Extend
           pos == ext + Encoders!RawDiff(0, hal.home)
           mod == Encoders!SignedMod(pos)
           sign == IF mod >= 0 THEN 1 ELSE -1
           atOnce == hal.index /\ Encoders!Window = 0
           passes == /\ hal.index /\ Encoders!Window > 0
                     /\ Encoders!SignBefore # 0 /\ sign # Encoders!SignBefore /\ mod <= Encoders!Window
           zeroed == drv.init \/ hal.reset
           ref == CASE zeroed -> pos
                    [] ~zeroed /\ latched -> pos + Encoders!RawDiff(in.latch, in.raw)
                    [] ~zeroed /\ ~latched /\ atOnce -> pos
                    [] ~zeroed /\ ~latched /\ passes -> pos - mod
                    [] OTHER -> hal.ref
           exact == EncM64 % Encoders!pprev = 0 \/ Encoders!Turned(env.seen) >= 0
           base == IF drv.init THEN ext - env.seen ELSE env.base
           met == IF hal.index /\ ~atOnce /\ ~passes THEN env.met ELSE env.met \cap {"latch"}
           zero == CASE zeroed -> env.seen
                     [] ~zeroed /\ latched -> env.at
                     [] ~zeroed /\ ~latched /\ atOnce -> env.seen
                     [] ~zeroed /\ ~latched /\ passes ->
                          IF exact THEN Encoders!Nearest(env.seen) ELSE env.seen - mod
                     [] OTHER -> env.zero
           side == Encoders!Side(sign)
           index == hal.index /\ ~atOnce /\ ~passes
           arm == hal.arm /\ ~latched
           Turned2(p) == p + base - hal.home
<1>1. /\ hal' = [hal EXCEPT !.ext = ext, !.ref = ref, !.pos = pos - ref, !.index = index,
                            !.valid = latched, !.arm = arm]
      /\ drv' = [init |-> FALSE, raw |-> in.raw, sign |-> side]
      /\ env' = [env EXCEPT !.base = base, !.met = met, !.zero = zero]
  BY DEF Encoders!class_enc_update
<1>2. /\ device \in Encoders!Encoding /\ env.base \in Int /\ env.seen \in EncReach /\ env.at \in EncReach
      /\ env.pos \in EncReach /\ env.seen \in Int /\ env.at \in Int /\ env.zero \in Int
      /\ in.raw \in Int /\ in.latch \in Int /\ hal.ref \in Int /\ hal.home \in Homes /\ hal.home \in Int
      /\ hal.ext \in Int /\ EncRaw \in Nat \ {0} /\ EncRaw % 2 = 0 /\ -hal.home \in SignedRange(EncRaw)
      /\ drv.init \in BOOLEAN /\ hal.reset \in BOOLEAN /\ hal.index \in BOOLEAN /\ hal.arm \in BOOLEAN
      /\ in.valid \in BOOLEAN
  BY <1>0, EncAssumption, EncWidths DEF EncType
<1>3. /\ ext \in Int /\ Same(ext, env.seen + env.base, EncRaw)
      /\ ~drv.init => ext = env.seen + env.base
      /\ drv.init => \E s \in SignedRange(EncRaw) : ext = hal.ext + s
  BY <1>0, ExtendIsSeen
<1>4. Encoders!RawDiff(0, hal.home) = -hal.home
  <2>1. 0 - hal.home = -hal.home /\ -hal.home \in Int
    BY <1>2
  <2>2. Same(0 - hal.home, -hal.home, EncRaw)
    BY <1>2, <2>1, SameReflexive
  <2> QED
    BY <1>2, <2>1, <2>2, DiffIsKnown
<1> HIDE DEF ext
<1>5. base \in Int /\ ext = env.seen + base /\ (~drv.init => base = env.base)
  BY <1>2, <1>3
<1>6. Same(base, env.base, EncRaw)
  <2>1. Same(env.seen, env.seen, EncRaw) /\ env.seen + env.base \in Int /\ (env.seen + env.base) - env.seen = env.base
    BY <1>2, SameReflexive
  <2>2. Same(ext - env.seen, (env.seen + env.base) - env.seen, EncRaw)
    BY <1>2, <1>3, <2>1, SameSum
  <2>3. Same(env.base, env.base, EncRaw)
    BY <1>2, SameReflexive
  <2> QED
    BY <2>1, <2>2, <2>3
<1>7. pos \in Int /\ pos = Turned2(env.seen) /\ pos = env.seen + base - hal.home
  BY <1>2, <1>3, <1>4, <1>5
<1> HIDE DEF pos, base
<1>8. Encoders!Window > 0 => Encoders!pprev > 0 /\ Encoders!pprev \in Nat
  <2>1. Encoders!pprev \in Nat
    BY <1>2, EncPulses
  <2>2. Encoders!Window = Encoders!pprev \div 4
    BY DEF Encoders!Window
  <2> QED
    BY <2>1, <2>2
<1>9. passes => /\ ~drv.init /\ Encoders!Window > 0 /\ hal.index /\ mod <= Encoders!Window
                /\ drv.sign # 0 /\ sign # drv.sign
  BY DEF Encoders!SignBefore
<1>10. ASSUME passes PROVE mod \in Int
  BY <1>2, <1>7, <1>8, <1>9, <1>10, SignedModInt
<1>11. ASSUME passes, exact PROVE Encoders!Nearest(env.seen) = env.seen - mod
  <2>1. Encoders!Turned(env.seen) = pos
    BY <1>5, <1>7, <1>9, <1>11 DEF Encoders!Turned
  <2>2. EncM64 % Encoders!pprev = 0 \/ (0 <= pos /\ pos < EncM64)
    <3>1. CASE device = "DeASDA"
      BY <1>0, <1>2, <1>7, <1>9, <1>11, <2>1, <3>1 DEF Contained
    <3>2. CASE device # "DeASDA"
      BY <1>2, <1>8, <1>9, <1>11, <3>2, EncPulses
    <3> QED
      BY <3>1, <3>2
  <2>3. Same(pos, mod, Encoders!pprev) /\ -Encoders!pprev < 2 * mod /\ mod \in Int
    BY <1>2, <1>7, <1>8, <1>9, <1>11, <2>2, SignedRemainder
  <2> HIDE DEF mod
  <2> QED
    BY <1>2, <1>8, <1>9, <1>11, <2>1, <2>3, NearestMark
<1>12. zero \in Int /\ ref \in Int /\ ref = zero + base - hal.home
  <2>1. CASE zeroed
    <3>1. zero = env.seen /\ ref = pos
      BY <2>1
    <3> HIDE DEF zero, ref
    <3> QED
      BY <1>2, <1>7, <3>1
  <2>2. CASE ~zeroed /\ latched
    <3>1. zero = env.at /\ ref = pos + Encoders!RawDiff(in.latch, in.raw) /\ base = env.base
      BY <1>5, <2>2
    <3>2. /\ Same(in.latch, env.at + env.base, EncRaw) /\ Same(in.raw, env.seen + env.base, EncRaw)
          /\ env.at = env.seen /\ env.at - env.seen \in SignedRange(EncRaw)
          /\ env.at + env.base \in Int /\ env.seen + env.base \in Int
          /\ (env.at + env.base) - (env.seen + env.base) = env.at - env.seen
          /\ env.at - env.seen \in Int
      BY <1>0, <1>2, <2>2, EncWidths DEF Imaged
    <3>3. Same(in.latch - in.raw, (env.at + env.base) - (env.seen + env.base), EncRaw)
      BY <1>2, <3>2, SameSum
    <3>4. Encoders!RawDiff(in.latch, in.raw) = env.at - env.seen
      BY <1>2, <3>2, <3>3, DiffIsKnown
    <3> HIDE DEF zero, ref
    <3> QED
      BY <1>2, <1>5, <1>7, <3>1, <3>4
  <2>3. CASE ~zeroed /\ ~latched /\ atOnce
    <3>1. zero = env.seen /\ ref = pos
      BY <2>3
    <3> HIDE DEF zero, ref
    <3> QED
      BY <1>2, <1>7, <3>1
  <2>4. CASE ~zeroed /\ ~latched /\ ~atOnce /\ passes
    <3>1. zero = env.seen - mod /\ ref = pos - mod /\ mod \in Int
      BY <1>10, <1>11, <2>4
    <3> HIDE DEF zero, ref, mod
    <3> QED
      BY <1>2, <1>5, <1>7, <3>1
  <2>5. CASE ~zeroed /\ ~latched /\ ~atOnce /\ ~passes
    <3>1. zero = env.zero /\ ref = hal.ref /\ ~drv.init
      BY <2>5
    <3>2. hal.ref = env.zero + env.base - hal.home
      BY <1>0, <3>1 DEF Extended, Encoders!Turned
    <3> HIDE DEF zero, ref
    <3> QED
      BY <1>2, <1>5, <3>1, <3>2
  <2>6. ~(atOnce /\ passes)
    BY <1>9
  <2> QED
    BY <2>1, <2>2, <2>3, <2>4, <2>5, <2>6
<1>13. /\ side \in {-1, 0, 1}
       /\ side # 0 => hal.index /\ Encoders!Window > 0 /\ side = sign
  BY DEF Encoders!Side
<1>14. ASSUME Encoders!Window > 0, EncM64 % Encoders!pprev = 0 \/ (0 <= pos /\ pos < EncM64)
       PROVE  sign = SideOf(pos)
  BY <1>2, <1>7, <1>8, <1>14, SignedRemainder
<1>15. passes => env.met \cap Passing # {}
  <2>1. SUFFICES ASSUME passes, env.met \cap Passing = {} PROVE FALSE
    OBVIOUS
  <2>2. ~Lost /\ drv.sign = SideOf(Encoders!Turned(env.pos))
    BY <1>0, <1>9, <2>1 DEF Sided, Passing
  <2>3. env.pos = env.seen
    <3>1. device # "Ph3LM2RM"
      <4>1. Encoders!pprev # 0
        BY <1>8, <1>9, <2>1
      <4> QED
        BY <1>2, <4>1, EncPulses
    <3> QED
      BY <1>0, <3>1 DEF Imaged
  <2>4. Encoders!Turned(env.pos) = pos
    BY <1>5, <1>7, <1>9, <2>1, <2>3 DEF Encoders!Turned
  <2>5. EncM64 % Encoders!pprev = 0 \/ (0 <= pos /\ pos < EncM64)
    <3>1. CASE device = "DeASDA"
      <4>1. pos < EncM64
        BY <1>0, <1>2, <1>9, <2>1, <2>4, <3>1 DEF Contained
      <4> QED
        BY <1>7, <2>2, <2>4, <4>1 DEF Lost
    <3>2. CASE device # "DeASDA"
      BY <1>2, <1>8, <1>9, <2>1, <3>2, EncPulses
    <3> QED
      BY <3>1, <3>2
  <2>6. sign = SideOf(pos)
    BY <1>9, <1>14, <2>1, <2>5
  <2> QED
    BY <1>9, <2>1, <2>2, <2>4, <2>6
<1>16. atOnce => "index" \in env.met
  BY <1>0 DEF Sided
<1>17. /\ hal.arm /\ ~arm => "latch" \in env.met
       /\ "latch" \in env.met => "latch" \in met
  BY <1>0 DEF Imaged
<1>18. hal.index /\ ~index => env.met \cap Passing # {}
  BY <1>15, <1>16 DEF Passing
<1> HIDE DEF ref, zero, side, index, arm, met, sign, mod, atOnce, passes, exact, zeroed
<1>19. index \in BOOLEAN /\ arm \in BOOLEAN
  BY <1>2 DEF index, arm
<1>20. /\ hal'.ext = ext /\ hal'.ref = ref /\ hal'.home = hal.home /\ hal'.index = index
       /\ hal'.reset = hal.reset /\ hal'.pos = pos - ref /\ hal'.arm = arm /\ hal'.valid = latched
       /\ hal' = [ext |-> hal'.ext, ref |-> hal'.ref, home |-> hal'.home, index |-> hal'.index,
                  reset |-> hal'.reset, pos |-> hal'.pos, arm |-> hal'.arm, valid |-> hal'.valid]
  <2>1. hal' = [ext |-> ext, ref |-> ref, home |-> hal.home, index |-> index,
                reset |-> hal.reset, pos |-> pos - ref, arm |-> arm, valid |-> latched]
    BY <1>0, <1>1 DEF EncType
  <2> QED
    BY <2>1
<1>21. /\ drv'.init = FALSE /\ drv'.raw = in.raw /\ drv'.sign = side
       /\ drv' = [init |-> drv'.init, raw |-> drv'.raw, sign |-> drv'.sign]
  BY <1>1
<1>22. /\ env'.pos = env.pos /\ env'.seen = env.seen /\ env'.base = base /\ env'.zero = zero
       /\ env'.at = env.at /\ env'.met = met /\ env'.left = env.left
       /\ env' = [pos |-> env'.pos, seen |-> env'.seen, base |-> env'.base, zero |-> env'.zero,
                  at |-> env'.at, met |-> env'.met, left |-> env'.left]
  <2>1. env' = [pos |-> env.pos, seen |-> env.seen, base |-> base, zero |-> zero, at |-> env.at,
                met |-> met, left |-> env.left]
    BY <1>0, <1>1 DEF EncType
  <2> QED
    BY <2>1
<1>23. EncType'
  <2>1. pos - ref \in Int
    BY <1>7, <1>12
  <2> QED
    BY <1>0, <1>2, <1>3, <1>5, <1>12, <1>13, <1>19, <1>20, <1>21, <1>22, <2>1 DEF EncType
<1>24. EncRaw' = EncRaw /\ Encoders!Window' = Encoders!Window /\ Encoders!pprev' = Encoders!pprev
  BY <1>0 DEF EncRaw, Encoders!Window, Encoders!pprev
<1>25. Same(in.raw, env.seen + base, EncRaw) /\ (in.valid => Same(in.latch, env.at + base, EncRaw))
  <2>1. ASSUME NEW x \in Int, NEW y \in Int, Same(y, x + env.base, EncRaw)
        PROVE  Same(y, x + base, EncRaw)
    <3>1. Same(x, x, EncRaw) /\ Same(env.base, base, EncRaw) /\ x + env.base \in Int /\ x + base \in Int
      BY <1>2, <1>5, <1>6, SameReflexive, SameSymmetric
    <3>2. Same(x + env.base, x + base, EncRaw)
      BY <1>2, <1>5, <3>1, SameSum
    <3> QED
      BY <1>2, <2>1, <3>1, <3>2, SameTransitive
  <2> QED
    BY <1>0, <1>2, <2>1 DEF Imaged
<1>26. Imaged'
  <2>1. in.valid => Same(in.latch, env.at + base, EncRaw) /\ env.at = env.seen /\ "latch" \in met
    BY <1>0, <1>17, <1>25 DEF Imaged
  <2>2. device = "Ph3LM2RM" => latched = in.valid
    BY <1>2
  <2>3. device # "Ph3LM2RM" => ~out.arm /\ ~in.valid
    BY <1>0 DEF Imaged
  <2>4. /\ Same(in'.raw, env'.seen + env'.base, EncRaw')
        /\ in'.valid => /\ Same(in'.latch, env'.at + env'.base, EncRaw') /\ env'.at = env'.seen
                        /\ "latch" \in env'.met
    BY <1>0, <1>22, <1>24, <1>25, <2>1
  <2> QED
    BY <1>0, <1>20, <2>2, <2>3, <2>4 DEF Imaged, Same
<1>27. Extended'
  <2>1. env.seen + base - ext = 0 /\ 0 \in SignedRange(EncRaw)
    BY <1>2, <1>5, EncWidths
  <2>2. /\ Same(drv'.raw, hal'.ext, EncRaw')
        /\ env'.seen + env'.base - hal'.ext \in SignedRange(EncRaw')
        /\ hal'.ext = env'.seen + env'.base
        /\ hal'.ref = env'.zero + env'.base - hal'.home
        /\ hal'.pos = hal'.ext - hal'.home - hal'.ref
    BY <1>2, <1>5, <1>7, <1>12, <1>20, <1>21, <1>22, <1>24, <1>25, <2>1
  <2> QED
    BY <2>2 DEF Extended, Encoders!Turned, Same, SignedRange
<1>28. Contained'
  <2>1. SUFFICES ASSUME device = "DeASDA", NEW r \in EncReach PROVE r + base - hal.home < EncM64
    BY <1>0, <1>20, <1>21, <1>22 DEF Contained, Encoders!Turned
  <2>2. CASE ~drv.init
    BY <1>0, <1>5, <2>1, <2>2 DEF Contained, Encoders!Turned
  <2>3. CASE drv.init
    <3>1. hal.ext = 0 /\ EncRaw = EncM32
      BY <1>0, <1>2, <2>1, <2>3, EncPulses DEF Contained
    <3>2. PICK s \in SignedRange(EncM32) : ext = hal.ext + s
      BY <1>3, <2>3, <3>1
    <3> DEFINE h == EncM32 \div 2
               g == EncM24 \div 2
    <3>3. EncM32 \in Nat \ {0} /\ EncM32 = 2 * h /\ h \in Nat \ {0} /\ g <= h /\ 2 * EncM32 <= EncM64
          /\ EncM64 \in Nat
      BY <1>2, EncWidths, Halves
    <3>4. s \in -h..h - 1
      BY DEF SignedRange
    <3>5. /\ g \in Int /\ r \in Int /\ -hal.home < g
          /\ r - env.seen < EncM64 - EncM32
      <4>1. /\ \A a, b \in EncReach : b - a < EncM64 - EncM32
            /\ Homes \subseteq -g + 1..g /\ EncReach \subseteq Int
        BY EncAssumption
      <4>2. g \in Int
        BY EncAssumption
      <4> HIDE DEF g
      <4> QED
        BY <1>2, <4>1, <4>2
    <3> HIDE DEF g, h
    <3>6. s \in Int /\ base = s - env.seen
      BY <1>2, <1>5, <3>1, <3>2, <3>3, <3>4
    <3> QED
      BY <1>2, <3>3, <3>4, <3>5, <3>6
  <2> QED
    BY <2>2, <2>3
<1>29. Sided'
  <2>1. ASSUME side # 0, ~(EncM64 % Encoders!pprev # 0 /\ env.pos + base - hal.home < 0)
        PROVE  side = SideOf(env.pos + base - hal.home)
    <3>1. device # "Ph3LM2RM" /\ Encoders!Window > 0
      <4>1. Encoders!pprev # 0
        BY <1>8, <1>13, <2>1
      <4> QED
        BY <1>2, <1>13, <2>1, <4>1, EncPulses
    <3>2. env.pos = env.seen
      BY <1>0, <3>1 DEF Imaged
    <3>3. EncM64 % Encoders!pprev = 0 \/ (0 <= pos /\ pos < EncM64)
      <4>1. CASE device = "DeASDA"
        <5>1. \A r \in EncReach : r + env'.base - hal'.home < EncM64
          BY <1>0, <1>21, <1>28, <4>1 DEF Contained, Encoders!Turned
        <5>2. pos < EncM64
          BY <1>2, <1>7, <1>20, <1>22, <5>1
        <5> QED
          BY <1>7, <2>1, <3>2, <5>2
      <4>2. CASE device # "DeASDA"
        BY <1>2, <1>8, <3>1, <4>2, EncPulses
      <4> QED
        BY <4>1, <4>2
    <3> QED
      BY <1>7, <1>13, <1>14, <2>1, <3>1, <3>2, <3>3
  <2>2. side # 0 => Encoders!Window > 0
    BY <1>13
  <2>3. Lost' <=> EncM64 % Encoders!pprev # 0 /\ env.pos + base - hal.home < 0
    BY <1>20, <1>22, <1>24 DEF Lost, Encoders!Turned
  <2>4. SideOf(Encoders!Turned(env.pos))' = SideOf(env.pos + base - hal.home)
    BY <1>20, <1>22, <1>24 DEF SideOf, Encoders!Turned
  <2> QED
    BY <1>0, <1>20, <1>21, <1>22, <1>24, <2>1, <2>2, <2>3, <2>4 DEF Sided
<1>30. Encoders!PositionIsTravel'
  <2>1. pos - ref = env.seen - zero
    BY <1>2, <1>5, <1>7, <1>12
  <2> QED
    BY <1>5, <1>20, <1>22, <2>1 DEF Encoders!PositionIsTravel
<1>31. Encoders!IndexWhenMet
  BY <1>17, <1>18, <1>20 DEF Encoders!IndexWhenMet, Passing
<1>32. Unarmed'
  <2>1. in.valid => ~arm
    BY <1>0, <1>2 DEF arm, Imaged
  <2> QED
    BY <1>0, <1>20, <2>1 DEF Unarmed
<1> QED
  BY <1>23, <1>26, <1>32, <1>27, <1>28, <1>29, <1>30, <1>31 DEF EncInv

(* The encoders before their start.                                        *)
LEMMA EncStart == ASSUME Encoders!Init PROVE EncInv
<1>1. PICK home \in Homes :
        hal = [ext |-> 0, ref |-> 0, home |-> home, index |-> FALSE, reset |-> FALSE,
               pos |-> 0, arm |-> FALSE, valid |-> FALSE]
  BY DEF Encoders!Init, Encoders!class_enc_init
<1>2. PICK base \in Bases :
        /\ in = [raw |-> base % Encoders!Drives[device].raw, valid |-> FALSE, latch |-> 0]
        /\ env = [pos |-> 0, seen |-> 0, base |-> base, zero |-> 0, at |-> 0, met |-> {}, left |-> EncActs]
  BY DEF Encoders!Init
<1>3. /\ device \in Encoders!Encoding /\ drv = [init |-> TRUE, raw |-> 0, sign |-> 0]
      /\ phase = "bus" /\ up = FALSE /\ out = [arm |-> FALSE]
  BY DEF Encoders!Init, Encoders!class_enc_init
<1> DEFINE raw == base % EncRaw
<1>4. /\ base \in Int /\ 0 \in EncReach /\ EncRaw \in Nat \ {0} /\ EncActs \in Int
  BY <1>3, EncAssumption, EncWidths
<1>5. raw \in Int /\ Same(raw, base, EncRaw) /\ 0 + base = base
  BY <1>4, SameRemainder
<1>6. in = [raw |-> raw, valid |-> FALSE, latch |-> 0]
  BY <1>2 DEF EncRaw
<1> HIDE DEF raw
<1>7. /\ hal = [ext |-> hal.ext, ref |-> hal.ref, home |-> hal.home, index |-> hal.index, reset |-> hal.reset,
                pos |-> hal.pos, arm |-> hal.arm, valid |-> hal.valid]
      /\ hal.ext \in Int /\ hal.ref \in Int /\ hal.home \in Homes /\ hal.pos \in Int
      /\ hal.index \in BOOLEAN /\ hal.reset \in BOOLEAN /\ hal.arm \in BOOLEAN /\ hal.valid \in BOOLEAN
      /\ hal.ext = 0
  BY <1>1
<1>8. /\ drv = [init |-> drv.init, raw |-> drv.raw, sign |-> drv.sign]
      /\ drv.init = TRUE /\ drv.raw \in Int /\ drv.sign \in {-1, 0, 1}
  BY <1>3
<1>9. /\ in = [raw |-> in.raw, valid |-> in.valid, latch |-> in.latch]
      /\ in.raw = raw /\ in.raw \in Int /\ in.valid = FALSE /\ in.latch \in Int
      /\ out = [arm |-> out.arm] /\ out.arm = FALSE
  BY <1>3, <1>5, <1>6
<1>10. /\ env = [pos |-> env.pos, seen |-> env.seen, base |-> env.base, zero |-> env.zero, at |-> env.at,
                 met |-> env.met, left |-> env.left]
       /\ env.pos \in EncReach /\ env.seen \in EncReach /\ env.at \in EncReach
       /\ env.base \in Int /\ env.zero \in Int /\ env.left \in Int /\ env.seen = 0 /\ env.base = base
  BY <1>2, <1>4
<1>11. EncType
  BY <1>3, <1>7, <1>8, <1>9, <1>10 DEF EncType
<1>12. Imaged
  BY <1>3, <1>5, <1>9, <1>10 DEF Imaged
<1>13. Unarmed /\ Extended /\ Contained /\ Sided
  BY <1>3, <1>7, <1>8, <1>9 DEF Unarmed, Extended, Contained, Sided
<1>14. Encoders!PositionIsTravel
  BY <1>3 DEF Encoders!PositionIsTravel
<1> QED
  BY <1>11, <1>12, <1>13, <1>14 DEF EncInv

(* An exchange moves the axis, and shows it where the slave answers.       *)
LEMMA EncBusStep ==
  ASSUME EncInv, Encoders!Bus
  PROVE  EncInv'
<1>0. /\ phase = "bus" /\ phase' = "read" /\ device' = device /\ hal' = hal /\ drv' = drv /\ out' = out
      /\ up' \in BOOLEAN /\ EncType /\ Imaged /\ Unarmed /\ Extended /\ Contained /\ Sided
  BY DEF Encoders!Bus, Encoders!Turn, EncInv
<1>1. PICK d \in EncSteps, caught \in {FALSE, out.arm /\ up' /\ ~in.valid} :
       LET pos == env.pos + d
           half == Encoders!Drives[device].raw \div 2
           raw(p) == (p + env.base) % Encoders!Drives[device].raw
       IN  /\ pos \in EncReach /\ pos - env.seen \in -half..half - 1
           /\ in' = IF ~up' THEN in
                    ELSE [raw |-> raw(pos),
                          valid |-> caught \/ (in.valid /\ out.arm),
                          latch |-> IF caught THEN raw(pos) ELSE in.latch]
           /\ env' = [env EXCEPT !.pos = pos, !.seen = IF up' THEN pos ELSE @,
                                 !.at = IF caught THEN pos ELSE @,
                                 !.met = @ \cup Encoders!Way(d) \cup (IF caught THEN {"latch"} ELSE {})]
  BY DEF Encoders!Bus
<1> DEFINE pos == env.pos + d
           raw == (pos + env.base) % EncRaw
           seen == IF up' THEN pos ELSE env.seen
           at == IF caught THEN pos ELSE env.at
           met == env.met \cup Encoders!Way(d) \cup (IF caught THEN {"latch"} ELSE {})
           valid == IF up' THEN caught \/ (in.valid /\ out.arm) ELSE in.valid
           latch == IF up' /\ caught THEN raw ELSE in.latch
           count == IF up' THEN raw ELSE in.raw
<1>2. /\ pos \in EncReach /\ pos - env.seen \in SignedRange(EncRaw)
      /\ in' = (IF ~up' THEN in ELSE [raw |-> raw, valid |-> caught \/ (in.valid /\ out.arm),
                                      latch |-> IF caught THEN raw ELSE in.latch])
      /\ env' = [env EXCEPT !.pos = pos, !.seen = seen, !.at = at, !.met = met]
  BY <1>1 DEF EncRaw, SignedRange
<1>3. /\ device \in Encoders!Encoding /\ env.base \in Int /\ env.pos \in EncReach /\ env.seen \in EncReach
      /\ env.at \in EncReach /\ EncReach \subseteq Int /\ in.raw \in Int /\ in.latch \in Int
      /\ in.valid \in BOOLEAN /\ out.arm \in BOOLEAN /\ EncRaw \in Nat \ {0} /\ d \in Int
      /\ hal.home \in Homes
  BY <1>0, EncAssumption, EncWidths DEF EncType
<1>4. caught \in BOOLEAN /\ (caught => out.arm /\ up' /\ ~in.valid) /\ (in.valid => ~out.arm)
  BY <1>0, <1>3 DEF Unarmed
<1>5. raw \in Int /\ Same(raw, pos + env.base, EncRaw)
  <2>1. pos + env.base \in Int
    <3>1. env.pos \in Int
      BY <1>3
    <3> QED
      BY <1>3, <3>1
  <2> HIDE DEF pos
  <2> QED
    BY <1>3, <2>1, SameRemainder
<1>6. pos \in EncReach /\ pos \in Int /\ pos = env.pos + d
  BY <1>2, <1>3
<1> HIDE DEF raw, pos
<1>7. /\ seen \in EncReach /\ at \in EncReach /\ (up' => seen = pos) /\ (~up' => seen = env.seen)
      /\ (~caught => at = env.at) /\ (caught => at = pos)
  BY <1>3, <1>6
<1>8. /\ env.met \subseteq met /\ (caught => "latch" \in met)
      /\ Encoders!pprev \div 4 = 0 => "index" \in met
      /\ met \cap Passing = {} => env.met \cap Passing = {} /\ ~Encoders!Passed(d) /\ ~Encoders!Turns(d)
      /\ Encoders!Astray(d) => "astray" \in met
  BY DEF Encoders!Way, Passing
<1>9. /\ count \in Int /\ valid \in BOOLEAN /\ latch \in Int
      /\ up' => count = raw
      /\ ~up' => count = in.raw /\ valid = in.valid /\ latch = in.latch
      /\ valid => caught \/ (in.valid /\ ~up')
      /\ caught => latch = raw
      /\ ~caught => latch = in.latch
      /\ ~out.arm /\ ~in.valid => ~valid
  BY <1>3, <1>4, <1>5
<1>10. in' = [raw |-> count, valid |-> valid, latch |-> latch]
  BY <1>0, <1>2 DEF EncType
<1> HIDE DEF seen, at, met, valid, latch, count
<1>11. /\ in'.raw = count /\ in'.valid = valid /\ in'.latch = latch
       /\ in' = [raw |-> in'.raw, valid |-> in'.valid, latch |-> in'.latch]
  BY <1>10
<1>12. /\ env'.pos = pos /\ env'.seen = seen /\ env'.base = env.base /\ env'.zero = env.zero
       /\ env'.at = at /\ env'.met = met /\ env'.left = env.left
       /\ env' = [pos |-> env'.pos, seen |-> env'.seen, base |-> env'.base, zero |-> env'.zero,
                  at |-> env'.at, met |-> env'.met, left |-> env'.left]
  <2>1. env' = [pos |-> pos, seen |-> seen, base |-> env.base, zero |-> env.zero, at |-> at,
                met |-> met, left |-> env.left]
    BY <1>0, <1>2 DEF EncType
  <2> QED
    BY <2>1
<1>13. EncType'
  BY <1>0, <1>6, <1>7, <1>9, <1>11, <1>12 DEF EncType
<1>14. EncRaw' = EncRaw /\ Encoders!Window' = Encoders!Window /\ Encoders!pprev' = Encoders!pprev
  BY <1>0 DEF EncRaw, Encoders!Window, Encoders!pprev
<1>15. Same(count, seen + env.base, EncRaw) /\ (valid => /\ Same(latch, at + env.base, EncRaw) /\ at = seen
                                                         /\ "latch" \in met)
  <2>1. Same(count, seen + env.base, EncRaw)
    <3>1. CASE up'
      BY <1>5, <1>7, <1>9, <3>1
    <3>2. CASE ~up'
      BY <1>0, <1>7, <1>9, <3>2 DEF Imaged
    <3> QED
      BY <3>1, <3>2
  <2>2. ASSUME valid PROVE Same(latch, at + env.base, EncRaw) /\ at = seen /\ "latch" \in met
    <3>1. CASE caught
      BY <1>4, <1>5, <1>7, <1>8, <1>9, <3>1
    <3>2. CASE ~caught
      BY <1>0, <1>7, <1>8, <1>9, <2>2, <3>2 DEF Imaged
    <3> QED
      BY <3>1, <3>2
  <2> QED
    BY <2>1, <2>2
<1>16. Imaged'
  <2>1. device # "Ph3LM2RM" => ~out.arm /\ ~valid
    BY <1>0, <1>9 DEF Imaged
  <2> QED
    BY <1>0, <1>7, <1>11, <1>12, <1>14, <1>15, <2>1 DEF Imaged, Same
<1>17. Extended'
  <2>1. ~drv.init => /\ Same(drv.raw, hal.ext, EncRaw)
                     /\ env.seen + env.base - hal.ext \in SignedRange(EncRaw)
                     /\ hal.ext = env.seen + env.base /\ hal.ref = Encoders!Turned(env.zero)
                     /\ hal.pos = hal.ext - hal.home - hal.ref
    BY <1>0 DEF Extended
  <2>2. ~drv.init => seen + env.base - hal.ext \in SignedRange(EncRaw)
    <3>1. CASE up'
      <4>1. pos \in Int /\ env.seen \in Int /\ env.base \in Int
        BY <1>3, <1>6
      <4>2. ~drv.init => pos + env.base - hal.ext = pos - env.seen
        BY <2>1, <4>1
      <4> QED
        BY <1>2, <1>7, <3>1, <4>2
    <3>2. CASE ~up'
      BY <1>7, <2>1, <3>2
    <3> QED
      BY <3>1, <3>2
  <2>3. SignedRange(EncRaw)' = SignedRange(EncRaw)
    BY <1>14 DEF SignedRange
  <2> QED
    BY <1>0, <1>7, <1>12, <1>14, <2>1, <2>2, <2>3 DEF Extended, Encoders!Turned, Same
<1>18. Contained'
  BY <1>0, <1>12 DEF Contained, Encoders!Turned
<1>19. ASSUME Encoders!Window > 0, ~Encoders!Passed(d), ~Encoders!Turns(d)
       PROVE  SideOf(Encoders!Turned(pos)) = SideOf(Encoders!Turned(env.pos))
  <2>1. Encoders!pprev > 0
    <3>1. Encoders!pprev \in Nat
      BY <1>3, EncPulses
    <3>2. Encoders!pprev \div 4 > 0
      BY <1>19 DEF Encoders!Window
    <3> QED
      BY <3>1, <3>2
  <2>2. \A p \in EncReach : /\ env.pos <= p /\ p < pos => ~Encoders!Mark(p + 1) /\ ~Encoders!Half(p)
                            /\ pos <= p /\ p < env.pos => ~Encoders!Mark(p + 1) /\ ~Encoders!Half(p)
    BY <1>6, <1>19 DEF Encoders!Passed, Encoders!Turns, Encoders!Over
  <2>3. env.pos \in Int
    BY <1>3
  <2>4. CASE env.pos <= pos
    BY <1>3, <1>6, <2>1, <2>2, <2>4, SideKept
  <2>5. CASE pos <= env.pos
    BY <1>3, <1>6, <2>1, <2>2, <2>5, SideKept
  <2> QED
    BY <1>6, <2>3, <2>4, <2>5
<1>20. Sided'
  <2>1. ASSUME Encoders!Window > 0, EncM64 % Encoders!pprev # 0,
               Encoders!Turned(env.pos) < 0 \/ Encoders!Turned(pos) < 0
        PROVE  "astray" \in met
    <3>1. Encoders!pprev > 0
      <4>1. Encoders!pprev \in Nat
        BY <1>3, EncPulses
      <4> QED
        BY <2>1, <4>1 DEF Encoders!Window
    <3> QED
      BY <1>6, <1>8, <2>1, <3>1 DEF Encoders!Astray
  <2>2. ASSUME ~drv.init, drv.sign # 0
        PROVE  /\ Encoders!Window > 0
               /\ met \cap Passing # {} \/ drv.sign = SideOf(Encoders!Turned(pos))
    <3>1. /\ Encoders!Window > 0
          /\ env.met \cap Passing # {} \/ Lost \/ drv.sign = SideOf(Encoders!Turned(env.pos))
      BY <1>0, <2>2 DEF Sided
    <3>2. Lost => "astray" \in met
      BY <2>1, <3>1 DEF Lost
    <3> QED
      BY <1>8, <1>19, <3>1, <3>2 DEF Passing
  <2>3. Encoders!Window = 0 => "index" \in met
    BY <1>8 DEF Encoders!Window
  <2>4. Lost' => EncM64 % Encoders!pprev # 0 /\ Encoders!Turned(pos) < 0
    BY <1>0, <1>12, <1>14 DEF Lost, Encoders!Turned
  <2>5. SideOf(Encoders!Turned(env.pos))' = SideOf(Encoders!Turned(pos))
    BY <1>0, <1>12, <1>14 DEF SideOf, Encoders!Turned
  <2> QED
    BY <1>0, <1>12, <1>14, <2>1, <2>2, <2>3, <2>4, <2>5 DEF Sided
<1>21. Encoders!PositionIsTravel'
  BY <1>0 DEF Encoders!PositionIsTravel
<1>22. Unarmed'
  BY <1>0 DEF Unarmed
<1> QED
  BY <1>13, <1>16, <1>22, <1>17, <1>18, <1>20, <1>21 DEF EncInv

(* Where nothing moves and nothing is read.                                *)
LEMMA EncIdleStep ==
  ASSUME EncInv, device' = device, in' = in, up' = up, drv' = drv \/ drv' = [drv EXCEPT !.init = TRUE],
         device # "DeASDA" \/ drv' = drv, out'.arm = out.arm \/ device = "Ph3LM2RM",
         hal'.ext = hal.ext, hal'.ref = hal.ref, hal'.home = hal.home, hal'.pos = hal.pos,
         hal'.valid = hal.valid, env'.pos = env.pos, env'.seen = env.seen, env'.base = env.base,
         env'.zero = env.zero, env'.at = env.at, env'.met \cap Passing = env.met \cap Passing,
         "latch" \in env.met /\ in.valid => "latch" \in env'.met,
         phase # "read" \/ ~up, phase' # "read", phase' # "user" \/ ~up,
         device = "Ph3LM2RM" => phase' # "user"
  PROVE  Imaged' /\ Extended' /\ Contained' /\ Sided' /\ Encoders!PositionIsTravel'
<1>1. /\ EncType /\ Imaged /\ Extended /\ Contained /\ Sided
  BY DEF EncInv
<1>2. /\ drv'.raw = drv.raw /\ drv'.sign = drv.sign /\ (drv'.init = drv.init \/ drv'.init = TRUE)
      /\ device = "DeASDA" => drv'.init = drv.init
  BY <1>1 DEF EncType
<1>3. EncRaw' = EncRaw /\ Encoders!Window' = Encoders!Window /\ Encoders!pprev' = Encoders!pprev
  BY DEF EncRaw, Encoders!Window, Encoders!pprev
<1>4. Imaged'
  BY <1>1, <1>3 DEF Imaged, Same
<1>5. Extended'
  BY <1>1, <1>2, <1>3 DEF Extended, Encoders!Turned, Same, SignedRange
<1>6. Contained'
  BY <1>1, <1>2 DEF Contained, Encoders!Turned
<1>7. Sided'
  BY <1>1, <1>2, <1>3 DEF Sided, Lost, SideOf, Encoders!Turned
<1>8. Encoders!PositionIsTravel'
  <2>1. SUFFICES ASSUME ~drv'.init PROVE hal'.ext = env'.seen + env'.base /\ hal'.pos = env'.seen - env'.zero
    BY DEF Encoders!PositionIsTravel
  <2>2. /\ hal.ext = env.seen + env.base /\ hal.ref = env.zero + env.base - hal.home
        /\ hal.pos = hal.ext - hal.home - hal.ref
    BY <1>1, <1>2, <2>1 DEF Extended, Encoders!Turned
  <2>3. env.seen \in Int /\ env.base \in Int /\ env.zero \in Int /\ hal.home \in Int
    BY <1>1, EncAssumption, EncWidths DEF EncType
  <2>4. hal.pos = env.seen - env.zero
    BY <2>2, <2>3
  <2> QED
    BY <2>2, <2>4
<1> QED
  BY <1>4, <1>5, <1>6, <1>7, <1>8

(* So every read callback of an encoder keeps the invariant.               *)
LEMMA EncReadStep ==
  ASSUME EncInv, Encoders!Read
  PROVE  EncInv' /\ Encoders!IndexWhenMet
<1>1. ReadFrame /\ out' = out
  BY DEF Encoders!Read, Encoders!Turn, ReadFrame
<1>2. /\ phase = "read" /\ phase' = "user" /\ device' = device /\ up' = up /\ in' = in
      /\ EncType /\ Imaged
  BY <1>1 DEF ReadFrame, EncInv
<1>3. ASSUME up, device # "Ph3LM2RM", Encoders!class_enc_update(FALSE)
      PROVE  EncInv' /\ Encoders!IndexWhenMet
  <2> DEFINE latched == FALSE
  <2>1. latched \in BOOLEAN /\ latched = (device = "Ph3LM2RM" /\ in.valid) /\ Encoders!class_enc_update(latched)
    BY <1>3
  <2> QED
    BY <1>1, <1>3, <2>1, EncUpdateStep
<1>4. ASSUME device = "Ph3LM2RM", Encoders!class_enc_update(in.valid)
      PROVE  EncInv' /\ Encoders!IndexWhenMet
  <2>1. in.valid \in BOOLEAN /\ in.valid = (device = "Ph3LM2RM" /\ in.valid)
    BY <1>2, <1>4 DEF EncType
  <2> QED
    BY <1>1, <1>4, <2>1, EncUpdateStep
<1>5. ASSUME ~up, device # "Ph3LM2RM", hal' = hal, env' = env,
             drv' = drv \/ (device = "AX5" /\ drv' = [drv EXCEPT !.init = TRUE])
      PROVE  EncInv' /\ Encoders!IndexWhenMet
  <2>1. Imaged' /\ Extended' /\ Contained' /\ Sided' /\ Encoders!PositionIsTravel'
    BY <1>1, <1>2, <1>5, EncIdleStep
  <2>2. /\ drv'.raw = drv.raw /\ drv'.sign = drv.sign /\ drv'.init \in BOOLEAN
        /\ drv' = [init |-> drv'.init, raw |-> drv'.raw, sign |-> drv'.sign]
    BY <1>2, <1>5 DEF EncType
  <2>3. EncType'
    BY <1>1, <1>2, <1>5, <2>2 DEF EncType
  <2>4. Encoders!IndexWhenMet
    BY <1>5 DEF Encoders!IndexWhenMet
  <2>5. Unarmed'
    <3>1. ~in.valid
      BY <1>2, <1>5 DEF Imaged
    <3> QED
      BY <1>2, <3>1 DEF Unarmed
  <2> QED
    BY <2>1, <2>3, <2>4, <2>5 DEF EncInv
<1>6. \/ up /\ device # "Ph3LM2RM" /\ Encoders!class_enc_update(FALSE)
      \/ device = "Ph3LM2RM" /\ Encoders!class_enc_update(in.valid)
      \/ /\ ~up /\ device # "Ph3LM2RM" /\ hal' = hal /\ env' = env
         /\ drv' = drv \/ (device = "AX5" /\ drv' = [drv EXCEPT !.init = TRUE])
  BY DEF Encoders!Read, Encoders!Wait, Encoders!lcec_stmds5k_read, Encoders!lcec_el7211_read,
         Encoders!lcec_deasda_read, Encoders!lcec_class_ax5_read, Encoders!lcec_ph3lm2rm_enc_read
<1> QED
  BY <1>3, <1>4, <1>5, <1>6

(* The user asks for an index, a reset or a latch.                         *)
LEMMA EncUserStep ==
  ASSUME EncInv, Encoders!User
  PROVE  EncInv'
<1>1. /\ phase = "user" /\ phase' = "write" /\ device' = device /\ up' = up /\ drv' = drv /\ in' = in
      /\ out' = out /\ EncType /\ Imaged /\ Unarmed
  BY DEF Encoders!User, Encoders!Turn, EncInv
<1>2. \E index, reset, arm \in BOOLEAN, left \in Int :
        /\ hal' = [hal EXCEPT !.index = index, !.reset = reset, !.arm = arm]
        /\ \/ arm = hal.arm /\ env' = [env EXCEPT !.left = left]
           \/ /\ device = "Ph3LM2RM" /\ ~hal.valid
              /\ env' = [env EXCEPT !.left = left, !.met = @ \ {"latch"}]
  <2>1. /\ hal.index \in BOOLEAN /\ hal.reset \in BOOLEAN /\ hal.arm \in BOOLEAN /\ env.left \in Int
        /\ env.left - 1 \in Int /\ env.met \ {} = env.met
    BY <1>1 DEF EncType
  <2>2. CASE UNCHANGED <<hal, env>>
    <3>1. hal' = [hal EXCEPT !.index = hal.index, !.reset = hal.reset, !.arm = hal.arm]
      BY <1>1, <2>2 DEF EncType
    <3>2. env' = [env EXCEPT !.left = env.left]
      BY <1>1, <2>2 DEF EncType
    <3> QED
      BY <2>1, <3>1, <3>2
  <2>3. ASSUME NEW index \in BOOLEAN, NEW reset \in BOOLEAN, NEW arm \in BOOLEAN, NEW pins, NEW forget,
               pins = [hal EXCEPT !.index = index, !.reset = reset, !.arm = arm],
               Encoders!Put(pins, forget),
               \/ forget = {} /\ arm = hal.arm
               \/ forget = {"latch"} /\ device = "Ph3LM2RM" /\ ~hal.valid
        PROVE  \E i, r, a \in BOOLEAN, left \in Int :
                 /\ hal' = [hal EXCEPT !.index = i, !.reset = r, !.arm = a]
                 /\ \/ a = hal.arm /\ env' = [env EXCEPT !.left = left]
                    \/ /\ device = "Ph3LM2RM" /\ ~hal.valid
                       /\ env' = [env EXCEPT !.left = left, !.met = @ \ {"latch"}]
    <3>1. hal' = pins /\ env' = [env EXCEPT !.left = env.left - 1, !.met = env.met \ forget]
      BY <2>3 DEF Encoders!Put
    <3>2. CASE forget = {} /\ arm = hal.arm
      <4>1. env' = [env EXCEPT !.left = env.left - 1]
        BY <1>1, <2>1, <3>1, <3>2 DEF EncType
      <4> QED
        BY <2>1, <2>3, <3>1, <4>1
    <3>3. CASE forget = {"latch"} /\ device = "Ph3LM2RM" /\ ~hal.valid
      BY <2>1, <2>3, <3>1, <3>3
    <3> QED
      BY <2>3, <3>2, <3>3
  <2> DEFINE pins(i, r, a) == [hal EXCEPT !.index = i, !.reset = r, !.arm = a]
             Goal == \E i, r, a \in BOOLEAN, left \in Int :
                       /\ hal' = [hal EXCEPT !.index = i, !.reset = r, !.arm = a]
                       /\ \/ a = hal.arm /\ env' = [env EXCEPT !.left = left]
                          \/ /\ device = "Ph3LM2RM" /\ ~hal.valid
                             /\ env' = [env EXCEPT !.left = left, !.met = @ \ {"latch"}]
  <2>4. ASSUME NEW i \in BOOLEAN, Encoders!Put([hal EXCEPT !.index = i], {}) PROVE Goal
    <3>1. [hal EXCEPT !.index = i] = pins(i, hal.reset, hal.arm)
      BY <1>1 DEF EncType
    <3>2. Encoders!Put(pins(i, hal.reset, hal.arm), {})
      BY <2>4, <3>1
    <3> HIDE DEF Goal
    <3> QED
      BY <2>1, <2>3, <3>2 DEF Goal
  <2>5. ASSUME Encoders!Put([hal EXCEPT !.reset = ~@], {}) PROVE Goal
    <3> DEFINE flipped == ~hal.reset
    <3>4. flipped \in BOOLEAN
      OBVIOUS
    <3>6. \A b \in BOOLEAN : [hal EXCEPT !.reset = b] = pins(hal.index, b, hal.arm)
      BY <1>1 DEF EncType
    <3>1. [hal EXCEPT !.reset = flipped] = pins(hal.index, flipped, hal.arm)
      <4> HIDE DEF flipped, pins
      <4> QED
        BY <3>4, <3>6
    <3>7. Encoders!Put([hal EXCEPT !.reset = flipped], {})
      BY <2>5
    <3>2. Encoders!Put(pins(hal.index, flipped, hal.arm), {})
      BY <3>1, <3>7
    <3> HIDE DEF flipped, Goal
    <3> QED
      BY <2>1, <2>3, <3>2, <3>4 DEF Goal
  <2>6. ASSUME device = "Ph3LM2RM", ~hal.valid, Encoders!Put([hal EXCEPT !.arm = ~@], {"latch"}) PROVE Goal
    <3> DEFINE flipped == ~hal.arm
    <3>4. flipped \in BOOLEAN
      OBVIOUS
    <3>6. \A b \in BOOLEAN : [hal EXCEPT !.arm = b] = pins(hal.index, hal.reset, b)
      BY <1>1 DEF EncType
    <3>1. [hal EXCEPT !.arm = flipped] = pins(hal.index, hal.reset, flipped)
      <4> HIDE DEF flipped, pins
      <4> QED
        BY <3>4, <3>6
    <3>7. Encoders!Put([hal EXCEPT !.arm = flipped], {"latch"})
      BY <2>6
    <3>2. Encoders!Put(pins(hal.index, hal.reset, flipped), {"latch"})
      BY <3>1, <3>7
    <3> HIDE DEF flipped, Goal
    <3> QED
      BY <2>1, <2>3, <2>6, <3>2, <3>4 DEF Goal
  <2>7. \/ UNCHANGED <<hal, env>>
        \/ Encoders!Put([hal EXCEPT !.index = TRUE], {})
        \/ Encoders!Put([hal EXCEPT !.index = FALSE], {})
        \/ Encoders!Put([hal EXCEPT !.reset = ~@], {})
        \/ device = "Ph3LM2RM" /\ ~hal.valid /\ Encoders!Put([hal EXCEPT !.arm = ~@], {"latch"})
    BY DEF Encoders!User
  <2>8. TRUE \in BOOLEAN /\ FALSE \in BOOLEAN
    OBVIOUS
  <2> QED
    BY <2>2, <2>4, <2>5, <2>6, <2>7, <2>8
<1>3. PICK index \in BOOLEAN, reset \in BOOLEAN, arm \in BOOLEAN, left \in Int :
        /\ hal' = [hal EXCEPT !.index = index, !.reset = reset, !.arm = arm]
        /\ \/ arm = hal.arm /\ env' = [env EXCEPT !.left = left]
           \/ /\ device = "Ph3LM2RM" /\ ~hal.valid
              /\ env' = [env EXCEPT !.left = left, !.met = @ \ {"latch"}]
  BY <1>2
<1>4. /\ hal'.ext = hal.ext /\ hal'.ref = hal.ref /\ hal'.home = hal.home /\ hal'.pos = hal.pos
      /\ hal'.valid = hal.valid /\ hal'.index = index /\ hal'.reset = reset /\ hal'.arm = arm
      /\ hal' = [ext |-> hal'.ext, ref |-> hal'.ref, home |-> hal'.home, index |-> hal'.index,
                 reset |-> hal'.reset, pos |-> hal'.pos, arm |-> hal'.arm, valid |-> hal'.valid]
  BY <1>1, <1>3 DEF EncType
<1>5. /\ env'.pos = env.pos /\ env'.seen = env.seen /\ env'.base = env.base /\ env'.zero = env.zero
      /\ env'.at = env.at /\ env'.left = left
      /\ env'.met = env.met \/ (env'.met = env.met \ {"latch"} /\ device = "Ph3LM2RM" /\ ~hal.valid)
      /\ env' = [pos |-> env'.pos, seen |-> env'.seen, base |-> env'.base, zero |-> env'.zero,
                 at |-> env'.at, met |-> env'.met, left |-> env'.left]
  BY <1>1, <1>3 DEF EncType
<1>6. EncType'
  BY <1>1, <1>4, <1>5 DEF EncType
<1>7. /\ env'.met \cap Passing = env.met \cap Passing
      /\ "latch" \in env.met /\ in.valid => "latch" \in env'.met
  BY <1>1, <1>5 DEF Imaged, Passing
<1>8. Imaged' /\ Extended' /\ Contained' /\ Sided' /\ Encoders!PositionIsTravel'
  BY <1>1, <1>4, <1>5, <1>7, EncIdleStep
<1>9. Unarmed'
  <2>1. in.valid => ~hal.arm /\ (device = "Ph3LM2RM" => hal.valid) /\ arm \in BOOLEAN
    BY <1>1 DEF Unarmed, Imaged
  <2>2. arm = hal.arm \/ (device = "Ph3LM2RM" /\ ~hal.valid)
    BY <1>3
  <2> QED
    BY <1>1, <1>4, <2>1, <2>2 DEF Unarmed
<1> QED
  BY <1>6, <1>8, <1>9 DEF EncInv

(* A write callback arms the latch.                                        *)
LEMMA EncWriteStep ==
  ASSUME EncInv, Encoders!Write
  PROVE  EncInv'
<1>1. /\ phase = "write" /\ phase' = "bus" /\ device' = device /\ up' = up /\ hal' = hal /\ drv' = drv
      /\ in' = in /\ env' = env /\ EncType /\ Imaged /\ Unarmed
  BY DEF Encoders!Write, Encoders!Turn, EncInv
<1>2. (device = "Ph3LM2RM" /\ out' = [arm |-> hal.arm]) \/ (device # "Ph3LM2RM" /\ out' = out)
  BY DEF Encoders!Write, Encoders!lcec_ph3lm2rm_enc_write
<1>3. out' = [arm |-> out'.arm] /\ out'.arm \in BOOLEAN
  BY <1>1, <1>2 DEF EncType
<1>4. EncType'
  BY <1>1, <1>3 DEF EncType
<1>5. Imaged' /\ Extended' /\ Contained' /\ Sided' /\ Encoders!PositionIsTravel'
  BY <1>1, <1>2, EncIdleStep
<1>6. Unarmed'
  <2>1. in.valid => ~hal.arm /\ device = "Ph3LM2RM"
    BY <1>1 DEF Unarmed, Imaged
  <2>2. in.valid => ~out'.arm
    BY <1>1, <1>2, <2>1
  <2> QED
    BY <1>1, <2>2 DEF Unarmed
<1> QED
  BY <1>4, <1>5, <1>6 DEF EncInv

(* So each step of an encoder keeps the invariant and meets requests.      *)
LEMMA EncStep ==
  ASSUME EncInv, [Encoders!Next]_slaveVars
  PROVE  EncInv' /\ Encoders!IndexWhenMet
<1>1. CASE Encoders!Bus
  <2>1. phase # "read"
    BY <1>1 DEF Encoders!Bus, Encoders!Turn
  <2> QED
    BY <1>1, <2>1, EncBusStep DEF Encoders!IndexWhenMet
<1>2. CASE Encoders!Read
  BY <1>2, EncReadStep
<1>3. CASE Encoders!User
  <2>1. phase # "read"
    BY <1>3 DEF Encoders!User, Encoders!Turn
  <2> QED
    BY <1>3, <2>1, EncUserStep DEF Encoders!IndexWhenMet
<1>4. CASE Encoders!Write
  <2>1. phase # "read"
    BY <1>4 DEF Encoders!Write, Encoders!Turn
  <2> QED
    BY <1>4, <2>1, EncWriteStep DEF Encoders!IndexWhenMet
<1>5. CASE UNCHANGED slaveVars
  <2>1. /\ device' = device /\ phase' = phase /\ up' = up /\ hal' = hal /\ drv' = drv
        /\ in' = in /\ out' = out /\ env' = env
    BY <1>5 DEF slaveVars
  <2>2. EncType' /\ Imaged' /\ Unarmed' /\ Extended' /\ Contained'
    BY <2>1 DEF EncInv, EncType, Imaged, Unarmed, Extended, Contained, EncRaw, Same, SignedRange,
                Encoders!Turned
  <2>3. Sided'
    BY <2>1 DEF EncInv, Sided, Lost, SideOf, Encoders!Turned, Encoders!Window, Encoders!pprev
  <2>4. Encoders!PositionIsTravel'
    BY <2>1 DEF EncInv, Encoders!PositionIsTravel
  <2>5. Encoders!IndexWhenMet
    BY <2>1 DEF Encoders!IndexWhenMet
  <2> QED
    BY <2>2, <2>3, <2>4, <2>5 DEF EncInv
<1> QED
  BY <1>1, <1>2, <1>3, <1>4, <1>5 DEF Encoders!Next

(* Whatever the widths of the counters, and for any number of turns, every   *)
(* read shows the travel since the event that made the count zero, modulo  *)
(* the width of the pin, and the position is that travel by the scale on   *)
(* the pin (lcec_el5101.c 221-296, lcec_class_enc.c 80-158).               *)
THEOREM CountIsTravelCorrect == Spec => []CountIsTravel
<1> DEFINE Inv == (device \in Counting => CountInv) /\ (device \in Encoders!Encoding => EncInv)
<1>1. Init => Inv
  BY OneStart, CountStart, EncStart
<1>2. Inv /\ [Next]_slaveVars => Inv'
  BY OneDriver, CountStep, EncStep
<1>3. Inv => CountIsTravel
  BY DEF CountIsTravel, CountInv, EncInv
<1> QED
  BY <1>1, <1>2, <1>3, PTL DEF Spec

(* A driver takes an enable or set pin back only when what it asked for    *)
(* has been done since, or for one of three reasons: an answer from before *)
(* has stood ever since, the axis went through the middle of a revolution, *)
(* or DeASDA was on the negative side; however the exchanges, the latches  *)
(* and the user interleave (lcec_el5101.c 248-282, lcec_class_enc.c        *)
(* 122-141).                                                               *)
THEOREM RequestsAreMetCorrect == Spec => RequestsAreMet
<1> DEFINE Inv == (device \in Counting => CountInv) /\ (device \in Encoders!Encoding => EncInv)
           Met == /\ device \in Counting => Counters!TakenBackWhenMet
                  /\ device \in Encoders!Encoding => Encoders!IndexWhenMet
<1>1. Init => Inv
  BY OneStart, CountStart, EncStart
<1>2. Inv /\ [Next]_slaveVars => Inv' /\ Met
  BY OneDriver, CountStep, EncStep
<1> QED
  BY <1>1, <1>2, PTL DEF Spec, RequestsAreMet

-----------------------------------------------------------------------------
(* The configurations before a slave refused, of the slaves so far.        *)
Confs == {v \in [Fsoe!Slaves -> 0..2] : v["plain"] = 0 /\ (v["AX5805"] > 0 => v["AX5000"] > 0)}

(* A slave configured before the start leaves what others were given, and  *)
(* is configured itself if it carries frames.                              *)
LEMMA PreinitKeeps ==
  ASSUME NEW c, c.beside = "AX5000", NEW v \in Confs, NEW s
  PROVE  /\ Fsoe!Preinit(c, v, s) \in Confs
         /\ \A t \in Fsoe!Slaves : v[t] > 0 => Fsoe!Preinit(c, v, s)[t] > 0
         /\ s \in Fsoe!Carriers => Fsoe!Preinit(c, v, s)[s] > 0
<1> DEFINE w == Fsoe!Preinit(c, v, s)
<1> USE DEF Fsoe!Slaves, Fsoe!Carriers
<1>1. v \in [Fsoe!Slaves -> 0..2] /\ v["plain"] # -1 /\ v["plain"] = 0
  BY DEF Confs
<1>2. CASE s = "EL1904"
  <2>1. w = [v EXCEPT !["EL1904"] = 1]
    BY <1>1, <1>2 DEF Fsoe!Preinit, Fsoe!lcec_el1904_preinit
  <2> QED
    BY <1>1, <1>2, <2>1 DEF Confs
<1>3. CASE s = "EL2904"
  <2>1. w = [v EXCEPT !["EL2904"] = 1]
    BY <1>1, <1>3 DEF Fsoe!Preinit, Fsoe!lcec_el2904_preinit
  <2> QED
    BY <1>1, <1>3, <2>1 DEF Confs
<1>4. CASE s = "EK1914"
  <2>1. w = [v EXCEPT !["EK1914"] = 1]
    BY <1>1, <1>4 DEF Fsoe!Preinit, Fsoe!lcec_ek1914_preinit
  <2> QED
    BY <1>1, <1>4, <2>1 DEF Confs
<1> DEFINE d == IF v["AX5000"] # 0 THEN v ELSE [v EXCEPT !["AX5000"] = 2]
<1>5. /\ d \in Confs /\ d["AX5000"] > 0 /\ d["AX5000"] \in 0..2
      /\ \A t \in Fsoe!Slaves : v[t] > 0 => d[t] > 0
  BY <1>1 DEF Confs
<1>6. CASE s = "AX5000"
  <2>1. w = d
    BY <1>1, <1>6 DEF Fsoe!Preinit, Fsoe!lcec_ax5200_preinit
  <2> QED
    BY <1>5, <1>6, <2>1
<1>7. CASE s = "AX5805"
  <2>1. w = [d EXCEPT !["AX5805"] = d["AX5000"]]
    BY <1>1, <1>7 DEF Fsoe!Preinit, Fsoe!lcec_ax5805_preinit, Fsoe!lcec_ax5200_preinit
  <2> HIDE DEF d
  <2> QED
    BY <1>5, <1>7, <2>1 DEF Confs
<1>8. CASE s \notin {"EL1904", "EL2904", "EK1914", "AX5000", "AX5805"}
  <2>1. w = v
    BY <1>1, <1>8 DEF Fsoe!Preinit
  <2> QED
    BY <1>8, <2>1
<1> QED
  BY <1>2, <1>3, <1>4, <1>6, <1>7, <1>8

(* The fold of the start over the slaves, as the function it is chosen as. *)
PreinitOf(c, g, s) == IF s = {} THEN [t \in Fsoe!Slaves |-> 0]
                      ELSE Fsoe!Preinit(c, g[s \ {Max(s)}], c.order[Max(s)])
AllPreinit(c, g) == g = [s \in SUBSET DOMAIN c.order |-> PreinitOf(c, g, s)]
PreinitFold(c) == CHOOSE g : AllPreinit(c, g)

(* The fold of the community modules is that function.                     *)
LEMMA PreinitIsFold == \A c : Fsoe!PreinitSlaves(c) = PreinitFold(c)[DOMAIN c.order]
BY DEF Fsoe!PreinitSlaves, Fsoe!FoldLeft, Fsoe!MapThenFoldSet, PreinitFold, AllPreinit,
       PreinitOf, Max, Fsoe!Max

(* There is such a function, so the choice is one.                         *)
LEMMA PreinitExists ==
  ASSUME NEW c, c.beside = "AX5000", IsSequence(c.order)
  PROVE  AllPreinit(c, PreinitFold(c))
<1> DEFINE n == Len(c.order)
           none == [t \in Fsoe!Slaves |-> 0]
           step == [x \in Confs \X (1..n) |-> Fsoe!Preinit(c, x[1], c.order[x[2]])]
<1>1. n \in Nat /\ DOMAIN c.order = 1..n
  BY DEF IsSequence
<1>2. none \in Confs
  BY DEF Confs, Fsoe!Slaves, Fsoe!Carriers
<1>3. \A v \in Confs, i \in 1..n :
        step[<<v, i>>] = Fsoe!Preinit(c, v, c.order[i]) /\ step[<<v, i>>] \in Confs
  BY PreinitKeeps
<1> HIDE DEF n, none, step
<1>4. PICK g : /\ AllFromLast(step, none, g, n)
               /\ \A s \in SUBSET (1..n) : g[s] \in Confs
  BY <1>1, <1>2, <1>3, FoldFromLast
<1>5. ASSUME NEW s \in SUBSET (1..n)
      PROVE  FromLast(step, none, g, s) = PreinitOf(c, g, s)
  <2>1. CASE s = {}
    BY <2>1 DEF FromLast, PreinitOf, none
  <2>2. CASE s # {}
    <3>1. Max(s) \in s /\ Max(s) \in 1..n
      BY <1>1, <2>2, MaxUpTo
    <3>2. g[s \ {Max(s)}] \in Confs
      BY <1>4
    <3> QED
      BY <1>3, <2>2, <3>1, <3>2 DEF FromLast, PreinitOf
  <2> QED
    BY <2>1, <2>2
<1>6. AllPreinit(c, g)
  BY <1>1, <1>4, <1>5 DEF AllPreinit, AllFromLast
<1> QED
  BY <1>6 DEF PreinitFold

(* After the start every safety slave has its configuration.               *)
LEMMA PreinitDone ==
  ASSUME NEW c, c.beside = "AX5000", IsSequence(c.order)
  PROVE  /\ Fsoe!PreinitSlaves(c) \in Confs
         /\ \A i \in DOMAIN c.order :
              c.order[i] \in Fsoe!Carriers => Fsoe!PreinitSlaves(c)[c.order[i]] > 0
<1> DEFINE n == Len(c.order)
           g == PreinitFold(c)
           Has(k) == /\ g[1..k] \in Confs
                     /\ \A i \in 1..k : c.order[i] \in Fsoe!Carriers => g[1..k][c.order[i]] > 0
           N == {k \in Nat : k <= n => Has(k)}
<1>1. n \in Nat /\ DOMAIN c.order = 1..n
  BY DEF IsSequence
<1>2. AllPreinit(c, g)
  BY PreinitExists
<1>3. \A s \in SUBSET (1..n) : g[s] = PreinitOf(c, g, s)
  <2> HIDE DEF g, n
  <2> QED
    BY <1>1, <1>2 DEF AllPreinit
<1> HIDE DEF g, n
<1>4. 0 \in N
  <2>1. 1..0 = {} /\ {} \in SUBSET (1..n)
    OBVIOUS
  <2>2. g[1..0] = [t \in Fsoe!Slaves |-> 0]
    BY <1>3, <2>1 DEF PreinitOf
  <2> QED
    BY <2>1, <2>2 DEF Confs, Fsoe!Slaves, Fsoe!Carriers
<1>5. ASSUME NEW k \in Nat, k \in N
      PROVE  k + 1 \in N
  <2> SUFFICES ASSUME k + 1 <= n
               PROVE  Has(k + 1)
    OBVIOUS
  <2> DEFINE v == g[1..k]
             s == c.order[k + 1]
  <2>1. Has(k)
    BY <1>1, <1>5
  <2>2. Max(1..k + 1) = k + 1 /\ (1..k + 1) \ {k + 1} = 1..k /\ 1..k + 1 # {}
    BY MaxOfPrefix
  <2>3. g[1..k + 1] = Fsoe!Preinit(c, v, s)
    <3>1. 1..k + 1 \in SUBSET (1..n)
      BY <1>1
    <3> QED
      BY <1>3, <2>2, <3>1 DEF PreinitOf
  <2>4. v \in Confs
    BY <2>1
  <2>5. \A i \in 1..k : c.order[i] \in Fsoe!Carriers => v[c.order[i]] > 0
    BY <2>1
  <2> HIDE DEF v, s
  <2>6. /\ Fsoe!Preinit(c, v, s) \in Confs
        /\ \A t \in Fsoe!Slaves : v[t] > 0 => Fsoe!Preinit(c, v, s)[t] > 0
        /\ s \in Fsoe!Carriers => Fsoe!Preinit(c, v, s)[s] > 0
    BY <2>4, PreinitKeeps
  <2>7. Fsoe!Carriers \subseteq Fsoe!Slaves
    BY DEF Fsoe!Slaves
  <2>8. ASSUME NEW i \in 1..k + 1, c.order[i] \in Fsoe!Carriers
        PROVE  Fsoe!Preinit(c, v, s)[c.order[i]] > 0
    <3>1. CASE i = k + 1
      BY <2>6, <2>8, <3>1 DEF s
    <3>2. CASE i # k + 1
      <4>1. i \in 1..k
        BY <3>2
      <4> QED
        BY <2>5, <2>6, <2>7, <2>8, <4>1
    <3> QED
      BY <3>1, <3>2
  <2> QED
    BY <2>3, <2>6, <2>8
<1>6. Has(n)
  <2>1. Nat \subseteq N
    <3> HIDE DEF N
    <3> QED
      BY <1>4, <1>5, SetInduction
  <2> QED
    BY <1>1, <2>1
<1>7. Fsoe!PreinitSlaves(c) = g[1..n]
  BY <1>1, PreinitIsFold DEF g
<1> QED
  BY <1>1, <1>6, <1>7

---------------------------------------------------------------------------
(* The frames of a configuration, in its inputs and in its outputs.        *)
FramesOf(c) == [slave : [Fsoe!Linked(c) -> Fsoe!Frames], logic : [DOMAIN c.links -> Fsoe!Frames]]

(* Each slave that a connection names copies to the place of one that      *)
(* names it, the others to none.                                           *)
Places(c, to) ==
  /\ DOMAIN to = Fsoe!Slaves
  /\ \A s \in Fsoe!Linked(c) : to[s] \in DOMAIN c.links /\ to[s] # 0 /\ c.links[to[s]] = s
  /\ \A s \in Fsoe!Carriers \ Fsoe!Linked(c) : to[s] = 0

(* The frames f hold what the inputs x hold of a slave's connection.       *)
Carried(f, x, to, s) == f.logic[to[s]] = x.slave[s] /\ f.slave[s] = x.logic[to[s]]

Copy(f, s) == CASE s = "EL1904" -> Fsoe!lcec_el1904_read(f)
                [] s = "EL2904" -> Fsoe!lcec_el2904_read(f)
                [] s = "EK1914" -> Fsoe!lcec_ek1914_read(f)
                [] s = "AX5805" -> Fsoe!lcec_ax5805_read(f)
                [] OTHER -> f

(* The places found in the list of connections are those of the slaves.    *)
LEMMA PlacesFound ==
  ASSUME NEW c, IsSequence(c.links)
  PROVE  Places(c, [s \in Fsoe!Slaves |-> Fsoe!SelectLastInSeq(c.links, LAMBDA l : l = s)])
<1> DEFINE I(s) == {i \in 1..Len(c.links) : c.links[i] = s}
           to == [s \in Fsoe!Slaves |-> Fsoe!SelectLastInSeq(c.links, LAMBDA l : l = s)]
<1>1. \A s \in Fsoe!Slaves : to[s] = IF I(s) # {} THEN Max(I(s)) ELSE 0
  BY DEF Fsoe!SelectLastInSeq, Max, Fsoe!Max
<1>2. Len(c.links) \in Nat /\ DOMAIN c.links = 1..Len(c.links)
  BY DEF IsSequence
<1>3. \A s : I(s) # {} => Max(I(s)) \in I(s)
  <2> SUFFICES ASSUME NEW s, I(s) # {}
               PROVE  Max(I(s)) \in I(s)
    OBVIOUS
  <2>1. I(s) \in SUBSET (1..Len(c.links))
    OBVIOUS
  <2> HIDE DEF I
  <2> QED
    BY <1>2, <2>1, MaxUpTo
<1>4. \A s \in Fsoe!Carriers : s \in Fsoe!Linked(c) <=> I(s) # {}
  BY <1>2 DEF Fsoe!Linked, Fsoe!ToSet
<1>5. Fsoe!Linked(c) \subseteq Fsoe!Carriers /\ Fsoe!Carriers \subseteq Fsoe!Slaves
  BY DEF Fsoe!Linked, Fsoe!Slaves
<1>6. DOMAIN to = Fsoe!Slaves
  OBVIOUS
<1>7. ASSUME NEW s \in Fsoe!Linked(c)
      PROVE  to[s] \in DOMAIN c.links /\ to[s] # 0 /\ c.links[to[s]] = s
  <2>1. to[s] \in I(s)
    <3> HIDE DEF to, I
    <3> QED
      BY <1>1, <1>3, <1>4, <1>5
  <2> HIDE DEF to
  <2> QED
    BY <1>2, <2>1
<1>8. ASSUME NEW s \in Fsoe!Carriers \ Fsoe!Linked(c)
      PROVE  to[s] = 0
  <2> HIDE DEF to, I
  <2> QED
    BY <1>1, <1>4, <1>5
<1> HIDE DEF to
<1>9. Places(c, to)
  BY <1>6, <1>7, <1>8 DEF Places
<1> QED
  BY <1>9 DEF to

(* What one read changes in the frames.                                    *)
LEMMA CopyKeeps ==
  ASSUME ~drv.cfg.apart, Places(drv.cfg, drv.to), in \in FramesOf(drv.cfg),
         NEW f \in FramesOf(drv.cfg), NEW s
  PROVE  /\ Copy(f, s) \in FramesOf(drv.cfg)
         /\ \A t \in Fsoe!Linked(drv.cfg) :
              /\ Carried(f, in, drv.to, t) \/ s = t => Carried(Copy(f, s), in, drv.to, t)
              /\ Copy(f, s).logic[drv.to[t]] \in {f.logic[drv.to[t]], in.slave[t]}
<1> DEFINE w == Copy(f, s)
           c == drv.cfg
           to == drv.to
<1>1. Fsoe!Linked(c) \subseteq Fsoe!Carriers
  BY DEF Fsoe!Linked
<1>2. CASE s \notin Fsoe!Carriers
  <2>1. w = f
    BY <1>2 DEF Copy, Fsoe!Carriers
  <2> QED
    BY <1>1, <1>2, <2>1
<1>3. CASE s \in Fsoe!Carriers
  <2>1. w = Fsoe!Copied(s, f)
    BY <1>3 DEF Copy, Fsoe!Carriers, Fsoe!lcec_el1904_read, Fsoe!lcec_el2904_read,
                Fsoe!lcec_ek1914_read, Fsoe!lcec_ax5805_read
  <2>2. CASE s \notin Fsoe!Linked(c)
    <3>1. to[s] = 0
      BY <1>3, <2>2 DEF Places
    <3>2. w = f
      BY <2>1, <3>1 DEF Fsoe!Copied
    <3> QED
      BY <2>2, <3>2
  <2>3. CASE s \in Fsoe!Linked(c)
    <3>1. to[s] # 0 /\ to[s] \in DOMAIN c.links
      BY <2>3 DEF Places
    <3>2. w = [f EXCEPT !.slave[s] = in.logic[to[s]], !.logic[to[s]] = in.slave[s]]
      BY <2>1, <3>1 DEF Fsoe!Copied, Fsoe!copy_fsoe_data
    <3>3. /\ f.slave \in [Fsoe!Linked(c) -> Fsoe!Frames] /\ f.logic \in [DOMAIN c.links -> Fsoe!Frames]
          /\ in.slave \in [Fsoe!Linked(c) -> Fsoe!Frames] /\ in.logic \in [DOMAIN c.links -> Fsoe!Frames]
          /\ f = [slave |-> f.slave, logic |-> f.logic]
      BY DEF FramesOf
    <3>4. w = [slave |-> [f.slave EXCEPT ![s] = in.logic[to[s]]],
               logic |-> [f.logic EXCEPT ![to[s]] = in.slave[s]]]
      BY <3>2, <3>3
    <3>5. w \in FramesOf(c)
      <4>1. in.logic[to[s]] \in Fsoe!Frames /\ in.slave[s] \in Fsoe!Frames
        BY <2>3, <3>1, <3>3
      <4>2. /\ [f.slave EXCEPT ![s] = in.logic[to[s]]] \in [Fsoe!Linked(c) -> Fsoe!Frames]
            /\ [f.logic EXCEPT ![to[s]] = in.slave[s]] \in [DOMAIN c.links -> Fsoe!Frames]
        BY <3>3, <4>1
      <4> QED
        BY <3>4, <4>2 DEF FramesOf
    <3>6. w.slave[s] = in.logic[to[s]] /\ w.logic[to[s]] = in.slave[s]
      BY <2>3, <3>1, <3>3, <3>4
    <3>7. ASSUME NEW t \in Fsoe!Linked(c), t # s
          PROVE  w.slave[t] = f.slave[t] /\ w.logic[to[t]] = f.logic[to[t]]
      <4>1. to[t] # to[s] /\ to[t] \in DOMAIN c.links
        BY <2>3, <3>7 DEF Places
      <4> QED
        BY <3>3, <3>4, <3>7, <4>1
    <3> HIDE DEF w, c, to
    <3>8. ASSUME NEW t \in Fsoe!Linked(c)
          PROVE  /\ Carried(f, in, to, t) \/ s = t => Carried(w, in, to, t)
                 /\ w.logic[to[t]] \in {f.logic[to[t]], in.slave[t]}
      <4>1. CASE t = s
        BY <3>6, <4>1 DEF Carried
      <4>2. CASE t # s
        BY <3>7, <4>2 DEF Carried
      <4> QED
        BY <4>1, <4>2
    <3> QED
      BY <3>5, <3>8 DEF w, c, to
  <2> QED
    BY <2>2, <2>3
<1> QED
  BY <1>2, <1>3

(* The fold of a cycle's reads, as the function it is chosen as.           *)
CopyOf(n, g, s) == IF s = {} THEN out.frames
                   ELSE Copy(g[s \ {Max(s)}], SubSeq(drv.cfg.order, 1, n)[Max(s)])
AllCopies(n, g) == g = [s \in SUBSET DOMAIN SubSeq(drv.cfg.order, 1, n) |-> CopyOf(n, g, s)]
CopyFold(n) == CHOOSE g : AllCopies(n, g)

(* The fold of the community modules is that function.                     *)
LEMMA ReadIsFold ==
  \A n : Fsoe!ReadUpTo(n) = CopyFold(n)[DOMAIN SubSeq(drv.cfg.order, 1, n)]
BY DEF Fsoe!ReadUpTo, Fsoe!FoldLeft, Fsoe!MapThenFoldSet, CopyFold, AllCopies, CopyOf, Copy,
       Max, Fsoe!Max

(* The first slaves of a configuration.                                    *)
LEMMA FirstSlaves ==
  ASSUME NEW o, IsSequence(o), NEW n \in 0..Len(o)
  PROVE  /\ n \in Nat /\ DOMAIN SubSeq(o, 1, n) = 1..n
         /\ \A i \in 1..n : SubSeq(o, 1, n)[i] = o[i]
BY DEF IsSequence

(* There is such a function, so the choice is one.                         *)
LEMMA CopiesExist ==
  ASSUME ~drv.cfg.apart, Places(drv.cfg, drv.to), IsSequence(drv.cfg.order),
         in \in FramesOf(drv.cfg), out.frames \in FramesOf(drv.cfg),
         NEW n \in 0..Len(drv.cfg.order)
  PROVE  AllCopies(n, CopyFold(n))
<1> DEFINE o == SubSeq(drv.cfg.order, 1, n)
           Fr == FramesOf(drv.cfg)
           none == out.frames
           step == [x \in Fr \X (1..n) |-> Copy(x[1], o[x[2]])]
<1>1. n \in Nat /\ DOMAIN o = 1..n
  BY FirstSlaves
<1>2. none \in Fr
  OBVIOUS
<1>3. \A f \in Fr, i \in 1..n : step[<<f, i>>] = Copy(f, o[i]) /\ step[<<f, i>>] \in Fr
  BY CopyKeeps
<1> HIDE DEF o, none, step, Fr
<1>4. PICK g : /\ AllFromLast(step, none, g, n)
               /\ \A s \in SUBSET (1..n) : g[s] \in Fr
  BY <1>1, <1>2, <1>3, FoldFromLast
<1>5. ASSUME NEW s \in SUBSET (1..n)
      PROVE  FromLast(step, none, g, s) = CopyOf(n, g, s)
  <2>1. CASE s = {}
    BY <2>1 DEF FromLast, CopyOf, none
  <2>2. CASE s # {}
    <3>1. Max(s) \in s /\ Max(s) \in 1..n
      BY <1>1, <2>2, MaxUpTo
    <3>2. g[s \ {Max(s)}] \in Fr
      BY <1>4
    <3> QED
      BY <1>3, <2>2, <3>1, <3>2 DEF FromLast, CopyOf, o
  <2> QED
    BY <2>1, <2>2
<1>6. AllCopies(n, g)
  BY <1>1, <1>4, <1>5 DEF AllCopies, AllFromLast, o
<1> QED
  BY <1>6 DEF CopyFold

(* What the reads of the first slaves have carried.                        *)
LEMMA ReadCarries ==
  ASSUME ~drv.cfg.apart, Places(drv.cfg, drv.to), IsSequence(drv.cfg.order),
         in \in FramesOf(drv.cfg), out.frames \in FramesOf(drv.cfg),
         NEW n \in 0..Len(drv.cfg.order)
  PROVE  /\ Fsoe!ReadUpTo(n) \in FramesOf(drv.cfg)
         /\ \A t \in Fsoe!Linked(drv.cfg) :
              /\ Fsoe!ReadUpTo(n).logic[drv.to[t]] \in {out.frames.logic[drv.to[t]], in.slave[t]}
              /\ \A i \in 1..n : drv.cfg.order[i] = t => Carried(Fsoe!ReadUpTo(n), in, drv.to, t)
<1> DEFINE o == drv.cfg.order
           c == drv.cfg
           to == drv.to
           none == out.frames
           g == CopyFold(n)
           Has(k) == /\ g[1..k] \in FramesOf(c)
                     /\ \A t \in Fsoe!Linked(c) :
                          /\ g[1..k].logic[to[t]] \in {none.logic[to[t]], in.slave[t]}
                          /\ \A i \in 1..k : o[i] = t => Carried(g[1..k], in, to, t)
           N == {k \in Nat : k <= n => Has(k)}
<1>1. n \in Nat /\ DOMAIN SubSeq(o, 1, n) = 1..n /\ \A i \in 1..n : SubSeq(o, 1, n)[i] = o[i]
  BY FirstSlaves
<1>2. AllCopies(n, g)
  BY CopiesExist
<1>3. \A s \in SUBSET (1..n) : g[s] = CopyOf(n, g, s)
  <2> HIDE DEF g
  <2> QED
    BY <1>1, <1>2 DEF AllCopies
<1> HIDE DEF g
<1>4. 0 \in N
  <2>1. 1..0 = {} /\ {} \in SUBSET (1..n)
    OBVIOUS
  <2>2. g[1..0] = none
    BY <1>3, <2>1 DEF CopyOf
  <2> QED
    BY <2>1, <2>2
<1>5. ASSUME NEW k \in Nat, k \in N
      PROVE  k + 1 \in N
  <2> SUFFICES ASSUME k + 1 <= n
               PROVE  Has(k + 1)
    OBVIOUS
  <2> DEFINE f == g[1..k]
             s == o[k + 1]
  <2>1. Has(k)
    BY <1>1, <1>5
  <2>2. Max(1..k + 1) = k + 1 /\ (1..k + 1) \ {k + 1} = 1..k /\ 1..k + 1 # {}
    BY MaxOfPrefix
  <2>3. g[1..k + 1] = Copy(f, s)
    <3>1. 1..k + 1 \in SUBSET (1..n) /\ k + 1 \in 1..n
      BY <1>1
    <3> QED
      BY <1>1, <1>3, <2>2, <3>1 DEF CopyOf
  <2>4. f \in FramesOf(c)
    BY <2>1
  <2>5. \A t \in Fsoe!Linked(c) :
          /\ f.logic[to[t]] \in {none.logic[to[t]], in.slave[t]}
          /\ \A i \in 1..k : o[i] = t => Carried(f, in, to, t)
    BY <2>1
  <2> HIDE DEF f
  <2>6. /\ Copy(f, s) \in FramesOf(c)
        /\ \A t \in Fsoe!Linked(c) :
             /\ Carried(f, in, to, t) \/ s = t => Carried(Copy(f, s), in, to, t)
             /\ Copy(f, s).logic[to[t]] \in {f.logic[to[t]], in.slave[t]}
    BY <2>4, CopyKeeps
  <2>7. ASSUME NEW t \in Fsoe!Linked(c), NEW i \in 1..k + 1, o[i] = t
        PROVE  Carried(Copy(f, s), in, to, t)
    <3>1. CASE i = k + 1
      BY <2>6, <2>7, <3>1
    <3>2. CASE i # k + 1
      <4>1. i \in 1..k
        BY <3>2
      <4> QED
        BY <2>5, <2>6, <2>7, <4>1
    <3> QED
      BY <3>1, <3>2
  <2> QED
    BY <2>3, <2>5, <2>6, <2>7
<1>6. Has(n)
  <2>1. Nat \subseteq N
    <3> HIDE DEF N
    <3> QED
      BY <1>4, <1>5, SetInduction
  <2> QED
    BY <1>1, <2>1
<1>7. Fsoe!ReadUpTo(n) = g[1..n]
  BY <1>1, ReadIsFold DEF g
<1> QED
  BY <1>6, <1>7

(* The place of the logic among the slaves.                                *)
LEMMA PositionFound ==
  ASSUME NEW o, IsSequence(o)
  PROVE  Fsoe!Position(o, "logic") \in 0..Len(o)
<1> DEFINE I == {i \in 1..Len(o) : o[i] = "logic"}
<1>1. Fsoe!Position(o, "logic") = IF I # {} THEN Min(I) ELSE 0
  BY DEF Fsoe!Position, Fsoe!SelectInSeq, Min, Fsoe!Min
<1>2. Len(o) \in Nat
  BY DEF IsSequence
<1>3. I # {} => Min(I) \in I
  <2>1. I \in SUBSET Nat
    BY <1>2
  <2> HIDE DEF I
  <2> QED
    BY <2>1, MinOfNaturals
<1> QED
  BY <1>1, <1>2, <1>3

---------------------------------------------------------------------------
(* FSoE: the frames of the last exchange are under way in both directions, *)
(* whatever of them the terminals have taken.                              *)
Flows ==
  /\ drv.cfg \in Fsoe!Configs /\ Places(drv.cfg, drv.to)
  /\ hal = [logic |-> hal.logic, slave |-> hal.slave, std |-> hal.std]
  /\ out = [frames |-> out.frames, std |-> out.std]
  /\ in \in FramesOf(drv.cfg) /\ out.frames \in FramesOf(drv.cfg)
  /\ \A t \in Fsoe!Linked(drv.cfg) :
       /\ Carried(env.got, env.was, drv.to, t)
       /\ phase # "read" => Carried(out.frames, in, drv.to, t)
       /\ phase = "read" => out.frames.logic[drv.to[t]] \in {in.slave[t], env.was.slave[t]}
       /\ phase = "user" => hal.slave[drv.to[t]] \in {in.slave[t], env.was.slave[t]}

(* What a configuration that was refused lacks.                            *)
Lacking(c) == \/ c.beside # "AX5000" \/ ~c.std
              \/ \E k \in DOMAIN c.links : c.links[k] \notin Fsoe!Carriers \cup {"AX5000"}

Running == {"bus", "read", "user", "write"}

FsoeInv ==
  /\ device \in Fsoe!Logics /\ phase \in {"stopped", "refused"} \cup Running
  /\ phase = "refused" => Lacking(drv.cfg)
  /\ phase \in Running /\ ~drv.cfg.apart => Flows

(* The invariant says what frames arrive.                                  *)
LEMMA FramesShown == FsoeInv => Fsoe!FramesArrive
BY DEF FsoeInv, Flows, Running, Lacking, Carried, Fsoe!FramesArrive

(* The invariant holds before the module is loaded.                        *)
LEMMA FsoeStart == Fsoe!Init => FsoeInv
BY DEF Fsoe!Init, FsoeInv, Running

(* A configuration that lacks nothing is accepted.                         *)
LEMMA AcceptedWhenSafe ==
  ASSUME FsoeInv, NEW c \in Fsoe!Configs, ~Lacking(c)
  PROVE  /\ Fsoe!PreinitSlaves(c)["plain"] # -1
         /\ Fsoe!NamesAreSafe(c, Fsoe!PreinitSlaves(c))
<1> DEFINE conf == Fsoe!PreinitSlaves(c)
<1>1. /\ IsSequence(c.order) /\ c.beside = "AX5000" /\ c.std
      /\ Fsoe!Carriers \subseteq {c.order[i] : i \in DOMAIN c.order}
  BY FsoeAssumption DEF Fsoe!Configs, Lacking
<1>2. /\ conf \in Confs
      /\ \A i \in DOMAIN c.order : c.order[i] \in Fsoe!Carriers => conf[c.order[i]] > 0
  BY <1>1, PreinitDone
<1> HIDE DEF conf
<1>3. \A s \in Fsoe!Carriers : conf[s] > 0
  BY <1>1, <1>2
<1>4. conf["plain"] # -1 /\ conf["AX5000"] > 0
  BY <1>2, <1>3 DEF Confs, Fsoe!Carriers
<1>5. \A k \in DOMAIN c.links : c.links[k] \in Fsoe!Slaves /\ conf[c.links[k]] > 0
  BY <1>3, <1>4 DEF Lacking, Fsoe!Slaves
<1> QED
  BY <1>1, <1>4, <1>5 DEF Fsoe!NamesAreSafe, conf

(* An accepted configuration starts with empty frames on every connection. *)
LEMMA ConnectFlows ==
  ASSUME NEW c \in Fsoe!Configs, Fsoe!Connect(c), phase' = "bus"
  PROVE  Flows'
<1> DEFINE to == [s \in Fsoe!Slaves |-> Fsoe!SelectLastInSeq(c.links, LAMBDA l : l = s)]
           none == [slave |-> [s \in Fsoe!Linked(c) |-> 0], logic |-> [k \in DOMAIN c.links |-> 0]]
<1>1. /\ drv' = [cfg |-> c, to |-> to] /\ in' = none /\ out' = [frames |-> none, std |-> 0]
      /\ hal' = [logic |-> none.logic, slave |-> none.logic, std |-> 0]
      /\ env' = [was |-> none, got |-> none, cycles |-> 0]
  BY DEF Fsoe!Connect
<1>2. Places(c, to)
  <2>1. IsSequence(c.links)
    BY FsoeAssumption DEF Fsoe!Configs
  <2> QED
    BY <2>1, PlacesFound
<1>3. none \in FramesOf(c)
  BY DEF FramesOf, Fsoe!Frames
<1>4. \A t \in Fsoe!Linked(c) : Carried(none, none, to, t)
  <2> HIDE DEF to
  <2> QED
    BY <1>2 DEF Places, Carried
<1> HIDE DEF to, none
<1> QED
  BY <1>1, <1>2, <1>3, <1>4 DEF Flows

(* Every step of the safety terminals keeps the invariant.                 *)
LEMMA FsoeStep ==
  ASSUME FsoeInv, [Fsoe!Next]_slaveVars
  PROVE  FsoeInv'
<1> USE DEF FsoeInv, Fsoe!Turn
<1>1. CASE Fsoe!Load
  <2>1. PICK c \in Fsoe!Configs :
          LET conf == Fsoe!PreinitSlaves(c)
              logic == \/ Fsoe!lcec_el6900_preinit(c, conf)
                       \/ Fsoe!lcec_el1918_preinit(c, conf)
                       \/ Fsoe!lcec_el1918_logic_preinit(c, conf)
          IN  IF conf["plain"] = -1 \/ ~logic
              THEN phase' = "refused" /\ drv' = [cfg |-> c] /\ UNCHANGED <<hal, in, out, env>>
              ELSE /\ phase' = "bus"
                   /\ Fsoe!lcec_el6900_init(c) \/ Fsoe!lcec_el1918_init(c) \/ Fsoe!lcec_el1918_logic_init(c)
    BY <1>1 DEF Fsoe!Load
  <2>2. device' = device
    BY <1>1 DEF Fsoe!Load
  <2> DEFINE conf == Fsoe!PreinitSlaves(c)
  <2>3. CASE /\ phase' = "bus"
             /\ Fsoe!lcec_el6900_init(c) \/ Fsoe!lcec_el1918_init(c) \/ Fsoe!lcec_el1918_logic_init(c)
    <3>1. Fsoe!Connect(c)
      BY <2>3 DEF Fsoe!lcec_el6900_init, Fsoe!lcec_el1918_init, Fsoe!lcec_el1918_logic_init
    <3>2. Flows'
      BY <2>3, <3>1, ConnectFlows
    <3> QED
      BY <2>2, <2>3, <3>2 DEF Running
  <2>4. CASE phase' = "refused" /\ drv' = [cfg |-> c] /\ (conf["plain"] = -1 \/ ~Fsoe!NamesAreSafe(c, conf))
    <3>1. Lacking(c)
      BY <2>4, AcceptedWhenSafe
    <3> QED
      BY <2>2, <2>4, <3>1 DEF Running
  <2> HIDE DEF conf
  <2>5. ASSUME Fsoe!NamesAreSafe(c, conf)
        PROVE  \/ Fsoe!lcec_el6900_preinit(c, conf) \/ Fsoe!lcec_el1918_preinit(c, conf)
               \/ Fsoe!lcec_el1918_logic_preinit(c, conf)
    BY <2>5 DEF Fsoe!Logics, Fsoe!lcec_el6900_preinit, Fsoe!lcec_el1918_preinit,
                Fsoe!lcec_el1918_logic_preinit
  <2> QED
    BY <2>1, <2>3, <2>4, <2>5 DEF conf
<1>2. CASE Fsoe!Bus
  <2>1. /\ phase = "bus" /\ phase' = "read" /\ device' = device
        /\ UNCHANGED <<hal, drv, out>>
    BY <1>2 DEF Fsoe!Bus
  <2> SUFFICES ASSUME ~drv.cfg.apart
               PROVE  Flows'
    BY <2>1 DEF Running
  <2>2. Flows
    BY <2>1 DEF Running
  <2>3. CASE UNCHANGED <<in, env>>
    BY <2>1, <2>2, <2>3 DEF Flows, Carried
  <2>4. CASE /\ in' \in [slave : [DOMAIN in.slave -> Fsoe!Frames], logic : [DOMAIN in.logic -> Fsoe!Frames]]
             /\ env' = [was |-> in, got |-> out.frames, cycles |-> IF env.cycles = 0 THEN 1 ELSE 2]
    <3>1. DOMAIN in.slave = Fsoe!Linked(drv.cfg) /\ DOMAIN in.logic = DOMAIN drv.cfg.links
      BY <2>2 DEF Flows, FramesOf
    <3>2. in' \in FramesOf(drv.cfg)
      BY <2>4, <3>1 DEF FramesOf
    <3>3. env'.was = in /\ env'.got = out.frames
      BY <2>4
    <3>4. \A t \in Fsoe!Linked(drv.cfg) : Carried(out.frames, in, drv.to, t)
      BY <2>1, <2>2 DEF Flows
    <3> QED
      BY <2>1, <2>2, <3>2, <3>3, <3>4 DEF Flows, Carried
  <2> QED
    BY <1>2, <2>3, <2>4 DEF Fsoe!Bus
<1>3. CASE Fsoe!Read
  <2>1. /\ phase = "read" /\ phase' = "user" /\ device' = device
        /\ UNCHANGED <<drv, in, env>>
        /\ out' = [out EXCEPT !.frames = Fsoe!ReadUpTo(Len(drv.cfg.order))]
        /\ Fsoe!Show
    BY <1>3 DEF Fsoe!Read, Fsoe!lcec_el6900_read, Fsoe!lcec_el1918_read, Fsoe!lcec_el1918_logic_read
  <2> SUFFICES ASSUME ~drv.cfg.apart
               PROVE  Flows'
    BY <2>1 DEF Running
  <2>2. Flows
    BY <2>1 DEF Running
  <2> DEFINE n == Len(drv.cfg.order)
             p == Fsoe!Position(drv.cfg.order, "logic")
  <2>3. /\ IsSequence(drv.cfg.order)
        /\ Fsoe!Carriers \subseteq {drv.cfg.order[i] : i \in DOMAIN drv.cfg.order}
    BY <2>2, FsoeAssumption DEF Flows, Fsoe!Configs
  <2>4. n \in 0..n /\ p \in 0..n /\ DOMAIN drv.cfg.order = 1..n
    BY <2>3, PositionFound DEF IsSequence
  <2>5. ~drv.cfg.apart /\ Places(drv.cfg, drv.to) /\ in \in FramesOf(drv.cfg) /\ out.frames \in FramesOf(drv.cfg)
    BY <2>2 DEF Flows
  <2>6. /\ Fsoe!ReadUpTo(n) \in FramesOf(drv.cfg)
        /\ \A t \in Fsoe!Linked(drv.cfg) :
             \A i \in 1..n : drv.cfg.order[i] = t => Carried(Fsoe!ReadUpTo(n), in, drv.to, t)
    BY <2>3, <2>4, <2>5, ReadCarries
  <2>7. \A t \in Fsoe!Linked(drv.cfg) :
          Fsoe!ReadUpTo(p).logic[drv.to[t]] \in {out.frames.logic[drv.to[t]], in.slave[t]}
    BY <2>3, <2>4, <2>5, ReadCarries
  <2>8. out' = [frames |-> Fsoe!ReadUpTo(n), std |-> out.std]
    BY <2>1, <2>2 DEF Flows
  <2>9. hal' = [logic |-> in.logic, slave |-> Fsoe!ReadUpTo(p).logic, std |-> hal.std]
    BY <2>1, <2>2 DEF Flows, Fsoe!Show
  <2> HIDE DEF n, p
  <2>10. \A t \in Fsoe!Linked(drv.cfg) : Carried(Fsoe!ReadUpTo(n), in, drv.to, t)
    BY <2>3, <2>4, <2>6 DEF Fsoe!Linked
  <2>11. \A t \in Fsoe!Linked(drv.cfg) :
           Fsoe!ReadUpTo(p).logic[drv.to[t]] \in {in.slave[t], env.was.slave[t]}
    BY <2>1, <2>2, <2>7 DEF Flows
  <2>12. \A t \in Fsoe!Linked(drv.cfg) : Carried(env.got, env.was, drv.to, t)
    BY <2>2 DEF Flows
  <2> DEFINE fn == Fsoe!ReadUpTo(n)
             fp == Fsoe!ReadUpTo(p).logic
  <2>13. fn \in FramesOf(drv.cfg)
    BY <2>6
  <2> HIDE DEF fn, fp
  <2>14. drv.cfg \in Fsoe!Configs
    BY <2>2 DEF Flows
  <2>15. /\ out'.frames = fn /\ hal'.slave = fp
         /\ out' = [frames |-> out'.frames, std |-> out'.std]
         /\ hal' = [logic |-> hal'.logic, slave |-> hal'.slave, std |-> hal'.std]
    BY <2>8, <2>9 DEF fn, fp
  <2>16. \A t \in Fsoe!Linked(drv.cfg) :
            /\ Carried(fn, in, drv.to, t)
            /\ fp[drv.to[t]] \in {in.slave[t], env.was.slave[t]}
    BY <2>10, <2>11 DEF fn, fp
  <2> QED
    BY <2>1, <2>5, <2>12, <2>13, <2>14, <2>15, <2>16 DEF Flows, Carried
<1>4. CASE Fsoe!User
  <2>1. /\ phase = "user" /\ phase' = "write" /\ device' = device
        /\ UNCHANGED <<drv, in, out, env>>
        /\ \E v \in 0..1 : hal' = [hal EXCEPT !.std = v]
    BY <1>4 DEF Fsoe!User
  <2> QED
    BY <2>1 DEF Flows, Running, Carried
<1>5. CASE Fsoe!Write
  <2>1. /\ phase = "write" /\ phase' = "bus" /\ device' = device
        /\ UNCHANGED <<hal, drv, in, env>> /\ out' = [out EXCEPT !.std = hal.std]
    BY <1>5 DEF Fsoe!Write
  <2> QED
    BY <2>1 DEF Flows, Running, Carried
<1>6. CASE Fsoe!Unload
  BY <1>6 DEF Fsoe!Unload, Running
<1>7. CASE UNCHANGED slaveVars
  BY <1>7 DEF slaveVars, Flows, Running, Carried
<1> QED
  BY <1>1, <1>2, <1>3, <1>4, <1>5, <1>6, <1>7 DEF Fsoe!Next

(* FSoE: whatever the slaves, their order and their connections, a         *)
(* configuration is refused for what it lacks only, and every connection   *)
(* carries the frames of the last exchange both ways and no others         *)
(* (lcec_main.c 998-1018, lcec_ethercat.c 43-59).                          *)
THEOREM FramesArriveCorrect == Spec => []FramesArrive
<1> DEFINE Inv == device \in Fsoe!Logics => FsoeInv
<1>1. Init => Inv
  BY OneStart, FsoeStart
<1>2. Inv /\ [Next]_slaveVars => Inv'
  BY OneDriver, FsoeStep
<1>3. Inv => FramesArrive
  BY FramesShown DEF FramesArrive
<1> QED
  BY <1>1, <1>2, <1>3, PTL DEF Spec

---------------------------------------------------------------------------
(* The entries of a configuration, or of a list of writes, for an object.  *)
Entry == Settings!Objects \X Nat
Coes == [Settings!Objects -> Nat]
Given(w, p, n) == {i \in 1..n : w[i][1] = p}

(* The objects of a terminal.                                              *)
LEMMA ObjectsAre == Settings!Objects = {"first", "second"}
<1>1. DOMAIN Settings!Params = {1, 2} /\ Settings!Params[1] = "first" /\ Settings!Params[2] = "second"
  BY DEF Settings!Params
<1> QED
  BY <1>1 DEF Settings!Objects, Settings!ToSet

(* A configuration is a sequence of entries.                               *)
LEMMA ConfigIs ==
  ASSUME NEW cfg \in Settings!Configs
  PROVE  cfg \in Seq(Entry)
<1>1. PICK n \in 0..Entries : cfg \in [1..n -> Settings!Objects \X Settable]
  BY DEF Settings!Configs
<1>2. n \in Nat
  BY SettingsAssumption
<1>3. cfg \in [1..n -> Entry]
  BY <1>1, SettingsAssumption DEF Entry
<1> QED
  BY <1>2, <1>3, SeqDef

(* A setting is that of the last entry for its object.                     *)
LEMMA SettingIs ==
  ASSUME NEW w \in Seq(Entry), NEW p, NEW none
  PROVE  /\ Given(w, p, Len(w)) = {} => Settings!Setting(w, p, none) = none
         /\ \A k \in Given(w, p, Len(w)) :
              (\A j \in Given(w, p, Len(w)) : j <= k) => Settings!Setting(w, p, none) = w[k][2]
<1> DEFINE I == Given(w, p, Len(w))
           at == Settings!SelectLastInSeq(w, LAMBDA e : e[1] = p)
<1>1. at = IF I # {} THEN Max(I) ELSE 0
  BY DEF Settings!SelectLastInSeq, Given, Max, Settings!Max
<1>2. Settings!Setting(w, p, none) = IF at = 0 THEN none ELSE w[at][2]
  BY DEF Settings!Setting
<1>3. Len(w) \in Nat /\ I \in SUBSET (1..Len(w))
  BY DEF Given
<1>7. \A i \in I : i \in Nat /\ i # 0
  BY <1>3
<1> HIDE DEF I, at
<1>4. ASSUME NEW k \in I, \A j \in I : j <= k
      PROVE  at = k /\ at # 0
  <2>1. Max(I) \in I /\ \A y \in I : y <= Max(I)
    <3>1. I # {}
      BY <1>4
    <3> QED
      BY <1>3, <3>1, MaxUpTo
  <2>2. Max(I) \in Nat /\ k \in Nat /\ k # 0
    BY <1>7, <2>1
  <2>3. Max(I) <= k /\ k <= Max(I)
    BY <1>4, <2>1
  <2> QED
    BY <1>1, <2>2, <2>3
<1>5. I = {} => at = 0
  BY <1>1
<1> QED
  BY <1>2, <1>4, <1>5 DEF I

(* There is such an entry whenever there is one at all.                    *)
LEMMA LastGiven ==
  ASSUME NEW w, NEW p, NEW n \in Nat, Given(w, p, n) # {}
  PROVE  \E k \in Given(w, p, n) : \A j \in Given(w, p, n) : j <= k
<1> DEFINE I == Given(w, p, n)
<1>1. I \in SUBSET (1..n)
  BY DEF Given
<1> HIDE DEF I
<1>2. I # {} => Max(I) \in I /\ \A y \in I : y <= Max(I)
  BY <1>1, MaxUpTo
<1> QED
  BY <1>2 DEF I

---------------------------------------------------------------------------
(* One write, and the fold of them.                                        *)
Put(done, c, e) == IF e \in done THEN [c EXCEPT ![e[1]] = e[2]] ELSE c
PutOf(coe, w, done, g, s) == IF s = {} THEN coe ELSE Put(done, g[s \ {Max(s)}], w[Max(s)])
AllPut(coe, w, done, g) == g = [s \in SUBSET DOMAIN w |-> PutOf(coe, w, done, g, s)]
PutFold(coe, w, done) == CHOOSE g : AllPut(coe, w, done, g)

(* The fold of the community modules is that function.                     *)
LEMMA WrittenIsFold ==
  \A coe, w, done : Settings!Written(coe, w, done) = PutFold(coe, w, done)[DOMAIN w]
BY DEF Settings!Written, Settings!FoldLeft, Settings!MapThenFoldSet, PutFold, AllPut, PutOf, Put,
       Max, Settings!Max

(* There is such a function, so the choice is one.                         *)
LEMMA PutExists ==
  ASSUME NEW coe \in Coes, NEW w \in Seq(Entry), NEW done
  PROVE  AllPut(coe, w, done, PutFold(coe, w, done))
<1> DEFINE n == Len(w)
           step == [x \in Coes \X (1..n) |-> Put(done, x[1], w[x[2]])]
<1>1. n \in Nat /\ DOMAIN w = 1..n /\ \A i \in 1..n : w[i] \in Entry
  OBVIOUS
<1>2. \A v \in Coes, i \in 1..n : step[<<v, i>>] = Put(done, v, w[i]) /\ step[<<v, i>>] \in Coes
  BY <1>1 DEF Put, Coes, Entry
<1> HIDE DEF n, step
<1>3. PICK g : /\ AllFromLast(step, coe, g, n)
               /\ \A s \in SUBSET (1..n) : g[s] \in Coes
  BY <1>1, <1>2, FoldFromLast
<1>4. ASSUME NEW s \in SUBSET (1..n)
      PROVE  FromLast(step, coe, g, s) = PutOf(coe, w, done, g, s)
  <2>1. CASE s = {}
    BY <2>1 DEF FromLast, PutOf
  <2>2. CASE s # {}
    <3>1. Max(s) \in s /\ Max(s) \in 1..n
      BY <1>1, <2>2, MaxUpTo
    <3>2. g[s \ {Max(s)}] \in Coes
      BY <1>3
    <3> QED
      BY <1>2, <2>2, <3>1, <3>2 DEF FromLast, PutOf
  <2> QED
    BY <2>1, <2>2
<1>5. AllPut(coe, w, done, g)
  BY <1>1, <1>3, <1>4 DEF AllPut, AllFromLast
<1> QED
  BY <1>5 DEF PutFold

(* The writes done for an object, among the first n.                       *)
Done(w, done, p, n) == {i \in 1..n : w[i] \in done /\ w[i][1] = p}

(* An object holds what the last write to it left.                         *)
LEMMA WrittenIs ==
  ASSUME NEW coe \in Coes, NEW w \in Seq(Entry), NEW done
  PROVE  /\ Settings!Written(coe, w, done) \in Coes
         /\ \A p \in Settings!Objects :
              /\ Done(w, done, p, Len(w)) = {} => Settings!Written(coe, w, done)[p] = coe[p]
              /\ \A k \in Done(w, done, p, Len(w)) :
                   (\A j \in Done(w, done, p, Len(w)) : j <= k) =>
                     Settings!Written(coe, w, done)[p] = w[k][2]
<1> DEFINE n == Len(w)
           g == PutFold(coe, w, done)
           Has(k) == /\ g[1..k] \in Coes
                     /\ \A p \in Settings!Objects :
                          /\ Done(w, done, p, k) = {} => g[1..k][p] = coe[p]
                          /\ \A i \in Done(w, done, p, k) :
                               (\A j \in Done(w, done, p, k) : j <= i) => g[1..k][p] = w[i][2]
           N == {k \in Nat : k <= n => Has(k)}
<1>1. n \in Nat /\ DOMAIN w = 1..n /\ \A i \in 1..n : w[i] \in Entry
  OBVIOUS
<1>2. AllPut(coe, w, done, g)
  BY PutExists
<1>3. \A s \in SUBSET (1..n) : g[s] = PutOf(coe, w, done, g, s)
  <2> HIDE DEF g, n
  <2> QED
    BY <1>1, <1>2 DEF AllPut
<1> HIDE DEF g, n
<1>4. 0 \in N
  <2>1. 1..0 = {} /\ {} \in SUBSET (1..n)
    OBVIOUS
  <2>2. g[1..0] = coe
    BY <1>3, <2>1 DEF PutOf
  <2>3. \A p : Done(w, done, p, 0) = {}
    BY DEF Done
  <2> QED
    BY <2>2, <2>3
<1>5. ASSUME NEW k \in Nat, k \in N
      PROVE  k + 1 \in N
  <2> SUFFICES ASSUME k + 1 <= n
               PROVE  Has(k + 1)
    OBVIOUS
  <2> DEFINE c == g[1..k]
             e == w[k + 1]
             d == g[1..k + 1]
  <2>1. Has(k)
    BY <1>1, <1>5
  <2>2. Max(1..k + 1) = k + 1 /\ (1..k + 1) \ {k + 1} = 1..k /\ 1..k + 1 # {}
    BY MaxOfPrefix
  <2>3. d = Put(done, c, e)
    <3>1. 1..k + 1 \in SUBSET (1..n)
      BY <1>1
    <3> QED
      BY <1>3, <2>2, <3>1 DEF PutOf
  <2>4. c \in Coes /\ e \in Entry
    BY <1>1, <2>1
  <2>5. \A p \in Settings!Objects :
          /\ Done(w, done, p, k) = {} => c[p] = coe[p]
          /\ \A i \in Done(w, done, p, k) : (\A j \in Done(w, done, p, k) : j <= i) => c[p] = w[i][2]
    BY <2>1
  <2> HIDE DEF c, d
  <2>6. d \in Coes
    BY <2>3, <2>4 DEF Put, Coes, Entry
  <2>7. ASSUME NEW p \in Settings!Objects
        PROVE  /\ Done(w, done, p, k + 1) = {} => d[p] = coe[p]
               /\ \A i \in Done(w, done, p, k + 1) :
                    (\A j \in Done(w, done, p, k + 1) : j <= i) => d[p] = w[i][2]
    <3>1. CASE e \in done /\ e[1] = p
      <4>1. k + 1 \in Done(w, done, p, k + 1)
        BY <3>1 DEF Done
      <4>2. \A i \in Done(w, done, p, k + 1) : (\A j \in Done(w, done, p, k + 1) : j <= i) => i = k + 1
        BY <4>1 DEF Done
      <4>3. d[p] = e[2]
        BY <2>3, <2>4, <3>1 DEF Put, Coes
      <4> QED
        BY <4>1, <4>2, <4>3
    <3>2. CASE ~(e \in done /\ e[1] = p)
      <4>1. Done(w, done, p, k + 1) = Done(w, done, p, k)
        BY <3>2 DEF Done
      <4>2. d[p] = c[p]
        BY <2>3, <2>4, <3>2 DEF Put, Coes
      <4> QED
        BY <2>5, <4>1, <4>2
    <3> QED
      BY <3>1, <3>2
  <2> HIDE DEF e
  <2> QED
    BY <2>6, <2>7 DEF d
<1>6. Has(n)
  <2>1. Nat \subseteq N
    <3> HIDE DEF N
    <3> QED
      BY <1>4, <1>5, SetInduction
  <2> QED
    BY <1>1, <2>1
<1>7. Settings!Written(coe, w, done) = g[1..n]
  BY <1>1, WrittenIsFold DEF g
<1> QED
  BY <1>6, <1>7 DEF n

(* When all writes are done, it is the setting that the list of them is.   *)
LEMMA WrittenIsSetting ==
  ASSUME NEW coe \in Coes, NEW w \in Seq(Entry), NEW p \in Settings!Objects
  PROVE  Settings!Written(coe, w, Settings!ToSet(w))[p] = Settings!Setting(w, p, coe[p])
<1> DEFINE n == Len(w)
<1>1. n \in Nat /\ DOMAIN w = 1..n
  OBVIOUS
<1>2. Done(w, Settings!ToSet(w), p, n) = Given(w, p, n)
  BY <1>1 DEF Done, Given, Settings!ToSet
<1>3. CASE Given(w, p, n) = {}
  BY <1>2, <1>3, WrittenIs, SettingIs
<1>4. CASE Given(w, p, n) # {}
  <2>1. PICK k \in Given(w, p, n) : \A j \in Given(w, p, n) : j <= k
    BY <1>1, <1>4, LastGiven
  <2>2. Settings!Setting(w, p, coe[p]) = w[k][2]
    BY <2>1, SettingIs
  <2>3. Settings!Written(coe, w, Settings!ToSet(w))[p] = w[k][2]
    BY <1>2, <2>1, WrittenIs
  <2> QED
    BY <2>2, <2>3
<1> QED
  BY <1>3, <1>4

---------------------------------------------------------------------------
(* What fits an object is a value of it, and stands where the entry stood. *)
LEMMA FittingIs ==
  ASSUME NEW cfg \in Seq(Entry)
  PROVE  /\ Settings!Fitting(cfg) \in Seq(Entry) /\ Len(Settings!Fitting(cfg)) = Len(cfg)
         /\ \A i \in 1..Len(cfg) : Settings!Fitting(cfg)[i] = <<cfg[i][1], cfg[i][2] % Width>>
         /\ \A p : Given(Settings!Fitting(cfg), p, Len(cfg)) = Given(cfg, p, Len(cfg))
<1> DEFINE f == Settings!Fitting(cfg)
           n == Len(cfg)
<1>1. n \in Nat /\ DOMAIN cfg = 1..n /\ \A i \in 1..n : cfg[i] \in Entry
  OBVIOUS
<1>2. f = [i \in 1..n |-> <<cfg[i][1], cfg[i][2] % Width>>]
  BY <1>1 DEF Settings!Fitting, Settings!Fits
<1> HIDE DEF f, n
<1>3. \A i \in 1..n : <<cfg[i][1], cfg[i][2] % Width>> \in Entry
  BY <1>1, SettingsAssumption DEF Entry
<1>4. f \in [1..n -> Entry]
  BY <1>2, <1>3
<1>5. f \in Seq(Entry) /\ Len(f) = n
  BY <1>1, <1>4, SeqDef
<1>6. \A p : Given(f, p, n) = Given(cfg, p, n)
  BY <1>2 DEF Given
<1> QED
  BY <1>2, <1>5, <1>6 DEF f, n

(* The settings of a configuration, and what fits of them.                 *)
LEMMA SettingFits ==
  ASSUME NEW cfg \in Seq(Entry), NEW p, NEW v \in Nat
  PROVE  /\ Settings!Setting(cfg, p, v) \in Nat /\ Settings!Setting(Settings!Fitting(cfg), p, v) \in Nat
         /\ Given(cfg, p, Len(cfg)) = {} =>
              Settings!Setting(cfg, p, v) = v /\ Settings!Setting(Settings!Fitting(cfg), p, v) = v
         /\ Given(cfg, p, Len(cfg)) # {} =>
              /\ Settings!Setting(Settings!Fitting(cfg), p, v) = Settings!Setting(cfg, p, v) % Width
              /\ Settings!Setting(cfg, p, v) = Settings!Setting(cfg, p, 0)
<1> DEFINE f == Settings!Fitting(cfg)
           n == Len(cfg)
<1>1. /\ f \in Seq(Entry) /\ Len(f) = n /\ Given(f, p, n) = Given(cfg, p, n)
      /\ \A i \in 1..n : f[i] = <<cfg[i][1], cfg[i][2] % Width>>
  BY FittingIs
<1>2. n \in Nat /\ \A i \in 1..n : cfg[i][2] \in Nat
  BY DEF Entry
<1> HIDE DEF f
<1>3. CASE Given(cfg, p, n) = {}
  <2>1. Settings!Setting(cfg, p, v) = v /\ Settings!Setting(f, p, v) = v
    BY <1>1, <1>3, SettingIs
  <2> QED
    BY <1>3, <2>1 DEF f
<1>4. CASE Given(cfg, p, n) # {}
  <2>1. PICK k \in Given(cfg, p, n) : \A j \in Given(cfg, p, n) : j <= k
    BY <1>2, <1>4, LastGiven
  <2>2. k \in 1..n
    BY DEF Given
  <2>3. Settings!Setting(cfg, p, v) = cfg[k][2] /\ Settings!Setting(cfg, p, 0) = cfg[k][2]
    BY <2>1, SettingIs
  <2>4. Settings!Setting(f, p, v) = f[k][2]
    BY <1>1, <2>1, SettingIs
  <2>5. cfg[k][2] % Width \in Nat
    BY <1>2, <2>2, SettingsAssumption
  <2> QED
    BY <1>1, <1>2, <1>4, <2>2, <2>3, <2>4, <2>5 DEF f
<1> QED
  BY <1>3, <1>4

(* A value that fits is not changed.                                       *)
LEMMA Fitted == 0 % Width = 0 /\ \A x \in Nat : x < Width => x % Width = x
BY SettingsAssumption

(* The list of all objects with their settings.                            *)
LEMMA AllOfIs ==
  ASSUME NEW cfg \in Seq(Entry)
  PROVE  /\ Settings!AllOf(cfg) \in Seq(Entry) /\ Len(Settings!AllOf(cfg)) = 2
         /\ Settings!AllOf(cfg)[1] = <<"first", Settings!Setting(Settings!Fitting(cfg), "first", 0)>>
         /\ Settings!AllOf(cfg)[2] = <<"second", Settings!Setting(Settings!Fitting(cfg), "second", 0)>>
<1> DEFINE x(p) == Settings!Setting(Settings!Fitting(cfg), p, 0)
<1>1. x("first") \in Nat /\ x("second") \in Nat
  BY SettingFits
<1>2. DOMAIN Settings!Params = 1..2 /\ Settings!Params[1] = "first" /\ Settings!Params[2] = "second"
  BY DEF Settings!Params
<1>3. Settings!AllOf(cfg) = [i \in 1..2 |-> <<Settings!Params[i], x(Settings!Params[i])>>]
  BY <1>2 DEF Settings!AllOf
<1> HIDE DEF x
<1>4. \A i \in 1..2 : i = 1 \/ i = 2
  OBVIOUS
<1> DEFINE a == Settings!AllOf(cfg)
<1>5. \A i \in 1..2 : a[i] = <<Settings!Params[i], x(Settings!Params[i])>>
  BY <1>3
<1>6. DOMAIN a = 1..2 /\ a = [i \in 1..2 |-> a[i]]
  BY <1>3
<1> HIDE DEF a
<1>7. a[1] = <<"first", x("first")>> /\ a[2] = <<"second", x("second")>>
  BY <1>2, <1>5
<1>8. \A i \in 1..2 : a[i] \in Entry
  <2>1. "first" \in Settings!Objects /\ "second" \in Settings!Objects
    BY ObjectsAre
  <2>2. a[1] \in Entry /\ a[2] \in Entry
    BY <1>1, <1>7, <2>1 DEF Entry
  <2> QED
    BY <1>4, <2>2
<1>9. a \in [1..2 -> Entry]
  BY <1>6, <1>8
<1>10. a \in Seq(Entry) /\ Len(a) = 2
  BY <1>6, <1>9, SeqDef
<1> QED
  BY <1>7, <1>10 DEF x, a

Named(cfg, p) == <<p, Settings!Setting(Settings!Fitting(cfg), p, 0)>>

(* What a start leaves that writes all objects, or all but the defaults.   *)
LEMMA AllWritten ==
  ASSUME NEW cfg \in Seq(Entry), NEW coe \in Coes, NEW p \in Settings!Objects, NEW done,
         done \subseteq Settings!ToSet(Settings!AllOf(cfg))
  PROVE  Settings!Written(coe, Settings!AllOf(cfg), done)[p] =
           IF Named(cfg, p) \in done THEN Named(cfg, p)[2] ELSE coe[p]
<1> DEFINE a == Settings!AllOf(cfg)
           x(q) == Settings!Setting(Settings!Fitting(cfg), q, 0)
<1>1. /\ a \in Seq(Entry) /\ Len(a) = 2
      /\ a[1] = <<"first", x("first")>> /\ a[2] = <<"second", x("second")>>
  BY AllOfIs
<1> HIDE DEF a, x, Named
<1>5. /\ Done(a, done, p, Len(a)) = {} => Settings!Written(coe, a, done)[p] = coe[p]
      /\ \A k \in Done(a, done, p, Len(a)) :
           (\A j \in Done(a, done, p, Len(a)) : j <= k) => Settings!Written(coe, a, done)[p] = a[k][2]
  <2>1. a \in Seq(Entry)
    BY <1>1
  <2> QED
    BY <2>1, WrittenIs
<1>2. PICK i \in 1..2 : a[i] = <<p, x(p)>> /\ a[i][1] = p /\ a[i][2] = x(p) /\ \A j \in 1..2 : a[j][1] = p => j = i
  <2>1. p = "first" \/ p = "second"
    BY ObjectsAre
  <2> QED
    <3>1. 1 \in 1..2 /\ 2 \in 1..2 /\ \A j \in 1..2 : j = 1 \/ j = 2
      OBVIOUS
    <3>2. a[1][1] = "first" /\ a[2][1] = "second" /\ a[1][2] = x("first") /\ a[2][2] = x("second")
      BY <1>1
    <3>3. "first" # "second"
      OBVIOUS
    <3> QED
      BY <1>1, <2>1, <3>1, <3>2, <3>3
<1>3. CASE <<p, x(p)>> \in done
  <2>1. i \in Done(a, done, p, 2)
    BY <1>2, <1>3 DEF Done
  <2>3. \A j \in Done(a, done, p, 2) : j <= i
    <3>1. \A j \in Done(a, done, p, 2) : j = i
      BY <1>2 DEF Done
    <3> QED
      BY <3>1
  <2>2. Settings!Written(coe, a, done)[p] = a[i][2]
    BY <1>1, <1>5, <2>1, <2>3
  <2> QED
    BY <1>2, <1>3, <2>2 DEF a, x, Named
<1>4. CASE <<p, x(p)>> \notin done
  <2>1. Done(a, done, p, 2) = {}
    <3>1. \A j \in Done(a, done, p, 2) : j \in 1..2 /\ a[j] \in done /\ a[j][1] = p
      BY DEF Done
    <3>2. \A j \in Done(a, done, p, 2) : j = i
      BY <1>2, <3>1
    <3> QED
      BY <1>2, <1>4, <3>1, <3>2
  <2>2. Settings!Written(coe, a, done)[p] = coe[p]
    BY <1>1, <1>5, <2>1
  <2> QED
    BY <1>4, <2>2 DEF a, x, Named
<1> QED
  BY <1>3, <1>4

---------------------------------------------------------------------------
(* EL7041: a list of writes for each entry, one behind the other.          *)
Pieces(cfg) ==
  [i \in DOMAIN cfg |->
     IF cfg[i][1] = "first" THEN <<Settings!Fits(cfg[i]), <<"second", Settings!Fits(cfg[i])[2]>>>>
                            ELSE <<Settings!Fits(cfg[i])>>]
FlatOf(s, f) == f = [i \in 1..Len(s) |-> IF i = 1 THEN s[i] ELSE f[i - 1] \o s[i]]
Flat(s) == CHOOSE f : FlatOf(s, f)

(* The writes of EL7041 are the pieces of its entries, joined.             *)
LEMMA WritesAreFlat ==
  \A cfg : Settings!el7041_handle_modparams(cfg) =
             IF Len(Pieces(cfg)) = 0 THEN Pieces(cfg) ELSE Flat(Pieces(cfg))[Len(Pieces(cfg))]
BY DEF Settings!el7041_handle_modparams, Settings!FlattenSeq, Pieces, Flat, FlatOf

(* The piece of an entry: the first object runs into the second.           *)
LEMMA PiecesAre ==
  ASSUME NEW cfg \in Seq(Entry)
  PROVE  /\ Len(Pieces(cfg)) = Len(cfg)
         /\ \A i \in 1..Len(cfg) :
              LET x == cfg[i][2] % Width
              IN  /\ Pieces(cfg)[i] \in Seq(Entry)
                  /\ cfg[i][1] = "first" => Pieces(cfg)[i] = <<<<"first", x>>, <<"second", x>>>>
                  /\ cfg[i][1] # "first" => cfg[i][1] = "second" /\ Pieces(cfg)[i] = <<<<"second", x>>>>
<1> DEFINE n == Len(cfg)
<1>1. n \in Nat /\ DOMAIN cfg = 1..n /\ \A i \in 1..n : cfg[i] \in Entry
  OBVIOUS
<1> HIDE DEF n
<1>2. ASSUME NEW i \in 1..n
      PROVE  LET x == cfg[i][2] % Width
             IN  /\ Pieces(cfg)[i] \in Seq(Entry)
                 /\ cfg[i][1] = "first" => Pieces(cfg)[i] = <<<<"first", x>>, <<"second", x>>>>
                 /\ cfg[i][1] # "first" => cfg[i][1] = "second" /\ Pieces(cfg)[i] = <<<<"second", x>>>>
  <2> DEFINE x == cfg[i][2] % Width
  <2>1. cfg[i][1] \in Settings!Objects /\ cfg[i][2] \in Nat
    BY <1>1 DEF Entry
  <2>2. cfg[i][1] = "first" \/ cfg[i][1] = "second"
    BY <2>1, ObjectsAre
  <2>3. x \in Nat
    BY <2>1, SettingsAssumption
  <2>4. Settings!Fits(cfg[i]) = <<cfg[i][1], x>>
    BY DEF Settings!Fits
  <2>5. Pieces(cfg)[i] = IF cfg[i][1] = "first"
                         THEN <<Settings!Fits(cfg[i]), <<"second", Settings!Fits(cfg[i])[2]>>>>
                         ELSE <<Settings!Fits(cfg[i])>>
    BY <1>1 DEF Pieces
  <2> HIDE DEF x
  <2>6. <<"first", x>> \in Entry /\ <<"second", x>> \in Entry
    BY <2>3, ObjectsAre DEF Entry
  <2>7. CASE cfg[i][1] = "first"
    <3>1. Pieces(cfg)[i] = <<<<"first", x>>, <<"second", x>>>>
      BY <2>4, <2>5, <2>7
    <3>2. <<<<"first", x>>, <<"second", x>>>> \in Seq(Entry)
      BY <2>6
    <3> QED
      BY <2>7, <3>1, <3>2 DEF x
  <2>8. CASE cfg[i][1] = "second"
    <3>1. Pieces(cfg)[i] = <<<<"second", x>>>>
      BY <2>4, <2>5, <2>8
    <3>2. <<<<"second", x>>>> \in Seq(Entry)
      BY <2>6
    <3> QED
      BY <2>8, <3>1, <3>2 DEF x
  <2> QED
    BY <2>2, <2>7, <2>8
<1>3. Len(Pieces(cfg)) = n
  <2>1. DOMAIN Pieces(cfg) = 1..n
    BY <1>1 DEF Pieces
  <2> QED
    BY <1>1, <2>1
<1> QED
  BY <1>2, <1>3 DEF n

(* The recursion that joins sequences does define a function.              *)
LEMMA FlatExists ==
  ASSUME NEW s, Len(s) \in Nat, \A i \in 1..Len(s) : s[i] \in Seq(Entry)
  PROVE  FlatOf(s, Flat(s))
<1> DEFINE n == Len(s)
           step == [x \in Seq(Entry) \X (1..n) |-> IF x[2] = 1 THEN s[x[2]] ELSE x[1] \o s[x[2]]]
<1>1. <<>> \in Seq(Entry)
  OBVIOUS
<1>2. ASSUME NEW v \in Seq(Entry), NEW i \in 1..n
      PROVE  /\ step[<<v, i>>] = IF i = 1 THEN s[i] ELSE v \o s[i]
             /\ step[<<v, i>>] \in Seq(Entry)
  <2>1. step[<<v, i>>] = IF i = 1 THEN s[i] ELSE v \o s[i]
    OBVIOUS
  <2>2. s[i] \in Seq(Entry) /\ v \o s[i] \in Seq(Entry)
    OBVIOUS
  <2> QED
    BY <2>1, <2>2
<1> HIDE DEF n, step
<1>3. n \in Nat
  BY DEF n
<1>4. PICK g : AllFromLast(step, <<>>, g, n) /\ \A r \in SUBSET (1..n) : g[r] \in Seq(Entry)
  BY <1>1, <1>2, <1>3, FoldFromLast
<1> DEFINE f == [i \in 1..n |-> g[1..i]]
<1>5. ASSUME NEW i \in 1..n
      PROVE  g[1..i] = IF i = 1 THEN s[i] ELSE g[1..i - 1] \o s[i]
  <2>1. i - 1 \in Nat /\ i = (i - 1) + 1
    BY <1>3
  <2>2. Max(1..i) = i /\ (1..i) \ {i} = 1..i - 1 /\ 1..i # {}
    BY <2>1, MaxOfPrefix
  <2>3. 1..i \in SUBSET (1..n) /\ 1..i - 1 \in SUBSET (1..n)
    BY <1>3
  <2>4. g[1..i] = step[<<g[1..i - 1], i>>]
    BY <1>4, <2>2, <2>3 DEF AllFromLast, FromLast
  <2>5. g[1..i - 1] \in Seq(Entry)
    BY <1>4, <2>3
  <2> QED
    BY <1>2, <2>4, <2>5
<1>6. FlatOf(s, f)
  <2>1. \A i \in 1..n : f[i] = IF i = 1 THEN s[i] ELSE f[i - 1] \o s[i]
    <3>1. \A i \in 1..n : i # 1 => i - 1 \in 1..n
      BY <1>3
    <3> QED
      BY <1>5, <3>1
  <2>2. f = [i \in 1..n |-> f[i]]
    OBVIOUS
  <2> HIDE DEF f
  <2> QED
    BY <2>1, <2>2 DEF FlatOf, n
<1> QED
  BY <1>6 DEF Flat

(* What the writes w of EL7041 have of the first k entries.                *)
Ends(w, p, x) == /\ Given(w, p, Len(w)) # {}
                 /\ \A j \in Given(w, p, Len(w)) :
                      (\A h \in Given(w, p, Len(w)) : h <= j) => w[j][2] = x

Fit(cfg, i) == cfg[i][2] % Width

Holds(w, cfg, k) ==
  /\ w \in Seq(Entry) /\ Len(w) # 0
  /\ w[Len(w)] = <<"second", Fit(cfg, k)>>
  /\ Given(cfg, "first", k) = {} => Given(w, "first", Len(w)) = {}
  /\ \A i \in Given(cfg, "first", k) :
       (\A j \in Given(cfg, "first", k) : j <= i) => Ends(w, "first", Fit(cfg, i))

\* The writes u are those of the entries before the k-th.
Before(u, cfg, k) == (u = <<>> /\ k = 1) \/ (k > 1 /\ Holds(u, cfg, k - 1))

(* One entry more.                                                         *)
LEMMA HoldsPiece ==
  ASSUME NEW cfg \in Seq(Entry), NEW k \in 1..Len(cfg), NEW u \in Seq(Entry), Before(u, cfg, k)
  PROVE  Holds(u \o Pieces(cfg)[k], cfg, k)
<1> DEFINE x == Fit(cfg, k)
           b == Pieces(cfg)[k]
           w == u \o b
           m == Len(u)
<1>1. /\ b \in Seq(Entry)
      /\ cfg[k][1] = "first" => b = <<<<"first", x>>, <<"second", x>>>>
      /\ cfg[k][1] # "first" => cfg[k][1] = "second" /\ b = <<<<"second", x>>>>
  BY PiecesAre DEF Fit
<1> HIDE DEF x, b
<1>2. /\ w \in Seq(Entry) /\ m \in Nat /\ Len(w) = m + Len(b)
      /\ \A j \in 1..m : w[j] = u[j]
      /\ \A j \in 1..Len(b) : w[m + j] = b[j]
  BY <1>1
<1>3. /\ k \in Nat /\ k # 0
      /\ \A p : Given(cfg, p, k) = IF cfg[k][1] = p THEN Given(cfg, p, k - 1) \cup {k}
                                                    ELSE Given(cfg, p, k - 1)
  BY DEF Given
<1>4. u # <<>> => k > 1 /\ Holds(u, cfg, k - 1)
  BY DEF Before
<1>5. u = <<>> => k = 1 /\ m = 0
  BY DEF Before, Holds
<1> HIDE DEF w, m
<1> SUFFICES Holds(w, cfg, k)
  BY DEF w, b
<1>6. CASE cfg[k][1] = "first"
  <2>1. Len(b) = 2 /\ b[1] = <<"first", x>> /\ b[2] = <<"second", x>>
    BY <1>1, <1>6
  <2>2. Len(w) = m + 2 /\ w[m + 1] = <<"first", x>> /\ w[m + 2] = <<"second", x>>
    BY <1>2, <2>1
  <2>3. w[m + 1][1] = "first" /\ w[m + 1][2] = x /\ w[m + 2][1] # "first"
    BY <2>2
  <2>4. m + 1 \in Given(w, "first", Len(w)) /\ \A j \in Given(w, "first", Len(w)) : j <= m + 1
    <3>1. \A j \in 1..m + 2 : j <= m + 1 \/ j = m + 2
      BY <1>2
    <3> QED
      BY <1>2, <2>2, <2>3, <3>1 DEF Given
  <2>5. Ends(w, "first", x)
    <3>1. ASSUME NEW j \in Given(w, "first", Len(w)), \A h \in Given(w, "first", Len(w)) : h <= j
          PROVE  j = m + 1
      <4>1. j <= m + 1 /\ m + 1 <= j /\ j \in Nat
        BY <2>4, <3>1 DEF Given
      <4> QED
        BY <1>2, <4>1
    <3> QED
      BY <2>3, <2>4, <3>1 DEF Ends
  <2>6. k \in Given(cfg, "first", k) /\ \A j \in Given(cfg, "first", k) : j <= k
    BY <1>3, <1>6 DEF Given
  <2>7. \A i \in Given(cfg, "first", k) : (\A j \in Given(cfg, "first", k) : j <= i) => i = k
    <3>1. \A i \in Given(cfg, "first", k) : i \in Nat
      BY DEF Given
    <3> QED
      BY <1>3, <2>6, <3>1
  <2>8. Len(w) # 0 /\ w[Len(w)] = <<"second", x>>
    BY <1>2, <2>2
  <2>9. Given(cfg, "first", k) = {} => Given(w, "first", Len(w)) = {}
    BY <2>6
  <2>10. \A i \in Given(cfg, "first", k) :
           (\A j \in Given(cfg, "first", k) : j <= i) => Ends(w, "first", Fit(cfg, i))
    BY <2>5, <2>7 DEF x
  <2> QED
    BY <1>2, <2>8, <2>9, <2>10 DEF Holds, x
<1>7. CASE cfg[k][1] # "first"
  <2>1. Len(b) = 1 /\ b[1] = <<"second", x>>
    BY <1>1, <1>7
  <2>2. Len(w) = m + 1 /\ w[m + 1] = <<"second", x>>
    BY <1>2, <2>1
  <2>3. Given(w, "first", Len(w)) = Given(u, "first", m)
    <3>1. w[m + 1][1] # "first"
      BY <2>2
    <3>2. \A j \in 1..m + 1 : j \in 1..m \/ j = m + 1
      BY <1>2
    <3>3. \A j \in 1..m : j \in 1..m + 1
      BY <1>2
    <3> QED
      BY <1>2, <2>2, <3>1, <3>2, <3>3 DEF Given
  <2>4. Given(cfg, "first", k) = Given(cfg, "first", k - 1)
    BY <1>3, <1>7
  <2>5. CASE u = <<>>
    <3>1. Given(cfg, "first", k) = {} /\ Given(w, "first", Len(w)) = {}
      BY <1>3, <1>5, <2>3, <2>4, <2>5 DEF Given
    <3>2. Len(w) # 0 /\ w[Len(w)] = <<"second", x>>
      BY <1>2, <2>2
    <3> QED
      BY <1>2, <3>1, <3>2 DEF Holds, x
  <2>6. CASE u # <<>>
    <3>1. Holds(u, cfg, k - 1)
      BY <1>4, <2>6
    <3>2. \A j \in Given(u, "first", m) : w[j] = u[j]
      BY <1>2 DEF Given
    <3>3. ASSUME NEW y, Ends(u, "first", y)
          PROVE  Ends(w, "first", y)
      BY <2>3, <3>2, <3>3 DEF Ends, m
    <3>4. Len(w) # 0 /\ w[Len(w)] = <<"second", x>>
      BY <1>2, <2>2
    <3>5. Given(cfg, "first", k) = {} => Given(w, "first", Len(w)) = {}
      BY <2>3, <2>4, <3>1 DEF Holds, m
    <3>6. \A i \in Given(cfg, "first", k) :
            (\A j \in Given(cfg, "first", k) : j <= i) => Ends(w, "first", Fit(cfg, i))
      BY <2>4, <3>1, <3>3 DEF Holds
    <3> QED
      BY <1>2, <3>4, <3>5, <3>6 DEF Holds, x
  <2> QED
    BY <2>5, <2>6
<1> QED
  BY <1>6, <1>7

(* The writes of EL7041 have what the whole configuration says.            *)
LEMMA WritesHold ==
  ASSUME NEW cfg \in Seq(Entry), cfg # <<>>
  PROVE  Holds(Settings!el7041_handle_modparams(cfg), cfg, Len(cfg))
<1>0. \A i \in 1..Len(cfg), u \in Seq(Entry) :
        Before(u, cfg, i) => Holds(u \o Pieces(cfg)[i], cfg, i)
  BY HoldsPiece
<1> DEFINE s == Pieces(cfg)
           n == Len(cfg)
           f == Flat(s)
           N == {k \in Nat : k \in 1..n => Holds(f[k], cfg, k)}
<1>1. n \in Nat /\ n # 0 /\ Len(s) = n /\ \A i \in 1..n : s[i] \in Seq(Entry)
  BY PiecesAre
<1> HIDE DEF n, s
<1>2. FlatOf(s, f)
  BY <1>1, FlatExists
<1> HIDE DEF f
<1>3. \A i \in 1..n : f[i] = IF i = 1 THEN s[i] ELSE f[i - 1] \o s[i]
  BY <1>1, <1>2 DEF FlatOf
<1>4. 0 \in N
  OBVIOUS
<1>5. ASSUME NEW k \in Nat, k \in N
      PROVE  k + 1 \in N
  <2> SUFFICES ASSUME k + 1 \in 1..n
               PROVE  Holds(f[k + 1], cfg, k + 1)
    OBVIOUS
  <2>1. k + 1 \in 1..Len(cfg)
    BY DEF n
  <2>2. CASE k = 0
    <3>1. f[1] = s[1] /\ s[1] \in Seq(Entry) /\ 1 \in 1..n
      BY <1>1, <1>3, <2>2
    <3>2. <<>> \in Seq(Entry) /\ <<>> \o s[1] = s[1]
      BY <3>1
    <3>3. 1 \in 1..Len(cfg)
      BY <2>1, <2>2
    <3> DEFINE e == <<>>
               i == 1
    <3>4. e \in Seq(Entry) /\ i \in 1..Len(cfg) /\ e = <<>> /\ i = 1 /\ e \o s[1] = s[1]
      BY <3>2, <3>3
    <3>6. Before(e, cfg, i)
      BY DEF Before
    <3> HIDE DEF e, i
    <3>5. Holds(e \o Pieces(cfg)[i], cfg, i)
      BY <1>0, <3>4, <3>6
    <3> QED
      BY <2>2, <3>1, <3>4, <3>5 DEF s
  <2>3. CASE k # 0
    <3>1. k \in 1..n /\ k + 1 > 1 /\ (k + 1) - 1 = k
      BY <1>1, <2>3
    <3>2. Holds(f[k], cfg, k)
      BY <1>5, <3>1
    <3>3. f[k] \in Seq(Entry)
      BY <3>2 DEF Holds
    <3>6. Before(f[k], cfg, k + 1)
      BY <3>1, <3>2 DEF Before
    <3>4. Holds(f[k] \o Pieces(cfg)[k + 1], cfg, k + 1)
      BY <1>0, <2>1, <3>3, <3>6
    <3>5. f[k + 1] = f[k] \o s[k + 1]
      <4>1. k + 1 # 1 /\ k + 1 \in 1..n
        BY <2>3
      <4>2. f[k + 1] = f[(k + 1) - 1] \o s[k + 1]
        BY <1>3, <4>1
      <4> QED
        BY <3>1, <4>2
    <3> QED
      BY <3>4, <3>5 DEF s
  <2> QED
    BY <2>2, <2>3
<1>6. Holds(f[n], cfg, n)
  <2>1. Nat \subseteq N
    <3> HIDE DEF N
    <3> QED
      BY <1>4, <1>5, SetInduction
  <2>2. n \in 1..n
    BY <1>1
  <2> QED
    BY <1>1, <2>1, <2>2
<1>7. Settings!el7041_handle_modparams(cfg) = f[n]
  BY <1>1, WritesAreFlat DEF f, s
<1> QED
  BY <1>6, <1>7 DEF n

---------------------------------------------------------------------------
(* What a configuration makes of an object, and that the objects hold it.  *)
Due(dev, cfg, old, p) ==
  CASE dev = "EL5021 cfg" -> Settings!Setting(cfg, p, 0)
    [] dev \in {"EL5002 cfg", "EL7332 cfg"} /\ Settings!Setting(cfg, p, 0) = 0 -> old[p]
    [] OTHER -> Settings!Setting(cfg, p, old[p])

RunsOn(dev) == dev = "EL7041 cfg"
RunsOver(dev, cfg, p) ==
  RunsOn(dev) /\ p = "second" /\ cfg # <<>> /\ Settings!Last(cfg)[1] = "first"

\* The objects that a start gives a value, and whether that fits.
Gives(dev, cfg, p) ==
  CASE dev = "EL5021 cfg" -> TRUE
    [] dev \in {"EL5002 cfg", "EL7332 cfg"} -> Settings!Setting(cfg, p, 0) # 0
    [] OTHER -> Given(cfg, p, Len(cfg)) # {}
Doable(dev, cfg, old, p) == Gives(dev, cfg, p) => Due(dev, cfg, old, p) < Width

Met(dev, coe, old, cfg) ==
  \A p \in Settings!Objects :
    \/ Gives(dev, cfg, p) /\ Due(dev, cfg, old, p) >= Width
    \/ coe[p] = Due(dev, cfg, old, p)
    \/ RunsOver(dev, cfg, p) /\ coe[p] = Fit(cfg, Len(cfg))

(* An object has an entry among the writes of all objects.                 *)
LEMMA NamedInAll ==
  ASSUME NEW cfg \in Seq(Entry), NEW p \in Settings!Objects
  PROVE  Named(cfg, p) \in Settings!ToSet(Settings!AllOf(cfg))
<1> DEFINE a == Settings!AllOf(cfg)
<1>1. /\ a \in Seq(Entry) /\ Len(a) = 2
      /\ a[1] = Named(cfg, "first") /\ a[2] = Named(cfg, "second")
  BY AllOfIs DEF Named
<1> HIDE DEF a
<1>2. 1 \in DOMAIN a /\ 2 \in DOMAIN a
  BY <1>1
<1>3. p = "first" \/ p = "second"
  BY ObjectsAre
<1>4. Named(cfg, p) \in Settings!ToSet(a)
  BY <1>1, <1>2, <1>3 DEF Settings!ToSet
<1> QED
  BY <1>4 DEF a

(* A promise is kept by each object, or cannot be.                         *)
LEMMA MetByEach ==
  ASSUME NEW dev, NEW cfg \in Seq(Entry), NEW old \in Coes, NEW coe,
         \A p \in Settings!Objects :
           Doable(dev, cfg, old, p) =>
             \/ coe[p] = Due(dev, cfg, old, p)
             \/ RunsOver(dev, cfg, p) /\ coe[p] = Fit(cfg, Len(cfg))
  PROVE  Met(dev, coe, old, cfg)
<1>1. ASSUME NEW p \in Settings!Objects
      PROVE  Due(dev, cfg, old, p) \in Nat
  <2>1. old[p] \in Nat /\ 0 \in Nat
    BY DEF Coes
  <2>2. Settings!Setting(cfg, p, 0) \in Nat /\ Settings!Setting(cfg, p, old[p]) \in Nat
    BY <2>1, SettingFits
  <2> QED
    BY <2>1, <2>2 DEF Due
<1> QED
  BY <1>1, SettingsAssumption DEF Met, Doable

\* EL5002 and EL7332: an object is written unless its setting is 0.
Defaulted(dev) == dev \in {"EL5002 cfg", "EL7332 cfg"}
ButDefaults(cfg, done) == \A p \in Settings!Objects : Named(cfg, p) \in done <=> Named(cfg, p)[2] # 0

(* What EL5002 and EL7332 write is what they promise.                      *)
LEMMA MetButDefaults ==
  ASSUME NEW dev, Defaulted(dev), NEW cfg \in Seq(Entry), NEW old \in Coes, NEW done,
         done \subseteq Settings!ToSet(Settings!AllOf(cfg)), ButDefaults(cfg, done)
  PROVE  Met(dev, Settings!Written(old, Settings!AllOf(cfg), done), old, cfg)
<1>0. \A p \in Settings!Objects :
        Settings!Written(old, Settings!AllOf(cfg), done)[p] =
          IF Named(cfg, p) \in done THEN Named(cfg, p)[2] ELSE old[p]
  BY AllWritten
<1> DEFINE coe == Settings!Written(old, Settings!AllOf(cfg), done)
<1>1. ASSUME NEW p \in Settings!Objects, Doable(dev, cfg, old, p)
      PROVE  coe[p] = Due(dev, cfg, old, p)
  <2> DEFINE x == Settings!Setting(Settings!Fitting(cfg), p, 0)
             d == Settings!Setting(cfg, p, 0)
  <2>1. Named(cfg, p)[2] = x
    BY DEF Named
  <2>2. Named(cfg, p) \in done <=> x # 0
    BY <2>1 DEF ButDefaults
  <2>3. coe[p] = IF x # 0 THEN x ELSE old[p]
    <3>1. coe[p] = IF Named(cfg, p) \in done THEN Named(cfg, p)[2] ELSE old[p]
      BY <1>0
    <3> HIDE DEF coe, x
    <3> QED
      BY <2>1, <2>2, <3>1
  <2> HIDE DEF coe
  <2>4. old[p] \in Nat /\ 0 \in Nat
    BY DEF Coes
  <2>5. CASE d = 0
    <3>1. 0 % Width = 0
      BY Fitted
    <3>2. x = 0
      BY <2>4, <2>5, <3>1, SettingFits
    <3> QED
      BY <2>3, <2>5, <3>2 DEF Defaulted, Due
  <2>6. CASE d # 0
    <3>1. Given(cfg, p, Len(cfg)) # {}
      BY <2>4, <2>6, SettingFits
    <3>2. Settings!Setting(cfg, p, old[p]) = d /\ x = d % Width /\ d \in Nat
      BY <2>4, <3>1, SettingFits
    <3>3. Due(dev, cfg, old, p) = d
      BY <2>6, <3>2 DEF Defaulted, Due
    <3>4. x = d
      <4>1. d < Width
        BY <1>1, <2>6, <3>3 DEF Doable, Gives, Defaulted
      <4> QED
        BY <3>2, <4>1, Fitted
    <3> QED
      BY <2>3, <2>6, <3>3, <3>4
  <2> QED
    BY <2>5, <2>6
<1> HIDE DEF coe
<1>2. Met(dev, coe, old, cfg)
  BY <1>1, MetByEach
<1> QED
  BY <1>2 DEF coe

\* EL5021: every object is written, with the default if it has no setting.
Resetting(dev) == dev = "EL5021 cfg"

(* What EL5021 writes is what it promises.                                 *)
LEMMA MetByAll ==
  ASSUME NEW dev, Resetting(dev), NEW cfg \in Seq(Entry), NEW old \in Coes
  PROVE  Met(dev, Settings!Written(old, Settings!AllOf(cfg), Settings!ToSet(Settings!AllOf(cfg))), old, cfg)
<1> DEFINE done == Settings!ToSet(Settings!AllOf(cfg))
           coe == Settings!Written(old, Settings!AllOf(cfg), done)
<1>1. \A p : Due(dev, cfg, old, p) = Settings!Setting(cfg, p, 0)
  BY DEF Due, Resetting
<1>2. ASSUME NEW p \in Settings!Objects, Doable(dev, cfg, old, p)
      PROVE  coe[p] = Due(dev, cfg, old, p)
  <2> DEFINE x == Settings!Setting(Settings!Fitting(cfg), p, 0)
             d == Settings!Setting(cfg, p, 0)
  <2>1. Named(cfg, p)[2] = x /\ Named(cfg, p) \in done
    BY NamedInAll DEF Named
  <2>2. coe[p] = IF Named(cfg, p) \in done THEN Named(cfg, p)[2] ELSE old[p]
    BY AllWritten
  <2> HIDE DEF coe, done
  <2>3. 0 \in Nat
    OBVIOUS
  <2>4. x = d
    <3>1. CASE Given(cfg, p, Len(cfg)) = {}
      BY <2>3, <3>1, SettingFits
    <3>2. CASE Given(cfg, p, Len(cfg)) # {}
      <4>1. x = d % Width /\ d \in Nat
        BY <2>3, <3>2, SettingFits
      <4>2. d < Width
        BY <1>1, <1>2 DEF Doable, Gives, Resetting
      <4> QED
        BY <4>1, <4>2, Fitted
    <3> QED
      BY <3>1, <3>2
  <2> QED
    BY <1>1, <2>1, <2>2, <2>4
<1> HIDE DEF coe
<1>3. Met(dev, coe, old, cfg)
  BY <1>2, MetByEach
<1> QED
  BY <1>3 DEF coe

\* The others keep what they find in an object that has no setting.
Keeping(dev) == dev \in {"EL7041 cfg", "EP5101 cfg", "FC302 cfg"}

(* What such a terminal makes of an object, and when it gives it a value.  *)
LEMMA DueWhenKeeping ==
  \A dev : Keeping(dev) =>
    \A cfg, old, p :
      /\ Due(dev, cfg, old, p) = Settings!Setting(cfg, p, old[p])
      /\ Doable(dev, cfg, old, p) /\ Given(cfg, p, Len(cfg)) # {} => Due(dev, cfg, old, p) < Width
<1>1. ASSUME NEW dev, Keeping(dev), NEW cfg, NEW old, NEW p
      PROVE  /\ Due(dev, cfg, old, p) = Settings!Setting(cfg, p, old[p])
             /\ Gives(dev, cfg, p) <=> Given(cfg, p, Len(cfg)) # {}
  <2>1. dev # "EL5021 cfg" /\ dev \notin {"EL5002 cfg", "EL7332 cfg"}
    BY <1>1 DEF Keeping
  <2> QED
    BY <2>1 DEF Due, Gives
<1> QED
  BY <1>1 DEF Doable

(* EP5101 writes what fits of its configuration.                           *)
LEMMA MetByFitting ==
  ASSUME NEW dev, Keeping(dev), NEW cfg \in Seq(Entry), NEW old \in Coes
  PROVE  Met(dev, Settings!Written(old, Settings!Fitting(cfg), Settings!ToSet(Settings!Fitting(cfg))), old, cfg)
<1> DEFINE w == Settings!Fitting(cfg)
           coe == Settings!Written(old, w, Settings!ToSet(w))
<1>1. ASSUME NEW p \in Settings!Objects, Doable(dev, cfg, old, p)
      PROVE  coe[p] = Due(dev, cfg, old, p)
  <2> DEFINE d == Settings!Setting(cfg, p, old[p])
  <2>1. w \in Seq(Entry)
    BY FittingIs
  <2>2. coe[p] = Settings!Setting(w, p, old[p])
    BY <2>1, WrittenIsSetting
  <2>3. Due(dev, cfg, old, p) = d
    BY DueWhenKeeping
  <2> HIDE DEF coe
  <2>4. old[p] \in Nat
    BY DEF Coes
  <2>5. CASE Given(cfg, p, Len(cfg)) = {}
    BY <2>2, <2>3, <2>4, <2>5, SettingFits
  <2>6. CASE Given(cfg, p, Len(cfg)) # {}
    <3>1. Settings!Setting(w, p, old[p]) = d % Width /\ d \in Nat
      BY <2>4, <2>6, SettingFits
    <3>2. Due(dev, cfg, old, p) < Width
      BY <1>1, <2>6, DueWhenKeeping
    <3> QED
      BY <2>2, <2>3, <3>1, <3>2, Fitted
  <2> QED
    BY <2>5, <2>6
<1> HIDE DEF coe
<1>2. Met(dev, coe, old, cfg)
  BY <1>1, MetByEach
<1> QED
  BY <1>2 DEF coe

(* The writes of EL7041 are a sequence of entries.                         *)
LEMMA WritesAre ==
  ASSUME NEW cfg \in Seq(Entry)
  PROVE  Settings!el7041_handle_modparams(cfg) \in Seq(Entry)
<1> DEFINE w == Settings!el7041_handle_modparams(cfg)
<1>1. CASE cfg = <<>>
  <2>1. Len(Pieces(cfg)) = 0 /\ w = Pieces(cfg)
    BY <1>1, PiecesAre, WritesAreFlat
  <2>2. Pieces(cfg) = <<>>
    BY <1>1 DEF Pieces
  <2> QED
    BY <2>1, <2>2
<1>2. CASE cfg # <<>>
  BY <1>2, WritesHold DEF Holds
<1> QED
  BY <1>1, <1>2

(* FC302: the list of a start is written, over what others left since.     *)
LEMMA MetLate ==
  ASSUME NEW dev, Keeping(dev), NEW cfg \in Seq(Entry), NEW old \in Coes, NEW coe \in Coes,
         \A p \in Settings!Objects : Given(cfg, p, Len(cfg)) = {} => coe[p] = old[p]
  PROVE  Met(dev, Settings!Written(coe, cfg, Settings!ToSet(cfg)), old, cfg)
<1> DEFINE c == Settings!Written(coe, cfg, Settings!ToSet(cfg))
<1>1. ASSUME NEW p \in Settings!Objects
      PROVE  c[p] = Due(dev, cfg, old, p)
  <2>1. c[p] = Settings!Setting(cfg, p, coe[p])
    BY WrittenIsSetting
  <2>2. Due(dev, cfg, old, p) = Settings!Setting(cfg, p, old[p])
    BY DueWhenKeeping
  <2> HIDE DEF c
  <2>3. old[p] \in Nat /\ coe[p] \in Nat
    BY DEF Coes
  <2>4. CASE Given(cfg, p, Len(cfg)) = {}
    <3>1. coe[p] = old[p]
      BY <2>4
    <3> QED
      BY <2>1, <2>2, <3>1
  <2>5. CASE Given(cfg, p, Len(cfg)) # {}
    <3>1. /\ Settings!Setting(cfg, p, coe[p]) = Settings!Setting(cfg, p, 0)
          /\ Settings!Setting(cfg, p, old[p]) = Settings!Setting(cfg, p, 0)
      BY <2>3, <2>5, SettingFits
    <3> QED
      BY <2>1, <2>2, <3>1
  <2> QED
    BY <2>4, <2>5
<1> HIDE DEF c
<1>2. Met(dev, c, old, cfg)
  BY <1>1, MetByEach
<1> QED
  BY <1>2 DEF c

(* EL7041: the last of the settings that run into each other.              *)
LEMMA MetByRunningOn ==
  ASSUME NEW dev, Keeping(dev), RunsOn(dev), NEW cfg \in Seq(Entry), NEW old \in Coes
  PROVE  Met(dev, Settings!Written(old, Settings!el7041_handle_modparams(cfg),
                              Settings!ToSet(Settings!el7041_handle_modparams(cfg))), old, cfg)
<1> DEFINE w == Settings!el7041_handle_modparams(cfg)
           coe == Settings!Written(old, w, Settings!ToSet(w))
           n == Len(cfg)
<1>1. \A p : Due(dev, cfg, old, p) = Settings!Setting(cfg, p, old[p])
  BY DueWhenKeeping
<1>2. RunsOver(dev, cfg, "second") \/ cfg = <<>> \/ cfg[n][1] # "first"
  BY DEF RunsOver, Settings!Last
<1>3. n \in Nat /\ \A i \in 1..n : cfg[i][2] \in Nat /\ cfg[i][1] \in {"first", "second"}
  BY ObjectsAre DEF Entry
<1>4. CASE cfg = <<>>
  <2>1. Len(Pieces(cfg)) = 0 /\ w = Pieces(cfg)
    BY <1>4, PiecesAre, WritesAreFlat
  <2>2. Pieces(cfg) = <<>>
    BY <1>4 DEF Pieces
  <2>3. w = <<>> /\ w \in Seq(Entry) /\ Len(w) = 0
    BY <2>1, <2>2
  <2>4. ASSUME NEW p \in Settings!Objects
        PROVE  coe[p] = Due(dev, cfg, old, p)
    <3>1. coe[p] = Settings!Setting(w, p, old[p])
      BY <2>3, WrittenIsSetting
    <3> QED
      BY <1>1, <1>4, <2>3, <3>1
  <2> HIDE DEF coe, w
  <2>5. Met(dev, coe, old, cfg)
    BY <2>4, MetByEach
  <2> QED
    BY <2>5 DEF coe, w
<1>5. CASE cfg # <<>>
  <2>1. Holds(w, cfg, n)
    BY <1>5, WritesHold
  <2>2. w \in Seq(Entry) /\ Len(w) # 0 /\ w[Len(w)] = <<"second", Fit(cfg, n)>>
    BY <2>1 DEF Holds
  <2>3. \A p \in Settings!Objects : coe[p] = Settings!Setting(w, p, old[p])
    BY <2>2, WrittenIsSetting
  <2> HIDE DEF coe, w
  <2>4. ASSUME Doable(dev, cfg, old, "first")
        PROVE  coe["first"] = Due(dev, cfg, old, "first")
    <3>1. coe["first"] = Settings!Setting(w, "first", old["first"])
      BY <2>3, ObjectsAre
    <3>2. CASE Given(cfg, "first", n) = {}
      <4>1. Given(w, "first", Len(w)) = {}
        BY <2>1, <3>2 DEF Holds
      <4>2. Settings!Setting(w, "first", old["first"]) = old["first"]
        BY <2>2, <4>1, SettingIs
      <4>3. Settings!Setting(cfg, "first", old["first"]) = old["first"]
        BY <3>2, SettingIs
      <4> QED
        BY <1>1, <3>1, <4>2, <4>3
    <3>3. CASE Given(cfg, "first", n) # {}
      <4>1. PICK i \in Given(cfg, "first", n) : \A j \in Given(cfg, "first", n) : j <= i
        BY <1>3, <3>3, LastGiven
      <4>2. Ends(w, "first", Fit(cfg, i))
        BY <2>1, <4>1 DEF Holds
      <4>3. Len(w) \in Nat /\ Given(w, "first", Len(w)) # {}
        BY <2>2, <4>2 DEF Ends
      <4>4. PICK k \in Given(w, "first", Len(w)) : \A j \in Given(w, "first", Len(w)) : j <= k
        BY <4>3, LastGiven
      <4>5. w[k][2] = Fit(cfg, i)
        BY <4>2, <4>4 DEF Ends
      <4>6. Settings!Setting(w, "first", old["first"]) = w[k][2]
        BY <2>2, <4>4, SettingIs
      <4>7. Settings!Setting(cfg, "first", old["first"]) = cfg[i][2]
        BY <4>1, SettingIs
      <4>8. cfg[i][2] \in Nat
        BY <1>3 DEF Given
      <4>10. Due(dev, cfg, old, "first") < Width
        BY <2>4, <3>3, DueWhenKeeping DEF n
      <4>9. Fit(cfg, i) = cfg[i][2]
        BY <1>1, <4>7, <4>8, <4>10, Fitted DEF Fit
      <4> QED
        BY <1>1, <3>1, <4>5, <4>6, <4>7, <4>9
    <3> QED
      BY <3>2, <3>3
  <2>5. ASSUME Doable(dev, cfg, old, "second")
        PROVE  \/ coe["second"] = Due(dev, cfg, old, "second")
               \/ RunsOver(dev, cfg, "second") /\ coe["second"] = Fit(cfg, n)
    <3>1. coe["second"] = Settings!Setting(w, "second", old["second"])
      BY <2>3, ObjectsAre
    <3>2. n # 0 /\ n \in 1..n
      BY <1>5, <1>3
    <3>6. w[Len(w)][1] = "second" /\ w[Len(w)][2] = Fit(cfg, n)
      BY <2>2
    <3>7. /\ Len(w) \in Given(w, "second", Len(w))
          /\ \A j \in Given(w, "second", Len(w)) : j <= Len(w)
      <4>1. Len(w) \in Nat /\ Len(w) # 0
        BY <2>2
      <4> QED
        BY <3>6, <4>1 DEF Given
    <3>8. Settings!Setting(w, "second", old["second"]) = Fit(cfg, n)
      BY <2>2, <3>6, <3>7, SettingIs
    <3>9. CASE cfg[n][1] = "first"
      BY <1>2, <1>5, <3>1, <3>8, <3>9 DEF RunsOver
    <3>10. CASE cfg[n][1] # "first"
      <4>1. cfg[n][1] = "second"
        BY <1>3, <3>2, <3>10
      <4>2. n \in Given(cfg, "second", n) /\ \A j \in Given(cfg, "second", n) : j <= n
        BY <3>2, <4>1 DEF Given
      <4>3. Settings!Setting(cfg, "second", old["second"]) = cfg[n][2]
        BY <4>2, SettingIs
      <4>4. Due(dev, cfg, old, "second") < Width
        BY <2>5, <4>2, DueWhenKeeping DEF n
      <4>5. Fit(cfg, n) = cfg[n][2]
        BY <1>1, <1>3, <3>2, <4>3, <4>4, Fitted DEF Fit
      <4> QED
        BY <1>1, <3>1, <3>8, <4>3, <4>5
    <3> QED
      BY <3>9, <3>10
  <2>6. \A p \in Settings!Objects :
          Doable(dev, cfg, old, p) =>
            \/ coe[p] = Due(dev, cfg, old, p)
            \/ RunsOver(dev, cfg, p) /\ coe[p] = Fit(cfg, n)
    BY <2>4, <2>5, ObjectsAre
  <2>7. Met(dev, coe, old, cfg)
    BY <2>6, MetByEach
  <2> QED
    BY <2>7 DEF coe, w
<1> QED
  BY <1>4, <1>5

---------------------------------------------------------------------------
(* FC302: the terminal holds what was there, but for objects on the list.  *)
Listed ==
  /\ \A p \in Settings!Objects : Given(drv.cfg, p, Len(drv.cfg)) = {} => env.coe[p] = env.old[p]
  /\ ~env.failed => drv.startup = Settings!ToSet(drv.cfg)
  /\ ~env.failed /\ up => Met(device, env.coe, env.old, drv.cfg)

SettingsInv ==
  /\ device \in Set /\ phase \in {"stopped", "running"}
  /\ env = [coe |-> env.coe, old |-> env.old, failed |-> env.failed]
  /\ env.coe \in Coes /\ env.old \in Coes
  /\ phase = "stopped" => ~up
  /\ phase = "running" =>
       /\ drv.cfg \in Seq(Entry)
       /\ device # "FC302 cfg" /\ ~env.failed => Met(device, env.coe, env.old, drv.cfg)
       /\ device = "FC302 cfg" => Listed

(* The invariant says what a terminal runs with.                           *)
LEMMA SettingsShown == SettingsInv => Settings!SettingsAsConfigured
<1> SUFFICES ASSUME SettingsInv, Settings!InForce, NEW p \in Settings!Objects
             PROVE  Settings!HoldsItsOwn(p) \/ Settings!HoldsAnothers(p)
  BY DEF Settings!SettingsAsConfigured
<1> DEFINE v == Settings!Setting(drv.cfg, p, 0)
           d == Due(device, drv.cfg, env.old, p)
<1>1. /\ Met(device, env.coe, env.old, drv.cfg)
      /\ drv.cfg \in Seq(Entry) /\ env.old[p] \in Nat /\ 0 \in Nat
  BY DEF SettingsInv, Listed, Settings!InForce, Coes
<1>2. RunsOver(device, drv.cfg, p) /\ env.coe[p] = Fit(drv.cfg, Len(drv.cfg)) =>
        Settings!HoldsAnothers(p)
  BY DEF RunsOver, RunsOn, Settings!HoldsAnothers, Settings!Last, Fit
<1>3. Settings!Gives(p) <=> Gives(device, drv.cfg, p)
  <2>1. Given(drv.cfg, p, Len(drv.cfg)) # {} <=> \E i \in DOMAIN drv.cfg : drv.cfg[i][1] = p
    BY <1>1 DEF Given
  <2> QED
    BY <2>1 DEF Settings!Gives, Gives
<1>4. Gives(device, drv.cfg, p) => d = v
  <2>1. Given(drv.cfg, p, Len(drv.cfg)) # {} => Settings!Setting(drv.cfg, p, env.old[p]) = v
    BY <1>1, SettingFits
  <2>2. v # 0 => Given(drv.cfg, p, Len(drv.cfg)) # {}
    BY <1>1, SettingFits
  <2> QED
    BY <2>1, <2>2 DEF Gives, Due
<1>5. ~Gives(device, drv.cfg, p) => d = env.old[p]
  <2>1. Given(drv.cfg, p, Len(drv.cfg)) = {} => Settings!Setting(drv.cfg, p, env.old[p]) = env.old[p]
    BY <1>1, SettingFits
  <2> QED
    BY <2>1 DEF Gives, Due
<1> HIDE DEF d, v
<1>6. \/ Gives(device, drv.cfg, p) /\ d >= Width
      \/ env.coe[p] = d
      \/ RunsOver(device, drv.cfg, p) /\ env.coe[p] = Fit(drv.cfg, Len(drv.cfg))
  BY <1>1 DEF Met, d
<1>7. Settings!HoldsItsOwn(p) <=>
        IF Settings!Gives(p) THEN v >= Width \/ env.coe[p] = v ELSE env.coe[p] = env.old[p]
  BY DEF Settings!HoldsItsOwn, v
<1> QED
  BY <1>2, <1>3, <1>4, <1>5, <1>6, <1>7

(* The invariant holds before the first start.                             *)
LEMMA SettingsStart == Settings!Init => SettingsInv
<1> SUFFICES ASSUME Settings!Init
             PROVE  SettingsInv
  OBVIOUS
<1> DEFINE none == [p \in Settings!Objects |-> 0]
<1>1. none \in Coes
  BY DEF Coes
<1>2. env = [coe |-> none, old |-> none, failed |-> FALSE]
  BY DEF Settings!Init
<1> HIDE DEF none
<1>3. env = [coe |-> env.coe, old |-> env.old, failed |-> env.failed] /\ env.coe = none /\ env.old = none
  BY <1>2
<1>4. device \in Set /\ phase = "stopped" /\ up = FALSE
  BY DEF Settings!Init, Set
<1> QED
  BY <1>1, <1>3, <1>4 DEF SettingsInv

\* A start of a driver that writes the objects itself.
Writing == phase = "stopped" /\ device # "FC302 cfg" /\ UNCHANGED <<device, up>>

(* A start that passes over the writes that fail.                          *)
LEMMA PassedOver ==
  ASSUME SettingsInv, Writing,
         NEW cfg \in Settings!Configs, NEW writes,
         writes \subseteq Settings!ToSet(Settings!AllOf(cfg)),
         Met(device, Settings!Written(env.coe, Settings!AllOf(cfg), writes), env.coe, cfg),
         Settings!PassOver(cfg, writes)
  PROVE  SettingsInv'
<1>1. PICK done \in SUBSET writes :
        LET coe == Settings!Written(env.coe, Settings!AllOf(cfg), done)
        IN  \/ Settings!Started(cfg, {}, coe, done # writes)
            \/ device # "EL5002 cfg" /\ Settings!Refused(coe)
  BY DEF Settings!PassOver
<1> DEFINE a == Settings!AllOf(cfg)
           coe == Settings!Written(env.coe, a, done)
<1>2. cfg \in Seq(Entry)
  BY ConfigIs
<1>3. a \in Seq(Entry) /\ env.coe \in Coes
  BY <1>2, AllOfIs DEF SettingsInv
<1>4. coe \in Coes
  BY <1>3, WrittenIs
<1>5. done = writes => Met(device, coe, env.coe, cfg)
  OBVIOUS
<1> HIDE DEF coe, a
<1>6. CASE Settings!Started(cfg, {}, coe, done # writes)
  <2>1. /\ phase' = "running" /\ drv' = [cfg |-> cfg, startup |-> {}]
        /\ env' = [coe |-> coe, old |-> env.coe, failed |-> done # writes]
    BY <1>6 DEF Settings!Started
  <2>2. /\ drv'.cfg = cfg /\ env'.coe = coe /\ env'.old = env.coe
        /\ env'.failed <=> done # writes
        /\ env' = [coe |-> env'.coe, old |-> env'.old, failed |-> env'.failed]
    BY <2>1
  <2> QED
    BY <1>2, <1>3, <1>4, <1>5, <2>1, <2>2 DEF Writing, SettingsInv
<1>7. CASE Settings!Refused(coe)
  BY <1>4, <1>7 DEF Writing, Settings!Refused, SettingsInv
<1> QED
  BY <1>1, <1>6, <1>7 DEF coe, a

(* A start that ends with the first write that fails.                      *)
LEMMA GivenUp ==
  ASSUME SettingsInv, Writing,
         NEW cfg \in Settings!Configs, NEW writes \in Seq(Entry),
         Met(device, Settings!Written(env.coe, writes, Settings!ToSet(writes)), env.coe, cfg),
         Settings!GiveUp(cfg, writes)
  PROVE  SettingsInv'
<1> DEFINE all == Settings!ToSet(writes)
           coe(n) == Settings!Written(env.coe, SubSeq(writes, 1, n), all)
<1>1. /\ cfg \in Seq(Entry) /\ env.coe \in Coes
      /\ Len(writes) \in Nat /\ DOMAIN writes = 1..Len(writes)
  <2>1. cfg \in Seq(Entry)
    BY ConfigIs
  <2>2. env.coe \in Coes
    BY DEF SettingsInv
  <2> QED
    BY <2>1, <2>2
<1>2. SubSeq(writes, 1, Len(writes)) = writes
  OBVIOUS
<1>3. \A n \in 0..Len(writes) : SubSeq(writes, 1, n) \in Seq(Entry)
  OBVIOUS
<1>4. \A n \in 0..Len(writes) : coe(n) \in Coes
  BY <1>1, <1>3, WrittenIs
<1>5. Met(device, coe(Len(writes)), env.coe, cfg)
  BY <1>2
<1>6. \/ Settings!Started(cfg, {}, coe(Len(writes)), FALSE)
      \/ \E k \in DOMAIN writes : Settings!Refused(coe(k - 1))
  BY DEF Settings!GiveUp
<1> HIDE DEF coe
<1>7. CASE Settings!Started(cfg, {}, coe(Len(writes)), FALSE)
  <2>1. /\ phase' = "running" /\ drv' = [cfg |-> cfg, startup |-> {}]
        /\ env' = [coe |-> coe(Len(writes)), old |-> env.coe, failed |-> FALSE]
    BY <1>7 DEF Settings!Started
  <2>2. /\ drv'.cfg = cfg /\ env'.coe = coe(Len(writes)) /\ env'.old = env.coe
        /\ env' = [coe |-> env'.coe, old |-> env'.old, failed |-> env'.failed]
    BY <2>1
  <2>3. coe(Len(writes)) \in Coes
    BY <1>1, <1>4
  <2> QED
    BY <1>1, <1>5, <2>1, <2>2, <2>3 DEF Writing, SettingsInv
<1>8. ASSUME NEW k \in DOMAIN writes, Settings!Refused(coe(k - 1))
      PROVE  SettingsInv'
  <2>1. coe(k - 1) \in Coes
    <3>1. k - 1 \in 0..Len(writes)
      BY <1>1
    <3> QED
      BY <1>4, <3>1
  <2> QED
    BY <1>8, <2>1 DEF Writing, Settings!Refused, SettingsInv
<1> QED
  BY <1>6, <1>7, <1>8

(* Each start leaves what its configuration promises, if all went well.    *)
LEMMA StartKeeps ==
  ASSUME SettingsInv, Writing, NEW cfg \in Settings!Configs,
         \/ Settings!lcec_el5002_init(cfg) \/ Settings!lcec_el7332_init(cfg)
         \/ Settings!lcec_el5021_init(cfg) \/ Settings!lcec_ep5101_init(cfg)
         \/ Settings!lcec_el7041_init(cfg)
  PROVE  SettingsInv'
<1> DEFINE all == Settings!ToSet(Settings!AllOf(cfg))
<1>1. cfg \in Seq(Entry)
  BY ConfigIs
<1>2. env.coe \in Coes
  BY DEF SettingsInv
<1>3. ASSUME NEW writes, writes = {e \in all : e[2] # 0}, Defaulted(device), Settings!PassOver(cfg, writes)
      PROVE  SettingsInv'
  <2>1. writes \subseteq all /\ ButDefaults(cfg, writes)
    <3>1. \A p \in Settings!Objects : Named(cfg, p) \in all
      BY <1>1, NamedInAll
    <3> HIDE DEF all
    <3> QED
      BY <1>3, <3>1 DEF ButDefaults
  <2>2. Met(device, Settings!Written(env.coe, Settings!AllOf(cfg), writes), env.coe, cfg)
    BY <1>1, <1>2, <1>3, <2>1, MetButDefaults
  <2> QED
    BY <1>3, <2>1, <2>2, PassedOver
<1>4. CASE Settings!lcec_el5002_init(cfg)
  <2>1. Defaulted(device) /\ Settings!PassOver(cfg, Settings!el5002_sdo_write(cfg))
    BY <1>4 DEF Settings!lcec_el5002_init, Defaulted
  <2> QED
    BY <1>3, <2>1 DEF Settings!el5002_sdo_write
<1>5. CASE Settings!lcec_el7332_init(cfg)
  <2>1. Defaulted(device) /\ Settings!PassOver(cfg, Settings!el7332_sdo_write(cfg))
    BY <1>5 DEF Settings!lcec_el7332_init, Defaulted
  <2> QED
    BY <1>3, <2>1 DEF Settings!el7332_sdo_write
<1>6. CASE Settings!lcec_el5021_init(cfg)
  <2>1. Resetting(device) /\ Settings!PassOver(cfg, all)
    BY <1>6 DEF Settings!lcec_el5021_init, Settings!el5021_sdo_write, Resetting
  <2>2. Met(device, Settings!Written(env.coe, Settings!AllOf(cfg), all), env.coe, cfg)
    BY <1>1, <1>2, <2>1, MetByAll
  <2> QED
    BY <2>1, <2>2, PassedOver
<1>7. CASE Settings!lcec_ep5101_init(cfg)
  <2>1. Keeping(device) /\ Settings!GiveUp(cfg, Settings!Fitting(cfg))
    BY <1>7 DEF Settings!lcec_ep5101_init, Settings!lcec_ep5101_write_modparams, Keeping
  <2>2. Settings!Fitting(cfg) \in Seq(Entry)
    BY <1>1, FittingIs
  <2>3. Met(device, Settings!Written(env.coe, Settings!Fitting(cfg), Settings!ToSet(Settings!Fitting(cfg))),
            env.coe, cfg)
    BY <1>1, <1>2, <2>1, MetByFitting
  <2> QED
    BY <2>1, <2>2, <2>3, GivenUp
<1>8. CASE Settings!lcec_el7041_init(cfg)
  <2> DEFINE w == Settings!el7041_handle_modparams(cfg)
  <2>1. Keeping(device) /\ RunsOn(device) /\ Settings!GiveUp(cfg, w)
    BY <1>8 DEF Settings!lcec_el7041_init, Keeping, RunsOn
  <2>2. w \in Seq(Entry)
    BY <1>1, WritesAre
  <2>3. Met(device, Settings!Written(env.coe, w, Settings!ToSet(w)), env.coe, cfg)
    BY <1>1, <1>2, <2>1, MetByRunningOn
  <2> HIDE DEF w
  <2> QED
    BY <2>1, <2>2, <2>3, GivenUp
<1> QED
  BY <1>4, <1>5, <1>6, <1>7, <1>8

(* Starts, stops, the bus and other tools keep the invariant.              *)
LEMMA SettingsStep ==
  ASSUME SettingsInv, [Settings!Next]_slaveVars
  PROVE  SettingsInv'
<1>1. CASE Settings!Load
  <2>1. PICK cfg \in Settings!Configs :
          \/ Settings!lcec_el5002_init(cfg) \/ Settings!lcec_el7332_init(cfg)
          \/ Settings!lcec_el5021_init(cfg) \/ Settings!lcec_ep5101_init(cfg)
          \/ Settings!lcec_el7041_init(cfg) \/ Settings!lcec_danfoss_fc302_init(cfg)
    BY <1>1 DEF Settings!Load
  <2>2. phase = "stopped" /\ UNCHANGED <<device, up>>
    BY <1>1 DEF Settings!Load
  <2>3. CASE Settings!lcec_danfoss_fc302_init(cfg)
    <3>1. device = "FC302 cfg" /\ ~up /\ ~up' /\ device' = device
      BY <2>2, <2>3 DEF Settings!lcec_danfoss_fc302_init, SettingsInv
    <3>2. CASE Settings!Refused(env.coe)
      BY <2>2, <3>2 DEF Settings!Refused, SettingsInv
    <3>3. ASSUME NEW done, Settings!Started(cfg, done, env.coe, done # Settings!ToSet(cfg))
          PROVE  SettingsInv'
      <4>1. /\ phase' = "running" /\ drv' = [cfg |-> cfg, startup |-> done]
            /\ env' = [coe |-> env.coe, old |-> env.coe, failed |-> done # Settings!ToSet(cfg)]
        BY <3>3 DEF Settings!Started
      <4>2. /\ drv'.cfg = cfg /\ drv'.startup = done /\ env'.coe = env.coe /\ env'.old = env.coe
            /\ env'.failed <=> done # Settings!ToSet(cfg)
            /\ env' = [coe |-> env'.coe, old |-> env'.old, failed |-> env'.failed]
        BY <4>1
      <4>3. cfg \in Seq(Entry)
        BY ConfigIs
      <4>4. Listed'
        BY <3>1, <4>2 DEF Listed
      <4> QED
        BY <3>1, <4>1, <4>2, <4>3, <4>4 DEF SettingsInv
    <3> QED
      BY <2>3, <3>2, <3>3 DEF Settings!lcec_danfoss_fc302_init, Settings!fc302_handle_modparams
  <2>4. CASE ~Settings!lcec_danfoss_fc302_init(cfg)
    <3>1. \/ Settings!lcec_el5002_init(cfg) \/ Settings!lcec_el7332_init(cfg)
          \/ Settings!lcec_el5021_init(cfg) \/ Settings!lcec_ep5101_init(cfg)
          \/ Settings!lcec_el7041_init(cfg)
      BY <2>1, <2>4
    <3>2. device # "FC302 cfg"
      BY <3>1 DEF Settings!lcec_el5002_init, Settings!lcec_el7332_init, Settings!lcec_el5021_init,
                  Settings!lcec_ep5101_init, Settings!lcec_el7041_init
    <3>3. Writing
      BY <2>2, <3>2 DEF Writing
    <3> QED
      BY <3>1, <3>3, StartKeeps
  <2> QED
    BY <2>3, <2>4
<1>2. CASE Settings!Unload
  BY <1>2 DEF Settings!Unload, Settings!Turn, SettingsInv
<1>3. CASE Settings!Bus
  <2>1. /\ device = "FC302 cfg" /\ device' = device /\ phase = "running" /\ phase' = "running"
        /\ drv' = drv
    BY <1>3 DEF Settings!Bus, Settings!Turn
  <2>2. Listed /\ drv.cfg \in Seq(Entry)
    BY <2>1 DEF SettingsInv
  <2>3. CASE up /\ up' = FALSE /\ env' = env
    <3>1. Listed'
      BY <2>1, <2>2, <2>3 DEF Listed
    <3> QED
      BY <2>1, <2>2, <2>3, <3>1 DEF SettingsInv
  <2>4. CASE /\ up' = TRUE
             /\ env' = [env EXCEPT !.coe = Settings!Written(@, drv.cfg, drv.startup)]
    <3> DEFINE coe == Settings!Written(env.coe, drv.cfg, drv.startup)
    <3>1. /\ env.coe \in Coes /\ env.old \in Coes
          /\ env = [coe |-> env.coe, old |-> env.old, failed |-> env.failed]
      BY DEF SettingsInv
    <3>2. coe \in Coes
      BY <2>2, <3>1, WrittenIs
    <3>3. ASSUME NEW p \in Settings!Objects, Given(drv.cfg, p, Len(drv.cfg)) = {}
          PROVE  coe[p] = env.old[p]
      <4>1. Done(drv.cfg, drv.startup, p, Len(drv.cfg)) = {}
        BY <3>3 DEF Done, Given
      <4>2. coe[p] = env.coe[p]
        BY <2>2, <3>1, <4>1, WrittenIs
      <4>3. env.coe[p] = env.old[p]
        BY <2>2, <3>3 DEF Listed
      <4> QED
        BY <4>2, <4>3
    <3>4. ASSUME ~env.failed
          PROVE  drv.startup = Settings!ToSet(drv.cfg) /\ Met(device, coe, env.old, drv.cfg)
      <4>1. /\ drv.startup = Settings!ToSet(drv.cfg)
            /\ \A p \in Settings!Objects : Given(drv.cfg, p, Len(drv.cfg)) = {} => env.coe[p] = env.old[p]
        BY <2>2, <3>4 DEF Listed
      <4>2. Keeping(device)
        BY <2>1 DEF Keeping
      <4>3. Met(device, Settings!Written(env.coe, drv.cfg, Settings!ToSet(drv.cfg)), env.old, drv.cfg)
        BY <2>2, <3>1, <4>1, <4>2, MetLate
      <4> QED
        BY <4>1, <4>3
    <3> HIDE DEF coe
    <3>5. /\ env'.coe = coe /\ env'.old = env.old /\ env'.failed = env.failed
          /\ env' = [coe |-> env'.coe, old |-> env'.old, failed |-> env'.failed]
      BY <2>4, <3>1 DEF coe
    <3>6. Listed'
      BY <2>1, <3>3, <3>4, <3>5 DEF Listed
    <3> QED
      BY <2>1, <2>2, <3>1, <3>2, <3>5, <3>6 DEF SettingsInv
  <2> QED
    BY <1>3, <2>3, <2>4 DEF Settings!Bus, Settings!fc302_handle_modparams
<1>4. CASE Settings!Foreign
  <2>1. PICK q \in Settings!Objects, v \in 0..Width - 1 :
          env' = [env EXCEPT !.coe[q] = v, !.old[q] = v]
    BY <1>4 DEF Settings!Foreign
  <2>2. /\ phase = "stopped" \/ (device = "FC302 cfg" /\ ~up)
        /\ UNCHANGED <<device, phase, up, drv>>
    BY <1>4 DEF Settings!Foreign
  <2>3. /\ env.coe \in Coes /\ env.old \in Coes
        /\ env = [coe |-> env.coe, old |-> env.old, failed |-> env.failed]
    BY DEF SettingsInv
  <2>4. /\ env'.coe = [env.coe EXCEPT ![q] = v] /\ env'.old = [env.old EXCEPT ![q] = v]
        /\ env'.failed = env.failed
        /\ env' = [coe |-> env'.coe, old |-> env'.old, failed |-> env'.failed]
    BY <2>1, <2>3
  <2>5. v \in Nat
    BY SettingsAssumption
  <2>6. env'.coe \in Coes /\ env'.old \in Coes
    BY <2>3, <2>4, <2>5 DEF Coes
  <2>7. ASSUME NEW p \in Settings!Objects, env.coe[p] = env.old[p]
        PROVE  env'.coe[p] = env'.old[p]
    BY <2>3, <2>4, <2>7 DEF Coes
  <2>8. CASE phase = "stopped"
    BY <2>2, <2>4, <2>6, <2>8 DEF SettingsInv
  <2>9. CASE phase = "running" /\ device = "FC302 cfg" /\ ~up
    <3>1. Listed /\ drv.cfg \in Seq(Entry)
      BY <2>9 DEF SettingsInv
    <3>2. Listed'
      BY <2>2, <2>4, <2>7, <2>9, <3>1 DEF Listed
    <3> QED
      BY <2>2, <2>4, <2>6, <2>9, <3>1, <3>2 DEF SettingsInv
  <2> QED
    BY <2>2, <2>8, <2>9 DEF SettingsInv
<1>5. CASE UNCHANGED slaveVars
  BY <1>5 DEF slaveVars, SettingsInv, Listed
<1> QED
  BY <1>1, <1>2, <1>3, <1>4, <1>5 DEF Settings!Next

(* Whatever was in a terminal from before and whatever the entries of its  *)
(* configuration, a start after which no write is known to have failed     *)
(* leaves what it gives a value at the one of this configuration, and      *)
(* touches nothing else (lcec_el5021.c 354-405, lcec_el7041.c 361-505);    *)
(* FC302 has it once it is operational.  EL5002 and EL7332 give no value   *)
(* to what is at its default, and an object of EL7041 that another setting *)
(* ran into holds that one, unless it has a later entry.                   *)
THEOREM SettingsAsConfiguredCorrect == Spec => []SettingsAsConfigured
<1> DEFINE Inv == device \in Set => SettingsInv
<1>1. Init => Inv
  BY OneStart, SettingsStart
<1>2. Inv /\ [Next]_slaveVars => Inv'
  BY OneDriver, SettingsStep
<1>3. Inv => SettingsAsConfigured
  BY SettingsShown DEF SettingsAsConfigured
<1> QED
  BY <1>1, <1>2, <1>3, PTL DEF Spec
=============================================================================
