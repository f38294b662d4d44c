----------------------------- MODULE LcecSerial -----------------------------
(***************************************************************************)
(* One channel of the EL6002 driver between the user of its HAL pins and   *)
(* the serial line.  Messages of up to 22 bytes go both ways over a pair   *)
(* of toggled bits each: send request and input accepted one way, receive  *)
(* request and output accept the other.  A message is its number.          *)
(***************************************************************************)
EXTENDS LcecSlave, Sequences

CONSTANTS Messages  \* number of messages each way

\* env.line: messages sent on the line; env.given: messages the user has handed
\* over; env.seen: messages the user has read; env.arrived: messages that came
\* from the line; env.req, env.ack: what the terminal remembers of the toggles;
\* env.strange: the terminal's toggles were not those the driver assumes.
lcec_el6002_init ==
  /\ device = "EL6002"
  /\ drv = [tx_send_toggle |-> 0, rx_req_last |-> 0, tx_ack_last |-> 0, accept |-> 0]
  /\ hal = [tx_len |-> 0, tx_data |-> 0, tx_busy |-> FALSE, rx_data |-> 0, rx_ready |-> 0]
  /\ out = [send |-> 0, accept |-> 0, data |-> 0]

Init ==
  /\ lcec_el6002_init
  /\ phase = "bus" /\ up = FALSE
  /\ \E old \in 0..1 :
       /\ in = [ack |-> old, recv |-> 0, data |-> 0]
       /\ env = [line |-> <<>>, given |-> 0, seen |-> <<>>, arrived |-> 0, ready |-> 0,
                 req |-> 0, ack |-> old, strange |-> old # 0]

\* The terminal takes a message that is requested and acknowledges it, and shows
\* the next message from the line when the one before has been accepted.
Takes == env.req # out.send
Shows == env.arrived < Messages /\ out.accept = in.recv

Exchange(takes, shows) ==
  /\ up /\ up' = TRUE
  /\ takes => Takes /\ Len(env.line) < Messages + 1
  /\ shows => Shows
  /\ takes \/ shows \/ in.ack # env.ack
  /\ env' = [env EXCEPT !.line = IF takes THEN Append(@, out.data) ELSE @,
                        !.req = IF takes THEN out.send ELSE @,
                        !.ack = IF takes THEN 1 - @ ELSE @,
                        !.arrived = IF shows THEN @ + 1 ELSE @]
  /\ in' = [ack |-> env.ack,
            recv |-> IF shows THEN 1 - in.recv ELSE in.recv,
            data |-> IF shows THEN env.arrived + 1 ELSE in.data]

Bus == /\ Turn("bus", "read") /\ UNCHANGED <<hal, drv, out>>
       /\ \/ up' \in BOOLEAN /\ UNCHANGED <<in, env>>
          \/ \E takes, shows \in BOOLEAN : Exchange(takes, shows)

\* The terminal starts afresh.
Restart ==
  /\ phase = "bus" /\ ~env.strange
  /\ up' = FALSE /\ in' = [ack |-> 0, recv |-> 0, data |-> 0]
  /\ env' = [env EXCEPT !.req = 0, !.ack = 0, !.strange = TRUE]
  /\ UNCHANGED <<device, phase, hal, drv, out>>

\* slip: the acknowledgement is taken for its level
AckedLevel == in.ack = 1
Acked == in.ack # drv.tx_ack_last

lcec_el6002_read ==
  /\ Turn("read", "user") /\ UNCHANGED <<up, in, out, env>>
  /\ \/ ~up /\ UNCHANGED <<hal, drv>>
     \/ /\ up
        /\ LET new == in.recv # drv.rx_req_last
           IN  /\ hal' = [hal EXCEPT !.tx_busy = @ /\ ~Acked,
                                     !.rx_data = IF new THEN in.data ELSE @,
                                     !.rx_ready = IF new THEN 1 - @ ELSE @]
               /\ drv' = [drv EXCEPT !.tx_ack_last = in.ack, !.rx_req_last = in.recv,
                                     !.accept = IF new THEN in.recv ELSE @]

\* The user hands the next message over while the channel is not busy, takes the
\* length back when it has become so, and reads on every toggle of rx-ready.
User ==
  /\ Turn("user", "write") /\ UNCHANGED <<up, drv, in, out>>
  /\ \/ /\ ~hal.tx_busy /\ hal.tx_len = 0 /\ env.given < Messages
        /\ hal' = [hal EXCEPT !.tx_len = 1, !.tx_data = env.given + 1]
     \/ hal.tx_busy /\ hal' = [hal EXCEPT !.tx_len = 0]
     \/ ~hal.tx_busy /\ UNCHANGED hal
  /\ env' = [env EXCEPT !.given = IF hal'.tx_len > hal.tx_len THEN @ + 1 ELSE @,
                        !.seen = IF hal.rx_ready # env.ready THEN Append(@, hal.rx_data) ELSE @,
                        !.ready = hal.rx_ready]

lcec_el6002_write ==
  /\ Turn("write", "bus") /\ UNCHANGED <<up, in, env>>
  /\ IF hal.tx_len > 0 /\ ~hal.tx_busy
     THEN /\ drv' = [drv EXCEPT !.tx_send_toggle = 1 - @]
          /\ hal' = [hal EXCEPT !.tx_busy = TRUE]
          /\ out' = [send |-> 1 - drv.tx_send_toggle, accept |-> drv.accept, data |-> hal.tx_data]
     ELSE out' = [out EXCEPT !.accept = drv.accept] /\ UNCHANGED <<drv, hal>>

Next == Bus \/ Restart \/ lcec_el6002_read \/ User \/ lcec_el6002_write
Spec == Init /\ [][Next]_slaveVars

\* The thread is periodic, and a terminal that is there again and again does
\* what is due in the end.
Fairness ==
  /\ WF_slaveVars(device = "EL6002"
                  /\ (Bus \/ lcec_el6002_read \/ User \/ lcec_el6002_write))
  /\ SF_slaveVars(device = "EL6002" /\ Bus /\ Exchange(Takes, Shows))

-----------------------------------------------------------------------------
UpTo(n) == [i \in 1..n |-> i]

\* While the terminal keeps its toggles, every message goes over the line once
\* and in order, and reaches the user once and in order, through outages of the
\* bus as well; a channel that is not busy has nothing under way (lcec_el6002.c
\* 285-380).  After a restart of the terminal the driver does not start afresh.
MessagesInOrder ==
  ~env.strange =>
    /\ env.line = UpTo(Len(env.line)) /\ Len(env.line) <= env.given
    /\ env.seen = UpTo(Len(env.seen)) /\ Len(env.seen) <= env.arrived
    /\ ~hal.tx_busy /\ hal.tx_len = 0 => Len(env.line) = env.given
    /\ phase = "write" /\ out.accept = in.recv => Len(env.seen) = env.arrived

Given(n) == device = "EL6002" /\ env.given >= n
Sent(n) == device = "EL6002" /\ Len(env.line) >= n
Arrived(n) == device = "EL6002" /\ env.arrived >= n
Seen(n) == device = "EL6002" /\ Len(env.seen) >= n

\* While the terminal keeps its toggles and the slave is operational again and
\* again, a message handed over goes over the line and the channel becomes free,
\* and a message shown reaches the user (lcec_el6002.c 285-380).
MessagesGetThrough ==
  []<>(device = "EL6002" => phase = "bus" /\ up /\ ~env.strange) =>
    /\ \A n \in 1..Messages : (Given(n) ~> Sent(n)) /\ (Arrived(n) ~> Seen(n))
    /\ (device = "EL6002" /\ hal.tx_busy) ~> (device = "EL6002" /\ ~hal.tx_busy)
=============================================================================
