---------------------------- MODULE LcecCounters ----------------------------
(***************************************************************************)
(* Terminals that count an encoder for themselves: EL5101, EL5102, EL5151, *)
(* EL5152, EL5032, EL5002 and EP5101, and the encoder channels of EL7041,  *)
(* EL7342 and EM7004.  The drivers follow the counter of the terminal with *)
(* a count of their own, which an index, a reset or the start sets to      *)
(* zero.  One channel: the channels of a terminal do not influence each    *)
(* other.  Status bits that are copied to pins only, frequency and period  *)
(* are left out.                                                           *)
(***************************************************************************)
EXTENDS LcecSlave

CONSTANTS M16, M32, M64,  \* number of values of an integer of that width
          Reach,          \* bound: positions of the axis
          Steps,          \* travel of the axis in a cycle
          Scales,         \* values put on the pos-scale pin
          Presets,        \* values put on the set-raw-count-val pin
          Requests        \* bound: how often the user acts

(***************************************************************************)
(* The interfaces.  ctr: values of the counter entry; arms: the enable     *)
(* pins of the latches; sets: a counter that can be set; abs: abs-mode.    *)
(***************************************************************************)
EL5101 == [ctr |-> M16, arms |-> {"c", "pos", "neg"}, sets |-> TRUE, abs |-> FALSE]
EL5102 == [ctr |-> M16, arms |-> {"c", "pos", "neg"}, sets |-> TRUE, abs |-> FALSE]
EL5151 == [ctr |-> M32, arms |-> {"c", "pos", "neg"}, sets |-> TRUE, abs |-> FALSE]
EL5152 == [ctr |-> M32, arms |-> {"index"}, sets |-> TRUE, abs |-> FALSE]
EL5032 == [ctr |-> M64, arms |-> {}, sets |-> FALSE, abs |-> TRUE]
EL5002 == [ctr |-> M32, arms |-> {}, sets |-> FALSE, abs |-> TRUE]
EP5101 == [ctr |-> M32, arms |-> {"c", "pos", "neg"}, sets |-> TRUE, abs |-> FALSE]

ELM7 == [ctr |-> M16, arms |-> {"pos", "neg"}, sets |-> TRUE, abs |-> FALSE]

Terminals == [EL7041 |-> ELM7, EL7342 |-> ELM7, EM7004 |-> ELM7,
              EL5101 |-> EL5101, EL5102 |-> EL5102, EL5151 |-> EL5151, EL5152 |-> EL5152,
              EL5032 |-> EL5032, EL5002 |-> EL5002, EP5101 |-> EP5101]

Terminal == Terminals[device]
Ctr(x) == Signed(x, Terminal.ctr)

\* Fields behind status bits; "ext" stands for both edges.
Valid(arms) == (arms \cap {"c"}) \cup (IF arms \cap {"pos", "neg"} = {} THEN {} ELSE {"ext"})
ArmsOf(valid) == (valid \cap {"c"}) \cup (IF "ext" \in valid THEN {"pos", "neg"} ELSE {})

(***************************************************************************)
(* Start.                                                                  *)
(***************************************************************************)
Pins == [arm |-> {}, set |-> FALSE, setval |-> 0, reset |-> FALSE, abs |-> FALSE,
         index |-> FALSE, ctl |-> FALSE, valid |-> {}, count |-> 0,
         scale |-> 1, pos |-> [n |-> 0, by |-> 1]]

\* accum: of EP5101 only
Private == [first |-> TRUE, last |-> 0, accum |-> 0, op |-> FALSE, edge |-> FALSE,
            old |-> 2, by |-> 1]

lcec_el5101_init == device = "EL5101" /\ hal = Pins /\ drv = Private
lcec_el5102_init == device = "EL5102" /\ hal = Pins /\ drv = Private
lcec_el7041_init == device = "EL7041" /\ hal = Pins /\ drv = Private
lcec_el7342_init == device = "EL7342" /\ hal = Pins /\ drv = Private
lcec_em7004_init == device = "EM7004" /\ hal = Pins /\ drv = Private
lcec_el5151_init == device = "EL5151" /\ hal = Pins /\ drv = Private
lcec_el5152_init == device = "EL5152" /\ hal = Pins /\ drv = Private
lcec_el5032_init == device = "EL5032" /\ hal = Pins /\ drv = Private
lcec_el5002_init == device = "EL5002" /\ hal = Pins /\ drv = Private
lcec_ep5101_init == device = "EP5101" /\ hal = Pins /\ drv = Private

\* The counter shows pos + base; zero: the position where the count is zero, as
\* the history demands; met: requests that have been met since they were raised;
\* stale: those for which an older answer stood then, and still does.
Init ==
  /\ \/ lcec_el5101_init \/ lcec_el5102_init \/ lcec_el5151_init \/ lcec_el5152_init
     \/ lcec_el5032_init \/ lcec_el5002_init \/ lcec_ep5101_init
     \/ lcec_el7041_init \/ lcec_el7342_init \/ lcec_em7004_init
  /\ phase = "bus" /\ up = FALSE
  /\ in = [ctr |-> 0, latch |-> 0, valid |-> {}, done |-> FALSE]
  /\ out = [arm |-> {}, set |-> FALSE, val |-> 0]
  /\ env = [pos |-> 0, base |-> Terminal.ctr \div 2 - 2, at |-> 0, zero |-> 0, met |-> {},
            stale |-> {}, left |-> Requests]

(***************************************************************************)
(* The terminal.  An armed latch takes the counter at an edge and keeps it *)
(* until it is disarmed; the counter is set some time after the request    *)
(* has risen, which is then acknowledged until it falls.  At most one edge *)
(* a cycle; the index mark is at every third position.                     *)
(***************************************************************************)
Path(d) == {env.pos + k : k \in {j \in -3..3 : (0 < j /\ j <= d) \/ (d <= j /\ j < 0)}}
Marks(d) == {p \in Path(d) : p % 3 = 0}

Edges(d) == {[kind |-> "c", at |-> p] : p \in Marks(d)}
            \cup {[kind |-> k, at |-> p] : k \in {"pos", "neg"}, p \in Path(d)}

Caught(kept, d) == {e \in Edges(d) : e.kind \in out.arm /\ Valid({e.kind}) \cap kept = {}}

\* Travel that the count does not take part in: that of a cycle without
\* answer, of the first one with an answer, and of one that acknowledges a
\* preset.  EP5101 follows the preset, and starts from the counter.
Unseen(d, answers, done, shift) ==
  CASE device = "EP5101" -> -shift
    [] device # "EP5101" /\ (~answers \/ ~drv.op \/ done) -> d
    [] OTHER -> 0

When(holds, k) == IF holds THEN {k} ELSE {}

Bus ==
  /\ Turn("bus", "read")
  /\ up' \in BOOLEAN
  /\ \E d \in Steps, done \in {in.done /\ out.set /\ up', out.set /\ up'} :
       LET pos == env.pos + d
           kept == IF up' THEN in.valid \cap Valid(out.arm) ELSE {}
           sets == done /\ ~in.done
           base == IF sets THEN out.val - pos ELSE env.base
           zero == (env.zero + Unseen(d, up', done, Ctr(base + pos) - Ctr(env.base + pos))) % M64
       IN  /\ pos \in Reach
           /\ \E e \in (IF up' /\ Caught(kept, d) # {} THEN Caught(kept, d)
                        ELSE {[kind |-> "none", at |-> env.at]}) :
                /\ env' = [pos |-> pos, base |-> base % M64, at |-> e.at, zero |-> zero,
                           left |-> env.left,
                           met |-> env.met \cup Valid({e.kind}) \cup When(sets, "set"),
                           stale |-> env.stale \cap (kept \cup When(done, "set")
                                                         \cup When(hal.index, "index"))]
                /\ in' = [ctr |-> Ctr(base + pos),
                          valid |-> kept \cup Valid({e.kind}),
                          latch |-> CASE e.kind # "none" -> Ctr(base + e.at)
                                      [] e.kind = "none" /\ kept # {} -> in.latch
                                      [] OTHER -> 0,
                          done |-> done]
  /\ UNCHANGED <<hal, drv, out>>

(***************************************************************************)
(* The read callbacks.                                                     *)
(***************************************************************************)
Idle == /\ ~up /\ drv' = [drv EXCEPT !.op = FALSE]
        /\ UNCHANGED <<hal, env>>

\* pos-scale is tested when it changes, and 0 replaced.
Scale == IF hal.scale # drv.old /\ hal.scale = 0 THEN 1 ELSE hal.scale
By == IF hal.scale # drv.old THEN Scale ELSE drv.by

\* slip: an outage is not noticed
StartStale(raw) == IF drv.first THEN raw ELSE drv.last
Start(raw) == IF drv.op THEN drv.last ELSE raw
Zeroing == drv.first \/ hal.reset

\* The end of every callback: the count follows the counter.
Follow(count, last, pins) ==
  LET now == Signed(count + Ctr(in.ctr - last), M32) IN
  /\ hal' = [pins EXCEPT !.count = now, !.scale = Scale,
                         !.pos = [n |-> IF hal.abs THEN in.ctr ELSE now, by |-> By]]
  /\ drv' = [drv EXCEPT !.first = FALSE, !.last = in.ctr, !.op = TRUE, !.edge = hal.index,
                        !.old = Scale, !.by = By]

History(zero) == env' = [env EXCEPT !.zero = zero % M64]

\* slip: the next read takes the request back
StillAskedOnce == FALSE
\* The preset is asked for until the terminal acknowledges it.
StillAsked == hal.set /\ ~in.done

\* A latch that is valid wins over a reset, and over the preset.  The count since
\* the latched value is within the range of the counter, however old that value is.
FollowLatched ==
  LET latched == in.valid # {}
      last == CASE latched -> in.latch
                [] ~latched /\ (Zeroing \/ in.done) -> in.ctr
                [] OTHER -> Start(in.ctr)
  IN  /\ up
      /\ Follow(IF latched \/ Zeroing THEN 0 ELSE hal.count, last,
                [hal EXCEPT !.set = StillAsked, !.valid = in.valid, !.arm = @ \ ArmsOf(in.valid)])
      /\ History(CASE latched -> env.pos - Ctr(env.pos - env.at)
                   [] ~latched /\ Zeroing -> env.pos
                   [] OTHER -> env.zero)

\* The index comes over a pin and takes the counter of this cycle.
FollowIndexed ==
  LET index == hal.index /\ ~drv.edge /\ ~Zeroing /\ "index" \in hal.arm
  IN  /\ up
      /\ Follow(IF index \/ Zeroing THEN 0 ELSE hal.count,
                IF index \/ Zeroing \/ in.done THEN in.ctr ELSE Start(in.ctr),
                [hal EXCEPT !.set = StillAsked, !.arm = IF index THEN {} ELSE @])
      /\ History(IF index \/ Zeroing THEN env.pos ELSE env.zero)

FollowAbsolute ==
  /\ up
  /\ Follow(IF Zeroing THEN 0 ELSE hal.count,
            IF Zeroing THEN in.ctr ELSE Start(in.ctr), hal)
  /\ History(IF Zeroing THEN env.pos ELSE env.zero)

lcec_el5101_read == device = "EL5101" /\ UNCHANGED out /\ (Idle \/ FollowLatched)
lcec_el5102_read == device = "EL5102" /\ UNCHANGED out /\ (Idle \/ FollowLatched)
lcec_el7041_read == device = "EL7041" /\ UNCHANGED out /\ (Idle \/ FollowLatched)
lcec_el7342_read == device = "EL7342" /\ UNCHANGED out /\ (Idle \/ FollowLatched)
lcec_em7004_read == device = "EM7004" /\ UNCHANGED out /\ (Idle \/ FollowLatched)
lcec_el5151_read == device = "EL5151" /\ UNCHANGED out /\ (Idle \/ FollowLatched)
lcec_el5152_read == device = "EL5152" /\ UNCHANGED out /\ (Idle \/ FollowIndexed)
lcec_el5032_read == device = "EL5032" /\ UNCHANGED out /\ (Idle \/ FollowAbsolute)
lcec_el5002_read == device = "EL5002" /\ UNCHANGED out /\ (Idle \/ FollowAbsolute)

\* EP5101 takes the counter over whenever it starts, keeps 64 bits, and
\* presets its own count; the preset bit set here is gone with the next write.
lcec_ep5101_read ==
  /\ device = "EP5101"
  /\ \/ Idle /\ UNCHANGED out
     \/ LET starts == drv.first \/ ~drv.op
            last == IF starts \/ hal.reset \/ hal.set THEN in.ctr ELSE drv.last
            from == CASE hal.set -> hal.setval
                      [] ~hal.set /\ hal.reset -> 0
                      [] ~hal.set /\ ~hal.reset /\ starts -> in.ctr
                      [] OTHER -> drv.accum
            accum == Signed(from + Ctr(in.ctr - last), M64)
        IN  /\ up
            /\ hal' = [hal EXCEPT !.set = FALSE, !.valid = in.valid,
                                  !.count = Signed(accum, M32), !.scale = Scale,
                                  !.pos = [n |-> accum, by |-> By]]
            /\ drv' = [drv EXCEPT !.first = FALSE, !.op = TRUE, !.last = in.ctr,
                                  !.accum = accum, !.old = Scale, !.by = By]
            /\ out' = IF hal.set THEN [out EXCEPT !.set = TRUE, !.val = hal.setval] ELSE out
            /\ History(IF last = in.ctr /\ (starts \/ hal.reset \/ hal.set)
                       THEN env.pos - from ELSE env.zero)

Read == /\ Turn("read", "user") /\ UNCHANGED <<up, in>>
        /\ \/ lcec_el5101_read \/ lcec_el5102_read \/ lcec_el5151_read \/ lcec_el5152_read
           \/ lcec_el5032_read \/ lcec_el5002_read \/ lcec_ep5101_read
           \/ lcec_el7041_read \/ lcec_el7342_read \/ lcec_em7004_read

(***************************************************************************)
(* The user, who raises and lowers the pins whatever the terminal answers. *)
(* But a preset and a latch are not in use together: nothing in the        *)
(* sources says whether a latched value follows the preset of the counter. *)
(* And one latch is used at a time: they share the latched value.          *)
(***************************************************************************)
\* Answers to older requests, and an edge that the driver has not seen yet.
Standing == in.valid \cup When(in.done, "set") \cup When(hal.index /\ ~drv.edge, "index")

Put(pins, asked) ==
  /\ env.left > 0 /\ hal' = pins
  /\ env' = [env EXCEPT !.left = @ - 1,
                        !.met = (@ \ asked) \cup When(pins.index /\ ~hal.index, "index"),
                        !.stale = (@ \ asked) \cup (Standing \cap asked)]

ArmChoices == {{k} : k \in Terminal.arms} \cup (IF "pos" \in Terminal.arms THEN {{"pos", "neg"}} ELSE {})

User ==
  /\ Turn("user", "write") /\ UNCHANGED <<up, drv, in, out>>
  /\ \/ UNCHANGED <<hal, env>>
     \/ /\ hal.arm = {} /\ ~hal.set
        /\ \E a \in ArmChoices : Put([hal EXCEPT !.arm = a], Valid(a) \cup {"index"})
     \/ hal.arm # {} /\ Put([hal EXCEPT !.arm = {}], {})
     \/ /\ Terminal.sets /\ hal.arm = {} /\ ~hal.set
        /\ \E v \in Presets : Put([hal EXCEPT !.set = TRUE, !.setval = v], {"set"})
     \/ Put([hal EXCEPT !.reset = ~@], {})
     \/ Terminal.abs /\ Put([hal EXCEPT !.abs = ~@], {})
     \/ device = "EL5152" /\ Put([hal EXCEPT !.index = ~@], {})
     \/ device = "EP5101" /\ Put([hal EXCEPT !.ctl = ~@], {})
     \/ \E x \in Scales : Put([hal EXCEPT !.scale = x], {})

(***************************************************************************)
(* The write callbacks.                                                    *)
(***************************************************************************)
Commands == [arm |-> hal.arm, set |-> hal.set, val |-> hal.setval]

lcec_el5101_write == device = "EL5101" /\ out' = Commands
lcec_el5102_write == device = "EL5102" /\ out' = Commands
lcec_el7041_write == device = "EL7041" /\ out' = Commands
lcec_el7342_write == device = "EL7342" /\ out' = Commands
lcec_em7004_write == device = "EM7004" /\ out' = Commands
lcec_el5151_write == device = "EL5151" /\ out' = Commands
lcec_el5152_write == device = "EL5152" /\ out' = [Commands EXCEPT !.arm = {}]
lcec_ep5101_write ==
  device = "EP5101" /\ out' = IF up THEN [out EXCEPT !.arm = hal.arm, !.set = hal.ctl] ELSE out

Write == /\ Turn("write", "bus") /\ UNCHANGED <<up, hal, drv, in, env>>
         /\ \/ lcec_el5101_write \/ lcec_el5102_write \/ lcec_el5151_write \/ lcec_el5152_write
            \/ lcec_el7041_write \/ lcec_el7342_write \/ lcec_em7004_write \/ lcec_ep5101_write
            \/ device \in {"EL5032", "EL5002"} /\ UNCHANGED out  \* no proc_write

Next == Bus \/ Read \/ User \/ Write
Spec == Init /\ [][Next]_slaveVars

-----------------------------------------------------------------------------
\* Whatever outages, wraps of the counter, latches, resets and presets there
\* were, the count after a read is the travel since the event that made it
\* zero (by whole ranges of the counter less, when a latched value is kept over more
\* than that), and the position is that travel (or the counter, with abs-mode) by
\* the scale on the pin, never by 0; only 2 may still be taken for the initial 1,
\* as it is what the drivers remember of the scale before their first cycle.
\* E.g. lcec_el5101.c 190, 221-296.
CountIsTravel ==
  phase = "user" /\ up =>
    /\ hal.count = Signed(env.pos - env.zero, M32)
    /\ hal.scale # 0 /\ (hal.pos.by = hal.scale \/ (hal.scale = 2 /\ hal.pos.by = 1))
    /\ IF hal.abs THEN hal.pos.n = in.ctr ELSE Signed(hal.pos.n, M32) = hal.count

\* A driver takes an enable or set pin back only when what it asked for has been
\* done since the pin was raised (e.g. lcec_el5101.c 248-282), or when it could not
\* know better: an acknowledgement, a latched value or an edge from before has
\* stood ever since.  What comes of that case is shown by PresetIsSet.
TakenBackWhenMet ==
  LET answered == env'.met \cup env'.stale
  IN  phase = "read" =>
        /\ Valid(hal.arm) \ Valid(hal'.arm) \subseteq answered
        /\ "index" \in hal.arm \ hal'.arm => "index" \in answered
        /\ device # "EP5101" /\ hal.set /\ ~hal'.set => "set" \in answered

\* "check for counter set done" (lcec_el5101.c 248): the pin is taken back when the
\* counter has been set.  Shown to be violated: a preset that is raised while the
\* last one is still acknowledged is taken back by that acknowledgement in the next
\* cycle, and the terminal, which has not seen it fall, never sets the counter
\* (lcec_el5101.c 249-252, 310-312).
PresetIsSet ==
  [][phase = "read" /\ device # "EP5101" /\ hal.set /\ ~hal'.set => "set" \in env'.met]_slaveVars
=============================================================================
