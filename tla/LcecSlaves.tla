----------------------------- MODULE LcecSlaves -----------------------------
(***************************************************************************)
(* The drivers of the slaves over the variables of LcecSlave.  A slave has *)
(* one driver for good, and what it promises of the pins is promised here  *)
(* of every slave that has a driver of its kind.                           *)
(***************************************************************************)
EXTENDS LcecSlave, Sequences

CONSTANTS
  \* LcecCounters
  CountM16, CountM32, CountM64, Reach, Steps, CountScales, Presets, CountActs,
  \* LcecEncoders
  EncM24, EncM32, EncM64, EncReach, EncSteps, Bases, Homes, EncActs,
  \* LcecDutyCycle
  Unit, DutyValues, DutyScales, Offsets, Limits, DutyActs,
  \* LcecServo
  Autoresets, ServoWindow, Speed, Ramp, ServoCommands, ServoActs,
  \* LcecSdoPolling
  Diag, Info, InfosRO, Interval, StartDelay,
  \* LcecTerminalSettings
  Settable, Width, Entries,
  \* LcecSerial
  Messages,
  \* LcecFsoe
  Orders, Links

\* The integers are as wide as in C, and so is what a terminal counts in a cycle.
ASSUME CountAssumption ==
  /\ CountM16 \in Nat \ {0} /\ CountM32 \in Nat \ {0} /\ CountM64 \in Nat \ {0}
  /\ CountM16 % 2 = 0 /\ CountM32 % CountM16 = 0 /\ CountM64 % CountM32 = 0
  /\ Reach \subseteq Int /\ Steps \subseteq -(CountM16 \div 2)..(CountM16 \div 2) - 1
  /\ CountScales \subseteq Int /\ Presets \subseteq Int /\ CountActs \in Int

\* An axis does not leave the numbers of 64 bits, and raw-home is less than half
\* of what its encoder counts.
ASSUME EncAssumption ==
  /\ EncM24 \in Nat \ {0} /\ EncM32 \in Nat \ {0} /\ EncM64 \in Nat \ {0}
  /\ EncM24 % 2 = 0 /\ EncM32 % EncM24 = 0 /\ EncM64 % EncM32 = 0 /\ EncM32 < EncM64
  /\ EncReach \subseteq Int /\ 0 \in EncReach
  /\ \A a, b \in EncReach : a..b \subseteq EncReach /\ b - a < EncM64 - EncM32
  /\ EncSteps \subseteq Int /\ Bases \subseteq Int /\ EncActs \in Int
  /\ Homes \subseteq -(EncM24 \div 2) + 1..EncM24 \div 2

ASSUME DutyAssumption ==
  /\ Unit \in Nat /\ DutyValues \subseteq Int /\ DutyScales \subseteq Nat
  /\ Offsets \subseteq Int /\ Limits \subseteq Int \X Int /\ DutyActs \in Nat

ASSUME ServoAssumption ==
  /\ Autoresets \subseteq Nat \X Nat /\ ServoWindow \in Nat
  /\ Speed \in Nat \ {0} /\ Ramp \in Nat \ {0} /\ ServoCommands \subseteq Int
  /\ ServoActs \in Nat

IsSequence(s) == s \in Seq({s[i] : i \in DOMAIN s})

\* EL7332 has channels whose diagnosis it asks for whatever its errors.
ASSUME PollingAssumption ==
  /\ IsSequence(Diag) /\ Diag # <<>> /\ IsSequence(Info) /\ IsSequence(InfosRO)
  /\ \A i \in DOMAIN InfosRO : InfosRO[i] # "modes"
  /\ Interval \in Nat \ {0} /\ StartDelay \in Nat

Counters == INSTANCE LcecCounters
  WITH M16 <- CountM16, M32 <- CountM32, M64 <- CountM64, Scales <- CountScales,
       Requests <- CountActs
Encoders == INSTANCE LcecEncoders
  WITH M24 <- EncM24, M32 <- EncM32, M64 <- EncM64, Reach <- EncReach, Steps <- EncSteps,
       Requests <- EncActs
Duty == INSTANCE LcecDutyCycle
  WITH Values <- DutyValues, Scales <- DutyScales, Requests <- DutyActs
Servo == INSTANCE LcecServo
  WITH Window <- ServoWindow, Commands <- ServoCommands, Requests <- ServoActs
Polling == INSTANCE LcecSdoPolling
Settings == INSTANCE LcecTerminalSettings WITH Values <- Settable
Serial == INSTANCE LcecSerial
Fsoe == INSTANCE LcecFsoe

ASSUME SettingsAssumption ==
  Settable \subseteq Nat /\ Width \in Nat \ {0} /\ Entries \in Nat

\* The slaves of a configuration are a list, and the safety slaves are among them.
ASSUME FsoeAssumption ==
  /\ \A order \in Orders :
       IsSequence(order) /\ Fsoe!Carriers \subseteq {order[i] : i \in DOMAIN order}
  /\ \A links \in Links : IsSequence(links)

Counting == {"EL5101", "EL5102", "EL5151", "EL5152", "EL5032", "EL5002", "EP5101",
             "EL7041", "EL7342", "EM7004"}
Polled == {"EL7332", "FC302", "EL5021"}
Set == {"EL5002 cfg", "EL5021 cfg", "EL7041 cfg", "EL7332 cfg", "EP5101 cfg", "FC302 cfg"}

Init == \/ Counters!Init \/ Encoders!Init \/ Duty!Init \/ Servo!Init \/ Polling!Init
        \/ Settings!Init \/ Serial!Init \/ Fsoe!Init

Next ==
  \/ device \in Counting /\ Counters!Next
  \/ device \in Encoders!Encoding /\ Encoders!Next
  \/ device \in Servo!Servos /\ Servo!Next
  \/ device \in Duty!Outputs /\ Duty!Next
  \/ device \in Polled /\ Polling!Next
  \/ device \in Set /\ Settings!Next
  \/ device = "EL6002" /\ Serial!Next
  \/ device \in Fsoe!Logics /\ Fsoe!Next

Spec == Init /\ [][Next]_slaveVars

\* Counter terminals and encoders: what a read shows is the travel since the event
\* that made it zero, by the scale on the pin (e.g. lcec_el5101.c 221-296,
\* lcec_class_enc.c 80-158).  Left out: a scale of 2 that is on the pin since before
\* the first cycle counts as 1, the mark is not the encoder's where DeASDA divides a
\* negative position, and a latched value is told from the counter by its range only.
CountIsTravel == /\ device \in Counting => Counters!CountIsTravel
                 /\ device \in Encoders!Encoding => Encoders!PositionIsTravel

\* Counter terminals and encoders: a driver takes an enable or set pin back only
\* when what it asked for has been done since (e.g. lcec_el5101.c 248-282), or when it
\* is misled: by an answer from before that still stands (the subject of PresetIsSet),
\* or, waiting for an index, by the middle of a revolution or a negative position of
\* DeASDA.
RequestsAreMet == [][/\ device \in Counting => Counters!TakenBackWhenMet
                     /\ device \in Encoders!Encoding => Encoders!IndexWhenMet]_slaveVars

\* Drives and analog outputs: what goes to the bus is what the pins say at that
\* moment (e.g. lcec_class_aout.c 141-212), and leads a servo drive on to where it
\* is told to be (e.g. lcec_omrg5.c 388-409); but a scale of an analog output that is
\* 2 since before the first cycle counts as 1 until it changes.
DriveAsTold == /\ device \in Duty!Outputs => Duty!DriveAsTold
               /\ device \in Servo!Servos => Servo!DriveIsLed

\* Servo drives: a fault is shown as soon as a reset has had its time, and reset only
\* when that was asked for after it had come; but srv-fault-reset of DeASDA is a level
\* that may be older than the fault, and EL7211 resets while it is enabled (e.g.
\* lcec_deasda.c 484-500, 547-575).
FaultsAreHandled == device \in Servo!Servos => Servo!FaultIsShown /\ Servo!ResetWhenAsked

\* EL7332, FC302, EL5021: objects are asked for in turn, and each answer is on
\* its pin before the next is asked for (e.g. lcec_el7332.c 1116-1160).  Left out:
\* with EL7332 a request in flight when its list changes goes on beside the next,
\* which LcecSdoInFlight shows.
PollsInTurn == device \in Polled => Polling!PollsInTurn

\* What a start gives a value has that of this run's configuration, whatever the
\* terminal kept from before, and the rest is as it was (e.g. lcec_el5021.c 354-405).
\* EL5002 and EL7332 give nothing a value whose setting is the factory default, and
\* an object of EL7041 holds the setting of another that ran into it.
SettingsAsConfigured == device \in Set => Settings!SettingsAsConfigured

\* EL6002: every message goes over the line, and reaches the user, once and in
\* order while the terminal keeps its toggles (lcec_el6002.c 285-380).  Left out: the
\* terminal restarts and driver and terminal no longer agree on the toggles.
MessagesInOrder == device = "EL6002" => Serial!MessagesInOrder

\* FSoE: connections are set up whatever the order of the slaves, and those between
\* slaves of one Sync Unit carry the frames of the last exchange and no others
\* (lcec_ethercat.c 43-59).
FramesArrive == device \in Fsoe!Logics => Fsoe!FramesArrive
=============================================================================
