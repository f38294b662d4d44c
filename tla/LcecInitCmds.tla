---------------------------- MODULE LcecInitCmds ----------------------------
(***************************************************************************)
(* The output buffer of lcec_conf (lcec_conf_util.c) and the parser of     *)
(* init command files (lcec_conf_icmds.c) that writes to it.               *)
(*                                                                         *)
(* The parser walks a table of element states.  What stands between two    *)
(* tags comes as one or more calls of xml_data_handler: expat may cut a    *)
(* text anywhere, e.g. at the end of the 8 kB block it was fed.  A text is *)
(* abstracted to its number of characters, and todo counts those that are  *)
(* still to be handed over.                                                *)
(***************************************************************************)
EXTENDS Integers, Sequences, FiniteSets

CONSTANTS MaxItems,  \* bound: items in the output buffer
          Most       \* bounds: [types, n], items of these types together

VARIABLES chain,     \* outputBuf: the items in the order they were added
          length,    \* outputBuf.len
          cur,       \* curr*: indexes into chain, 0 for NULL; slave, sdo, idn
                     \* of this parser, the others of LcecConf
          icmd,      \* inst->state of this parser, "Closed" without a file
          todo       \* characters of the current text not delivered yet

(***************************************************************************)
(* The output buffer.                                                      *)
(***************************************************************************)
SizeOf == [Master |-> 72, Slave |-> 208, DcConf |-> 24, Watchdog |-> 8,
           SyncManager |-> 16, Pdo |-> 12, PdoEntry |-> 80,
           ComplexEntry |-> 80, SdoConfig |-> 16, IdnConfig |-> 24,
           ModParam |-> 104, End |-> 4]

Extent(item) == IF item.type = "Raw" THEN item.len ELSE SizeOf[item.type]

\* Every item knows its offset in the image it will be copied to.
Placed(item) == [f \in DOMAIN item \cup {"off"} |-> IF f = "off" THEN length ELSE item[f]]

Emit(item) == /\ chain' = Append(chain, Placed(item))
              /\ length' = length + Extent(item)

\* A record that was added before is completed through a pointer to it.
Complete(k, item) == /\ chain' = [chain EXCEPT ![k] = item]
                     /\ UNCHANGED length

\* Bounds only: the buffer grows as long as there is memory.
Room(type) == /\ Len(chain) < MaxItems
              /\ \A b \in Most : type \in b.types =>
                   Cardinality({k \in DOMAIN chain : chain[k].type \in b.types}) < b.n

Top == Len(chain) + 1

NoCur == [master |-> 0, slave |-> 0, sm |-> 0, pdo |-> 0, entry |-> 0,
          sdo |-> 0, idn |-> 0, bits |-> 0]

(***************************************************************************)
(* The table of states: the element that leads to a state, and from where. *)
(***************************************************************************)
CoeTexts == {"CoeTrans", "CoeIndex", "CoeSubindex", "CoeData", "CoeOther"}
SoeTexts == {"SoeTrans", "SoeDriveno", "SoeIdn", "SoeData", "SoeOther"}

IcmdFrom ==
  [CoeTrans |-> "CoeIcmd", CoeIndex |-> "CoeIcmd", CoeSubindex |-> "CoeIcmd",
   CoeData |-> "CoeIcmd", CoeOther |-> "CoeIcmd",
   SoeTrans |-> "SoeIcmd", SoeDriveno |-> "SoeIcmd", SoeIdn |-> "SoeIcmd",
   SoeData |-> "SoeIcmd", SoeOther |-> "SoeIcmd",
   CoeIcmd |-> "CoeIcmds", CoeIcmds |-> "Coe", Coe |-> "Mailbox",
   SoeIcmd |-> "SoeIcmds", SoeIcmds |-> "Soe", Soe |-> "Mailbox",
   Mailbox |-> "None"]

\* Lengths of the texts that are put to the parser: numbers and transitions
\* have two characters, data up to two bytes of two hex digits.
Texts(s) == CASE s \in {"CoeData", "SoeData"} -> {0, 2, 4}
              [] s \in {"CoeOther", "SoeOther"} -> {0}
              [] OTHER -> {0, 2}

(***************************************************************************)
(* The handlers.                                                           *)
(***************************************************************************)
\* XML_StopParser, or an error of expat: parseIcmds and the caller give up,
\* main releases the buffer.
Abandon == /\ chain' = << >> /\ length' = 0 /\ cur' = NoCur
           /\ icmd' = "Closed" /\ todo' = 0

StartCoeIcmd ==
  \E complete \in BOOLEAN :
    /\ Emit([type |-> "SdoConfig", in |-> cur.slave, len |-> 0, index |-> "unset",
             subindex |-> IF complete THEN "complete" ELSE "unset"])
    /\ cur' = [cur EXCEPT !.sdo = Top]

StartSoeIcmd ==
  /\ Emit([type |-> "IdnConfig", in |-> cur.slave, len |-> 0, index |-> "unset",
           state |-> "unset", drive |-> "default"])
  /\ cur' = [cur EXCEPT !.idn = Top]

Open(s) ==
  /\ icmd = IcmdFrom[s]
  /\ icmd' = s
  /\ todo' \in (IF s \in CoeTexts \cup SoeTexts THEN Texts(s) ELSE {0})
  /\ CASE s = "CoeIcmd" -> Room("SdoConfig") /\ StartCoeIcmd
       [] s = "SoeIcmd" -> Room("IdnConfig") /\ StartSoeIcmd
       [] OTHER -> UNCHANGED <<chain, length, cur>>

\* The value a number takes from a call with n characters, of todo.
Parsed(n) == IF n = 2 THEN "whole" ELSE "part"

\* A call that completes a field of the command.
SetSdo(field, n) ==
  Complete(cur.sdo, [chain[cur.sdo] EXCEPT ![field] = Parsed(n)])
SetIdn(field, n) ==
  Complete(cur.idn, [chain[cur.idn] EXCEPT ![field] = Parsed(n)])

\* parse_data: bytes of two digits are appended behind the command, which
\* counts them.
AddData(k, n) ==
  /\ chain' = Append([chain EXCEPT ![k].len = @ + n \div 2],
                     [type |-> "Raw", len |-> n \div 2, off |-> length])
  /\ length' = length + n \div 2

\* xml_data_handler: expat hands over the next n characters.
Accepts(n) == CASE icmd \in {"CoeTrans", "SoeTrans"} -> n = 2
                [] icmd \in {"CoeData", "SoeData"} -> n % 2 = 0
                [] OTHER -> TRUE

Deliver(n) ==
  /\ n \in 1..todo /\ Accepts(n)
  /\ todo' = todo - n
  /\ CASE icmd = "CoeIndex" -> SetSdo("index", n)
       [] icmd = "CoeSubindex" /\ chain[cur.sdo].subindex # "complete" ->
            SetSdo("subindex", n)
       [] icmd = "SoeTrans" ->
            \E s \in {"PREOP", "SAFEOP"} :
              Complete(cur.idn, [chain[cur.idn] EXCEPT !.state = s])
       [] icmd = "SoeDriveno" -> SetIdn("drive", n)
       [] icmd = "SoeIdn" -> SetIdn("index", n)
       [] icmd = "CoeData" -> Room("Raw") /\ AddData(cur.sdo, n)
       [] icmd = "SoeData" -> Room("Raw") /\ AddData(cur.idn, n)
       [] OTHER -> UNCHANGED <<chain, length>>
  /\ UNCHANGED <<cur, icmd>>

\* The end of a command: what it lacks, and what it adds to the slave.
Lacks ==
  \/ /\ icmd = "CoeIcmd"
     /\ chain[cur.sdo].index = "unset" \/ chain[cur.sdo].subindex = "unset"
  \/ /\ icmd = "SoeIcmd"
     /\ chain[cur.idn].index = "unset" \/ chain[cur.idn].state = "unset"

EndIcmdHead(field, item) ==  \* slip: the data are not counted
  Complete(cur.slave, [chain[cur.slave] EXCEPT ![field] = @ + SizeOf[item.type]])
EndIcmd(field, item) ==
  Complete(cur.slave,
           [chain[cur.slave] EXCEPT ![field] = @ + SizeOf[item.type] + item.len])

Close ==
  /\ icmd \in DOMAIN IcmdFrom /\ todo = 0 /\ ~ Lacks
  /\ icmd' = IF icmd = "Mailbox" THEN "Closed" ELSE IcmdFrom[icmd]
  /\ CASE icmd = "CoeIcmd" -> EndIcmd("sdoLength", chain[cur.sdo])
       [] icmd = "SoeIcmd" -> EndIcmd("idnLength", chain[cur.idn])
       [] OTHER -> UNCHANGED <<chain, length>>
  /\ UNCHANGED <<cur, todo>>

\* parseIcmds is entered with the file opened, in state icmdTypeNone.
OpenFile == icmd' = "None" /\ UNCHANGED <<chain, length, cur, todo>>

(***************************************************************************)
(* The parser is also stopped (LcecConf!Stop) at any point: a refused      *)
(* text, a command that lacks something, an element that is not in the     *)
(* table, a broken file.  The table ends in a name "NULL" where the loop   *)
(* looks for a null pointer, so an unexpected element makes the loop read  *)
(* behind the table: an error, or a crash.                                 *)
(***************************************************************************)
Step == \/ \E s \in DOMAIN IcmdFrom : Open(s)
        \/ \E n \in 1..4 : Deliver(n)
        \/ Close
=============================================================================
