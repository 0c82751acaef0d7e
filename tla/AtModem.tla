------------------------------- MODULE AtModem -------------------------------
(***************************************************************************)
(* sendCommand() and the script of send_data() of src/bottle_collecter_v3:  *)
(* a record is sent through an ESP8266 modem by the AT commands of Script.  *)
(* sendCommand repeats its command until find() sees the expected reply or  *)
(* countTimeCommand reaches the command's limit; send_data ignores whether  *)
(* it did, and goes on.  The text of the record itself is written once.     *)
(*                                                                         *)
(* The modem is external.  It serves what it receives in order, in its own  *)
(* time; while it waits for data, everything it receives is data.  A reply  *)
(* "SEND OK" contains "OK", which is all that find() looks for.             *)
(***************************************************************************)
EXTENDS Naturals, Sequences

CONSTANTS MaxTime,    \* the limit of each command of the script
          MaxRecords, \* bound: records sent with a timely modem
          MaxLate     \* bound: records sent with another

\* Mutant: the connection is closed before the record is sent.
ScriptClosing == <<"CIPMUX", "CIPSTART", "CIPCLOSE", "CIPSEND", "record">>

Script == <<"CIPMUX", "CIPSTART", "CIPSEND", "record", "CIPCLOSE">>

ASSUME ModemAssumption ==
  /\ MaxTime \in [DOMAIN Script -> Nat \ {0}] /\ MaxRecords \in Nat
  /\ MaxLate \in 0..MaxRecords

VARIABLES timely,           \* the modem answers within the timeout of find()
          lossy,            \* connections are refused or fail
          pc,               \* "idle", "loop" (top of the while), "find"
          step,             \* the entry of Script at hand
          record,           \* the record being sent, numbered from 1
          countTimeCommand,
          cmds,             \* what the modem has received and not yet served
          uart,             \* replies the sketch has not yet read
          link,             \* the TCP connection is open
          mode,             \* "command", "data", or "dirty": data, and some arrived
          delivered,        \* records the server received, 0 for a garbled one
          tries             \* ghost: transmissions of the command at hand

sketchVars == <<pc, step, record, countTimeCommand, tries>>
modemVars  == <<link, mode, delivered, timely, lossy>>
vars       == <<sketchVars, modemVars, cmds, uart>>

Init ==
  /\ pc = "idle" /\ step = 1 /\ record = 0 /\ countTimeCommand = 0
  /\ cmds = <<>> /\ uart = <<>>
  /\ link = FALSE /\ mode = "command" /\ delivered = <<>>
  /\ tries = 0
  /\ timely \in BOOLEAN /\ lossy \in BOOLEAN
-----------------------------------------------------------------------------
(***************************************************************************)
(* The sketch                                                              *)
(***************************************************************************)
Command  == <<Script[step], record>>
\* Mutant: the reply awaited is one that comes after the data.
ExpectedLate == IF Script[step] = "CIPSEND" THEN "SEND OK" ELSE "OK"
Expected == IF Script[step] = "CIPSEND" THEN ">" ELSE "OK"

\* Mutant: send_data does not start again from its first line.
NextLineOnly ==
  /\ tries' = 0 /\ step' = step + 1
  /\ pc' = IF step = Len(Script) THEN "idle" ELSE "loop"

\* The next line of send_data.
NextLine ==
  /\ tries' = 0
  /\ IF step = Len(Script) THEN pc' = "idle" /\ step' = 1
                           ELSE pc' = "loop" /\ step' = step + 1

\* send_data is called with a record.
SendData ==
  /\ pc = "idle" /\ record < (IF timely THEN MaxRecords ELSE MaxLate)
  /\ pc' = "loop" /\ record' = record + 1
  /\ UNCHANGED <<step, countTimeCommand, tries, modemVars, cmds, uart>>

\* while (countTimeCommand < maxTime) Serial2.println(command);
Transmit ==
  /\ pc = "loop" /\ Script[step] # "record" /\ countTimeCommand < MaxTime[step]
  /\ cmds' = Append(cmds, Command) /\ tries' = tries + 1
  /\ pc' = "find"
  /\ UNCHANGED <<step, record, countTimeCommand, modemVars, uart>>

\* The positions in uart that find() would stop at.
Matches == {k \in DOMAIN uart : uart[k] = Expected}

\* find() reads up to the first match: the command is taken to have succeeded.
Found ==
  /\ pc = "find"
  /\ \E k \in Matches :
       /\ \A j \in Matches : k <= j
       /\ uart' = SubSeq(uart, k + 1, Len(uart))
  /\ countTimeCommand' = 0
  /\ NextLine
  /\ UNCHANGED <<record, modemVars, cmds>>

\* Mutant: find() has no timeout of its own, and waits for some text.
TimedOutPatient ==
  /\ pc = "find" /\ Matches = {} /\ uart # <<>>
  /\ uart' = <<>> /\ pc' = "loop"
  /\ countTimeCommand' = countTimeCommand + 1
  /\ UNCHANGED <<step, record, tries, modemVars, cmds>>

\* find() reads everything, sees no match and times out.
TimedOut ==
  /\ pc = "find" /\ Matches = {}
  /\ timely => cmds = <<>>
  /\ uart' = <<>>
  /\ countTimeCommand' = countTimeCommand + 1
  /\ pc' = "loop"
  /\ UNCHANGED <<step, record, tries, modemVars, cmds>>

\* Mutant: countTimeCommand is not reset.
GiveUpOnly ==
  /\ pc = "loop" /\ Script[step] # "record" /\ countTimeCommand >= MaxTime[step]
  /\ NextLine
  /\ UNCHANGED <<record, countTimeCommand, modemVars, cmds, uart>>

\* The loop ends without a match: the command is given up.
GiveUp ==
  /\ pc = "loop" /\ Script[step] # "record" /\ countTimeCommand >= MaxTime[step]
  /\ countTimeCommand' = 0
  /\ NextLine
  /\ UNCHANGED <<record, modemVars, cmds, uart>>

\* Serial2.println(getData) and delay(1500): written once, no reply awaited.
WriteRecord ==
  /\ pc = "loop" /\ Script[step] = "record"
  /\ cmds' = Append(cmds, Command)
  /\ NextLine
  /\ UNCHANGED <<record, countTimeCommand, modemVars, uart>>

Sketch == Transmit \/ Found \/ TimedOut \/ GiveUp \/ WriteRecord
-----------------------------------------------------------------------------
(***************************************************************************)
(* The modem and the network (external)                                    *)
(***************************************************************************)
Reply(texts) == uart' = uart \o texts
Serve        == cmds # <<>> /\ cmds' = Tail(cmds) /\ UNCHANGED sketchVars
Serving(c)   == mode = "command" /\ Serve /\ Head(cmds)[1] = c
Failing      == UNCHANGED modemVars /\ Reply(<<"ERROR">>)

\* AT+CIPMUX=1 is refused while a connection is open.
ServeMux ==
  /\ Serving("CIPMUX")
  /\ IF link THEN Failing ELSE Reply(<<"OK">>) /\ UNCHANGED modemVars

ServeStart ==
  /\ Serving("CIPSTART")
  /\ \/ ~link /\ link' = TRUE /\ Reply(<<"OK">>) /\ UNCHANGED <<mode, delivered, timely, lossy>>
     \/ (link \/ lossy) /\ Failing

\* AT+CIPSEND is answered "OK" and ">", and the modem waits for data.
ServeSend ==
  /\ Serving("CIPSEND")
  /\ IF link THEN mode' = "data" /\ Reply(<<"OK", ">">>) /\ UNCHANGED <<link, delivered, timely, lossy>>
             ELSE Failing

ServeClose ==
  /\ Serving("CIPCLOSE")
  /\ IF link THEN link' = FALSE /\ Reply(<<"OK">>) /\ UNCHANGED <<mode, delivered, timely, lossy>>
             ELSE Failing

\* The text of a record is no command.
ServeText == Serving("record") /\ Failing

\* The data announced is complete, or the link broke while it was sent.
DataComplete(value) ==
  /\ mode' = "command" /\ UNCHANGED <<timely, lossy>>
  /\ \/ delivered' = Append(delivered, value) /\ Reply(<<"OK">>) /\ UNCHANGED link
     \/ lossy /\ link' = FALSE /\ Reply(<<"ERROR">>) /\ UNCHANGED delivered

\* In data mode a record completes the data; the text of a command is taken for
\* data, and may complete it or not.
ServeData ==
  /\ mode # "command" /\ Serve
  /\ IF Head(cmds)[1] = "record"
     THEN DataComplete(IF mode = "data" THEN Head(cmds)[2] ELSE 0)
     ELSE \/ mode' = "dirty" /\ UNCHANGED <<link, delivered, timely, lossy, uart>>
          \/ DataComplete(0)

\* The server or the network closes the connection.
LinkDrops ==
  /\ lossy /\ link /\ mode = "command" /\ link' = FALSE
  /\ UNCHANGED <<sketchVars, mode, delivered, timely, lossy, cmds, uart>>

Modem == \/ ServeMux \/ ServeStart \/ ServeSend \/ ServeClose
         \/ ServeText \/ ServeData

Next == SendData \/ Sketch \/ Modem \/ LinkDrops

\* The sketch runs on; a timely modem serves what it received, another one may
\* hang for ever.
Spec == Init /\ [][Next]_vars /\ WF_vars(Sketch) /\ WF_vars(timely /\ Modem)
-----------------------------------------------------------------------------
(***************************************************************************)
(* Properties                                                              *)
(***************************************************************************)
\* Every variable holds a value of its type.
TypeOK ==
  /\ pc \in {"idle", "loop", "find"} /\ step \in DOMAIN Script
  /\ record \in 0..MaxRecords /\ countTimeCommand \in Nat /\ tries \in Nat
  /\ cmds \in Seq({Script[k] : k \in DOMAIN Script} \X (1..MaxRecords))
  /\ uart \in Seq({"OK", ">", "ERROR"})
  /\ link \in BOOLEAN /\ mode \in {"command", "data", "dirty"}
  /\ delivered \in Seq(0..MaxRecords) /\ timely \in BOOLEAN /\ lossy \in BOOLEAN

\* With a modem that answers in time, the server receives records whole, in the
\* order they were sent and none of them twice, whatever connections fail.
IntactInOrder ==
  timely =>
  /\ \A k \in DOMAIN delivered : delivered[k] > 0
  /\ \A j, k \in DOMAIN delivered : j < k => delivered[j] < delivered[k]

\* Every command of the script is sent at least once and at most as often as its
\* limit allows: a command that failed leaves the next one its full budget.
EveryCommandTried ==
  [][step' # step /\ Script[step] # "record" => tries \in 1..MaxTime[step]]_vars

\* send_data returns, even if the modem hangs: loop() is never blocked for ever.
SendDataReturns == pc # "idle" ~> pc = "idle"

\* With a modem that answers in time and a network that works, every record is
\* delivered, though the replies are matched with the wrong commands.
EveryRecordDelivered ==
  \A n \in 1..MaxRecords :
    timely /\ ~lossy /\ record = n ~> \E k \in DOMAIN delivered : delivered[k] = n
=============================================================================
