---------------------------- MODULE AtModemProofs ----------------------------
(***************************************************************************)
(* Theorems about AtModem, for every limit of the script's commands and any *)
(* number of records.                                                      *)
(*                                                                         *)
(* Why a timely modem gets every record whole although replies are matched  *)
(* with the wrong commands: the prompt ">" is never confused.  Only CIPSEND *)
(* brings it and only CIPSEND waits for it, so the sketch is past CIPSEND   *)
(* either with the modem in data mode and nothing else under way, when the  *)
(* record is the next thing it reads, or with the modem in command mode,    *)
(* when the record's text is refused.                                      *)
(***************************************************************************)
EXTENDS AtModem, SequenceTheorems, TLAPS

Words   == {Script[k] : k \in DOMAIN Script}
Orders  == Words \X (1..MaxRecords)
Answers == {"OK", ">", "ERROR"}

LEMMA ScriptIs ==
  /\ DOMAIN Script = 1..5 /\ Len(Script) = 5
  /\ Script[1] = "CIPMUX" /\ Script[2] = "CIPSTART" /\ Script[3] = "CIPSEND"
  /\ Script[4] = "record" /\ Script[5] = "CIPCLOSE"
  BY DEF Script

LEMMA Limits ==
  /\ \A k \in 1..5 : MaxTime[k] \in Nat /\ MaxTime[k] > 0
  /\ MaxRecords \in Nat /\ MaxLate \in 0..MaxRecords
<1>1. MaxTime \in [1..5 -> Nat \ {0}]
  BY ModemAssumption, ScriptIs DEF ModemAssumption
<1> QED BY <1>1, ModemAssumption DEF ModemAssumption

-----------------------------------------------------------------------------
(***************************************************************************)
(* Tries: what the loop of sendCommand has counted, and transmitted.        *)
(***************************************************************************)
Tried ==
  /\ pc \in {"idle", "loop", "find"} /\ step \in 1..5
  /\ countTimeCommand \in Nat /\ tries \in Nat
  /\ record \in 0..MaxRecords /\ (pc # "idle" => record > 0)
  /\ pc = "idle" => step = 1 /\ countTimeCommand = 0 /\ tries = 0
  /\ pc = "loop" => /\ tries = countTimeCommand /\ countTimeCommand <= MaxTime[step]
                    /\ step = 4 => countTimeCommand = 0
  /\ pc = "find" => /\ tries = countTimeCommand + 1 /\ countTimeCommand < MaxTime[step]
                    /\ step # 4

LEMMA TriedInit == Init => Tried
  BY Limits DEF Init, Tried

LEMMA NextLineTried ==
  ASSUME Tried, pc # "idle", countTimeCommand' = 0, NextLine, record' = record
  PROVE  Tried'
<1>1. CASE step = 5
  BY <1>1, ScriptIs DEF Tried, NextLine
<1>2. CASE step \in 1..4
  <2>1. pc' = "loop" /\ step' = step + 1 /\ step' \in 1..5 /\ tries' = 0
    BY <1>2, ScriptIs DEF NextLine
  <2>2. MaxTime[step'] \in Nat
    BY <2>1, Limits
  <2> QED BY <2>1, <2>2 DEF Tried
<1> QED BY <1>1, <1>2 DEF Tried

LEMMA TriedStep == Tried /\ [Next]_vars => Tried'
<1> SUFFICES ASSUME Tried, [Next]_vars PROVE Tried'
  OBVIOUS
<1>0. step \in 1..5 /\ MaxTime[step] \in Nat /\ MaxTime[step] > 0 /\ MaxRecords \in Nat
      /\ MaxLate \in 0..MaxRecords
  BY Limits DEF Tried
<1>1. CASE SendData
  BY <1>0, <1>1 DEF SendData, Tried
<1>2. CASE Transmit
  BY <1>0, <1>2, ScriptIs DEF Transmit, Tried
<1>3. CASE Found
  BY <1>3, NextLineTried DEF Found
<1>4. CASE TimedOut
  BY <1>0, <1>4 DEF TimedOut, Tried
<1>5. CASE GiveUp
  BY <1>5, NextLineTried DEF GiveUp
<1>6. CASE WriteRecord
  <2>1. step = 4
    BY <1>0, <1>6, ScriptIs DEF WriteRecord
  <2>2. countTimeCommand' = 0
    BY <1>6, <2>1 DEF WriteRecord, Tried
  <2> QED BY <1>6, <2>2, NextLineTried DEF WriteRecord
<1>7. CASE Modem \/ LinkDrops
  <2>1. UNCHANGED sketchVars
    BY <1>7 DEF Modem, ServeMux, ServeStart, ServeSend, ServeClose, ServeText, ServeData,
       Serving, Serve, LinkDrops
  <2> QED BY <2>1 DEF Tried, sketchVars
<1>8. CASE UNCHANGED vars
  BY <1>8 DEF vars, sketchVars, Tried
<1> QED BY <1>1, <1>2, <1>3, <1>4, <1>5, <1>6, <1>7, <1>8 DEF Next, Sketch

\* What the step away from a command says of its transmissions.
Budget == step' # step /\ Script[step] # "record" => tries \in 1..MaxTime[step]

LEMMA BudgetStep == Tried /\ [Next]_vars => [Budget]_vars
<1> SUFFICES ASSUME Tried, Next, step' # step, Script[step] # "record"
             PROVE  tries \in 1..MaxTime[step]
  BY DEF Budget
<1>0. step \in 1..5 /\ MaxTime[step] \in Nat /\ MaxTime[step] > 0
  BY Limits DEF Tried
<1>1. CASE Found
  BY <1>0, <1>1 DEF Found, Tried
<1>2. CASE GiveUp
  BY <1>0, <1>2 DEF GiveUp, Tried
<1>3. ~SendData /\ ~Transmit /\ ~TimedOut /\ ~WriteRecord
  BY DEF SendData, Transmit, TimedOut, WriteRecord
<1>4. ~Modem /\ ~LinkDrops
  BY DEF Modem, ServeMux, ServeStart, ServeSend, ServeClose, ServeText, ServeData,
     Serving, Serve, LinkDrops, sketchVars
<1> QED BY <1>1, <1>2, <1>3, <1>4 DEF Next, Sketch

\* However replies are matched, every command is transmitted at least once and
\* never more often than its own limit: countTimeCommand never carries over from
\* a command that failed to the next (sendCommand, the two resets).
THEOREM EveryCommandAlwaysTried == Spec => EveryCommandTried
<1>1. Tried /\ [Next]_vars => [Budget]_vars
  BY BudgetStep
<1> QED BY <1>1, TriedInit, TriedStep, PTL DEF Spec, EveryCommandTried, Budget
-----------------------------------------------------------------------------
(***************************************************************************)
(* Types                                                                   *)
(***************************************************************************)
ModemTypes ==
  /\ cmds \in Seq(Orders) /\ uart \in Seq(Answers)
  /\ link \in BOOLEAN /\ mode \in {"command", "data", "dirty"}
  /\ delivered \in Seq(0..MaxRecords) /\ timely \in BOOLEAN /\ lossy \in BOOLEAN

TypeInv == Tried /\ ModemTypes

LEMMA TypeInvIsTypeOK == TypeInv => TypeOK
  BY ScriptIs DEF TypeInv, Tried, ModemTypes, TypeOK, Orders, Words, Answers

LEMMA TypeInvInit == Init => TypeInv
<1> SUFFICES ASSUME Init PROVE TypeInv
  OBVIOUS
<1>1. cmds \in Seq(Orders) /\ uart \in Seq(Answers) /\ delivered \in Seq(0..MaxRecords)
  BY DEF Init
<1> QED BY <1>1, TriedInit DEF Init, TypeInv, ModemTypes

LEMMA CommandTyped == ASSUME Tried, pc # "idle" PROVE Command \in Orders
<1>1. record \in 1..MaxRecords /\ step \in DOMAIN Script
  BY Limits, ScriptIs DEF Tried
<1> QED BY <1>1 DEF Command, Orders, Words

LEMMA Served ==
  ASSUME NEW S, NEW q \in Seq(S), q # <<>>
  PROVE  /\ Head(q) = q[1] /\ q[1] \in S /\ Len(q) \in Nat \ {0}
         /\ Tail(q) \in Seq(S) /\ Len(Tail(q)) = Len(q) - 1
         /\ \A k \in 1..Len(q) - 1 : Tail(q)[k] = q[k + 1]
  OBVIOUS

LEMMA Sent ==
  ASSUME NEW S, NEW q \in Seq(S), NEW e \in S
  PROVE  /\ Append(q, e) \in Seq(S) /\ Len(Append(q, e)) = Len(q) + 1
         /\ \A k \in 1..Len(q) : Append(q, e)[k] = q[k]
         /\ Append(q, e)[Len(q) + 1] = e
  OBVIOUS

LEMMA Rest ==
  ASSUME NEW S, NEW q \in Seq(S), NEW k \in 1..Len(q)
  PROVE  /\ SubSeq(q, k + 1, Len(q)) \in Seq(S)
         /\ Len(SubSeq(q, k + 1, Len(q))) = Len(q) - k
         /\ \A j \in 1..Len(q) - k : SubSeq(q, k + 1, Len(q))[j] = q[j + k]
  OBVIOUS

LEMMA Answered ==
  ASSUME NEW S, NEW q \in Seq(S), NEW r \in Seq(S)
  PROVE  /\ q \o r \in Seq(S) /\ Len(q \o r) = Len(q) + Len(r)
         /\ \A k \in 1..Len(q) : (q \o r)[k] = q[k]
         /\ \A k \in 1..Len(r) : (q \o r)[Len(q) + k] = r[k]
  OBVIOUS

\* What the sketch does to the lines of the serial port.
LEMMA SketchLines ==
  ASSUME TypeInv, SendData \/ Sketch
  PROVE  /\ cmds' \in Seq(Orders) /\ uart' \in Seq(Answers) /\ UNCHANGED modemVars
<1>0. cmds \in Seq(Orders) /\ uart \in Seq(Answers) /\ Tried
  BY DEF TypeInv, ModemTypes
<1>1. CASE SendData
  BY <1>0, <1>1 DEF SendData
<1>2. CASE Transmit \/ WriteRecord
  <2>1. pc # "idle" /\ cmds' = Append(cmds, Command) /\ UNCHANGED <<modemVars, uart>>
    BY <1>2 DEF Transmit, WriteRecord
  <2> QED BY <1>0, <2>1, CommandTyped, Sent
<1>3. CASE Found
  <2>1. PICK k \in DOMAIN uart : uart' = SubSeq(uart, k + 1, Len(uart))
    BY <1>3 DEF Found, Matches
  <2>2. k \in 1..Len(uart)
    BY <1>0, <2>1
  <2>3. uart' \in Seq(Answers)
    BY <1>0, <2>1, <2>2, Rest
  <2> QED BY <1>0, <1>3, <2>3 DEF Found
<1>4. CASE TimedOut
  BY <1>0, <1>4 DEF TimedOut
<1>5. CASE GiveUp
  BY <1>0, <1>5 DEF GiveUp
<1> QED BY <1>1, <1>2, <1>3, <1>4, <1>5 DEF Sketch

Replies == {<<"OK">>, <<"ERROR">>, <<"OK", ">">>}

\* A summary of every step of the modem but the two of data mode.
Plain ==
  /\ mode = "command" /\ Serve /\ UNCHANGED <<delivered, timely, lossy>>
  /\ link' \in BOOLEAN
  /\ \E r \in Replies : uart' = uart \o r
  /\ \/ mode' = "command" /\ (uart' = uart \o <<"OK">> \/ uart' = uart \o <<"ERROR">>)
     \/ Head(cmds)[1] = "CIPSEND" /\ mode' = "data" /\ uart' = uart \o <<"OK", ">">>

LEMMA ModemIsPlain ==
  ASSUME ModemTypes, Modem PROVE Plain \/ ServeData
<1> USE DEF Serving, Reply, Failing, modemVars, Replies
<1>1. CASE ServeMux
  BY <1>1 DEF ServeMux, ModemTypes, Plain
<1>2. CASE ServeStart
  BY <1>2 DEF ServeStart, ModemTypes, Plain
<1>3. CASE ServeSend
  BY <1>3 DEF ServeSend, ModemTypes, Plain
<1>4. CASE ServeClose
  BY <1>4 DEF ServeClose, ModemTypes, Plain
<1>5. CASE ServeText
  BY <1>5 DEF ServeText, ModemTypes, Plain
<1> QED BY <1>1, <1>2, <1>3, <1>4, <1>5 DEF Modem

LEMMA RepliesTyped == \A r \in Replies : r \in Seq(Answers)
<1>1. <<"OK">> \in Seq(Answers) /\ <<"ERROR">> \in Seq(Answers) /\ <<"OK", ">">> \in Seq(Answers)
  BY DEF Answers
<1> QED BY <1>1 DEF Replies

LEMMA ServeDataTyped == ASSUME TypeInv, ServeData PROVE ModemTypes'
<1>0. /\ cmds \in Seq(Orders) /\ uart \in Seq(Answers) /\ delivered \in Seq(0..MaxRecords)
      /\ link \in BOOLEAN /\ timely \in BOOLEAN /\ lossy \in BOOLEAN
  BY DEF TypeInv, ModemTypes
<1>1. cmds # <<>> /\ cmds' = Tail(cmds)
  BY DEF ServeData, Serve
<1>2. cmds' \in Seq(Orders) /\ Head(cmds) \in Orders
  BY <1>0, <1>1, Served
<1>3. Head(cmds)[2] \in 0..MaxRecords /\ 0 \in 0..MaxRecords
  BY <1>2, Limits DEF Orders
<1>4. ASSUME NEW v \in 0..MaxRecords, DataComplete(v) PROVE ModemTypes'
  <2>1. mode' = "command" /\ UNCHANGED <<timely, lossy>> /\ (link' = link \/ link' = FALSE)
    BY <1>4 DEF DataComplete
  <2>2. delivered' = delivered \/ delivered' = Append(delivered, v)
    BY <1>4 DEF DataComplete
  <2>3. \E r \in Replies : uart' = uart \o r
    BY <1>4 DEF DataComplete, Reply, Replies
  <2>4. delivered' \in Seq(0..MaxRecords)
    BY <1>0, <2>2, Sent
  <2>5. uart' \in Seq(Answers)
    BY <1>0, <2>3, RepliesTyped, Answered
  <2> QED BY <1>0, <1>2, <2>1, <2>4, <2>5 DEF ModemTypes
<1>5. CASE mode' = "dirty" /\ UNCHANGED <<link, delivered, timely, lossy, uart>>
  BY <1>0, <1>2, <1>5 DEF ModemTypes
<1> QED BY <1>3, <1>4, <1>5 DEF ServeData

LEMMA ModemTypesStep == ASSUME TypeInv, [Next]_vars PROVE ModemTypes'
<1>0. ModemTypes
  BY DEF TypeInv
<1>1. CASE SendData \/ Sketch
  BY <1>0, <1>1, SketchLines DEF ModemTypes, modemVars
<1>2. CASE Plain
  <2>1. cmds # <<>> /\ cmds' = Tail(cmds)
    BY <1>2 DEF Plain, Serve
  <2>2. cmds' \in Seq(Orders)
    BY <1>0, <2>1, Served DEF ModemTypes
  <2>3. PICK r \in Replies : uart' = uart \o r
    BY <1>2 DEF Plain
  <2>4. uart' \in Seq(Answers)
    BY <1>0, <2>3, RepliesTyped, Answered DEF ModemTypes
  <2>5. link' \in BOOLEAN /\ mode' \in {"command", "data"} /\ UNCHANGED <<delivered, timely, lossy>>
    BY <1>2 DEF Plain
  <2> QED BY <1>0, <2>2, <2>4, <2>5 DEF ModemTypes
<1>3. CASE Modem
  BY <1>0, <1>2, <1>3, ModemIsPlain, ServeDataTyped
<1>4. CASE LinkDrops
  BY <1>0, <1>4 DEF LinkDrops, ModemTypes
<1>5. CASE UNCHANGED vars
  BY <1>0, <1>5 DEF vars, modemVars, ModemTypes
<1> QED BY <1>1, <1>3, <1>4, <1>5 DEF Next

LEMMA TypeInvStep == TypeInv /\ [Next]_vars => TypeInv'
  BY TriedStep, ModemTypesStep DEF TypeInv

\* Every variable keeps its type: what travels between sketch and modem is a
\* line of the script with the number of a record that was sent.
THEOREM AlwaysTyped == Spec => []TypeOK
  BY TypeInvInit, TypeInvStep, TypeInvIsTypeOK, PTL DEF Spec

-----------------------------------------------------------------------------
(***************************************************************************)
(* The prompt, with a timely modem.                                        *)
(***************************************************************************)
\* The modem has just sent the prompt, and the sketch has not read it.
Prompted ==
  /\ pc = "find" /\ step = 3 /\ cmds = <<>> /\ uart # <<>>
  /\ \A k \in DOMAIN uart : uart[k] = ">" <=> k = Len(uart)

\* The sketch has read it, and is about to write the record.
Ready == pc = "loop" /\ step = 4 /\ cmds = <<>> /\ uart = <<>>

\* The record is what the modem reads next; only CIPCLOSE can be behind it.
Writing ==
  /\ step = 5 /\ uart = <<>> /\ cmds # <<>> /\ cmds[1] = <<"record", record>>
  /\ pc \in {"loop", "find"} /\ (pc = "loop" => countTimeCommand = 0)

Prompt ==
  /\ mode # "dirty"
  /\ mode = "data" => Prompted \/ Ready \/ Writing
  /\ (\E k \in DOMAIN uart : uart[k] = ">") => mode = "data" /\ Prompted
  /\ \A k \in DOMAIN cmds : cmds[k][1] = "CIPSEND" => pc = "find" /\ step = 3 /\ k = Len(cmds)

\* The record at hand has not been delivered before the modem reads it.
Ordered ==
  /\ \A k \in DOMAIN delivered : delivered[k] \in 1..record
  /\ \A j, k \in DOMAIN delivered : j < k => delivered[j] < delivered[k]
  /\ (pc # "idle" /\ step <= 4) \/ mode = "data" =>
       \A k \in DOMAIN delivered : delivered[k] < record

PromptInv == TypeInv /\ (timely => Prompt /\ Ordered)

\* IntactInOrder is what Ordered says of the numbers delivered.
LEMMA OrderedIsIntact == PromptInv => IntactInOrder
<1> SUFFICES ASSUME PromptInv, timely PROVE IntactInOrder
  BY DEF IntactInOrder
<1>1. record \in Nat /\ Ordered
  BY Limits DEF PromptInv, TypeInv, Tried
<1> QED BY <1>1 DEF Ordered, IntactInOrder

LEMMA PromptInvInit == Init => PromptInv
<1> SUFFICES ASSUME Init PROVE PromptInv
  OBVIOUS
<1>1. DOMAIN uart = {} /\ DOMAIN cmds = {} /\ DOMAIN delivered = {}
  BY DEF Init
<1> QED BY <1>1, TypeInvInit DEF Init, PromptInv, Prompt, Ordered

\* The facts about types that the steps below rest on.
LEMMA Basics ==
  ASSUME TypeInv
  PROVE  /\ cmds \in Seq(Orders) /\ Len(cmds) \in Nat /\ DOMAIN cmds = 1..Len(cmds)
         /\ uart \in Seq(Answers) /\ Len(uart) \in Nat /\ DOMAIN uart = 1..Len(uart)
         /\ delivered \in Seq(0..MaxRecords) /\ Len(delivered) \in Nat
         /\ DOMAIN delivered = 1..Len(delivered)
         /\ step \in 1..5 /\ record \in 0..MaxRecords /\ record \in Nat
         /\ mode \in {"command", "data", "dirty"}
  BY Limits DEF TypeInv, Tried, ModemTypes

LEMMA NextLineIs ==
  ASSUME NextLine
  PROVE  /\ step = 5 => pc' = "idle" /\ step' = 1
         /\ step # 5 => pc' = "loop" /\ step' = step + 1
  BY ScriptIs DEF NextLine

Quiet == \A k \in DOMAIN uart : uart[k] # ">"

\* Between lines, and outside data mode, any step that sends no CIPSEND is safe.
LEMMA PromptElsewhere ==
  ASSUME mode' = "command", Quiet', \A k \in DOMAIN cmds' : cmds'[k][1] # "CIPSEND"
  PROVE  Prompt'
  BY DEF Prompt, Quiet

LEMMA OrderedStays ==
  ASSUME TypeInv, Ordered, UNCHANGED <<delivered, record>>,
         (pc' # "idle" /\ step' <= 4) \/ mode' = "data" =>
            (pc # "idle" /\ step <= 4) \/ mode = "data"
  PROVE  Ordered'
  BY DEF Ordered

LEMMA PromptSendData == ASSUME TypeInv, Prompt, Ordered, SendData PROVE Prompt' /\ Ordered'
<1>1. pc = "idle" /\ pc' = "loop" /\ record' = record + 1 /\ UNCHANGED <<step, modemVars, cmds, uart>>
  BY DEF SendData
<1>2. mode = "command" /\ Quiet /\ \A k \in DOMAIN cmds : cmds[k][1] # "CIPSEND"
  BY <1>1, Basics DEF Prompt, Prompted, Ready, Writing, Quiet
<1>3. Prompt'
  BY <1>1, <1>2, PromptElsewhere DEF modemVars, Quiet
<1>4. record \in Nat /\ delivered' = delivered
  BY <1>1, Basics DEF modemVars
<1>5. \A k \in DOMAIN delivered : delivered[k] \in 1..record + 1 /\ delivered[k] < record + 1
  BY <1>4 DEF Ordered
<1> QED BY <1>1, <1>3, <1>4, <1>5 DEF Ordered

LEMMA PromptTransmit == ASSUME TypeInv, Prompt, Ordered, Transmit PROVE Prompt' /\ Ordered'
<1>1. /\ pc = "loop" /\ pc' = "find" /\ cmds' = Append(cmds, Command)
      /\ UNCHANGED <<step, record, countTimeCommand, modemVars, uart>>
  BY DEF Transmit
<1>2. step # 4 /\ step \in 1..5
  BY ScriptIs, Basics DEF Transmit
<1>3. Command[1] = Script[step] /\ (step # 3 => Script[step] # "CIPSEND")
  BY <1>2, ScriptIs DEF Command
<1>4. /\ Len(cmds') = Len(cmds) + 1 /\ cmds' \in Seq(Orders) /\ DOMAIN cmds' = 1..Len(cmds) + 1
      /\ \A k \in 1..Len(cmds) : cmds'[k] = cmds[k]
      /\ cmds'[Len(cmds) + 1] = Command
  <2>1. Command \in Orders
    BY <1>1, CommandTyped DEF TypeInv
  <2> QED BY <1>1, <2>1, Basics, Sent
<1>5. \A k \in DOMAIN cmds : cmds[k][1] # "CIPSEND"
  BY <1>1 DEF Prompt
<1>6. Quiet
  BY <1>1 DEF Prompt, Prompted, Quiet
<1>7. \A k \in DOMAIN cmds' : cmds'[k][1] = "CIPSEND" => k = Len(cmds') /\ step = 3
  <2>1. \A k \in DOMAIN cmds' : k \in 1..Len(cmds) \/ k = Len(cmds) + 1
    BY <1>4, Basics
  <2> QED BY <1>3, <1>4, <1>5, <2>1, Basics
<1>8. mode' = "data" => Writing'
  <2> SUFFICES ASSUME mode = "data" PROVE Writing'
    BY <1>1 DEF modemVars
  <2>1. Writing
    BY <1>1, <1>2 DEF Prompt, Prompted, Ready
  <2>2. 1 \in 1..Len(cmds)
    BY <2>1, Basics DEF Writing
  <2>3. cmds'[1] = cmds[1] /\ cmds' # <<>>
    BY <1>4, <2>2
  <2> QED BY <1>1, <2>1, <2>3 DEF Writing
<1>9. Prompt'
  BY <1>1, <1>6, <1>7, <1>8 DEF Prompt, Quiet, modemVars
<1> QED BY <1>1, <1>9, OrderedStays DEF modemVars

LEMMA PromptFound == ASSUME TypeInv, Prompt, Ordered, Found PROVE Prompt' /\ Ordered'
<1>1. /\ pc = "find" /\ NextLine /\ UNCHANGED <<record, modemVars, cmds>>
      /\ countTimeCommand' = 0
  BY DEF Found
<1>2. PICK k \in Matches : uart' = SubSeq(uart, k + 1, Len(uart))
  BY DEF Found
<1>3. k \in 1..Len(uart) /\ uart[k] = Expected
  BY <1>2, Basics DEF Matches
<1>4. /\ uart' \in Seq(Answers) /\ Len(uart') = Len(uart) - k /\ DOMAIN uart' = 1..Len(uart) - k
      /\ \A j \in 1..Len(uart) - k : uart'[j] = uart[j + k]
  <2>1. uart \in Seq(Answers)
    BY Basics
  <2>2. LET rest == SubSeq(uart, k + 1, Len(uart))
        IN  /\ rest \in Seq(Answers) /\ Len(rest) = Len(uart) - k
            /\ \A j \in 1..Len(uart) - k : rest[j] = uart[j + k]
    BY <1>3, <2>1, Rest
  <2>3. DOMAIN uart' = 1..Len(uart')
    BY <1>2, <2>2
  <2> QED BY <1>2, <2>2, <2>3
<1>5. CASE mode = "data"
  <2>1. Prompted
    BY <1>1, <1>3, <1>5, Basics DEF Prompt, Ready, Writing
  <2>2. k = Len(uart)
    BY <1>3, <2>1, ScriptIs, Basics DEF Prompted, Expected
  <2>3. uart' = <<>>
    BY <1>4, <2>2, Basics
  <2>4. Ready'
    BY <1>1, <2>1, <2>3, NextLineIs DEF Prompted, Ready
  <2>5. DOMAIN uart' = {} /\ DOMAIN cmds' = {} /\ mode' = "data"
    BY <1>1, <1>5, <2>1, <2>3 DEF Prompted, modemVars
  <2>6. Prompt'
    BY <2>4, <2>5 DEF Prompt
  <2> QED BY <1>1, <1>5, <2>6, OrderedStays DEF modemVars
<1>6. CASE mode # "data"
  <2>1. mode = "command" /\ Quiet
    BY <1>6, Basics DEF Prompt, Quiet
  <2>2. step # 3
    BY <1>3, <2>1, ScriptIs, Basics DEF Quiet, Expected
  <2>3. Quiet'
    <3>1. \A j \in 1..Len(uart) - k : j + k \in DOMAIN uart
      BY <1>3, Basics
    <3> QED BY <1>4, <2>1, <3>1 DEF Quiet
  <2>4. Prompt'
    BY <1>1, <2>1, <2>2, <2>3, PromptElsewhere DEF Prompt, modemVars
  <2>5. pc' # "idle" /\ step' <= 4 => step <= 4
    BY <1>1, NextLineIs, Basics
  <2> QED BY <1>1, <1>6, <2>4, <2>5, OrderedStays DEF modemVars
<1> QED BY <1>5, <1>6

\* A timely modem has answered everything when find() times out.
LEMMA PromptTimedOut ==
  ASSUME TypeInv, Prompt, Ordered, timely, TimedOut PROVE Prompt' /\ Ordered'
<1>1. /\ pc = "find" /\ pc' = "loop" /\ Matches = {} /\ cmds = <<>> /\ uart' = <<>>
      /\ UNCHANGED <<step, record, modemVars, cmds>>
  BY DEF TimedOut
<1>2. ~Prompted
  <2> SUFFICES ASSUME Prompted PROVE FALSE
    OBVIOUS
  <2>1. Len(uart) \in DOMAIN uart
    BY Basics DEF Prompted
  <2>2. uart[Len(uart)] = Expected
    BY <2>1, ScriptIs DEF Prompted, Expected
  <2> QED BY <1>1, <2>1, <2>2 DEF Matches
<1>3. mode = "command"
  BY <1>1, <1>2, Basics DEF Prompt, Ready, Writing
<1>4. DOMAIN uart' = {} /\ DOMAIN cmds' = {}
  BY <1>1
<1>5. Prompt'
  BY <1>1, <1>3, <1>4, PromptElsewhere DEF Quiet, modemVars
<1> QED BY <1>1, <1>5, OrderedStays DEF modemVars

LEMMA PromptGiveUp == ASSUME TypeInv, Prompt, Ordered, GiveUp PROVE Prompt' /\ Ordered'
<1>1. /\ pc = "loop" /\ NextLine /\ countTimeCommand >= MaxTime[step]
      /\ UNCHANGED <<record, modemVars, cmds, uart>> /\ step # 4
  BY ScriptIs DEF GiveUp
<1>2. countTimeCommand # 0
  <2>1. MaxTime[step] \in Nat /\ MaxTime[step] > 0
    BY Basics, Limits
  <2> QED BY <1>1, <2>1
<1>3. mode = "command"
  BY <1>1, <1>2, Basics DEF Prompt, Prompted, Ready, Writing
<1>4. Quiet /\ \A k \in DOMAIN cmds : cmds[k][1] # "CIPSEND"
  BY <1>1 DEF Prompt, Prompted, Quiet
<1>5. Prompt'
  BY <1>1, <1>3, <1>4, PromptElsewhere DEF Quiet, modemVars
<1>6. pc' # "idle" /\ step' <= 4 => step <= 4
  BY <1>1, NextLineIs, Basics
<1> QED BY <1>1, <1>3, <1>5, <1>6, OrderedStays DEF modemVars

LEMMA PromptWriteRecord == ASSUME TypeInv, Prompt, Ordered, WriteRecord PROVE Prompt' /\ Ordered'
<1>1. /\ pc = "loop" /\ NextLine /\ cmds' = Append(cmds, Command)
      /\ UNCHANGED <<record, countTimeCommand, modemVars, uart>>
  BY DEF WriteRecord
<1>2. step = 4
  BY Basics, ScriptIs DEF WriteRecord
<1>3. pc' = "loop" /\ step' = 5 /\ countTimeCommand' = 0
  BY <1>1, <1>2, NextLineIs DEF TypeInv, Tried
<1>4. Command = <<"record", record>>
  BY <1>2, ScriptIs DEF Command
<1>5. Quiet /\ \A k \in DOMAIN cmds : cmds[k][1] # "CIPSEND"
  BY <1>1 DEF Prompt, Prompted, Quiet
<1>6. /\ Len(cmds') = Len(cmds) + 1 /\ DOMAIN cmds' = 1..Len(cmds) + 1
      /\ \A k \in 1..Len(cmds) : cmds'[k] = cmds[k]
      /\ cmds'[Len(cmds) + 1] = Command /\ cmds' # <<>>
  <2>1. Command \in Orders
    BY <1>1, CommandTyped DEF TypeInv
  <2> QED BY <1>1, <2>1, Basics, Sent
<1>7. \A k \in DOMAIN cmds' : cmds'[k][1] # "CIPSEND"
  <2>1. \A k \in DOMAIN cmds' : k \in 1..Len(cmds) \/ k = Len(cmds) + 1
    BY <1>6, Basics
  <2> QED BY <1>4, <1>5, <1>6, <2>1, Basics
<1>8. mode = "data" => Writing'
  <2> SUFFICES ASSUME mode = "data" PROVE Writing'
    OBVIOUS
  <2>1. Ready
    BY <1>1, <1>2 DEF Prompt, Prompted, Writing
  <2>2. Len(cmds) = 0 /\ uart' = <<>>
    BY <1>1, <2>1 DEF Ready
  <2>3. cmds'[1] = <<"record", record'>>
    BY <1>1, <1>4, <1>6, <2>2
  <2> QED BY <1>3, <1>6, <2>2, <2>3 DEF Writing
<1>9. Prompt'
  BY <1>1, <1>5, <1>7, <1>8 DEF Prompt, Quiet, modemVars
<1> QED BY <1>1, <1>3, <1>9, OrderedStays DEF modemVars

LEMMA PromptPlain == ASSUME TypeInv, Prompt, Ordered, Plain PROVE Prompt' /\ Ordered'
<1>1. /\ mode = "command" /\ cmds # <<>> /\ cmds' = Tail(cmds)
      /\ UNCHANGED <<sketchVars, delivered>>
  BY DEF Plain, Serve
<1>2. Quiet
  BY <1>1 DEF Prompt, Quiet
<1>3. /\ Head(cmds) = cmds[1] /\ Len(cmds) \in Nat \ {0} /\ Len(cmds') = Len(cmds) - 1
      /\ DOMAIN cmds' = 1..Len(cmds) - 1 /\ 1 \in DOMAIN cmds
      /\ \A k \in 1..Len(cmds) - 1 : cmds'[k] = cmds[k + 1] /\ k + 1 \in DOMAIN cmds
  <2>1. cmds' \in Seq(Orders)
    BY <1>1, Basics, Served
  <2> QED BY <1>1, <2>1, Basics, Served
<1>4. \A k \in DOMAIN cmds' : cmds'[k][1] = "CIPSEND" => pc = "find" /\ step = 3 /\ k = Len(cmds')
  BY <1>3 DEF Prompt
<1>5. CASE Head(cmds)[1] = "CIPSEND" /\ mode' = "data" /\ uart' = uart \o <<"OK", ">">>
  <2>1. pc = "find" /\ step = 3 /\ Len(cmds) = 1
    BY <1>3, <1>5 DEF Prompt
  <2>2. cmds' = <<>>
    BY <1>1, <2>1, Basics
  <2>3. /\ uart' \in Seq(Answers) /\ Len(uart') = Len(uart) + 2 /\ DOMAIN uart' = 1..Len(uart) + 2
        /\ \A k \in 1..Len(uart) : uart'[k] = uart[k]
        /\ uart'[Len(uart) + 1] = "OK" /\ uart'[Len(uart) + 2] = ">" /\ uart' # <<>>
    <3>1. <<"OK", ">">> \in Seq(Answers) /\ Len(<<"OK", ">">>) = 2
      BY DEF Answers
    <3> QED BY <1>5, <3>1, Basics, Answered
  <2>4. \A k \in DOMAIN uart' : k \in 1..Len(uart) \/ k = Len(uart) + 1 \/ k = Len(uart) + 2
    BY <2>3, Basics
  <2>5. \A k \in DOMAIN uart' : uart'[k] = ">" <=> k = Len(uart')
    BY <1>2, <2>3, <2>4, Basics DEF Quiet
  <2>6. Prompted'
    BY <1>1, <2>1, <2>2, <2>3, <2>5 DEF Prompted, sketchVars
  <2>7. DOMAIN cmds' = {}
    BY <2>2
  <2>8. Prompt'
    BY <1>5, <2>6, <2>7 DEF Prompt
  <2> QED BY <1>1, <2>1, <2>8, OrderedStays DEF sketchVars
<1>6. CASE mode' = "command" /\ (uart' = uart \o <<"OK">> \/ uart' = uart \o <<"ERROR">>)
  <2>1. PICK a \in {"OK", "ERROR"} : uart' = uart \o <<a>>
    BY <1>6
  <2>2. /\ DOMAIN uart' = 1..Len(uart) + 1
        /\ \A k \in 1..Len(uart) : uart'[k] = uart[k]
        /\ uart'[Len(uart) + 1] = a
    <3>1. <<a>> \in Seq(Answers) /\ Len(<<a>>) = 1 /\ <<a>>[1] = a
      BY DEF Answers
    <3> QED BY <2>1, <3>1, Basics, Answered
  <2>3. \A k \in DOMAIN uart' : k \in 1..Len(uart) \/ k = Len(uart) + 1
    BY <2>2, Basics
  <2>4. Quiet'
    BY <1>2, <2>2, <2>3, Basics DEF Quiet
  <2>5. Prompt'
    BY <1>1, <1>4, <1>6, <2>4 DEF Prompt, Quiet, sketchVars
  <2> QED BY <1>1, <1>6, <2>5, OrderedStays DEF sketchVars
<1> QED BY <1>5, <1>6 DEF Plain

\* In data mode the next thing read is the record at hand, whole.
LEMMA PromptServeData == ASSUME TypeInv, Prompt, Ordered, ServeData PROVE Prompt' /\ Ordered'
<1>1. mode # "command" /\ cmds # <<>> /\ cmds' = Tail(cmds) /\ UNCHANGED sketchVars
  BY DEF ServeData, Serve
<1>2. mode = "data" /\ Writing
  BY <1>1, Basics DEF Prompt, Prompted, Ready
<1>3. /\ Head(cmds) = cmds[1] /\ Len(cmds) \in Nat \ {0}
      /\ DOMAIN cmds' = 1..Len(cmds) - 1
      /\ \A k \in 1..Len(cmds) - 1 : cmds'[k] = cmds[k + 1] /\ k + 1 \in DOMAIN cmds
  <2>1. cmds' \in Seq(Orders)
    BY <1>1, Basics, Served
  <2> QED BY <1>1, <2>1, Basics, Served
<1>4. Head(cmds)[1] = "record" /\ Head(cmds)[2] = record
  BY <1>2, <1>3 DEF Writing
<1>5. DataComplete(record)
  BY <1>2, <1>4 DEF ServeData
<1>6. \A k \in DOMAIN cmds : cmds[k][1] # "CIPSEND"
  BY <1>2 DEF Prompt, Writing
<1>7. mode' = "command" /\ \E a \in {"OK", "ERROR"} : uart' = <<>> \o <<a>>
  BY <1>2, <1>5 DEF DataComplete, Reply, Writing
<1>8. Quiet'
  BY <1>7 DEF Quiet
<1>9. Prompt'
  BY <1>3, <1>6, <1>7, <1>8, PromptElsewhere
<1>10. Ordered'
  <2>0. UNCHANGED <<pc, step, record>> /\ step = 5 /\ record \in 1..record /\ record \in Nat
    BY <1>1, <1>2, Basics DEF sketchVars, Writing, TypeInv, Tried
  <2>1. CASE delivered' = delivered
    BY <1>7, <2>0, <2>1 DEF Ordered
  <2>2. CASE delivered' = Append(delivered, record)
    <3>1. /\ DOMAIN delivered' = 1..Len(delivered) + 1
          /\ \A k \in 1..Len(delivered) : delivered'[k] = delivered[k]
          /\ delivered'[Len(delivered) + 1] = record
      BY <2>2, Basics, Sent
    <3>2. \A k \in DOMAIN delivered' : k \in 1..Len(delivered) \/ k = Len(delivered) + 1
      BY <3>1, Basics
    <3>3. \A k \in 1..Len(delivered) : delivered[k] \in 1..record /\ delivered[k] < record
      BY <1>2, Basics DEF Ordered
    <3>4. \A k \in DOMAIN delivered' : delivered'[k] \in 1..record
      BY <2>0, <3>1, <3>2, <3>3
    <3>5. \A j, k \in DOMAIN delivered' : j < k => delivered'[j] < delivered'[k]
      <4> SUFFICES ASSUME NEW j \in DOMAIN delivered', NEW k \in DOMAIN delivered', j < k
                   PROVE  delivered'[j] < delivered'[k]
        OBVIOUS
      <4>1. j \in 1..Len(delivered)
        BY <3>1, Basics
      <4>2. CASE k \in 1..Len(delivered)
        BY <3>1, <4>1, <4>2, Basics DEF Ordered
      <4>3. CASE k = Len(delivered) + 1
        BY <3>1, <3>3, <4>1, <4>3
      <4> QED BY <3>2, <4>2, <4>3
    <3> QED BY <1>7, <2>0, <3>4, <3>5 DEF Ordered
  <2> QED BY <1>5, <2>1, <2>2 DEF DataComplete
<1> QED BY <1>9, <1>10

LEMMA PromptInvStep == PromptInv /\ [Next]_vars => PromptInv'
<1> SUFFICES ASSUME PromptInv, [Next]_vars, timely' PROVE Prompt' /\ Ordered'
  BY TypeInvStep DEF PromptInv
<1>0. TypeInv
  BY DEF PromptInv
<1>1. timely
  <2>1. CASE Modem
    BY <1>0, <2>1, ModemIsPlain DEF Plain, ServeData, DataComplete, TypeInv
  <2>2. CASE SendData \/ Sketch
    BY <1>0, <2>2, SketchLines DEF modemVars
  <2> QED BY <2>1, <2>2 DEF Next, LinkDrops, vars, modemVars
<1>2. Prompt /\ Ordered
  BY <1>1 DEF PromptInv
<1>3. CASE SendData \/ Sketch
  BY <1>0, <1>1, <1>2, <1>3, PromptSendData, PromptTransmit, PromptFound, PromptTimedOut,
     PromptGiveUp, PromptWriteRecord DEF Sketch
<1>4. CASE Modem
  BY <1>0, <1>2, <1>4, ModemIsPlain, PromptPlain, PromptServeData DEF TypeInv
<1>5. CASE LinkDrops
  BY <1>2, <1>5 DEF LinkDrops, sketchVars, Prompt, Prompted, Ready, Writing, Ordered
<1>6. CASE UNCHANGED vars
  BY <1>2, <1>6 DEF vars, sketchVars, modemVars, Prompt, Prompted, Ready, Writing, Ordered
<1> QED BY <1>3, <1>4, <1>5, <1>6 DEF Next

\* Whatever connections fail, a server behind a timely modem gets records whole,
\* in the order they were sent, and none twice: no command is ever taken for
\* data, although sendCommand takes any "OK" for its own.
THEOREM AlwaysIntactInOrder == Spec => []IntactInOrder
  BY PromptInvInit, PromptInvStep, OrderedIsIntact, PTL DEF Spec
=============================================================================
