--------------------------- MODULE ReturnSequence ---------------------------
(***************************************************************************)
(* The return box, src/MEGA0809.ino: a barcode names the kind of bottle     *)
(* (1 large beer, 2 small beer, 3 soju), the scale confirms it, a servo      *)
(* opens the way, the customer presses the kind's switch, a motor opens and *)
(* closes the lid, and a beacon announces the bottle.                       *)
(*                                                                         *)
(* loop() is pc: usb (Usb.Task, where a scan completes), mode (GetRdc and   *)
(* the test-mode toggle), act (the start of a session and one case of       *)
(* Action()), led (blinking).  timerISR interrupts between any two of them: *)
(* it sets keyIn and counts SysTimerCnt down.                               *)
(*                                                                         *)
(* SysTimerCnt has two bytes on an eight-bit processor, and loop() accesses *)
(* it without disabling interrupts: a write stores the high byte first, a   *)
(* comparison with zero loads the low byte first, and the interrupt may     *)
(* fall between the two.  Byte is 256.                                      *)
(***************************************************************************)
EXTENDS Naturals

CONSTANTS Bottles,      \* the table of barcodes
          KindOf,       \* the kind of each entry: its place in the table
          FirstBottle,  \* the entry with index 0
          Byte,         \* 256: what one byte of SysTimerCnt counts
          T60s, TSettle, T3min, TOpen, TClose, TBeacon,
                        \* 600, 50, 1800, 18, 16, 50 counts of 100 ms
          Switches,     \* the switches customers press, of Keys
          LongPresses,  \* switch 3 may be held for two seconds
          Torn,         \* interrupts fall between the bytes of SysTimerCnt
          Restarts      \* the power may fail

Kinds  == 1..3
Keys   == 0..3
Lamps  == 1..3
Servos == 0..3          \* three bins for soju, one for small beer
Bins   == 0..4          \* and one for large beer, which needs no servo
NoBin  == 5
Quiet  == [bin |-> NoBin, bottle |-> FirstBottle]

\* The switch that opens the lid for a kind, its lamp, and the bin that a
\* bottle of it goes to when the next soju bin is p.
Switch(kind)  == 3 - kind
Lamp(kind)    == 4 - kind
BinOf(kind, p) == IF kind = 3 THEN p ELSE 5 - kind

Positive == Nat \ {0}

ASSUME SequenceAssumption ==
  /\ KindOf \in [Bottles -> Kinds] /\ FirstBottle \in Bottles
  /\ Byte \in Positive
  /\ T60s \in Positive /\ TSettle \in Positive /\ T3min \in Positive
  /\ TOpen \in Positive /\ TClose \in Positive /\ TBeacon \in Positive
  /\ TOpen < Byte /\ TClose < Byte
  /\ Switches \subseteq Keys
  /\ LongPresses \in BOOLEAN /\ Torn \in BOOLEAN
  /\ Restarts \in BOOLEAN

VARIABLES pc, SysCnt, SysTimerCnt, BottleID, BottleIDCpr, BottleIdBu,
          BottleCpr, GetRdcCpr, keyIn, test,
          BottlePosition, BottlePositionBu,
          cell10,       \* the EEPROM cell setup() reads, 255 when erased
          pin6, pin7,   \* the lid's motor: opening, closing
          servo,        \* what each servo was last told: "down" or "up"
          lit,          \* the lamps that are on
          ledonoffCpr,  \* all lamps blink
          beacon,       \* the bin and barcode announced, or Quiet
          held,         \* switch 3 has been down since its press was seen
          weighed,      \* ghost: the kind weighed in this session, 0 if none
          rescanned,    \* ghost: a barcode was scanned during this session
          bin,          \* ghost: the bin opened in this session, or NoBin
          pressed,      \* ghost: the switches pressed since case 2 or 6, which
                        \* wait for one, was entered
          elapsed       \* ghost: counts since SysTimerCnt was set

scanVars  == <<BottleID, BottleIdBu, rescanned>>
lidVars   == <<pin6, pin7>>
lampVars  == <<lit, ledonoffCpr>>
posVars   == <<BottlePosition, BottlePositionBu, cell10, servo, bin>>
timerVars == <<SysTimerCnt, elapsed>>
keyVars   == <<keyIn, held>>
rdcVars   == <<BottleCpr, GetRdcCpr, weighed>>
vars == <<pc, SysCnt, BottleIDCpr, test, beacon, pressed, scanVars, lidVars, lampVars,
          posVars, timerVars, keyVars, rdcVars>>

Init ==
  /\ pc = "usb" /\ SysCnt = 0 /\ SysTimerCnt = 0 /\ elapsed = 0
  /\ BottleID = 0 /\ BottleIDCpr = 0 /\ BottleIdBu = FirstBottle /\ rescanned = FALSE
  /\ BottleCpr = 0 /\ GetRdcCpr = 0 /\ weighed = 0
  /\ keyIn = [k \in Keys |-> 0] /\ held = FALSE /\ pressed = {} /\ test = 0
  /\ BottlePosition = 0 /\ BottlePositionBu = 0 /\ cell10 = 255
  /\ pin6 = 0 /\ pin7 = 0 /\ servo = [s \in Servos |-> "down"] /\ bin = NoBin
  /\ lit = {} /\ ledonoffCpr = 0 /\ beacon = Quiet
-----------------------------------------------------------------------------
(***************************************************************************)
(* Interrupts and customers                                                *)
(***************************************************************************)
\* A hundred milliseconds: every tenth interrupt counts down.
Tick ==
  /\ SysTimerCnt > 0
  /\ SysTimerCnt' = SysTimerCnt - 1 /\ elapsed' = elapsed + 1
  /\ UNCHANGED <<pc, SysCnt, BottleIDCpr, test, beacon, pressed, scanVars, lidVars,
                 lampVars, posVars, keyVars, rdcVars>>

keyFrame == UNCHANGED <<pc, SysCnt, BottleIDCpr, test, beacon, scanVars, lidVars,
                        lampVars, posVars, timerVars, rdcVars>>

\* A switch is down for the fifth scan in a row.
Press(k) ==
  /\ k = 2 => ~held
  /\ keyIn' = [keyIn EXCEPT ![k] = 1]
  /\ pressed' = IF SysCnt \in {2, 6} THEN pressed \cup {k} ELSE pressed
  /\ held' = IF k = 2 /\ LongPresses THEN TRUE ELSE held
  /\ keyFrame

\* Switch 3 is still down at the two-hundredth scan.
LongPress == held /\ keyIn' = [keyIn EXCEPT ![2] = 3] /\ held' = FALSE
             /\ UNCHANGED pressed /\ keyFrame

Release == held /\ held' = FALSE /\ UNCHANGED <<keyIn, pressed>> /\ keyFrame

ISR == Tick \/ (\E k \in Switches : Press(k)) \/ LongPress \/ Release
-----------------------------------------------------------------------------
(***************************************************************************)
(* loop(): Usb.Task, GetRdc and the test mode                              *)
(***************************************************************************)
\* Mutant: every scan starts a session.
ScanRestarts(b) ==
  /\ pc = "usb" /\ pc' = "mode"
  /\ BottleID' = KindOf[b] /\ BottleIdBu' = b /\ BottleIDCpr' = 0
  /\ rescanned' = (rescanned \/ BottleID # 0)
  /\ UNCHANGED <<SysCnt, test, beacon, pressed, lidVars, lampVars, posVars,
                 timerVars, keyVars, rdcVars>>

\* OnKeyPressed(Enter): a line that matches the table sets the bottle.
Scan(b) ==
  /\ pc = "usb" /\ pc' = "mode"
  /\ BottleID' = KindOf[b] /\ BottleIdBu' = b
  /\ rescanned' = (rescanned \/ BottleID # 0)
  /\ UNCHANGED <<SysCnt, BottleIDCpr, test, beacon, pressed, lidVars, lampVars, posVars,
                 timerVars, keyVars, rdcVars>>

NoScan ==
  /\ pc = "usb" /\ pc' = "mode"
  /\ UNCHANGED <<SysCnt, BottleIDCpr, test, beacon, pressed, scanVars, lidVars, lampVars,
                 posVars, timerVars, keyVars, rdcVars>>

\* GetRdc: the weight on the scale, when it is asked for, may be a kind's.
GetRdc ==
  \/ GetRdcCpr = 1 /\ \E kind \in Kinds :
        BottleCpr' = kind /\ weighed' = kind /\ UNCHANGED GetRdcCpr
  \/ UNCHANGED rdcVars

\* Mutant: switch 1 is forgotten.
ClearsMost(ks) == keyIn' = [k \in Keys |-> IF k \in ks \ {0} THEN 0 ELSE keyIn[k]]

\* keyIn[k]=0 for some switches.
Clears(ks) == keyIn' = [k \in Keys |-> IF k \in ks THEN 0 ELSE keyIn[k]]

\* A long press of switch 3 toggles the test mode, which suspends Action().
ToggleTest ==
  IF keyIn[2] = 3
  THEN /\ Clears({2})
       /\ test' = 1 - test /\ ledonoffCpr' = 0
       /\ lit' = IF test = 0 THEN lit \cup {1, 2} ELSE lit \ {1, 2}
       /\ UNCHANGED held
  ELSE UNCHANGED <<keyVars, test, lampVars>>

Mode ==
  /\ pc = "mode" /\ pc' = "act"
  /\ GetRdc /\ ToggleTest
  /\ UNCHANGED <<SysCnt, BottleIDCpr, beacon, pressed, scanVars, lidVars, posVars, timerVars>>
-----------------------------------------------------------------------------
(***************************************************************************)
(* Action(): one case of its switch                                        *)
(***************************************************************************)
\* A session starts when BottleID appears; Now is the case that runs.
Starts == BottleID # 0 /\ BottleIDCpr = 0
Now == IF Starts THEN 1 ELSE SysCnt

\* One case; with the next one the session waits anew.
Step(case, next) ==
  /\ pc = "act" /\ pc' = "led" /\ test = 0
  /\ Now = case /\ SysCnt' = next
  /\ pressed' = IF SysCnt' = SysCnt THEN pressed ELSE {}
  /\ BottleIDCpr' = IF BottleID # 0 THEN 1 ELSE 0
  /\ UNCHANGED test

High(t) == t \div Byte
Low(t)  == t % Byte

\* SysTimerCnt = t, where it holds old: the interrupt may fall between the two
\* bytes, when the high one is new and the low one is not.
SetsFrom(old, t) ==
  LET mixed == High(t) * Byte + Low(old) IN
  /\ elapsed' = 0
  /\ \/ SysTimerCnt' = t
     \/ Torn /\ mixed # 0 /\ SysTimerCnt' = High(mixed - 1) * Byte + Low(t)
Sets(t) == SetsFrom(SysTimerCnt, t)

\* Mutant: one count too early.
ElapsesEarly == SysTimerCnt <= 1 /\ UNCHANGED timerVars

\* SysTimerCnt==0, which the interrupt makes seem so when it borrows from the
\* high byte after a low byte of 0 was loaded.
SeemsZero == Torn /\ SysTimerCnt = Byte
Elapses ==
  \/ SysTimerCnt = 0 /\ UNCHANGED timerVars
  \/ SeemsZero /\ SysTimerCnt' = SysTimerCnt - 1 /\ elapsed' = elapsed + 1
Runs == SysTimerCnt # 0 /\ UNCHANGED timerVars

\* Mutant: the last weight stays.
KeepWeight   == GetRdcCpr' = 0 /\ weighed' = 0 /\ UNCHANGED BottleCpr
ForgetWeight == GetRdcCpr' = 0 /\ weighed' = 0 /\ BottleCpr' = 0

\* Case 1: a minute to press switch 4.
Session ==
  /\ Step(1, 2) /\ Sets(T60s)
  /\ ledonoffCpr' = 1 /\ UNCHANGED lit
  /\ ForgetWeight /\ bin' = NoBin
  /\ Clears({3}) /\ rescanned' = FALSE
  /\ UNCHANGED <<beacon, BottleID, BottleIdBu, lidVars, BottlePosition, BottlePositionBu, cell10, servo, held>>

Confirm ==
  /\ \/ Elapses /\ Step(2, 249) /\ UNCHANGED keyIn
     \/ Runs /\ keyIn[3] # 1 /\ Step(2, 2) /\ UNCHANGED keyIn
     \/ /\ SysTimerCnt # 0 /\ keyIn[3] = 1 /\ Step(2, 3) /\ Sets(TSettle)
        /\ Clears({3})
  /\ UNCHANGED <<beacon, scanVars, lidVars, lampVars, posVars, held, rdcVars>>

Settle ==
  /\ \/ Runs /\ Step(3, 3) /\ UNCHANGED GetRdcCpr
     \/ /\ Step(3, 4) /\ GetRdcCpr' = 1
        /\ \/ SysTimerCnt = 0 /\ Sets(T60s)
           \/ SeemsZero /\ SetsFrom(SysTimerCnt - 1, T60s)
  /\ UNCHANGED <<beacon, scanVars, lidVars, lampVars, posVars, keyVars, BottleCpr, weighed>>

Compare ==
  /\ \/ /\ Runs /\ BottleCpr = 0 /\ Step(4, 4) /\ UNCHANGED <<GetRdcCpr, lampVars>>
     \/ /\ Runs /\ BottleCpr # 0 /\ GetRdcCpr' = 0
        /\ IF BottleCpr = BottleID
           THEN Step(4, 5) /\ lit' = {} /\ ledonoffCpr' = 0
           ELSE Step(4, 249) /\ UNCHANGED lampVars
     \/ /\ Elapses /\ Step(4, 249) /\ GetRdcCpr' = 0
        /\ IF BottleCpr # 0 /\ BottleCpr = BottleID
           THEN lit' = {} /\ ledonoffCpr' = 0
           ELSE UNCHANGED lampVars
  /\ UNCHANGED <<beacon, scanVars, lidVars, posVars, keyVars, BottleCpr, weighed>>

\* Mutant: a fourth bin.
NextOfFour(p) == (p + 1) % 4
NextBin(p)    == (p + 1) % 3

\* The bin opens; the next soju bin's number is the ADDRESS of the cell that
\* gets a 10.
OpenBin ==
  /\ Step(5, 6) /\ Sets(T3min)
  /\ ledonoffCpr' = 0 /\ lit' = lit \cup {Lamp(BottleID)}
  /\ bin' = BinOf(BottleID, BottlePosition)
  /\ servo' = IF bin' \in Servos THEN [servo EXCEPT ![bin'] = "up"] ELSE servo
  /\ IF BottleID = 3
     THEN /\ BottlePositionBu' = BottlePosition
          /\ BottlePosition' = NextBin(BottlePosition)
          /\ cell10' = IF BottlePosition' = 10 THEN 10 ELSE cell10
     ELSE UNCHANGED <<BottlePosition, BottlePositionBu, cell10>>
  /\ Clears({0, 1, 2})
  /\ UNCHANGED <<beacon, scanVars, lidVars, rdcVars, held>>

\* Mutant: no time limit.
AwaitForEver ==
  /\ keyIn[Switch(BottleID)] = 1 /\ Clears({Switch(BottleID)})
  /\ Step(6, 7)
  /\ UNCHANGED <<beacon, scanVars, lidVars, lampVars, posVars, held, rdcVars, timerVars>>

\* A press is taken even in the turn that times out.
AwaitSwitch ==
  LET asked == keyIn[Switch(BottleID)] = 1 IN
  /\ IF asked THEN Clears({Switch(BottleID)}) ELSE UNCHANGED keyIn
  /\ \/ Elapses /\ Step(6, 249)
     \/ Runs /\ Step(6, IF asked THEN 7 ELSE 6)
  /\ UNCHANGED <<beacon, scanVars, lidVars, lampVars, posVars, held, rdcVars>>

lidFrame == UNCHANGED <<beacon, scanVars, lampVars, posVars, keyVars, rdcVars>>

OpenLid  == Step(7, 8) /\ pin7' = 0 /\ pin6' = 1 /\ Sets(TOpen) /\ lidFrame
CloseLid == Step(9, 10) /\ pin7' = 1 /\ pin6' = 0 /\ Sets(TClose) /\ lidFrame

\* Mutant: the pins are not reset.
StopNothing(case) ==
  /\ (Runs /\ Step(case, case)) \/ (Elapses /\ Step(case, case + 1))
  /\ UNCHANGED lidVars /\ lidFrame

\* Cases 8 and 10: both pins low when the time is over.
StopLid(case) ==
  /\ \/ Runs /\ Step(case, case) /\ UNCHANGED lidVars
     \/ Elapses /\ Step(case, case + 1) /\ pin6' = 0 /\ pin7' = 0
  /\ lidFrame

CloseBin ==
  /\ Step(11, 12)
  /\ servo' = IF BottleID = 1 THEN servo
              ELSE [servo EXCEPT ![BinOf(BottleID, BottlePositionBu)] = "down"]
  /\ UNCHANGED <<beacon, scanVars, lidVars, lampVars, timerVars, keyVars, rdcVars,
                 BottlePosition, BottlePositionBu, cell10, bin>>

endFrame == UNCHANGED <<lidVars, posVars, keyVars, rdcVars>>

\* Mutant: the bin is the next one.
AnnounceNext ==
  /\ Step(12, 13) /\ Sets(TBeacon)
  /\ beacon' = [bin |-> BinOf(BottleID, BottlePosition), bottle |-> BottleIdBu]
  /\ UNCHANGED <<scanVars, lampVars>> /\ endFrame

\* Case 12.
Announce ==
  /\ Step(12, 13) /\ Sets(TBeacon)
  /\ beacon' = [bin |-> BinOf(BottleID, BottlePositionBu), bottle |-> BottleIdBu]
  /\ UNCHANGED <<scanVars, lampVars>> /\ endFrame

KeepAnnouncing ==
  /\ (Runs /\ Step(13, 13)) \/ (Elapses /\ Step(13, 14))
  /\ UNCHANGED <<beacon, scanVars, lampVars>> /\ endFrame

FallSilent ==
  /\ Step(14, 249) /\ beacon' = Quiet
  /\ UNCHANGED <<scanVars, lampVars, timerVars>> /\ endFrame

Darken ==
  /\ Step(249, 250) /\ ledonoffCpr' = 0 /\ lit' = {}
  /\ UNCHANGED <<beacon, scanVars, timerVars>> /\ endFrame

Forget ==
  /\ Step(250, 251) /\ BottleID' = 0 /\ BottleIdBu' = FirstBottle
  /\ UNCHANGED <<rescanned, beacon, lampVars, timerVars>> /\ endFrame

\* The default case, which no session is in; and a turn in the test mode.
Rest ==
  /\ \/ Now \in {0, 251} /\ Step(Now, Now)
     \/ /\ pc = "act" /\ pc' = "led" /\ test = 1
        /\ UNCHANGED <<SysCnt, BottleIDCpr, test, pressed>>
  /\ UNCHANGED <<beacon, scanVars, lampVars, timerVars>> /\ endFrame

Action == Session \/ Confirm \/ Settle \/ Compare \/ OpenBin \/ AwaitSwitch
          \/ OpenLid \/ CloseLid \/ StopLid(8) \/ StopLid(10) \/ CloseBin
          \/ Announce \/ KeepAnnouncing \/ FallSilent \/ Darken \/ Forget \/ Rest
-----------------------------------------------------------------------------
\* Fifty interrupts apart, the blinking lamps change.
Led ==
  /\ pc = "led" /\ pc' = "usb"
  /\ \/ ledonoffCpr = 1 /\ lit' \in {{}, Lamps}
     \/ UNCHANGED lit
  /\ UNCHANGED <<SysCnt, BottleIDCpr, test, beacon, pressed, scanVars, lidVars, ledonoffCpr,
                 posVars, timerVars, keyVars, rdcVars>>

Loop == (\E b \in Bottles : Scan(b)) \/ NoScan \/ Mode \/ Action \/ Led

\* The power fails and setup() runs: memory is new, the servos are told to go
\* down, the pins are low, and the next soju bin comes from cell 10.
Restart ==
  /\ Restarts
  /\ BottlePosition' = IF cell10 > 2 THEN 0 ELSE cell10
  /\ pc' = "usb" /\ SysCnt' = 0 /\ SysTimerCnt' = 0 /\ elapsed' = 0
  /\ BottleID' = 0 /\ BottleIDCpr' = 0 /\ BottleIdBu' = FirstBottle /\ rescanned' = FALSE
  /\ BottleCpr' = 0 /\ GetRdcCpr' = 0 /\ weighed' = 0 /\ bin' = NoBin
  /\ keyIn' = [k \in Keys |-> 0] /\ held' = FALSE /\ pressed' = {} /\ test' = 0
  /\ BottlePositionBu' = 0 /\ pin6' = 0 /\ pin7' = 0
  /\ servo' = [s \in Servos |-> "down"]
  /\ lit' = {} /\ ledonoffCpr' = 0 /\ beacon' = Quiet
  /\ UNCHANGED cell10

Next == ISR \/ Loop \/ Restart

\* loop() is called again and again, and the timer interrupts it for ever.
Spec == Init /\ [][Next]_vars /\ WF_vars(Loop) /\ WF_vars(Tick)
-----------------------------------------------------------------------------
(***************************************************************************)
(* What the box promises                                                   *)
(***************************************************************************)
\* Every variable holds what its declaration and the assignments allow, and
\* the next soju bin is always one of the three.
TypeOK ==
  /\ pc \in {"usb", "mode", "act", "led"}
  /\ SysCnt \in (0..14) \cup {249, 250, 251}
  /\ SysTimerCnt \in Nat /\ elapsed \in Nat
  /\ rescanned \in BOOLEAN /\ BottleID \in 0..3 /\ BottleIDCpr \in {0, 1} /\ BottleIdBu \in Bottles
  /\ BottleCpr \in 0..3 /\ GetRdcCpr \in {0, 1} /\ weighed \in 0..3
  /\ keyIn \in [Keys -> {0, 1, 3}] /\ held \in BOOLEAN /\ pressed \subseteq Keys
  /\ test \in {0, 1} /\ ledonoffCpr \in {0, 1} /\ lit \subseteq Lamps
  /\ BottlePosition \in 0..2 /\ BottlePositionBu \in 0..2
  /\ cell10 \in 0..255 /\ servo \in [Servos -> {"down", "up"}]
  /\ pin6 \in {0, 1} /\ pin7 \in {0, 1} /\ bin \in Bins \cup {NoBin}
  /\ beacon \in [bin : Bins \cup {NoBin}, bottle : Bottles]

\* The motor opens exactly in case 8 and closes exactly in case 10: no scan,
\* session start, test mode or torn timer leaves it running in another case or
\* drives it both ways (Action, lines 304-313, against lines 410-415).
LidSafe == pin6 = (IF SysCnt = 8 THEN 1 ELSE 0) /\ pin7 = (IF SysCnt = 10 THEN 1 ELSE 0)

\* From the moment a bin opens to the end of the session some bottle has been
\* weighed in THIS session: a weight of an earlier one never opens anything.
WeighedFirst == SysCnt \in 5..14 => weighed # 0

\* A session moves on at a switch only when it was pressed in this session and
\* since it began to wait for it (cases 1 and 5): the press of an earlier
\* customer, or one made before the bin opened, which keyIn keeps until a case
\* clears it, opens no lid.
FreshPress == [][ /\ SysCnt = 2 /\ SysCnt' = 3 => 3 \in pressed
                  /\ SysCnt = 6 /\ SysCnt' = 7 => Switch(BottleID) \in pressed ]_vars

\* The lid's motor is never stopped, or reversed, before its whole time has
\* run, even when the interrupt tears the timer; a power failure aside.
LidRunsItsTime == [][ /\ pin6 = 1 /\ pin6' = 0 /\ SysCnt' # 0 => elapsed >= TOpen
                      /\ pin7 = 1 /\ pin7' = 0 /\ SysCnt' # 0 => elapsed >= TClose ]_vars

\* A session that has started comes to an end: every wait has a timer.
SessionEnds == SysCnt \in (1..14) \cup {249, 250} ~> SysCnt \in {0, 251}

\* The lid's motor, once on, is switched off.
LidStops == (pin6 = 1 \/ pin7 = 1) ~> (pin6 = 0 /\ pin7 = 0)

\* Unless another barcode was scanned in the middle of the session, what the
\* beacon announces is what was taken: a barcode of the kind that the
\* scale confirmed, in the bin that was open (case 12 against cases 4, 5, 11).
BeaconTruthful ==
  beacon # Quiet /\ ~rescanned => /\ beacon.bin = bin
                                  /\ KindOf[beacon.bottle] = weighed

-----------------------------------------------------------------------------
(***************************************************************************)
(* What the comments of the sketch say and the code does not do            *)
(***************************************************************************)
\* Line 256: a barcode that is recognised makes all the lamps blink.
ScanStartsSession == (SysCnt = 251 /\ BottleID # 0) ~> SysCnt = 2
=============================================================================
