------------------------ MODULE ReturnSequenceProofs ------------------------
(***************************************************************************)
(* Theorems about ReturnSequence, for every table of barcodes, all times    *)
(* of the timer and all interleavings of the interrupt with loop().         *)
(*                                                                         *)
(* The argument: while a session runs, BottleID and BottleIDCpr are both    *)
(* set (Running), so that no scan can start another session under it; hence *)
(* SysCnt goes from case to case only as Action() says, and what a case     *)
(* establishes, a motor switched on or a weight compared, holds in the      *)
(* cases after it.                                                         *)
(***************************************************************************)
EXTENDS ReturnSequence, TLAPS

InSession == SysCnt \in (1..14) \cup {249, 250}

\* What no scan during a session can undo.
Running == InSession => BottleID # 0 /\ BottleIDCpr = 1

\* Every value SysCnt takes; the rest of its type follows from the cases.
Cases == SysCnt \in (0..14) \cup {249, 250, 251}

\* The weight in BottleCpr is one of this session.
WeightKnown == BottleCpr = weighed

LidInv == Cases /\ Running /\ LidSafe /\ WeightKnown /\ WeighedFirst

THEOREM LidInvInit == Init => LidInv
  BY DEF Init, LidInv, Cases, Running, InSession, LidSafe, WeightKnown, WeighedFirst

\* The test that starts a session fails while one runs.
LEMMA NoSecondStart == LidInv /\ InSession => Now = SysCnt
  BY DEF LidInv, Running, Now, Starts

\* A session starts only between sessions, with the motor off.
LEMMA StartsBetween == LidInv /\ Starts => ~InSession /\ pin6 = 0 /\ pin7 = 0
  BY DEF LidInv, Running, Starts, LidSafe, InSession

\* What a step of Action() does to the pair that guards the start of a session.
LEMMA StepRuns ==
  ASSUME NEW case, NEW next, LidInv, Step(case, next),
         case \in (1..14) \cup {249, 250}
  PROVE  BottleID # 0 /\ BottleIDCpr' = 1 /\ SysCnt' = next
         /\ (case # 1 => SysCnt = case) /\ (case = 1 => Starts \/ SysCnt = 1)
  BY NoSecondStart DEF Step, LidInv, Running, InSession, Now, Starts

LEMMA LidInvFrame ==
  ASSUME LidInv, UNCHANGED <<BottleIDCpr, SysCnt, lidVars>>,
         BottleID' = BottleID \/ BottleID' # 0,
         BottleCpr' = weighed', weighed' = weighed \/ weighed' # 0
  PROVE  LidInv'
  BY DEF LidInv, Cases, Running, InSession, LidSafe, WeightKnown, WeighedFirst, lidVars

LEMMA LidInvEnvironment == SequenceAssumption /\ LidInv /\ ISR => LidInv'
<1> SUFFICES ASSUME LidInv, ISR PROVE LidInv'
  OBVIOUS
<1>1. UNCHANGED <<BottleIDCpr, SysCnt, lidVars, BottleID, BottleCpr, weighed>>
  BY DEF ISR, Tick, Press, LongPress, Release, keyFrame, scanVars, lidVars, rdcVars
<1> QED BY <1>1, LidInvFrame DEF LidInv, WeightKnown

\* The steps of loop() around Action().
LEMMA LidInvScan == ASSUME SequenceAssumption, LidInv, NEW b \in Bottles, Scan(b) PROVE LidInv'
<1>1. KindOf[b] # 0
  BY DEF SequenceAssumption, Kinds
<1> QED BY <1>1, LidInvFrame DEF Scan, LidInv, WeightKnown, lidVars, rdcVars

LEMMA LidInvAround == ASSUME LidInv, NoScan \/ Mode \/ Led PROVE LidInv'
<1>1. CASE NoScan
  BY <1>1, LidInvFrame DEF NoScan, LidInv, WeightKnown, scanVars, lidVars, rdcVars
<1>2. CASE Mode
  <2>1. BottleCpr' = weighed' /\ (weighed' = weighed \/ weighed' # 0)
    BY <1>2 DEF Mode, GetRdc, Kinds, LidInv, WeightKnown, rdcVars
  <2> QED BY <1>2, <2>1, LidInvFrame DEF Mode, scanVars
<1>3. CASE Led
  BY <1>3, LidInvFrame DEF Led, LidInv, WeightKnown, scanVars, rdcVars
<1> QED BY <1>1, <1>2, <1>3

LEMMA LidInvSession == ASSUME LidInv, Session PROVE LidInv'
<1>1. BottleID # 0 /\ BottleIDCpr' = 1 /\ SysCnt' = 2 /\ (Starts \/ SysCnt = 1)
  BY StepRuns DEF Session
<1>2. pin6 = 0 /\ pin7 = 0
  BY <1>1, StartsBetween DEF LidInv, LidSafe
<1> QED BY <1>1, <1>2 DEF Session, ForgetWeight, LidInv, Cases, Running, InSession, LidSafe,
        WeightKnown, WeighedFirst, lidVars

\* A case that moves on to another, or stays, and leaves the motor and the
\* weight alone.
LEMMA LidInvMoves ==
  ASSUME LidInv, NEW case \in (2..14) \cup {249, 250}, NEW next, Step(case, next),
         next \in (2..14) \cup {249, 250},
         case \notin {8, 10}, next \notin {8, 10},
         next \in 5..14 => case \in 5..14 \/ BottleCpr # 0,
         UNCHANGED <<BottleID, lidVars, BottleCpr, weighed>>
  PROVE  LidInv'
<1>1. BottleID # 0 /\ BottleIDCpr' = 1 /\ SysCnt' = next /\ SysCnt = case
  BY StepRuns
<1> QED BY <1>1 DEF LidInv, Cases, Running, InSession, LidSafe, WeightKnown, WeighedFirst,
        lidVars

LEMMA LidInvQuietCases ==
  ASSUME LidInv,
         Confirm \/ Settle \/ Compare \/ OpenBin \/ AwaitSwitch \/ CloseBin \/ Announce
         \/ KeepAnnouncing \/ FallSilent \/ Darken
  PROVE  LidInv'
<1>1. CASE Confirm
  BY <1>1, LidInvMoves DEF Confirm, scanVars, rdcVars
<1>2. CASE Settle
  BY <1>2, LidInvMoves DEF Settle, scanVars
<1>3. CASE Compare
  BY <1>3, LidInvMoves DEF Compare, scanVars
<1>4. CASE OpenBin
  BY <1>4, LidInvMoves DEF OpenBin, scanVars, rdcVars
<1>5. CASE AwaitSwitch
  BY <1>5, LidInvMoves DEF AwaitSwitch, scanVars, rdcVars
<1>6. CASE CloseBin
  BY <1>6, LidInvMoves DEF CloseBin, scanVars, rdcVars
<1>7. CASE Announce
  BY <1>7, LidInvMoves DEF Announce, endFrame, scanVars, rdcVars
<1>8. CASE KeepAnnouncing
  BY <1>8, LidInvMoves DEF KeepAnnouncing, endFrame, scanVars, rdcVars
<1>9. CASE FallSilent
  BY <1>9, LidInvMoves DEF FallSilent, endFrame, scanVars, rdcVars
<1>10. CASE Darken
  BY <1>10, LidInvMoves DEF Darken, endFrame, scanVars, rdcVars
<1> QED BY <1>1, <1>2, <1>3, <1>4, <1>5, <1>6, <1>7, <1>8, <1>9, <1>10

\* The cases that switch the motor on and off.
LEMMA LidInvMotor ==
  ASSUME LidInv, OpenLid \/ CloseLid \/ StopLid(8) \/ StopLid(10) PROVE LidInv'
<1> USE DEF LidInv, Cases, Running, InSession, LidSafe, WeightKnown, WeighedFirst,
        lidFrame, scanVars, rdcVars
<1>1. CASE OpenLid
  <2>1. BottleID # 0 /\ BottleIDCpr' = 1 /\ SysCnt' = 8 /\ SysCnt = 7
    BY <1>1, StepRuns DEF OpenLid
  <2> QED BY <1>1, <2>1 DEF OpenLid
<1>2. CASE CloseLid
  <2>1. BottleID # 0 /\ BottleIDCpr' = 1 /\ SysCnt' = 10 /\ SysCnt = 9
    BY <1>2, StepRuns DEF CloseLid
  <2> QED BY <1>2, <2>1 DEF CloseLid
<1>3. ASSUME NEW case \in {8, 10}, StopLid(case) PROVE LidInv'
  <2>1. CASE Step(case, case) /\ UNCHANGED lidVars
    <3>1. BottleID # 0 /\ BottleIDCpr' = 1 /\ SysCnt' = case /\ SysCnt = case
      BY <2>1, StepRuns
    <3> QED BY <1>3, <2>1, <3>1 DEF StopLid, lidVars
  <2>2. CASE Step(case, case + 1) /\ pin6' = 0 /\ pin7' = 0
    <3>1. BottleID # 0 /\ BottleIDCpr' = 1 /\ SysCnt' = case + 1 /\ SysCnt = case
      BY <2>2, StepRuns
    <3> QED BY <1>3, <2>2, <3>1 DEF StopLid
  <2> QED BY <1>3, <2>1, <2>2 DEF StopLid
<1> QED BY <1>1, <1>2, <1>3

LEMMA LidInvEnds == ASSUME LidInv, Forget \/ Rest PROVE LidInv'
<1>1. CASE Forget
  <2>1. SysCnt' = 251 /\ SysCnt = 250
    BY <1>1, StepRuns DEF Forget
  <2> QED BY <1>1, <2>1 DEF Forget, endFrame, lidVars, rdcVars, LidInv, Cases, Running,
          InSession, LidSafe, WeightKnown, WeighedFirst
<1>2. CASE Rest
  <2>1. UNCHANGED <<BottleID, lidVars, BottleCpr, weighed>>
    BY <1>2 DEF Rest, endFrame, scanVars, rdcVars
  <2>2. CASE Now \in {0, 251} /\ Step(Now, Now)
    <3>1. SysCnt' = Now /\ SysCnt = Now
      BY <2>2 DEF Step, Now
    <3> QED BY <2>1, <2>2, <3>1 DEF LidInv, Cases, Running, InSession, LidSafe,
            WeightKnown, WeighedFirst, lidVars
  <2>3. CASE UNCHANGED <<SysCnt, BottleIDCpr, test>>
    BY <2>1, <2>3, LidInvFrame DEF LidInv, WeightKnown
  <2> QED BY <1>2, <2>2, <2>3 DEF Rest
<1> QED BY <1>1, <1>2

LEMMA LidInvRestart == ASSUME Restart PROVE LidInv'
  BY DEF Restart, LidInv, Cases, Running, InSession, LidSafe, WeightKnown, WeighedFirst

LEMMA LidInvStep == SequenceAssumption /\ LidInv /\ [Next]_vars => LidInv'
<1> SUFFICES ASSUME SequenceAssumption, LidInv, [Next]_vars PROVE LidInv'
  OBVIOUS
<1>1. CASE ISR
  BY <1>1, LidInvEnvironment
<1>2. CASE Loop
  BY <1>2, LidInvScan, LidInvAround, LidInvSession, LidInvQuietCases, LidInvMotor, LidInvEnds
  DEF Loop, Action
<1>3. CASE Restart
  BY <1>3, LidInvRestart
<1>4. CASE UNCHANGED vars
  BY <1>4, LidInvFrame DEF vars, scanVars, rdcVars, LidInv, WeightKnown
<1> QED BY <1>1, <1>2, <1>3, <1>4 DEF Next

\* The lid's motor runs in cases 8 and 10 and in no others, whatever is
\* scanned, pressed or interrupted (Action, lines 304-313).
THEOREM LidAlwaysSafe == Spec => []LidSafe
<1>1. SequenceAssumption
  BY SequenceAssumption
<1>2. LidInv => LidSafe
  BY DEF LidInv
<1> QED BY <1>1, <1>2, LidInvInit, LidInvStep, PTL DEF Spec

\* No bin and no lid opens in a session in which nothing was weighed (Action,
\* lines 258 and 268-275).
THEOREM AlwaysWeighedFirst == Spec => []WeighedFirst
<1>1. SequenceAssumption
  BY SequenceAssumption
<1>2. LidInv => WeighedFirst
  BY DEF LidInv
<1> QED BY <1>1, <1>2, LidInvInit, LidInvStep, PTL DEF Spec
-----------------------------------------------------------------------------
(***************************************************************************)
(* Presses: while the session waits for a switch, keyIn claims no press     *)
(* that came before the wait.  Case 1 has cleared switch 4, and case 5 the   *)
(* switches 1 to 3, as a scan may still change which of them is waited for. *)
(***************************************************************************)
Awaited == IF SysCnt = 2 THEN {3} ELSE IF SysCnt = 6 THEN {0, 1, 2} ELSE {}

KeysKnown ==
  /\ BottleID \in 0..3
  /\ keyIn \in [Keys -> {0, 1, 3}]
  /\ \A k \in Awaited : keyIn[k] = 1 => k \in pressed

THEOREM KeysKnownInit == Init => KeysKnown
  BY DEF Init, KeysKnown, Keys, Awaited

\* A step that begins no wait, and presses nothing.
LEMMA KeysKnownFrame ==
  ASSUME KeysKnown, BottleID' = BottleID \/ BottleID' = 0,
         (SysCnt' = SysCnt /\ pressed' = pressed) \/ SysCnt' \notin {2, 6},
         UNCHANGED keyIn \/ \E ks : Clears(ks)
  PROVE  KeysKnown'
<1>1. /\ keyIn' \in [Keys -> {0, 1, 3}]
      /\ \A k \in Keys : keyIn'[k] = 1 => keyIn[k] = 1
  BY DEF KeysKnown, Clears
<1>2. Awaited' \subseteq Awaited /\ Awaited \subseteq Keys
  BY DEF Awaited, Keys
<1>3. Awaited' = {} \/ pressed' = pressed
  BY DEF Awaited
<1> QED BY <1>1, <1>2, <1>3 DEF KeysKnown

LEMMA KeysKnownInterrupt == ASSUME KeysKnown, ISR PROVE KeysKnown'
<1>1. CASE Tick
  BY <1>1, KeysKnownFrame DEF Tick, scanVars, keyVars
<1>2. ASSUME NEW k \in Keys, Press(k) PROVE KeysKnown'
  BY <1>2 DEF Press, KeysKnown, Awaited, Keys, keyFrame, scanVars
<1>3. CASE LongPress
  BY <1>3 DEF LongPress, KeysKnown, Awaited, Keys, keyFrame, scanVars
<1>4. CASE Release
  BY <1>4, KeysKnownFrame DEF Release, keyFrame, scanVars
<1>5. Switches \subseteq Keys
  BY SequenceAssumption DEF SequenceAssumption
<1> QED BY <1>1, <1>2, <1>3, <1>4, <1>5 DEF ISR

LEMMA KeysKnownAround == ASSUME KeysKnown, NoScan \/ Mode \/ Led PROVE KeysKnown'
<1>1. CASE NoScan
  BY <1>1, KeysKnownFrame DEF NoScan, scanVars, keyVars
<1>2. CASE Mode
  BY <1>2, KeysKnownFrame DEF Mode, ToggleTest, scanVars, keyVars
<1>3. CASE Led
  BY <1>3, KeysKnownFrame DEF Led, scanVars, keyVars
<1> QED BY <1>1, <1>2, <1>3

LEMMA KeysKnownScan == ASSUME KeysKnown, NEW b \in Bottles, Scan(b) PROVE KeysKnown'
<1>1. KindOf[b] \in 0..3
  BY SequenceAssumption DEF SequenceAssumption, Kinds
<1> QED BY <1>1 DEF Scan, KeysKnown, Awaited, keyVars

\* Only the start of a session runs a case that SysCnt does not name.
LEMMA StepsOn ==
  ASSUME NEW case, NEW next, Step(case, next), case # 1
  PROVE  /\ SysCnt = case /\ SysCnt' = next
         /\ next = case => pressed' = pressed
  BY DEF Step, Now

LEMMA KeysKnownAction == ASSUME KeysKnown, Action PROVE KeysKnown'
<1>1. CASE Session
  <2>1. Awaited' = {3}
    BY <1>1 DEF Session, Step, Awaited
  <2>2. keyIn' \in [Keys -> {0, 1, 3}] /\ keyIn'[3] = 0
    BY <1>1 DEF Session, Clears, KeysKnown, Keys
  <2> QED BY <1>1, <2>1, <2>2 DEF Session, KeysKnown
<1>2. CASE OpenBin
  <2>1. Awaited' = {0, 1, 2}
    BY <1>2 DEF OpenBin, Step, Awaited
  <2>2. keyIn' \in [Keys -> {0, 1, 3}] /\ \A k \in {0, 1, 2} : keyIn'[k] = 0
    BY <1>2 DEF OpenBin, Clears, KeysKnown, Keys
  <2> QED BY <1>2, <2>1, <2>2 DEF OpenBin, KeysKnown, scanVars
<1>3. CASE Confirm
  BY <1>3, StepsOn, KeysKnownFrame DEF Confirm, scanVars
<1>4. CASE AwaitSwitch
  <2>1. (SysCnt' = SysCnt /\ pressed' = pressed) \/ SysCnt' \notin {2, 6}
    <3>1. CASE Step(6, 249)
      BY <3>1, StepsOn
    <3>2. CASE Step(6, 7)
      BY <3>2, StepsOn
    <3>3. CASE Step(6, 6)
      BY <3>3, StepsOn
    <3> QED BY <1>4, <3>1, <3>2, <3>3 DEF AwaitSwitch
  <2> QED BY <1>4, <2>1, KeysKnownFrame DEF AwaitSwitch, scanVars
<1>5. CASE Settle \/ Compare
  <2>1. SysCnt' \notin {2, 6}
    BY <1>5 DEF Settle, Compare, Step
  <2> QED BY <1>5, <2>1, KeysKnownFrame DEF Settle, Compare, scanVars, keyVars
<1>6. CASE OpenLid \/ CloseLid \/ StopLid(8) \/ StopLid(10)
  <2>1. SysCnt' \notin {2, 6}
    BY <1>6 DEF OpenLid, CloseLid, StopLid, Step
  <2> QED BY <1>6, <2>1, KeysKnownFrame DEF OpenLid, CloseLid, StopLid, lidFrame, scanVars, keyVars
<1>7. CASE CloseBin \/ Announce \/ KeepAnnouncing \/ FallSilent \/ Darken \/ Forget
  <2>1. SysCnt' \notin {2, 6}
    BY <1>7 DEF CloseBin, Announce, KeepAnnouncing, FallSilent, Darken, Forget, Step
  <2> QED BY <1>7, <2>1, KeysKnownFrame DEF CloseBin, Announce, KeepAnnouncing, FallSilent,
          Darken, Forget, endFrame, scanVars, keyVars
<1>8. CASE Rest
  <2>1. SysCnt' = SysCnt /\ pressed' = pressed
    BY <1>8, StepsOn DEF Rest
  <2> QED BY <1>8, <2>1, KeysKnownFrame DEF Rest, endFrame, scanVars, keyVars
<1> QED BY <1>1, <1>2, <1>3, <1>4, <1>5, <1>6, <1>7, <1>8 DEF Action

LEMMA KeysKnownStep == KeysKnown /\ [Next]_vars => KeysKnown'
<1> SUFFICES ASSUME KeysKnown, [Next]_vars PROVE KeysKnown'
  OBVIOUS
<1>1. CASE ISR
  BY <1>1, KeysKnownInterrupt
<1>2. CASE Loop
  BY <1>2, KeysKnownScan, KeysKnownAround, KeysKnownAction DEF Loop
<1>3. CASE Restart
  BY <1>3 DEF Restart, KeysKnown, Awaited, Keys
<1>4. CASE UNCHANGED vars
  BY <1>4, KeysKnownFrame DEF vars, scanVars, keyVars
<1> QED BY <1>1, <1>2, <1>3, <1>4 DEF Next

\* What FreshPress says of one step.
Fresh == /\ SysCnt = 2 /\ SysCnt' = 3 => 3 \in pressed
         /\ SysCnt = 6 /\ SysCnt' = 7 => Switch(BottleID) \in pressed

LEMMA FreshAction == ASSUME LidInv, KeysKnown, Action PROVE Fresh
<1> SUFFICES ASSUME SysCnt \in {2, 6}, SysCnt' = SysCnt + 1
             PROVE  IF SysCnt = 2 THEN 3 \in pressed ELSE Switch(BottleID) \in pressed
  BY DEF Fresh
<1>1. CASE Session
  BY <1>1 DEF Session, Step
<1>2. CASE Confirm
  <2>1. SysCnt = 2 /\ keyIn[3] = 1
    BY <1>2, StepsOn DEF Confirm
  <2> QED BY <2>1 DEF KeysKnown, Awaited
<1>3. CASE AwaitSwitch
  <2>1. SysCnt = 6 /\ keyIn[Switch(BottleID)] = 1
    BY <1>3, StepsOn DEF AwaitSwitch
  <2>2. Switch(BottleID) \in {0, 1, 2}
    BY <2>1 DEF KeysKnown, LidInv, Running, InSession, Switch
  <2> QED BY <2>1, <2>2 DEF KeysKnown, Awaited
<1>4. CASE Settle \/ Compare \/ OpenBin \/ OpenLid \/ CloseLid \/ StopLid(8) \/ StopLid(10)
  BY <1>4, StepsOn DEF Settle, Compare, OpenBin, OpenLid, CloseLid, StopLid
<1>5. CASE CloseBin \/ Announce \/ KeepAnnouncing \/ FallSilent \/ Darken \/ Forget
  BY <1>5, StepsOn DEF CloseBin, Announce, KeepAnnouncing, FallSilent, Darken, Forget
<1>6. CASE Rest
  BY <1>6, StepsOn DEF Rest
<1> QED BY <1>1, <1>2, <1>3, <1>4, <1>5, <1>6 DEF Action

LEMMA FreshStep == LidInv /\ KeysKnown /\ [Next]_vars => [Fresh]_vars
<1> SUFFICES ASSUME LidInv, KeysKnown, Next PROVE Fresh
  OBVIOUS
<1>1. CASE ISR
  <2>1. UNCHANGED SysCnt
    BY <1>1 DEF ISR, Tick, Press, LongPress, Release, keyFrame
  <2> QED BY <2>1 DEF Fresh
<1>2. CASE Loop
  BY <1>2, FreshAction DEF Loop, Scan, NoScan, Mode, Led, Fresh
<1>3. CASE Restart
  BY <1>3 DEF Restart, Fresh
<1> QED BY <1>1, <1>2, <1>3 DEF Next

\* A session goes on at a switch only after a press that came since it began
\* to wait for one (Action, lines 258, 264 and 290-300): what keyIn kept of an
\* earlier session, or of the time before the bin opened, is gone by then,
\* however long customers wait and whatever the test mode and scans do.
THEOREM PressesAlwaysFresh == Spec => FreshPress
<1>1. SequenceAssumption
  BY SequenceAssumption
<1>2. LidInv /\ KeysKnown /\ [Next]_vars => [Fresh]_vars
  BY FreshStep
<1> QED BY <1>1, <1>2, LidInvInit, LidInvStep, KeysKnownInit, KeysKnownStep, PTL
        DEF Spec, FreshPress, Fresh
-----------------------------------------------------------------------------
(***************************************************************************)
(* Times: while the motor runs, what SysTimerCnt still holds and what has   *)
(* elapsed make up the lid's whole time.  The lid's times fit in one byte,  *)
(* and a timer that holds less than Byte is stored whole and never seems    *)
(* zero before it is, wherever the interrupt falls.                         *)
(***************************************************************************)
Counting ==
  /\ SysTimerCnt \in Nat /\ elapsed \in Nat
  /\ SysCnt = 8  => SysTimerCnt + elapsed = TOpen
  /\ SysCnt = 10 => SysTimerCnt + elapsed = TClose

TimeInv == LidInv /\ Counting

THEOREM TimeInvInit == Init => TimeInv
  BY LidInvInit DEF Init, TimeInv, Counting

LEMMA OneByte ==
  ASSUME NEW t \in Nat, t < Byte PROVE High(t) = 0 /\ Low(t) = t
  BY SequenceAssumption DEF SequenceAssumption, Positive, High, Low

LEMMA TwoBytes ==
  ASSUME NEW t \in Nat PROVE High(t) \in Nat /\ Low(t) \in 0..Byte - 1
  BY SequenceAssumption DEF SequenceAssumption, Positive, High, Low

\* A torn store leaves some number, and one of a single byte the right one.
LEMMA StoreIsWhole ==
  ASSUME NEW old \in Nat, NEW t \in Nat, SetsFrom(old, t)
  PROVE  SysTimerCnt' \in Nat /\ elapsed' = 0 /\ (t < Byte => SysTimerCnt' = t)
<1> DEFINE mixed == High(t) * Byte + Low(old)
<1>1. CASE SysTimerCnt' = t
  BY <1>1 DEF SetsFrom
<1>2. CASE mixed # 0 /\ SysTimerCnt' = High(mixed - 1) * Byte + Low(t)
  <2>1. High(t) \in Nat /\ Low(t) \in 0..Byte - 1 /\ Low(old) \in 0..Byte - 1 /\ Byte \in Nat
    BY TwoBytes, SequenceAssumption DEF SequenceAssumption, Positive
  <2>2. mixed \in Nat
    BY <2>1
  <2>3. mixed - 1 \in Nat
    BY <1>2, <2>2
  <2>4. High(mixed - 1) \in Nat
    BY <2>3, TwoBytes
  <2>5. SysTimerCnt' \in Nat
    BY <1>2, <2>1, <2>4
  <2>6. ASSUME t < Byte PROVE SysTimerCnt' = t
    <3>1. High(t) = 0 /\ Low(t) = t
      BY <2>6, OneByte
    <3>2. mixed - 1 < Byte
      BY <2>1, <3>1
    <3>3. High(mixed - 1) = 0
      BY <2>3, <3>2, OneByte
    <3> QED BY <1>2, <2>1, <3>1, <3>3
  <2> QED BY <2>5, <2>6 DEF SetsFrom
<1> QED BY <1>1, <1>2 DEF SetsFrom

\* The timer is left alone, found to be zero, or seems so: the sum stays.
LEMMA SumStays ==
  ASSUME Counting, UNCHANGED timerVars \/ Elapses \/ Runs
  PROVE  SysTimerCnt' \in Nat /\ elapsed' \in Nat
         /\ SysTimerCnt' + elapsed' = SysTimerCnt + elapsed
  BY SequenceAssumption
  DEF SequenceAssumption, Positive, Counting, Elapses, SeemsZero, Runs, timerVars

LEMMA CountingStays ==
  ASSUME Counting, UNCHANGED timerVars \/ Elapses \/ Runs,
         SysCnt' = SysCnt \/ SysCnt' \notin {8, 10}
  PROVE  Counting'
  BY SumStays DEF Counting

\* A store for a case other than the lid's.
LEMMA CountingSet ==
  ASSUME Counting, NEW old \in Nat, NEW t \in Nat, SetsFrom(old, t), SysCnt' \notin {8, 10}
  PROVE  Counting'
  BY StoreIsWhole DEF Counting

LEMMA CountingInterrupt == ASSUME Counting, ISR PROVE Counting'
<1>1. CASE Tick
  BY <1>1 DEF Tick, Counting
<1>2. CASE (\E k \in Switches : Press(k)) \/ LongPress \/ Release
  <2>1. UNCHANGED timerVars /\ SysCnt' = SysCnt
    BY <1>2 DEF Press, LongPress, Release, keyFrame, timerVars
  <2> QED BY <2>1, CountingStays
<1> QED BY <1>1, <1>2 DEF ISR

LEMMA CountingSession == ASSUME TimeInv, Session \/ Confirm \/ Settle \/ Compare PROVE Counting'
<1> USE DEF TimeInv
<1>1. {T60s, TSettle} \subseteq Nat /\ SysTimerCnt \in Nat
  BY SequenceAssumption DEF SequenceAssumption, Positive, Counting
<1>2. CASE Session
  BY <1>1, <1>2, CountingSet DEF Session, Step, Sets
<1>3. CASE Confirm
  <2>1. SysCnt' \in {2, 3, 249}
    BY <1>3 DEF Confirm, Step
  <2> QED BY <1>1, <1>3, <2>1, CountingSet, CountingStays DEF Confirm, Sets
<1>4. CASE Settle
  <2>1. SysCnt' \in {3, 4}
    BY <1>4 DEF Settle, Step
  <2>2. SeemsZero => SysTimerCnt - 1 \in Nat
    BY SequenceAssumption DEF SequenceAssumption, Positive, SeemsZero
  <2> QED BY <1>1, <1>4, <2>1, <2>2, CountingSet, CountingStays DEF Settle, Sets
<1>5. CASE Compare
  <2>1. SysCnt' \in {4, 5, 249}
    BY <1>5 DEF Compare, Step
  <2> QED BY <1>5, <2>1, CountingStays DEF Compare
<1> QED BY <1>2, <1>3, <1>4, <1>5

LEMMA CountingLid ==
  ASSUME TimeInv, OpenBin \/ AwaitSwitch \/ OpenLid \/ CloseLid \/ StopLid(8) \/ StopLid(10)
  PROVE  Counting'
<1> USE DEF TimeInv
<1>1. {T3min, TOpen, TClose} \subseteq Nat /\ TOpen < Byte /\ TClose < Byte /\ SysTimerCnt \in Nat
  BY SequenceAssumption DEF SequenceAssumption, Positive, Counting
<1>2. CASE OpenBin
  BY <1>1, <1>2, CountingSet DEF OpenBin, Step, Sets
<1>3. CASE AwaitSwitch
  <2>1. SysCnt' \in {6, 7, 249}
    BY <1>3 DEF AwaitSwitch, Step
  <2> QED BY <1>3, <2>1, CountingStays DEF AwaitSwitch
<1>4. CASE OpenLid
  <2>1. SysTimerCnt' = TOpen /\ elapsed' = 0
    BY <1>1, <1>4, StoreIsWhole DEF OpenLid, Sets
  <2> QED BY <1>1, <1>4, <2>1 DEF OpenLid, Step, Counting
<1>5. CASE CloseLid
  <2>1. SysTimerCnt' = TClose /\ elapsed' = 0
    BY <1>1, <1>5, StoreIsWhole DEF CloseLid, Sets
  <2> QED BY <1>1, <1>5, <2>1 DEF CloseLid, Step, Counting
<1>6. ASSUME NEW case \in {8, 10}, StopLid(case) PROVE Counting'
  <2>1. SysCnt = case /\ SysCnt' \in {case, case + 1}
    BY <1>6, StepRuns DEF StopLid
  <2> QED BY <1>6, <2>1, CountingStays DEF StopLid
<1> QED BY <1>2, <1>3, <1>4, <1>5, <1>6

LEMMA CountingEnd ==
  ASSUME TimeInv,
         CloseBin \/ Announce \/ KeepAnnouncing \/ FallSilent \/ Darken \/ Forget \/ Rest
  PROVE  Counting'
<1> USE DEF TimeInv
<1>1. TBeacon \in Nat /\ SysTimerCnt \in Nat
  BY SequenceAssumption DEF SequenceAssumption, Positive, Counting
<1>2. CASE CloseBin \/ FallSilent \/ Darken \/ Forget
  BY <1>2, CountingStays DEF CloseBin, FallSilent, Darken, Forget, Step
<1>3. CASE Announce
  BY <1>1, <1>3, CountingSet DEF Announce, Step, Sets
<1>4. CASE KeepAnnouncing
  <2>1. SysCnt' \in {13, 14}
    BY <1>4 DEF KeepAnnouncing, Step
  <2> QED BY <1>4, <2>1, CountingStays DEF KeepAnnouncing
<1>5. CASE Rest
  BY <1>5, CountingStays DEF Rest, Step, Now
<1> QED BY <1>2, <1>3, <1>4, <1>5

LEMMA TimeInvStep == TimeInv /\ [Next]_vars => TimeInv'
<1> SUFFICES ASSUME TimeInv, [Next]_vars PROVE Counting'
  BY LidInvStep, SequenceAssumption DEF TimeInv
<1>1. CASE ISR
  BY <1>1, CountingInterrupt DEF TimeInv
<1>2. CASE Action
  BY <1>2, CountingSession, CountingLid, CountingEnd DEF Action
<1>3. CASE (\E b \in Bottles : Scan(b)) \/ NoScan \/ Mode \/ Led
  BY <1>3, CountingStays DEF Scan, NoScan, Mode, Led, TimeInv
<1>4. CASE Restart
  BY <1>4 DEF Restart, Counting
<1>5. CASE UNCHANGED vars
  BY <1>5, CountingStays DEF vars, TimeInv
<1> QED BY <1>1, <1>2, <1>3, <1>4, <1>5 DEF Next, Loop

\* What LidRunsItsTime says of one step.
WholeTime ==
  /\ pin6 = 1 /\ pin6' = 0 /\ SysCnt' # 0 => elapsed >= TOpen
  /\ pin7 = 1 /\ pin7' = 0 /\ SysCnt' # 0 => elapsed >= TClose

\* Only the lid's own cases switch the motor off, when the timer is zero.
LEMMA StopsWhole == ASSUME TimeInv, NEW case \in {8, 10}, StopLid(case) PROVE WholeTime
<1>1. SysCnt = case /\ Counting /\ LidSafe
  BY StepRuns DEF StopLid, TimeInv, LidInv
<1>2. CASE UNCHANGED lidVars
  BY <1>2, <1>1 DEF WholeTime, LidSafe, lidVars
<1>3. CASE Elapses
  <2>1. SysTimerCnt = 0
    BY <1>1, <1>3, SequenceAssumption
    DEF SequenceAssumption, Positive, Elapses, SeemsZero, Counting
  <2> QED BY <1>1, <2>1, SequenceAssumption
      DEF SequenceAssumption, Positive, WholeTime, LidSafe, Counting
<1> QED BY <1>2, <1>3 DEF StopLid

LEMMA OthersWhole ==
  ASSUME TimeInv, UNCHANGED lidVars \/ OpenLid \/ CloseLid \/ Restart PROVE WholeTime
<1>1. CASE UNCHANGED lidVars
  BY <1>1 DEF WholeTime, lidVars
<1>2. CASE OpenLid \/ CloseLid
  <2>1. SysCnt \in {7, 9} /\ LidSafe
    BY <1>2, StepRuns DEF OpenLid, CloseLid, TimeInv, LidInv
  <2> QED BY <2>1 DEF WholeTime, LidSafe
<1>3. CASE Restart
  BY <1>3 DEF Restart, WholeTime
<1> QED BY <1>1, <1>2, <1>3

LEMMA WholeTimeStep == TimeInv /\ [Next]_vars => [WholeTime]_vars
<1> SUFFICES ASSUME TimeInv, Next PROVE WholeTime
  OBVIOUS
<1>1. CASE ISR
  BY <1>1, OthersWhole DEF ISR, Tick, Press, LongPress, Release, keyFrame
<1>2. CASE (\E b \in Bottles : Scan(b)) \/ NoScan \/ Mode \/ Led
  BY <1>2, OthersWhole DEF Scan, NoScan, Mode, Led
<1>3. CASE Session \/ Confirm \/ Settle \/ Compare \/ OpenBin \/ AwaitSwitch
  BY <1>3, OthersWhole DEF Session, Confirm, Settle, Compare, OpenBin, AwaitSwitch
<1>4. CASE StopLid(8) \/ StopLid(10)
  BY <1>4, StopsWhole
<1>5. CASE CloseBin \/ Announce \/ KeepAnnouncing \/ FallSilent \/ Darken \/ Forget \/ Rest
  BY <1>5, OthersWhole DEF CloseBin, Announce, KeepAnnouncing, FallSilent, Darken, Forget, Rest,
     endFrame
<1> QED BY <1>1, <1>2, <1>3, <1>4, <1>5, OthersWhole DEF Next, Loop, Action

\* The lid's motor runs its whole time before it is stopped or reversed,
\* wherever the interrupt falls between the bytes of SysTimerCnt (Action,
\* lines 304-313), a power failure aside.
THEOREM LidAlwaysRunsItsTime == Spec => LidRunsItsTime
<1>1. TimeInv /\ [Next]_vars => [WholeTime]_vars
  BY WholeTimeStep
<1> QED BY <1>1, TimeInvInit, TimeInvStep, PTL DEF Spec, LidRunsItsTime, WholeTime
-----------------------------------------------------------------------------
(***************************************************************************)
(* The beacon: what each stretch of a session adds to what is known, as     *)
(* long as no other barcode comes between.                                  *)
(***************************************************************************)
Named     == BottleID # 0 => BottleID = KindOf[BottleIdBu]
Asking    == GetRdcCpr # 0 => SysCnt = 4
Confirmed == ~rescanned /\ SysCnt \in 5..14 => weighed = BottleID
Placed    == ~rescanned /\ SysCnt \in 6..14 => bin = BinOf(BottleID, BottlePositionBu)
Announced ==
  beacon # Quiet => /\ SysCnt \in {13, 14}
                    /\ ~rescanned => beacon = [bin |-> bin, bottle |-> BottleIdBu]

BeaconParts == Named /\ Asking /\ Confirmed /\ Placed /\ Announced
BeaconInv   == LidInv /\ BeaconParts

THEOREM BeaconInvInit == Init => BeaconInv
  BY LidInvInit DEF Init, BeaconInv, BeaconParts, Named, Asking, Confirmed, Placed, Announced

LEMMA BeaconIsTruthful == BeaconInv => BeaconTruthful
  BY DEF BeaconInv, BeaconParts, Named, Confirmed, Announced, BeaconTruthful, LidInv, Running,
     InSession

\* What the beacon depends on is left alone.
LEMMA PartsFrame ==
  ASSUME BeaconParts,
         UNCHANGED <<SysCnt, beacon, scanVars, BottlePositionBu, bin, GetRdcCpr, weighed>>
  PROVE  BeaconParts'
  BY DEF BeaconParts, Named, Asking, Confirmed, Placed, Announced, scanVars, BinOf, Quiet

LEMMA PartsInterrupt == ASSUME BeaconParts, ISR \/ NoScan \/ Led PROVE BeaconParts'
<1>1. UNCHANGED <<SysCnt, beacon, scanVars, posVars, rdcVars>>
  BY DEF ISR, Tick, Press, LongPress, Release, keyFrame, NoScan, Led
<1> QED BY <1>1, PartsFrame DEF posVars, rdcVars

\* A scan during a session is known as one.
LEMMA PartsScan == ASSUME BeaconInv, NEW b \in Bottles, Scan(b) PROVE BeaconParts'
<1>1. BottleID' = KindOf[b] /\ BottleIdBu' = b /\ (BottleID # 0 => rescanned')
  BY DEF Scan
<1>2. UNCHANGED <<SysCnt, beacon, BottlePositionBu, bin, GetRdcCpr, weighed>>
  BY DEF Scan, posVars, rdcVars
<1>3. SysCnt \in 1..14 => rescanned'
  BY <1>1 DEF BeaconInv, LidInv, Running, InSession
<1> QED BY <1>1, <1>2, <1>3
    DEF BeaconInv, BeaconParts, Named, Asking, Confirmed, Placed, Announced, Quiet

\* A weight is taken in case 4 only.
LEMMA PartsMode == ASSUME BeaconParts, Mode PROVE BeaconParts'
<1>1. UNCHANGED <<SysCnt, beacon, scanVars, BottlePositionBu, bin, GetRdcCpr>>
  BY DEF Mode, posVars, GetRdc, rdcVars
<1>2. CASE UNCHANGED rdcVars
  BY <1>1, <1>2, PartsFrame DEF rdcVars
<1>3. CASE GetRdcCpr = 1
  BY <1>1, <1>3
  DEF BeaconParts, Named, Asking, Confirmed, Placed, Announced, scanVars, Quiet
<1> QED BY <1>2, <1>3 DEF Mode, GetRdc

\* A case before the bin opens, and the case that opens it.
LEMMA PartsBefore ==
  ASSUME BeaconInv, Session \/ Confirm \/ Settle \/ Compare PROVE BeaconParts'
<1> USE DEF BeaconInv, BeaconParts, Named, Asking, Confirmed, Placed, Announced, scanVars
<1>1. CASE Session
  <2>1. SysCnt' = 2 /\ (Starts \/ SysCnt = 1)
    BY <1>1, StepRuns DEF Session
  <2>2. SysCnt \notin {13, 14}
    BY <2>1, StartsBetween DEF InSession
  <2> QED BY <1>1, <2>1, <2>2 DEF Session, ForgetWeight, Quiet
<1>2. CASE Confirm
  <2>1. SysCnt = 2 /\ SysCnt' \in {2, 3, 249}
    BY <1>2, StepRuns DEF Confirm
  <2> QED BY <1>2, <2>1 DEF Confirm, rdcVars, Quiet
<1>3. CASE Settle
  <2>1. SysCnt = 3 /\ (SysCnt' = 4 \/ (SysCnt' = 3 /\ UNCHANGED GetRdcCpr))
    BY <1>3, StepRuns DEF Settle
  <2> QED BY <1>3, <2>1 DEF Settle, Quiet
<1>4. CASE Compare
  <2>1. SysCnt = 4 /\ \/ SysCnt' = 4
                      \/ SysCnt' = 249 /\ GetRdcCpr' = 0
                      \/ SysCnt' = 5 /\ GetRdcCpr' = 0 /\ BottleCpr = BottleID
    BY <1>4, StepRuns DEF Compare
  <2> QED BY <1>4, <2>1 DEF Compare, Quiet, LidInv, WeightKnown
<1> QED BY <1>1, <1>2, <1>3, <1>4

LEMMA PartsOpenBin == ASSUME BeaconInv, OpenBin PROVE BeaconParts'
<1>1. SysCnt = 5 /\ SysCnt' = 6
  BY StepRuns DEF OpenBin, BeaconInv
<1>2. bin' = BinOf(BottleID, BottlePositionBu')
  BY DEF OpenBin, BinOf
<1> QED BY <1>1, <1>2
    DEF OpenBin, BeaconInv, BeaconParts, Named, Asking, Confirmed, Placed, Announced, scanVars,
        rdcVars, Quiet

\* A case after that, which moves on by one, or stays, or ends the session.
LEMMA PartsMoves ==
  ASSUME BeaconInv, NEW case \in (6..14) \cup {249}, NEW next \in (6..14) \cup {249, 250},
         Step(case, next), next \in 6..14 => next \in {case, case + 1},
         UNCHANGED <<beacon, scanVars, BottlePositionBu, bin, GetRdcCpr, weighed>>,
         case \in {13, 14} => next \in {13, 14}
  PROVE  BeaconParts'
<1>1. SysCnt = case /\ SysCnt' = next
  BY StepRuns DEF BeaconInv
<1> QED BY <1>1
    DEF BeaconInv, BeaconParts, Named, Asking, Confirmed, Placed, Announced, scanVars, Quiet

LEMMA PartsLid ==
  ASSUME BeaconInv,
         AwaitSwitch \/ OpenLid \/ CloseLid \/ StopLid(8) \/ StopLid(10) \/ CloseBin
         \/ KeepAnnouncing \/ Darken
  PROVE  BeaconParts'
<1> USE DEF posVars, rdcVars
<1>1. CASE AwaitSwitch
  BY <1>1, PartsMoves DEF AwaitSwitch
<1>2. CASE OpenLid \/ CloseLid
  BY <1>2, PartsMoves DEF OpenLid, CloseLid, lidFrame
<1>3. CASE StopLid(8) \/ StopLid(10)
  BY <1>3, PartsMoves DEF StopLid, lidFrame
<1>4. CASE CloseBin
  BY <1>4, PartsMoves DEF CloseBin
<1>5. CASE KeepAnnouncing
  BY <1>5, PartsMoves DEF KeepAnnouncing, endFrame
<1>6. CASE Darken
  BY <1>6, PartsMoves DEF Darken, endFrame
<1> QED BY <1>1, <1>2, <1>3, <1>4, <1>5, <1>6

LEMMA PartsEnd ==
  ASSUME BeaconInv, Announce \/ FallSilent \/ Forget \/ Rest PROVE BeaconParts'
<1> USE DEF BeaconInv, BeaconParts, Named, Asking, Confirmed, Placed, Announced, scanVars,
        endFrame, posVars, rdcVars
<1>1. CASE Announce
  <2>1. SysCnt = 12 /\ SysCnt' = 13
    BY <1>1, StepRuns DEF Announce
  <2> QED BY <1>1, <2>1 DEF Announce
<1>2. CASE FallSilent
  <2>1. SysCnt = 14 /\ SysCnt' = 249
    BY <1>2, StepRuns DEF FallSilent
  <2> QED BY <1>2, <2>1 DEF FallSilent, Quiet
<1>3. CASE Forget
  <2>1. SysCnt = 250 /\ SysCnt' = 251
    BY <1>3, StepRuns DEF Forget
  <2> QED BY <1>3, <2>1 DEF Forget, Quiet
<1>4. CASE Rest
  <2>1. SysCnt' = SysCnt
    BY <1>4 DEF Rest, Step, Now
  <2> QED BY <1>4, <2>1, PartsFrame DEF Rest
<1> QED BY <1>1, <1>2, <1>3, <1>4

LEMMA BeaconInvStep == BeaconInv /\ [Next]_vars => BeaconInv'
<1> SUFFICES ASSUME BeaconInv, [Next]_vars PROVE BeaconParts'
  BY LidInvStep, SequenceAssumption DEF BeaconInv
<1>1. CASE ISR
  BY <1>1, PartsInterrupt DEF BeaconInv
<1>2. CASE Loop
  BY <1>2, PartsInterrupt, PartsScan, PartsMode, PartsBefore, PartsOpenBin, PartsLid, PartsEnd
  DEF Loop, Action, BeaconInv
<1>3. CASE Restart
  BY <1>3 DEF Restart, BeaconParts, Named, Asking, Confirmed, Placed, Announced, Quiet
<1>4. CASE UNCHANGED vars
  BY <1>4, PartsFrame DEF vars, posVars, rdcVars, BeaconInv
<1> QED BY <1>1, <1>2, <1>3, <1>4 DEF Next

\* Unless another barcode is scanned in mid-session, the beacon announces what
\* was taken: a barcode of the kind weighed, in the bin that was open (case 12
\* against cases 4, 5 and 11), whatever happened before, power failures included.
THEOREM BeaconAlwaysTruthful == Spec => []BeaconTruthful
  BY BeaconInvInit, BeaconInvStep, BeaconIsTruthful, PTL DEF Spec
-----------------------------------------------------------------------------
(***************************************************************************)
(* Types: TimeInv and KeysKnown type the counters, BottleID and keyIn; of   *)
(* the rest, only the lamp and the bin of a session need to know that       *)
(* BottleID is set while one runs.                                         *)
(***************************************************************************)
SessionTypes ==
  /\ pc \in {"usb", "mode", "act", "led"}
  /\ rescanned \in BOOLEAN /\ BottleIDCpr \in {0, 1} /\ BottleIdBu \in Bottles
  /\ BottleCpr \in 0..3 /\ GetRdcCpr \in {0, 1} /\ weighed \in 0..3
  /\ held \in BOOLEAN /\ pressed \subseteq Keys
  /\ test \in {0, 1} /\ pin6 \in {0, 1} /\ pin7 \in {0, 1}
  /\ beacon \in [bin : Bins \cup {NoBin}, bottle : Bottles]

LampTypes == ledonoffCpr \in {0, 1} /\ lit \subseteq Lamps

BinTypes ==
  /\ BottlePosition \in 0..2 /\ BottlePositionBu \in 0..2
  /\ cell10 \in 0..255 /\ servo \in [Servos -> {"down", "up"}]
  /\ bin \in Bins \cup {NoBin}

TypeInv == TimeInv /\ KeysKnown /\ SessionTypes /\ LampTypes /\ BinTypes

LEMMA TypeInvIsTypeOK == TypeInv => TypeOK
  BY DEF TypeInv, TimeInv, LidInv, Cases, Counting, KeysKnown, SessionTypes, LampTypes,
         BinTypes, TypeOK

LEMMA QuietTyped == FirstBottle \in Bottles /\ Quiet \in [bin : Bins \cup {NoBin}, bottle : Bottles]
<1>1. FirstBottle \in Bottles
  BY SequenceAssumption DEF SequenceAssumption
<1> QED BY <1>1 DEF Quiet

THEOREM TypeInvInit == Init => TypeInv
<1> SUFFICES ASSUME Init PROVE TypeInv
  OBVIOUS
<1>0. 0 \in 0..3 /\ 0 \in {0, 1} /\ {} \subseteq Keys
  OBVIOUS
<1>1. SessionTypes
  BY <1>0, QuietTyped DEF Init, SessionTypes
<1>2. LampTypes /\ BinTypes
  BY DEF Init, LampTypes, BinTypes, NoBin, Servos
<1> QED BY <1>1, <1>2, TimeInvInit, KeysKnownInit DEF TypeInv

LEMMA BinTyped ==
  ASSUME NEW kind \in 0..3, NEW p \in 0..2 PROVE BinOf(kind, p) \in Bins \cup {NoBin}
  BY DEF BinOf, Bins, NoBin

LEMMA NextBinTyped == ASSUME NEW p \in 0..2 PROVE NextBin(p) \in 0..2
  BY DEF NextBin

LEMMA SessionTypesAround ==
  ASSUME TypeInv, ISR \/ NoScan \/ Mode \/ Led \/ (\E b \in Bottles : Scan(b))
  PROVE  SessionTypes'
<1> USE DEF TypeInv, SessionTypes, lidVars, rdcVars, scanVars
<1>1. CASE Tick
  BY <1>1 DEF Tick, keyVars
<1>2. CASE (\E k \in Switches : Press(k)) \/ LongPress \/ Release
  <2>1. Switches \subseteq Keys
    BY SequenceAssumption DEF SequenceAssumption
  <2>2. pressed' \subseteq Keys /\ held' \in BOOLEAN /\ keyFrame
    BY <1>2, <2>1 DEF Press, LongPress, Release
  <2> QED BY <2>2 DEF keyFrame
<1>3. CASE NoScan
  BY <1>3 DEF NoScan, keyVars
<1>4. CASE Mode
  <2>1. pressed' \subseteq Keys /\ held' = held /\ test' \in {0, 1}
    BY <1>4 DEF Mode, ToggleTest, Clears, keyVars
  <2>2. BottleCpr' \in 0..3 /\ weighed' \in 0..3 /\ GetRdcCpr' = GetRdcCpr
    BY <1>4 DEF Mode, GetRdc, Kinds
  <2> QED BY <1>4, <2>1, <2>2 DEF Mode
<1>5. CASE Led
  BY <1>5 DEF Led, keyVars
<1>6. ASSUME NEW b \in Bottles, Scan(b) PROVE SessionTypes'
  BY <1>6 DEF Scan, keyVars
<1> QED BY <1>1, <1>2, <1>3, <1>4, <1>5, <1>6 DEF ISR

\* Every case of Action() but 1, 12 and the four that watch the scale leaves
\* what it knows of the bottle, and what it announces, alone.
LEMMA SessionTypesStep ==
  ASSUME TypeInv, NEW case, NEW next, Step(case, next),
         rescanned' \in BOOLEAN, BottleIdBu' \in Bottles,
         BottleCpr' \in 0..3, GetRdcCpr' \in {0, 1}, weighed' \in 0..3,
         UNCHANGED held, pin6' \in {0, 1}, pin7' \in {0, 1},
         beacon' \in [bin : Bins \cup {NoBin}, bottle : Bottles]
  PROVE  SessionTypes'
<1>1. pressed' \subseteq Keys
  BY DEF TypeInv, SessionTypes, Step
<1> QED BY <1>1 DEF TypeInv, SessionTypes, Step

LEMMA SessionTypesKept ==
  ASSUME TypeInv, NEW case, NEW next, Step(case, next),
         UNCHANGED <<scanVars, rdcVars, held, beacon>>,
         pin6' \in {0, 1}, pin7' \in {0, 1}
  PROVE  SessionTypes'
  BY SessionTypesStep DEF TypeInv, SessionTypes, scanVars, rdcVars

LEMMA SessionTypesAction == ASSUME TypeInv, Action PROVE SessionTypes'
<1>0. /\ rescanned \in BOOLEAN /\ BottleIdBu \in Bottles /\ pressed \subseteq Keys
      /\ BottleCpr \in 0..3 /\ GetRdcCpr \in {0, 1} /\ weighed \in 0..3
      /\ pin6 \in {0, 1} /\ pin7 \in {0, 1} /\ BottleID \in 0..3
      /\ beacon \in [bin : Bins \cup {NoBin}, bottle : Bottles]
  BY DEF TypeInv, SessionTypes, KeysKnown
<1> USE <1>0
<1>1. CASE Session
  <2>1. 0 \in 0..3
    OBVIOUS
  <2> QED BY <1>1, <2>1, SessionTypesStep DEF Session, ForgetWeight, Clears, lidVars
<1>2. CASE Confirm
  BY <1>2, SessionTypesKept DEF Confirm, Clears, lidVars
<1>3. CASE Settle
  BY <1>3, SessionTypesStep DEF Settle, scanVars, keyVars, lidVars
<1>4. CASE Compare
  BY <1>4, SessionTypesStep DEF Compare, scanVars, keyVars, lidVars
<1>5. CASE OpenBin
  BY <1>5, SessionTypesKept DEF OpenBin, Clears, lidVars
<1>6. CASE AwaitSwitch
  BY <1>6, SessionTypesKept DEF AwaitSwitch, Clears, lidVars
<1>7. CASE OpenLid \/ CloseLid \/ StopLid(8) \/ StopLid(10)
  BY <1>7, SessionTypesKept DEF OpenLid, CloseLid, StopLid, lidFrame, keyVars, lidVars
<1>8. CASE CloseBin
  BY <1>8, SessionTypesKept DEF CloseBin, keyVars, lidVars
<1>9. CASE Announce
  <2>1. BinOf(BottleID, BottlePositionBu) \in Bins \cup {NoBin}
    BY BinTyped DEF TypeInv, BinTypes
  <2>2. beacon' \in [bin : Bins \cup {NoBin}, bottle : Bottles]
    BY <1>9, <2>1 DEF Announce
  <2> QED BY <1>9, <2>2, SessionTypesStep
          DEF Announce, endFrame, scanVars, rdcVars, keyVars, lidVars
<1>10. CASE KeepAnnouncing \/ Darken
  BY <1>10, SessionTypesKept DEF KeepAnnouncing, Darken, endFrame, keyVars, lidVars
<1>11. CASE FallSilent
  BY <1>11, QuietTyped, SessionTypesStep
  DEF FallSilent, endFrame, scanVars, rdcVars, keyVars, lidVars
<1>12. CASE Forget
  BY <1>12, QuietTyped, SessionTypesStep DEF Forget, endFrame, rdcVars, keyVars, lidVars
<1>13. CASE Rest
  <2>1. UNCHANGED <<beacon, scanVars, lidVars, keyVars, rdcVars>>
    BY <1>13 DEF Rest, endFrame
  <2>2. CASE Step(Now, Now)
    BY <2>1, <2>2, SessionTypesKept DEF keyVars, lidVars
  <2>3. CASE pc' = "led" /\ UNCHANGED <<SysCnt, BottleIDCpr, test, pressed>>
    BY <2>1, <2>3 DEF TypeInv, SessionTypes, scanVars, lidVars, keyVars, rdcVars
  <2> QED BY <1>13, <2>2, <2>3 DEF Rest
<1> QED BY <1>1, <1>2, <1>3, <1>4, <1>5, <1>6, <1>7, <1>8, <1>9, <1>10, <1>11, <1>12, <1>13
        DEF Action

LEMMA SessionTypesNext == ASSUME TypeInv, [Next]_vars PROVE SessionTypes'
<1>1. CASE Restart
  <2>1. 0 \in 0..3 /\ 0 \in {0, 1} /\ {} \subseteq Keys
    OBVIOUS
  <2> QED BY <1>1, <2>1, QuietTyped DEF Restart, SessionTypes
<1>2. CASE UNCHANGED vars
  BY <1>2 DEF vars, TypeInv, SessionTypes, scanVars, rdcVars, lidVars, keyVars
<1> QED BY <1>1, <1>2, SessionTypesAround, SessionTypesAction DEF Next, Loop

LEMMA LampTypesNext == ASSUME TypeInv, [Next]_vars PROVE LampTypes'
<1> USE DEF TypeInv, LampTypes, lampVars
<1>1. CASE ISR
  BY <1>1 DEF ISR, Tick, Press, LongPress, Release, keyFrame
<1>2. CASE NoScan \/ Mode \/ Led \/ (\E b \in Bottles : Scan(b))
  <2>1. ASSUME Mode PROVE LampTypes'
    <3>1. 1 \in Lamps /\ 2 \in Lamps
      BY DEF Lamps
    <3> QED BY <2>1, <3>1 DEF Mode, ToggleTest
  <2>2. ASSUME Led PROVE LampTypes'
    BY <2>2 DEF Led, Lamps
  <2> QED BY <1>2, <2>1, <2>2 DEF NoScan, Scan
<1>3. CASE Session \/ Confirm \/ Settle \/ Compare
  BY <1>3 DEF Session, Confirm, Settle, Compare
<1>4. CASE OpenBin
  <2>1. BottleID \in 1..3
    BY <1>4, StepRuns DEF OpenBin, TimeInv, KeysKnown
  <2> QED BY <1>4, <2>1 DEF OpenBin, Lamp, Lamps
<1>5. CASE AwaitSwitch \/ OpenLid \/ CloseLid \/ StopLid(8) \/ StopLid(10) \/ CloseBin
  BY <1>5 DEF AwaitSwitch, OpenLid, CloseLid, StopLid, CloseBin, lidFrame
<1>6. CASE Announce \/ KeepAnnouncing \/ FallSilent \/ Darken \/ Forget \/ Rest
  BY <1>6 DEF Announce, KeepAnnouncing, FallSilent, Darken, Forget, Rest
<1>7. CASE Restart
  BY <1>7 DEF Restart
<1>8. CASE UNCHANGED vars
  BY <1>8 DEF vars
<1> QED BY <1>1, <1>2, <1>3, <1>4, <1>5, <1>6, <1>7, <1>8 DEF Next, Loop, Action

LEMMA BinTypesNext == ASSUME TypeInv, [Next]_vars PROVE BinTypes'
<1> USE DEF TypeInv, BinTypes, posVars
<1>1. CASE ISR
  BY <1>1 DEF ISR, Tick, Press, LongPress, Release, keyFrame
<1>2. CASE NoScan \/ Mode \/ Led \/ (\E b \in Bottles : Scan(b))
  BY <1>2 DEF NoScan, Mode, Led, Scan
<1>3. CASE Session
  BY <1>3 DEF Session
<1>4. CASE Confirm \/ Settle \/ Compare \/ AwaitSwitch
  BY <1>4 DEF Confirm, Settle, Compare, AwaitSwitch
<1>5. CASE OpenBin
  <2>1. BinOf(BottleID, BottlePosition) \in Bins \cup {NoBin}
        /\ NextBin(BottlePosition) \in 0..2
    BY BinTyped, NextBinTyped DEF KeysKnown
  <2>2. bin' \in Bins \cup {NoBin} /\ servo' \in [Servos -> {"down", "up"}]
    BY <1>5, <2>1 DEF OpenBin
  <2>3. BottlePosition' \in 0..2 /\ BottlePositionBu' \in 0..2 /\ cell10' \in 0..255
    BY <1>5, <2>1 DEF OpenBin
  <2> QED BY <2>2, <2>3
<1>6. CASE OpenLid \/ CloseLid \/ StopLid(8) \/ StopLid(10)
  BY <1>6 DEF OpenLid, CloseLid, StopLid, lidFrame
<1>7. CASE CloseBin
  <2>1. servo' \in [Servos -> {"down", "up"}]
    BY <1>7 DEF CloseBin
  <2> QED BY <1>7, <2>1 DEF CloseBin
<1>8. CASE Announce \/ KeepAnnouncing \/ FallSilent \/ Darken \/ Forget \/ Rest
  BY <1>8 DEF Announce, KeepAnnouncing, FallSilent, Darken, Forget, Rest, endFrame
<1>9. CASE Restart
  BY <1>9 DEF Restart, NoBin, Servos
<1>10. CASE UNCHANGED vars
  BY <1>10 DEF vars
<1> QED BY <1>1, <1>2, <1>3, <1>4, <1>5, <1>6, <1>7, <1>8, <1>9, <1>10 DEF Next, Loop, Action

LEMMA TypeInvStep == TypeInv /\ [Next]_vars => TypeInv'
  BY SessionTypesNext, LampTypesNext, BinTypesNext, TimeInvStep, KeysKnownStep DEF TypeInv

\* Every variable keeps the type its declaration gives it: the next soju bin is
\* one of three, whatever cell 10 holds, and the beacon names a bin and a
\* barcode of the table.
THEOREM AlwaysTyped == Spec => []TypeOK
  BY TypeInvInit, TypeInvStep, TypeInvIsTypeOK, PTL DEF Spec
=============================================================================
