-------------------------- MODULE ReturnInputsProofs --------------------------
(***************************************************************************)
(* Theorems about the two inputs of a session.                             *)
(*                                                                         *)
(* KeyScan implements SwitchEvents, whatever the four limits are, as long   *)
(* as they are in order and the byte can hold one more than the cap.        *)
(*                                                                         *)
(* HidScanner takes every line as it was typed, for all codes, tables and   *)
(* buffers.  The argument: unless the cable came off, the parser remembers  *)
(* exactly the keys the scanner holds down (Followed), so of two keys down  *)
(* only the one just pressed is new, and it is stored once.                 *)
(***************************************************************************)
EXTENDS ReturnInputs, TLAPS

-----------------------------------------------------------------------------
(***************************************************************************)
(* The switches.                                                           *)
(***************************************************************************)
LEMMA KeyTypeStep == KeyTypeOK /\ [KeyNext]_keyVars => KeyTypeOK'
<1> SUFFICES ASSUME KeyTypeOK, [KeyNext]_keyVars PROVE KeyTypeOK'
  OBVIOUS
<1> USE KeyAssumption DEF KeyTypeOK
<1>1. CASE Contact
  BY <1>1 DEF Contact
<1>2. CASE ScanSwitch
  <2>1. Count \in 0..Cap
    BY DEF Count
  <2>2. keyCnt' \in 0..Cap /\ UNCHANGED <<third, closed>>
    BY <1>2, <2>1 DEF ScanSwitch
  <2>3. keyIn' \in {0, 1, 3}
    BY <1>2 DEF ScanSwitch
  <2> QED
    BY <2>2, <2>3
<1>3. CASE Take
  BY <1>3 DEF Take
<1>4. CASE UNCHANGED keyVars
  BY <1>4 DEF keyVars
<1> QED
  BY <1>1, <1>2, <1>3, <1>4 DEF KeyNext

\* The count goes up by one and stays at the cap.
LEMMA CountUp ==
  ASSUME KeyTypeOK
  PROVE  Count = IF keyCnt = Cap THEN Cap ELSE keyCnt + 1
<1>1. keyCnt \in 0..Cap /\ keyCnt + 1 < Byte /\ Byte \in Nat
  BY KeyAssumption DEF KeyTypeOK
<1>2. (keyCnt + 1) % Byte = keyCnt + 1
  BY <1>1
<1> QED
  BY <1>1, <1>2, KeyAssumption DEF Count

\* A closed contact's scan is a press, a long press, or nothing new.
LEMMA ClosedScan ==
  ASSUME KeyTypeOK, ScanSwitch, closed
  PROVE  Events!Next \/ UNCHANGED <<third, closed, keyIn, Stage>>
<1> USE KeyAssumption
<1>0. keyCnt \in 0..Cap /\ UNCHANGED <<third, closed>>
  BY DEF KeyTypeOK, ScanSwitch
<1>1. keyCnt' = IF keyCnt = Cap THEN Cap ELSE keyCnt + 1
  BY CountUp DEF ScanSwitch
<1>2. CASE keyCnt' = PressAt
  <2>1. keyCnt < PressAt
    BY <1>0, <1>1, <1>2
  <2>2. keyIn' = 1 /\ Stage = "nothing" /\ Stage' = "press"
    BY <1>0, <1>2, <2>1 DEF ScanSwitch, Stage
  <2> QED
    BY <1>0, <2>2 DEF Events!Next, Events!Press
<1>3. CASE keyCnt' = LongAt /\ third
  <2>1. keyCnt < LongAt /\ keyCnt >= PressAt
    BY <1>0, <1>1, <1>3
  <2>2. keyIn' = 3 /\ Stage = "press" /\ Stage' = "long"
    BY <1>0, <1>3, <2>1 DEF ScanSwitch, Stage
  <2> QED
    BY <1>0, <1>3, <2>2 DEF Events!Next, Events!LongPress
<1>4. CASE keyCnt' # PressAt /\ ~(keyCnt' = LongAt /\ third)
  <2>1. keyIn' = keyIn
    BY <1>4 DEF ScanSwitch
  <2>2. keyCnt < PressAt <=> keyCnt' < PressAt
    BY <1>0, <1>1, <1>4
  <2>3. third => (keyCnt >= LongAt <=> keyCnt' >= LongAt)
    BY <1>0, <1>1, <1>4
  <2> QED
    BY <1>0, <2>1, <2>2, <2>3 DEF Stage
<1> QED
  BY <1>2, <1>3, <1>4

LEMMA KeyRefines ==
  KeyTypeOK /\ [KeyNext]_keyVars => [Events!Next]_(Events!vars)
<1> SUFFICES ASSUME KeyTypeOK, [KeyNext]_keyVars
             PROVE  Events!Next \/ UNCHANGED <<third, closed, keyIn, Stage>>
  BY DEF Events!vars
<1>1. CASE Contact
  <2>1. closed' = ~closed /\ UNCHANGED <<third, keyIn, Stage>>
    BY <1>1 DEF Contact, Stage
  <2> QED
    BY <2>1 DEF Events!Next, Events!Bounce
<1>2. CASE ScanSwitch /\ closed
  BY <1>2, ClosedScan
<1>3. CASE ScanSwitch /\ ~closed
  <2>1. keyCnt' = 0 /\ UNCHANGED <<third, closed, keyIn>>
    BY <1>3 DEF ScanSwitch
  <2>2. Stage' = "nothing" /\ UNCHANGED third
    BY <2>1, KeyAssumption DEF Stage
  <2> QED
    BY <1>3, <2>1, <2>2 DEF Events!Next, Events!Release
<1>4. CASE Take
  <2>1. keyIn' = 0 /\ UNCHANGED <<third, closed, Stage>>
    BY <1>4 DEF Take, Stage
  <2> QED
    BY <2>1 DEF Events!Next, Events!Clear
<1>5. CASE UNCHANGED keyVars
  BY <1>5 DEF keyVars, Stage
<1> QED
  BY <1>1, <1>2, <1>3, <1>4, <1>5 DEF KeyNext

\* KeyScan() keeps the promise that the sessions of loop() are built on.
THEOREM SwitchesAlwaysEvents == KeySpec => SwitchesAreEvents
<1>0. 0 \in 0..Cap
  BY KeyAssumption
<1>1. KeyInit => KeyTypeOK
  BY <1>0, Zenon DEF KeyInit, KeyTypeOK
<1>2. KeyInit => closed = FALSE /\ keyIn = 0 /\ Stage = "nothing"
  BY KeyAssumption DEF KeyInit, Stage
<1>3. KeyInit => third \in BOOLEAN
  BY DEF KeyInit
<1>4. KeyInit => Events!Init
  BY <1>2, <1>3 DEF Events!Init
<1> QED
  BY <1>1, <1>4, KeyTypeStep, KeyRefines, PTL DEF KeySpec, SwitchesAreEvents, Events!Spec

-----------------------------------------------------------------------------
(***************************************************************************)
(* The scanner: types, and what the parser remembers.                      *)
(***************************************************************************)
Typed  == UNION {Range(l) : l \in Lines}
Keys   == Typed \cup {Enter}
Places == Keys \cup {NoKey}

BufTypes(b) ==
  /\ b = [cells |-> b.cells, cnt |-> b.cnt, id |-> b.id, shown |-> b.shown]
  /\ DOMAIN b.cells = 0..Cells - 1 /\ b.cnt \in Nat

HidTypes ==
  /\ sketch \in Sketches /\ BufTypes(buf)
  /\ typed \in Seq(Typed) /\ todo \in Seq(Keys)
  /\ torn \in BOOLEAN /\ spilt \in BOOLEAN
  /\ \E a, b \in Places : keys = <<a, b>>
  /\ \E a, b \in Places : prevState = <<a, b>>

\* Poll and the parser remember the same report, or Poll an error after it: that
\* of the keys held down, unless the cable came off and nothing was pressed
\* since; then a new line is about to begin.
Followed ==
  /\ prevBuf \in {prevState, Error}
  /\ \/ prevState = keys
     \/ torn /\ keys = Nobody /\ (todo # <<>> => Head(todo) # Enter)

Kept == HidTypes /\ Followed

\* The keys and the words for none and for an error are apart.
LEMMA KeysApart ==
  /\ NoKey \notin Keys /\ "error" \notin Places /\ Enter \notin Typed
  /\ NoKey # Enter /\ FILL \notin Typed
<1>1. \A c \in Typed : c \notin {NoKey, Enter, "error", FILL}
  BY ScannerAssumption DEF Typed
<1> QED BY <1>1 DEF Keys, Places, NoKey, Enter, FILL

LEMMA PairRange == \A a, b : Range(<<a, b>>) = {a, b}
<1> SUFFICES ASSUME NEW a, NEW b PROVE Range(<<a, b>>) = {a, b}
  OBVIOUS
<1>1. DOMAIN <<a, b>> = 1..2 /\ <<a, b>>[1] = a /\ <<a, b>>[2] = b
  OBVIOUS
<1> QED BY <1>1 DEF Range

LEMMA ScannerConstants ==
  /\ Width \in Nat /\ Cells \in Nat /\ 0 < Width /\ Width < Cells
BY ScannerAssumption

\* What OnKeyPressed leaves of the buffer.
LEMMA StoreIs ==
  ASSUME NEW b, BufTypes(b), NEW c
  PROVE  /\ BufTypes(Store(b, c))
         /\ Store(b, c).cnt = b.cnt + 1
         /\ Store(b, c).id = b.id /\ Store(b, c).shown = b.shown
         /\ Store(b, c).cells = IF b.cnt < Room THEN Put(b.cells, b.cnt, c) ELSE b.cells
<1> DEFINE cells == IF b.cnt < Room THEN Put(b.cells, b.cnt, c) ELSE b.cells
<1>1. DOMAIN cells = 0..Cells - 1
  BY DEF BufTypes, Put
<1>2. Store(b, c) = [b EXCEPT !.cells = cells, !.cnt = b.cnt + 1]
  BY DEF Store
<1>3. b = [cells |-> b.cells, cnt |-> b.cnt, id |-> b.id, shown |-> b.shown] /\ b.cnt \in Nat
  BY DEF BufTypes
<1> HIDE DEF cells
<1>4. Store(b, c) = [cells |-> cells, cnt |-> b.cnt + 1, id |-> b.id, shown |-> b.shown]
  BY <1>2, <1>3
<1>5. BufTypes(Store(b, c))
  BY <1>1, <1>3, <1>4 DEF BufTypes
<1> QED BY <1>4, <1>5 DEF cells

LEMMA EndLineIs ==
  ASSUME NEW b, BufTypes(b), sketch \in Sketches
  PROVE  /\ BufTypes(EndLine(b)) /\ EndLine(b).cnt = 0
         /\ sketch = "MEGA0809" => /\ EndLine(b).id = Look(Text(b.cells, Width), b.id)
                                   /\ EndLine(b).cells = Refill(b.cells)
         /\ sketch = "barcode_0528" => EndLine(b).cells = Put(b.cells, b.cnt, "newline")
         /\ sketch = "QR_BARCODE_0601" => EndLine(b).shown = Text(b.cells, Width)
<1> DEFINE id    == Look(Text(b.cells, Width), b.id)
           full  == Refill(b.cells)
           ended == Put(b.cells, b.cnt, "newline")
           shown == Text(b.cells, Width)
<1>1. DOMAIN full = 0..Cells - 1 /\ DOMAIN ended = 0..Cells - 1 /\ DOMAIN b.cells = 0..Cells - 1
  BY DEF BufTypes, Put, Refill
<1>2. b = [cells |-> b.cells, cnt |-> b.cnt, id |-> b.id, shown |-> b.shown]
  BY DEF BufTypes
<1>3. CASE sketch = "MEGA0809"
  <2>1. EndLine(b) = [b EXCEPT !.id = id, !.cells = full, !.cnt = 0]
    BY <1>3 DEF EndLine
  <2> HIDE DEF id, full
  <2>2. EndLine(b) = [cells |-> full, cnt |-> 0, id |-> id, shown |-> b.shown]
    BY <1>2, <2>1
  <2>3. BufTypes(EndLine(b))
    BY <1>1, <2>2 DEF BufTypes
  <2> QED BY <1>3, <2>2, <2>3 DEF id, full
<1>4. CASE sketch = "barcode_0528"
  <2>1. EndLine(b) = [b EXCEPT !.cells = ended, !.cnt = 0]
    BY <1>4 DEF EndLine
  <2> HIDE DEF ended
  <2>2. EndLine(b) = [cells |-> ended, cnt |-> 0, id |-> b.id, shown |-> b.shown]
    BY <1>2, <2>1
  <2>3. BufTypes(EndLine(b))
    BY <1>1, <2>2 DEF BufTypes
  <2> QED BY <1>4, <2>2, <2>3 DEF ended
<1>5. CASE sketch = "QR_BARCODE_0601"
  <2>1. EndLine(b) = [b EXCEPT !.shown = shown, !.cnt = 0]
    BY <1>5 DEF EndLine
  <2> HIDE DEF shown
  <2>2. EndLine(b) = [cells |-> b.cells, cnt |-> 0, id |-> b.id, shown |-> shown]
    BY <1>2, <2>1
  <2>3. BufTypes(EndLine(b))
    BY <1>1, <2>2 DEF BufTypes
  <2> QED BY <1>5, <2>2, <2>3 DEF shown
<1> QED BY <1>3, <1>4, <1>5 DEF Sketches

LEMMA KeyPressedTypes ==
  ASSUME HidTypes, NEW c
  PROVE  BufTypes(OnKeyPressed(buf, c))
BY StoreIs, EndLineIs DEF HidTypes, OnKeyPressed

\* A report without new keys changes nothing but what is remembered,
LEMMA NoNews ==
  ASSUME NEW a, NEW b, ~ New(a), ~ New(b), <<a, b>> # Error, Parse(<<a, b>>),
         spilt \in BOOLEAN
  PROVE  UNCHANGED <<buf, spilt>> /\ prevState' = <<a, b>>
<1>1. <<a, b>>[1] = a /\ <<a, b>>[2] = b /\ Range(<<a, b>>) = {a, b}
  BY PairRange
<1>2. KeyDown(buf, a) = buf /\ KeyDown(buf, b) = buf
  BY DEF KeyDown
<1>3. prevState' = <<a, b>>
  BY DEF Parse
<1>4. spilt' = spilt
  <2>1. spilt' = \/ spilt
                 \/ New(a) /\ Spills(buf, a)
                 \/ New(b) /\ Spills(KeyDown(buf, a), b)
    BY <1>1 DEF Parse
  <2> QED BY <2>1
<1>5. buf' = buf
  BY <1>1, <1>2 DEF Parse
<1> QED BY <1>3, <1>4, <1>5

\* and one new key is pressed, once.
LEMMA OneNew ==
  ASSUME HidTypes, NEW a, NEW b, NEW h, <<a, b>> # Error, Parse(<<a, b>>), New(h),
         (a = h /\ ~ New(b)) \/ (b = h /\ ~ New(a))
  PROVE  /\ prevState' = <<a, b>> /\ BufTypes(buf') /\ spilt' \in BOOLEAN
         /\ ~ spilt' => ~ spilt /\ ~ Spills(buf, h) /\ buf' = OnKeyPressed(buf, h)
<1> DEFINE first == KeyDown(buf, a)
           next  == KeyDown(first, b)
           spill == (New(a) /\ Spills(buf, a)) \/ (New(b) /\ Spills(first, b))
<1>1. <<a, b>>[1] = a /\ <<a, b>>[2] = b
  OBVIOUS
<1>2. /\ prevState' = <<a, b>> /\ spilt' = (spilt \/ spill)
      /\ \/ buf' = next
         \/ spilt /\ \E j \in DOMAIN Table : buf' = [next EXCEPT !.id = j]
  <2>1. /\ prevState' = <<a, b>>
        /\ spilt' = \/ spilt
                    \/ New(a) /\ Spills(buf, a)
                    \/ New(b) /\ Spills(first, b)
        /\ \/ buf' = next
           \/ spilt /\ \E j \in DOMAIN Table : buf' = [next EXCEPT !.id = j]
    BY <1>1 DEF Parse
  <2> QED BY <2>1
<1>3. next = OnKeyPressed(buf, h)
  BY DEF KeyDown
<1>4. spill <=> Spills(buf, h)
  BY DEF KeyDown
<1>5. BufTypes(next)
  BY <1>3, KeyPressedTypes
<1>6. BufTypes(buf')
  <2> HIDE DEF next
  <2>1. CASE buf' = next
    BY <1>5, <2>1
  <2>2. ASSUME NEW j \in DOMAIN Table, buf' = [next EXCEPT !.id = j]
        PROVE  BufTypes(buf')
    <3>1. buf' = [cells |-> next.cells, cnt |-> next.cnt, id |-> j, shown |-> next.shown]
      BY <1>5, <2>2 DEF BufTypes
    <3> QED BY <1>5, <3>1 DEF BufTypes
  <2> QED BY <1>2, <2>1, <2>2
<1> HIDE DEF first, next, spill
<1>7. spilt \in BOOLEAN
  BY DEF HidTypes
<1>8. spilt' \in BOOLEAN
  BY <1>2
<1>9. ASSUME ~ spilt' PROVE ~ spilt /\ ~ spill /\ buf' = next
  BY <1>2, <1>9
<1> QED BY <1>2, <1>3, <1>4, <1>6, <1>8, <1>9

\* The step of a key, seen by the sketch.
Fresh(h) ==
  ~ spilt' => ~ spilt /\ ~ Spills(buf, h) /\ buf' = OnKeyPressed(buf, h)

\* The key pressed is stored, unless the line lost its beginning with the cable.
LEMMA PressIs ==
  ASSUME Kept, PressKey
  PROVE  /\ Head(todo) \in Keys /\ Type(Head(todo)) /\ todo' = Tail(todo) /\ todo' \in Seq(Keys)
         /\ prevState' = keys' /\ prevBuf' = keys' /\ UNCHANGED sketch
         /\ \E a, b \in Places : keys' = <<a, b>>
         /\ BufTypes(buf') /\ spilt' \in BOOLEAN
         /\ \/ Fresh(Head(todo))
            \/ torn /\ Head(todo) # Enter /\ UNCHANGED <<buf, spilt>>
<1> DEFINE h == Head(todo)
<1>1. /\ h \in Keys /\ Type(h) /\ todo' = Tail(todo) /\ todo' \in Seq(Keys) /\ h \notin Range(keys)
      /\ UNCHANGED sketch /\ Poll(keys') /\ todo # <<>>
  BY DEF PressKey, Kept, HidTypes
<1>2. PICK a \in Places, b \in Places : keys = <<a, b>>
  BY DEF Kept, HidTypes
<1>3. PICK p \in Places, q \in Places : prevState = <<p, q>>
  BY DEF Kept, HidTypes
<1>4. h # a /\ h # b /\ Range(prevState) = {p, q} /\ h # NoKey /\ h \in Places
  BY <1>1, <1>2, <1>3, PairRange, KeysApart DEF Places
<1>5. PICK x \in Places, y \in Places :
        /\ keys' = <<x, y>>
        /\ (x = h /\ y = NoKey) \/ (x = a /\ y = h /\ keys # Nobody)
  <2>1. keys' = <<h, NoKey>> \/ (keys' = <<a, h>> /\ keys # Nobody)
    BY <1>2 DEF PressKey
  <2> QED BY <1>2, <1>4, <2>1 DEF Places
<1>6. <<x, y>> # Error
  BY KeysApart DEF Error
<1>7. prevBuf' = keys' /\ (<<x, y>> # prevBuf => Parse(<<x, y>>))
  BY <1>1, <1>5 DEF Poll
<1>8. ~ New(NoKey)
  BY DEF New
<1> HIDE DEF h
<1>9. CASE New(h)
  <2>0. Parse(<<x, y>>)
    <3>1. prevState # <<x, y>>
      BY <1>5, <1>9, PairRange DEF New
    <3> QED BY <1>6, <1>7, <3>1 DEF Kept, Followed
  <2>1. \/ x = h /\ ~ New(y)
        \/ y = h /\ ~ New(x)
    <3>1. CASE x = h /\ y = NoKey
      BY <1>8, <3>1
    <3>2. CASE x = a /\ y = h /\ keys # Nobody
      BY <1>2, <3>2, PairRange DEF New, Kept, Followed
    <3> QED BY <1>5, <3>1, <3>2
  <2>2. /\ prevState' = <<x, y>> /\ BufTypes(buf') /\ spilt' \in BOOLEAN
        /\ ~ spilt' => ~ spilt /\ ~ Spills(buf, h) /\ buf' = OnKeyPressed(buf, h)
    BY <1>6, <1>9, <2>0, <2>1, OneNew DEF Kept
  <2> QED BY <1>1, <1>5, <1>7, <2>2 DEF Fresh, h
<1>10. CASE ~ New(h)
  <2>1. prevState # keys
    BY <1>2, <1>4, <1>10, PairRange DEF New
  <2>2. torn /\ keys = Nobody /\ h # Enter
    BY <1>1, <2>1 DEF Kept, Followed, h
  <2>3. ~ New(x) /\ ~ New(y)
    BY <1>5, <1>8, <1>10, <2>2
  <2>4. UNCHANGED <<buf, spilt>> /\ prevState' = <<x, y>>
    <3>1. CASE <<x, y>> # prevBuf
      BY <1>6, <1>7, <2>3, <3>1, NoNews DEF Kept, HidTypes
    <3>2. CASE <<x, y>> = prevBuf
      BY <1>1, <1>5, <1>6, <3>2 DEF Poll, Kept, Followed
    <3> QED BY <3>1, <3>2
  <2> QED BY <1>1, <1>5, <1>7, <2>2, <2>4 DEF Kept, HidTypes, h
<1> QED BY <1>9, <1>10

\* No other report brings a key.
LEMMA QuietReport ==
  ASSUME Kept, ReleaseKeys \/ Again
  PROVE  /\ UNCHANGED <<sketch, todo, buf, spilt, typed, torn, last>>
         /\ \E a, b \in Places : keys' = <<a, b>>
         /\ \E a, b \in Places : prevState' = <<a, b>>
         /\ Followed'
<1>1. PICK a \in Places, b \in Places : keys = <<a, b>>
  BY DEF Kept, HidTypes
<1>2. <<a, b>> # Error /\ Nobody # Error /\ NoKey \in Places
  BY KeysApart DEF Error, Nobody, Places
<1>3. ~ New(NoKey) /\ (prevState = keys => ~ New(a) /\ ~ New(b))
  BY <1>1, PairRange DEF New
<1>4. CASE ReleaseKeys
  <2>1. /\ keys' = <<NoKey, NoKey>> /\ Parse(<<NoKey, NoKey>>) /\ prevBuf' = keys'
        /\ UNCHANGED <<sketch, todo, typed, torn, last>>
    BY <1>2, <1>4 DEF ReleaseKeys, Nobody, Poll, Kept, Followed
  <2>2. UNCHANGED <<buf, spilt>> /\ prevState' = <<NoKey, NoKey>>
    BY <1>2, <1>3, <2>1, NoNews DEF Kept, HidTypes, Nobody
  <2> QED BY <1>2, <2>1, <2>2 DEF Followed
<1>5. CASE Again
  <2>1. UNCHANGED <<sketch, todo, keys, typed, torn, last>> /\ (Poll(keys) \/ Poll(Error))
    BY <1>5 DEF Again
  <2>2. CASE Poll(keys)
    <3>1. prevBuf' = keys /\ UNCHANGED <<buf, spilt>> /\ prevState' = keys
      <4>1. CASE keys = prevBuf
        BY <1>1, <1>2, <2>2, <4>1 DEF Poll, Kept, Followed
      <4>2. CASE keys # prevBuf
        <5>1. Parse(<<a, b>>) /\ prevBuf' = keys
          BY <1>1, <2>2, <4>2 DEF Poll
        <5>2. ~ New(a) /\ ~ New(b)
          BY <1>1, <1>3 DEF Kept, Followed, Nobody
        <5> QED BY <1>1, <1>2, <5>1, <5>2, NoNews DEF Kept, HidTypes
      <4> QED BY <4>1, <4>2
    <3> QED BY <1>1, <2>1, <3>1 DEF Followed
  <2>3. CASE Poll(Error)
    <3>1. prevBuf' = Error /\ UNCHANGED <<prevState, buf, spilt>>
      BY <2>3 DEF Poll, Parse
    <3> QED BY <1>1, <2>1, <3>1 DEF Kept, HidTypes, Followed
  <2> QED BY <2>1, <2>2, <2>3
<1> QED BY <1>4, <1>5

-----------------------------------------------------------------------------
(***************************************************************************)
(* The line in the buffer.                                                 *)
(***************************************************************************)
\* The characters of a text are those of the cells.
LEMMA PutCells ==
  ASSUME NEW cells, DOMAIN cells = 0..Cells - 1, NEW n \in Nat, NEW c
  PROVE  /\ n < Cells => Put(cells, n, c)[n] = c
         /\ \A k \in 0..Cells - 1 : k # n => Put(cells, n, c)[k] = cells[k]
BY ScannerConstants DEF Put

\* The parts of BufferHoldsLine, for a buffer b and a line l.
Holds(b, l) ==
  /\ b.cnt = Len(l)
  /\ \A k \in 1..Len(l) : k <= Room => b.cells[k - 1] = l[k]
  /\ sketch = "MEGA0809" => \A k \in Len(l)..Width - 1 : b.cells[k] = FILL

LEMMA RoomIs ==
  /\ Room \in Nat /\ Room <= Cells /\ Width <= Room
  /\ sketch # "QR_BARCODE_0601" => Room = Cells
BY ScannerConstants DEF Room

LEMMA HoldsStored ==
  ASSUME HidTypes, NEW l \in Seq(Typed), Holds(buf, l), NEW c \in Typed
  PROVE  Holds(Store(buf, c), Append(l, c))
<1> DEFINE n == Len(l)
           cells == buf.cells
           new == Store(buf, c).cells
<1>1. n \in Nat /\ buf.cnt = n /\ DOMAIN cells = 0..Cells - 1
  BY DEF HidTypes, BufTypes, Holds
<1>2. /\ Len(Append(l, c)) = n + 1 /\ Append(l, c)[n + 1] = c
      /\ \A k \in 1..n : Append(l, c)[k] = l[k]
  OBVIOUS
<1>3. /\ \A k \in 1..n : k <= Room => cells[k - 1] = l[k]
      /\ sketch = "MEGA0809" => \A k \in n..Width - 1 : cells[k] = FILL
  BY DEF Holds
<1>4. /\ Store(buf, c).cnt = n + 1
      /\ new = IF n < Room THEN Put(cells, n, c) ELSE cells
  BY <1>1, StoreIs DEF HidTypes
<1>5. /\ n < Room => new[n] = c
      /\ \A k \in 0..Cells - 1 : k # n => new[k] = cells[k]
  BY <1>1, <1>4, PutCells, RoomIs, ScannerConstants
<1> HIDE DEF n, cells, new
<1>6. \A k \in 1..n + 1 : k <= Room => new[k - 1] = Append(l, c)[k]
  <2> SUFFICES ASSUME NEW k \in 1..n + 1, k <= Room PROVE new[k - 1] = Append(l, c)[k]
    OBVIOUS
  <2>1. CASE k = n + 1
    BY <1>1, <1>2, <1>5, <2>1, RoomIs
  <2>2. CASE k # n + 1
    <3>1. k \in 1..n /\ k - 1 \in 0..Cells - 1 /\ k - 1 # n
      BY <1>1, <2>2, RoomIs, ScannerConstants
    <3> QED BY <1>2, <1>3, <1>5, <3>1
  <2> QED BY <2>1, <2>2
<1>7. ASSUME sketch = "MEGA0809", NEW k \in n + 1..Width - 1
      PROVE  new[k] = FILL
  <2>1. k \in n..Width - 1 /\ k \in 0..Cells - 1 /\ k # n
    BY <1>1, ScannerConstants
  <2> QED BY <1>3, <1>5, <1>7, <2>1
<1> QED BY <1>2, <1>4, <1>6, <1>7 DEF Holds, new

LEMMA HoldsEnded ==
  ASSUME HidTypes
  PROVE  Holds(EndLine(buf), <<>>)
<1>1. /\ EndLine(buf).cnt = 0
      /\ sketch = "MEGA0809" => EndLine(buf).cells = Refill(buf.cells)
      /\ DOMAIN buf.cells = 0..Cells - 1
  BY EndLineIs DEF HidTypes, BufTypes
<1>2. sketch = "MEGA0809" => \A k \in 0..Width - 1 : EndLine(buf).cells[k] = FILL
  BY <1>1, ScannerConstants DEF Refill
<1> QED BY <1>1, <1>2 DEF Holds

\* What the two comparisons and the copy see of a line that is held.
LEMMA HeldText ==
  ASSUME HidTypes, NEW l \in Seq(Typed), Holds(buf, l)
  PROVE  /\ sketch = "MEGA0809" => Text(buf.cells, Width) = Padded(l)
         /\ Len(l) >= Width => Text(buf.cells, Width) = Padded(l)
<1>1. Len(l) \in Nat
  OBVIOUS
<1>2. ASSUME sketch = "MEGA0809" \/ Len(l) >= Width, NEW k \in 1..Width
      PROVE  buf.cells[k - 1] = IF k <= Len(l) THEN l[k] ELSE FILL
  <2>1. CASE k <= Len(l)
    BY <1>1, <2>1, RoomIs, ScannerConstants DEF Holds
  <2>2. CASE ~ (k <= Len(l))
    <3>1. k - 1 \in Len(l)..Width - 1 /\ sketch = "MEGA0809"
      BY <1>1, <1>2, <2>2, ScannerConstants
    <3> QED BY <2>2, <3>1 DEF Holds
  <2> QED BY <2>1, <2>2
<1> QED BY <1>2 DEF Text, Padded

LEMMA EndedText ==
  ASSUME HidTypes, NEW l \in Seq(Typed), Holds(buf, l), sketch = "barcode_0528", Len(l) < Cells
  PROVE  SubSeq(Text(EndLine(buf).cells, Cells), 1, Len(l) + 1) = Append(l, "newline")
<1> DEFINE n == Len(l)
           new == EndLine(buf).cells
           S == {new[k] : k \in 0..Cells - 1}
           text == Text(new, Cells)
<1>1. n \in Nat /\ buf.cnt = n /\ DOMAIN buf.cells = 0..Cells - 1 /\ Room = Cells
  BY RoomIs DEF HidTypes, BufTypes, Holds
<1>2. new = Put(buf.cells, n, "newline")
  BY <1>1, EndLineIs DEF HidTypes
<1>3. new[n] = "newline" /\ \A k \in 1..n : new[k - 1] = l[k]
  <2>1. \A k \in 1..n : k - 1 \in 0..Cells - 1 /\ k - 1 # n /\ buf.cells[k - 1] = l[k]
    BY <1>1, ScannerConstants DEF Holds
  <2> QED BY <1>1, <1>2, <2>1, PutCells
<1> HIDE DEF new
<1>4. text \in Seq(S) /\ Len(text) = Cells /\ \A k \in 1..Cells : text[k] = new[k - 1]
  <2>1. text \in [1..Cells -> S]
    BY ScannerConstants DEF Text
  <2> QED BY <2>1, ScannerConstants DEF Text
<1> HIDE DEF text, S, n
<1>5. n < Cells /\ n + 1 \in Nat
  BY <1>1 DEF n
<1>6. /\ Len(SubSeq(text, 1, n + 1)) = n + 1
      /\ \A k \in 1..n + 1 : SubSeq(text, 1, n + 1)[k] = new[k - 1]
      /\ SubSeq(text, 1, n + 1) \in Seq(S)
  BY <1>1, <1>4, <1>5, ScannerConstants
<1>7. /\ Len(Append(l, "newline")) = n + 1 /\ Append(l, "newline")[n + 1] = "newline"
      /\ \A k \in 1..n : Append(l, "newline")[k] = l[k]
      /\ Append(l, "newline") \in Seq(Typed \cup {"newline"})
  BY DEF n
<1>8. \A k \in 1..n + 1 : SubSeq(text, 1, n + 1)[k] = Append(l, "newline")[k]
  <2> SUFFICES ASSUME NEW k \in 1..n + 1 PROVE new[k - 1] = Append(l, "newline")[k]
    BY <1>6
  <2>1. CASE k = n + 1
    BY <1>1, <1>3, <1>7, <2>1
  <2>2. CASE k # n + 1
    BY <1>1, <1>3, <1>7, <2>2
  <2> QED BY <2>1, <2>2
<1>9. SubSeq(text, 1, n + 1) = Append(l, "newline")
  BY <1>6, <1>7, <1>8
<1> QED BY <1>9 DEF n, text, new

-----------------------------------------------------------------------------
\* LastLineTaken for a buffer and a line that is taken.
Taken(b, l, now) ==
  /\ sketch = "MEGA0809" /\ Matches(Padded(l)) # {} =>
       b.id = Min(Matches(Padded(l)))
  /\ sketch = "barcode_0528" /\ now /\ Len(l) < Cells =>
       SubSeq(Text(b.cells, Cells), 1, Len(l) + 1) = Append(l, "newline")
  /\ sketch = "QR_BARCODE_0601" /\ Len(l) >= Width => b.shown = Padded(l)

HoldsIs == BufferHoldsLine <=> (~torn /\ ~spilt => Holds(buf, typed))
TakenIs == sketch \in Sketches =>
             (LastLineTaken <=> (last # <<>> /\ ~spilt => Taken(buf, last, typed = <<>> /\ ~torn)))

LEMMA AreIs == HoldsIs /\ TakenIs
<1>1. HoldsIs
  BY DEF HoldsIs, BufferHoldsLine, Holds
<1>2. TakenIs
  <2>1. CASE sketch = "MEGA0809"
    BY <2>1 DEF TakenIs, LastLineTaken, Taken
  <2>2. CASE sketch = "barcode_0528"
    BY <2>2 DEF TakenIs, LastLineTaken, Taken
  <2>3. CASE sketch = "QR_BARCODE_0601"
    BY <2>3 DEF TakenIs, LastLineTaken, Taken
  <2> QED BY <2>1, <2>2, <2>3 DEF TakenIs, Sketches
<1> QED BY <1>1, <1>2

LEMMA AreIsNext == (HoldsIs /\ TakenIs)'
BY AreIs, PTL

HidInv == Kept /\ BufferHoldsLine /\ LastLineTaken

LEMMA HidInvInit == HidInit => HidInv
<1> SUFFICES ASSUME HidInit PROVE HidInv
  OBVIOUS
<1>1. /\ sketch \in Sketches /\ typed = <<>> /\ todo = <<>> /\ torn = FALSE /\ spilt = FALSE
      /\ keys = Nobody /\ prevState = Nobody /\ prevBuf = Nobody /\ last = <<>>
      /\ buf = [cells |-> Blank, cnt |-> 0, id |-> 0, shown |-> <<>>]
  BY DEF HidInit
<1>2. BufTypes(buf)
  BY <1>1 DEF BufTypes, Blank
<1>3. <<>> \in Seq(Typed) /\ <<>> \in Seq(Keys) /\ NoKey \in Places
  BY DEF Places
<1>4. HidTypes /\ Followed
  BY <1>1, <1>2, <1>3 DEF HidTypes, Followed, Nobody
<1>5. Holds(buf, typed)
  BY <1>1, ScannerConstants DEF Holds, Blank
<1>6. BufferHoldsLine /\ LastLineTaken
  BY <1>1, <1>5, AreIs DEF HoldsIs, TakenIs
<1> QED BY <1>4, <1>6 DEF HidInv, Kept

\* The lines after a step, told by what they are made of.
LEMMA LinesAfter ==
  ASSUME UNCHANGED sketch, sketch \in Sketches,
         ~torn' /\ ~spilt' => Holds(buf', typed'),
         last' # <<>> /\ ~spilt' => Taken(buf', last', typed' = <<>> /\ ~torn')
  PROVE  BufferHoldsLine' /\ LastLineTaken'
<1>1. Holds(buf', typed') => Holds(buf, typed)'
  BY DEF Holds, Room
<1>2. Taken(buf', last', typed' = <<>> /\ ~torn') => Taken(buf, last, typed = <<>> /\ ~torn)'
  BY DEF Taken, Text, Padded, Matches
<1> QED BY <1>1, <1>2, AreIsNext DEF HoldsIs, TakenIs

LEMMA LinesBefore ==
  ASSUME HidTypes, BufferHoldsLine, LastLineTaken
  PROVE  /\ ~torn /\ ~spilt => Holds(buf, typed)
         /\ last # <<>> /\ ~spilt => Taken(buf, last, typed = <<>> /\ ~torn)
BY AreIs DEF HidTypes, HoldsIs, TakenIs

\* A character is added to the line; the last line stays as it was taken.
LEMMA CharacterKept ==
  ASSUME HidTypes, BufferHoldsLine, LastLineTaken, NEW c \in Typed, Fresh(c), Type(c),
         UNCHANGED sketch
  PROVE  BufferHoldsLine' /\ LastLineTaken'
<1>1. c # Enter /\ typed' = Append(typed, c) /\ UNCHANGED <<torn, last>> /\ typed \in Seq(Typed)
  BY KeysApart DEF Type, HidTypes
<1>2. typed' # <<>>
  BY <1>1
<1>3. ~spilt' => ~spilt /\ buf' = Store(buf, c)
  BY <1>1 DEF Fresh, OnKeyPressed
<1>4. ~torn' /\ ~spilt' => Holds(buf', typed')
  BY <1>1, <1>3, LinesBefore, HoldsStored
<1>5. last' # <<>> /\ ~spilt' => Taken(buf', last', typed' = <<>> /\ ~torn')
  <2>1. Store(buf, c).id = buf.id /\ Store(buf, c).shown = buf.shown
    BY StoreIs DEF HidTypes
  <2> QED BY <1>1, <1>2, <1>3, <2>1, LinesBefore DEF Taken
<1> QED BY <1>4, <1>5, LinesAfter DEF HidTypes

\* Enter takes the line, unless it was torn, and begins a new one.
LEMMA EnterTaken ==
  ASSUME HidTypes, BufferHoldsLine, LastLineTaken, Fresh(Enter), Type(Enter), UNCHANGED sketch
  PROVE  BufferHoldsLine' /\ LastLineTaken'
<1>1. /\ typed' = <<>> /\ torn' = FALSE /\ typed \in Seq(Typed) /\ Len(typed) \in Nat
      /\ last' = IF torn THEN <<>> ELSE typed
  BY DEF Type, HidTypes
<1>2. ~spilt' => ~spilt /\ ~Spills(buf, Enter) /\ buf' = EndLine(buf)
  BY DEF Fresh, OnKeyPressed
<1>3. ~torn' /\ ~spilt' => Holds(buf', typed')
  BY <1>1, <1>2, HoldsEnded
<1>4. ASSUME last' # <<>>, ~spilt' PROVE Taken(EndLine(buf), typed, TRUE)
  <2>1. ~spilt /\ ~torn /\ Holds(buf, typed)
    BY <1>1, <1>2, <1>4, LinesBefore
  <2>2. CASE sketch = "MEGA0809"
    <3>1. EndLine(buf).id = Look(Padded(typed), buf.id)
      BY <1>1, <2>1, <2>2, HeldText, EndLineIs DEF HidTypes
    <3> QED BY <2>2, <3>1 DEF Taken, Look
  <2>3. CASE sketch = "barcode_0528"
    BY <1>1, <2>1, <2>3, EndedText DEF Taken
  <2>4. CASE sketch = "QR_BARCODE_0601"
    BY <1>1, <2>1, <2>4, HeldText, EndLineIs DEF HidTypes, Taken
  <2> QED BY <2>2, <2>3, <2>4 DEF HidTypes, Sketches
<1>5. last' # <<>> /\ ~spilt' => Taken(buf', last', typed' = <<>> /\ ~torn')
  <2> SUFFICES ASSUME last' # <<>>, ~spilt' PROVE Taken(buf', last', typed' = <<>> /\ ~torn')
    OBVIOUS
  <2>1. buf' = EndLine(buf) /\ last' = typed
    BY <1>1, <1>2
  <2>2. Taken(buf', last', TRUE)
    BY <1>4, <2>1
  <2> QED BY <2>2 DEF Taken
<1> QED BY <1>3, <1>5, LinesAfter DEF HidTypes

LEMMA PressKeeps ==
  ASSUME Kept, BufferHoldsLine, LastLineTaken, PressKey
  PROVE  HidInv'
<1> DEFINE h == Head(todo)
<1>1. /\ h \in Keys /\ Type(h) /\ todo' \in Seq(Keys)
      /\ prevState' = keys' /\ prevBuf' = keys' /\ sketch' = sketch
      /\ \E a, b \in Places : keys' = <<a, b>>
      /\ BufTypes(buf') /\ spilt' \in BOOLEAN
      /\ \/ Fresh(h)
         \/ torn /\ h # Enter /\ UNCHANGED <<buf, spilt>>
  BY PressIs
<1>2. HidTypes /\ typed \in Seq(Typed) /\ torn \in BOOLEAN /\ sketch \in Sketches
  BY DEF Kept, HidTypes
<1> HIDE DEF h
<1>3. typed' \in Seq(Typed) /\ torn' \in BOOLEAN
  <2>1. CASE h = Enter
    <3>1. typed' = <<>> /\ torn' = FALSE
      BY <1>1, <2>1 DEF Type
    <3>2. <<>> \in Seq(Typed)
      OBVIOUS
    <3> QED BY <3>1, <3>2
  <2>2. CASE h \in Typed
    <3>1. typed' = Append(typed, h) /\ torn' = torn
      BY <1>1, <2>2, KeysApart DEF Type
    <3> QED BY <1>2, <2>2, <3>1
  <2> QED BY <1>1, <2>1, <2>2 DEF Keys
<1>4. Kept'
  BY <1>1, <1>2, <1>3 DEF Kept, HidTypes, Followed, BufTypes
<1>5. BufferHoldsLine' /\ LastLineTaken'
  <2>1. CASE Fresh(h) /\ h = Enter
    BY <1>1, <1>2, <2>1, EnterTaken
  <2>2. CASE Fresh(h) /\ h # Enter
    BY <1>1, <1>2, <2>2, CharacterKept DEF Keys
  <2>3. CASE torn /\ h # Enter /\ UNCHANGED <<buf, spilt>>
    <3>1. UNCHANGED <<torn, last>>
      BY <1>1, <2>3 DEF Type
    <3>2. last' # <<>> /\ ~spilt' => Taken(buf', last', typed' = <<>> /\ ~torn')
      BY <1>2, <2>3, <3>1, LinesBefore DEF Taken
    <3> QED BY <1>1, <1>2, <2>3, <3>1, <3>2, LinesAfter
  <2> QED BY <1>1, <2>1, <2>2, <2>3
<1> QED BY <1>4, <1>5 DEF HidInv

LEMMA HidInvStep == HidInv /\ [HidNext]_hidVars => HidInv'
<1> SUFFICES ASSUME HidInv, [HidNext]_hidVars PROVE HidInv'
  OBVIOUS
<1>1. Kept /\ HidTypes /\ BufferHoldsLine /\ LastLineTaken
  BY DEF HidInv, Kept
<1>2. /\ sketch \in Sketches /\ BufTypes(buf) /\ typed \in Seq(Typed) /\ todo \in Seq(Keys)
      /\ torn \in BOOLEAN /\ spilt \in BOOLEAN
  BY <1>1 DEF HidTypes
<1>3. /\ ~torn /\ ~spilt => Holds(buf, typed)
      /\ last # <<>> /\ ~spilt => Taken(buf, last, typed = <<>> /\ ~torn)
  BY <1>1, LinesBefore
<1>4. ASSUME NEW l \in Lines, ScanCode(l) PROVE HidInv'
  <2>1. /\ todo' = Append(l, Enter)
        /\ UNCHANGED <<sketch, keys, prevBuf, prevState, buf, spilt, typed, torn, last>>
    BY <1>4 DEF ScanCode
  <2>2. todo' \in Seq(Keys) /\ Head(todo') # Enter
    <3>1. l \in Seq(Range(l)) /\ l # <<>> /\ Range(l) \subseteq Typed /\ Enter \in Keys
      BY ScannerAssumption DEF Typed, Keys
    <3>2. l \in Seq(Typed) /\ l # <<>> /\ Typed \subseteq Keys
      BY <3>1 DEF Keys
    <3>3. l \in Seq(Keys) /\ Append(l, Enter) \in Seq(Keys)
      BY <3>1, <3>2
    <3>4. Head(Append(l, Enter)) = l[1] /\ l[1] \in Typed
      BY <3>2
    <3> QED BY <2>1, <3>3, <3>4, KeysApart
  <2>3. Kept'
    BY <1>1, <2>1, <2>2 DEF Kept, HidTypes, Followed, BufTypes
  <2>4. BufferHoldsLine' /\ LastLineTaken'
    BY <1>2, <1>3, <2>1, LinesAfter
  <2> QED BY <2>3, <2>4 DEF HidInv
<1>5. CASE PressKey
  BY <1>1, <1>5, PressKeeps
<1>6. CASE ReleaseKeys \/ Again
  <2>1. /\ UNCHANGED <<sketch, todo, buf, spilt, typed, torn, last>>
        /\ \E a, b \in Places : keys' = <<a, b>>
        /\ \E a, b \in Places : prevState' = <<a, b>>
        /\ Followed'
    BY <1>1, <1>6, QuietReport
  <2>2. Kept'
    BY <1>1, <2>1 DEF Kept, HidTypes, BufTypes
  <2>3. BufferHoldsLine' /\ LastLineTaken'
    BY <1>2, <1>3, <2>1, LinesAfter
  <2> QED BY <2>2, <2>3 DEF HidInv
<1>7. CASE Unplug
  <2>1. /\ todo' = <<>> /\ keys' = Nobody /\ typed' = <<>>
        /\ torn' = (torn \/ typed # <<>> \/ keys # Nobody)
        /\ UNCHANGED <<sketch, prevBuf, prevState, buf, spilt, last>>
    BY <1>7 DEF Unplug
  <2>2. torn' \in BOOLEAN /\ (~torn' => ~torn /\ typed' = typed /\ keys = Nobody)
    BY <1>2, <2>1
  <2>3. HidTypes'
    <3>1. NoKey \in Places /\ <<>> \in Seq(Keys) /\ <<>> \in Seq(Typed)
      BY DEF Places
    <3> QED BY <1>1, <2>1, <2>2, <3>1 DEF HidTypes, BufTypes, Nobody
  <2>4. Followed'
    BY <1>1, <2>1, <2>2 DEF Kept, Followed
  <2>5. ~torn' /\ ~spilt' => Holds(buf', typed')
    BY <1>3, <2>1, <2>2
  <2>6. last' # <<>> /\ ~spilt' => Taken(buf', last', typed' = <<>> /\ ~torn')
    BY <1>3, <2>1, <2>2 DEF Taken
  <2>7. BufferHoldsLine' /\ LastLineTaken'
    BY <1>2, <2>1, <2>5, <2>6, LinesAfter
  <2> QED BY <2>3, <2>4, <2>7 DEF HidInv, Kept
<1>8. CASE Forget
  <2>1. /\ buf' = [buf EXCEPT !.id = 0] /\ last' = <<>>
        /\ UNCHANGED <<sketch, todo, keys, prevBuf, prevState, spilt, typed, torn>>
    BY <1>8 DEF Forget
  <2>2. BufTypes(buf') /\ buf'.cells = buf.cells /\ buf'.cnt = buf.cnt
    <3>1. buf' = [cells |-> buf.cells, cnt |-> buf.cnt, id |-> 0, shown |-> buf.shown]
      BY <1>2, <2>1 DEF BufTypes
    <3> QED BY <1>2, <3>1 DEF BufTypes
  <2>3. Kept'
    BY <1>1, <2>1, <2>2 DEF Kept, HidTypes, Followed, BufTypes
  <2>4. ~torn' /\ ~spilt' => Holds(buf', typed')
    BY <1>3, <2>1, <2>2 DEF Holds
  <2>5. BufferHoldsLine' /\ LastLineTaken'
    BY <1>2, <2>1, <2>4, LinesAfter
  <2> QED BY <2>3, <2>5 DEF HidInv
<1>9. CASE UNCHANGED hidVars
  <2>1. UNCHANGED <<sketch, todo, keys, prevBuf, prevState, buf, spilt, typed, torn, last>>
    BY <1>9 DEF hidVars
  <2>2. Kept'
    BY <1>1, <2>1 DEF Kept, HidTypes, Followed, BufTypes
  <2>3. BufferHoldsLine' /\ LastLineTaken'
    BY <1>2, <1>3, <2>1, LinesAfter
  <2> QED BY <2>2, <2>3 DEF HidInv
<1> QED BY <1>4, <1>5, <1>6, <1>7, <1>8, <1>9 DEF HidNext

LEMMA HidAlways == HidSpec => []HidInv
BY HidInvInit, HidInvStep, PTL DEF HidSpec

\* However the reports of the keys overlap, repeat or fail, every character
\* typed is stored once, and the return box begins every line afresh; only a
\* line torn by the cable, or one that spilt out of the cells, is left out.
THEOREM BufferAlwaysHoldsLine == HidSpec => []BufferHoldsLine
<1>1. HidInv => BufferHoldsLine
  BY DEF HidInv
<1> QED BY <1>1, HidAlways, PTL

\* A line that was typed whole is taken as it was typed, whatever lines came
\* before: the return box's bottle is the first entry of the table equal to it.
THEOREM LastLineAlwaysTaken == HidSpec => []LastLineTaken
<1>1. HidInv => LastLineTaken
  BY DEF HidInv
<1> QED BY <1>1, HidAlways, PTL

-----------------------------------------------------------------------------
\* Side by side neither input disturbs the other, so all three promises hold of
\* the return box.
THEOREM InputsApart == Spec => HidSpec /\ KeySpec
<1>1. Init => HidInit /\ KeyInit
  BY DEF Init
<1>2. [Next]_<<hidVars, keyVars>> => [HidNext]_hidVars /\ [KeyNext]_keyVars
  BY DEF Next
<1> QED BY <1>1, <1>2, PTL DEF Spec, HidSpec, KeySpec
=============================================================================
