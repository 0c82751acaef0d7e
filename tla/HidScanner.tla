------------------------------ MODULE HidScanner ------------------------------
(***************************************************************************)
(* A barcode scanner that poses as a USB keyboard, read by Usb.Task().  The *)
(* scanner sends reports, the keys that are down; HIDUniversal::Poll drops   *)
(* one equal to the last; KeyboardReportParser::Parse calls OnKeyDown for    *)
(* the keys that the last parsed report did not have; OnKeyPressed collects *)
(* them until Enter.  Three sketches have such a line buffer:               *)
(*   MEGA0809         matches it against the table of bottles and refills it *)
(*   barcode_0528     ends it with a newline and leaves it                   *)
(*   QR_BARCODE_0601  copies it to the text of a QR code and leaves it       *)
(* A report has six places for keys; a scanner has at most two down.        *)
(***************************************************************************)
EXTENDS Integers, SequencesExt

CONSTANTS Lines,      \* the codes (sequences of characters) that are scanned
          Table,      \* the padded codes of the bottles, in order
          Width,      \* 13: characters compared or copied
          Cells,      \* 15: the size of BottleBf
          MaxUnplugs  \* bound: the cable comes off so many times

FILL   == "A"
NoKey  == "none"
Enter  == "enter"
Nobody == <<NoKey, NoKey>>
Error  == <<"error", "error">>

ASSUME ScannerAssumption ==
  /\ Width \in Nat /\ Cells \in Nat /\ 0 < Width /\ Width < Cells
  /\ MaxUnplugs \in Nat
  /\ \A l \in Lines : l \in Seq(Range(l)) /\ l # <<>>
  /\ \A l \in Lines : Range(l) \cap {NoKey, Enter, "error", FILL} = {}
  /\ \A k \in DOMAIN Table : Len(Table[k]) = Width

VARIABLES sketch,    \* which of the three (never changes)
          todo,      \* keys the scanner has still to press
          keys,      \* the keys it holds down: its last good report
          prevBuf,   \* the last report that Poll saw
          prevState, \* the last report that Parse kept
          buf,       \* the line buffer: cells, cnt, id (the entry matched), shown
          spilt,     \* a character was stored past the end of the cells
          unplugs,   \* bound
          typed,     \* ghost: what was typed since the last Enter
          torn,      \* ghost: the cable came off since the last Enter, with keys pressed or down
          last       \* ghost: the last line that was typed whole, if the last was

hidVars == <<sketch, todo, keys, prevBuf, prevState, buf, spilt, unplugs, typed, torn, last>>

Sketches == {"MEGA0809", "barcode_0528", "QR_BARCODE_0601"}
Blank    == [k \in 0..Cells - 1 |-> FILL]

HidInit ==
  /\ sketch \in Sketches
  /\ todo = <<>> /\ keys = Nobody /\ prevBuf = Nobody /\ prevState = Nobody
  /\ buf = [cells |-> Blank, cnt |-> 0, id |-> 0, shown |-> <<>>]
  /\ spilt = FALSE /\ unplugs = 0 /\ typed = <<>> /\ torn = FALSE /\ last = <<>>
-----------------------------------------------------------------------------
(***************************************************************************)
(* OnKeyPressed of the three sketches                                      *)
(***************************************************************************)
\* The first width cells, and the entries that they match.
Text(cells, width) == [k \in 1..width |-> cells[k - 1]]
Matches(text)      == {j \in DOMAIN Table : Table[j] = text}

\* Mutant: the search goes on after a match.
LookOn(text, id) == IF Matches(text) = {} THEN id ELSE Max(Matches(text))

\* The first entry that matches; without one BottleID stays.
Look(text, id) == IF Matches(text) = {} THEN id ELSE Min(Matches(text))

\* Mutant: the last cell is not refilled.
RefillShort(cells) == [k \in DOMAIN cells |-> IF k < Width - 1 THEN FILL ELSE cells[k]]

Refill(cells) == [k \in DOMAIN cells |-> IF k < Width THEN FILL ELSE cells[k]]

Put(cells, k, c) == IF k \in DOMAIN cells THEN [cells EXCEPT ![k] = c] ELSE cells

\* MEGA0809 and barcode_0528 do not test the index, QR_BARCODE_0601 does.
Room == IF sketch = "QR_BARCODE_0601" THEN Width ELSE Cells

Store(b, c) ==
  [b EXCEPT !.cells = IF b.cnt < Room THEN Put(b.cells, b.cnt, c) ELSE b.cells,
            !.cnt = b.cnt + 1]

EndLine(b) ==
  CASE sketch = "MEGA0809" ->
         [b EXCEPT !.id = Look(Text(b.cells, Width), b.id),
                   !.cells = Refill(b.cells), !.cnt = 0]
    [] sketch = "barcode_0528" ->
         [b EXCEPT !.cells = Put(b.cells, b.cnt, "newline"), !.cnt = 0]
    [] OTHER ->
         [b EXCEPT !.shown = Text(b.cells, Width), !.cnt = 0]

OnKeyPressed(b, c) == IF c = Enter THEN EndLine(b) ELSE Store(b, c)

\* Storing at this count falls outside the cells (Enter stores in one sketch).
Spills(b, c) ==
  b.cnt >= Cells /\ \/ sketch = "MEGA0809" /\ c # Enter
                    \/ sketch = "barcode_0528"
-----------------------------------------------------------------------------
(***************************************************************************)
(* HIDUniversal::Poll and KeyboardReportParser::Parse                      *)
(***************************************************************************)
\* A key that the last parsed report did not have.
New(k) == k # NoKey /\ k \notin Range(prevState)

\* OnKeyDown for one place of a report.
KeyDown(b, k) == IF New(k) THEN OnKeyPressed(b, k) ELSE b

\* What a store outside the cells overwrites is the linker's choice: from then
\* on an entry of the table may have changed, and any may be taken for a match.
Parse(report) ==
  IF report = Error THEN UNCHANGED <<prevState, buf, spilt>>
  ELSE LET first == KeyDown(buf, report[1])
           next  == KeyDown(first, report[2])
       IN /\ prevState' = report
          /\ spilt' = \/ spilt
                      \/ New(report[1]) /\ Spills(buf, report[1])
                      \/ New(report[2]) /\ Spills(first, report[2])
          /\ \/ buf' = next
             \/ /\ spilt /\ sketch = "MEGA0809" /\ Enter \in Range(report) /\ New(Enter)
                /\ \E j \in DOMAIN Table : buf' = [next EXCEPT !.id = j]

Poll(report) ==
  /\ prevBuf' = report
  /\ IF report = prevBuf THEN UNCHANGED <<prevState, buf, spilt>> ELSE Parse(report)
-----------------------------------------------------------------------------
(***************************************************************************)
(* The scanner, and its cable (external)                                   *)
(***************************************************************************)
ScanCode(l) ==
  /\ todo = <<>> /\ keys = Nobody /\ todo' = Append(l, Enter)
  /\ UNCHANGED <<sketch, keys, prevBuf, prevState, buf, spilt, unplugs, typed, torn, last>>

\* What the line comes to, once the key c is pressed.
Type(c) ==
  IF c # Enter THEN typed' = Append(typed, c) /\ UNCHANGED <<torn, last>>
  ELSE typed' = <<>> /\ torn' = FALSE /\ last' = IF torn THEN <<>> ELSE typed

\* The next key, in place of the key held down or beside it.
PressKey ==
  /\ todo # <<>> /\ Head(todo) \notin Range(keys)
  /\ todo' = Tail(todo)
  /\ keys' \in {<<Head(todo), NoKey>>} \cup
               (IF keys = Nobody THEN {} ELSE {<<keys[1], Head(todo)>>})
  /\ Poll(keys') /\ Type(Head(todo))
  /\ UNCHANGED <<sketch, unplugs>>

ReleaseKeys ==
  /\ keys # Nobody /\ keys' = Nobody /\ Poll(keys')
  /\ UNCHANGED <<sketch, todo, unplugs, typed, torn, last>>

\* The same report again, or a report that the scanner could not read its keys.
Again ==
  /\ Poll(keys) \/ (keys[2] # NoKey /\ Poll(Error))
  /\ UNCHANGED <<sketch, todo, keys, unplugs, typed, torn, last>>

\* The scanner restarts with no key down; HIDUniversal::Release and Init leave
\* the last report as it is, and parser and sketch hear nothing of it.
Unplug ==
  /\ unplugs < MaxUnplugs /\ unplugs' = unplugs + 1
  /\ todo' = <<>> /\ keys' = Nobody
  /\ torn' = (torn \/ typed # <<>> \/ keys # Nobody) /\ typed' = <<>>
  /\ UNCHANGED <<sketch, prevBuf, prevState, buf, spilt, last>>

\* The session of the return box ends: loop() forgets the bottle (line 346).
Forget ==
  /\ sketch = "MEGA0809" /\ buf.id # 0 /\ buf' = [buf EXCEPT !.id = 0] /\ last' = <<>>
  /\ UNCHANGED <<sketch, todo, keys, prevBuf, prevState, spilt, unplugs, typed, torn>>

HidNext == (\E l \in Lines : ScanCode(l)) \/ PressKey \/ ReleaseKeys \/ Again \/ Unplug \/ Forget

HidSpec == HidInit /\ [][HidNext]_hidVars
-----------------------------------------------------------------------------
(***************************************************************************)
(* Properties                                                              *)
(***************************************************************************)
\* While no line was torn and nothing stored outside, the buffer holds the
\* characters typed since the last Enter, each once, however the reports of
\* the keys overlapped, and in the return box nothing of an earlier line.
BufferHoldsLine ==
  ~torn /\ ~spilt =>
    /\ buf.cnt = Len(typed)
    /\ \A k \in 1..Len(typed) : k <= Room => buf.cells[k - 1] = typed[k]
    /\ sketch = "MEGA0809" =>
         \A k \in Len(typed)..Width - 1 : buf.cells[k] = FILL

\* A code padded or cut to the width of the table's entries.
Padded(l) == [k \in 1..Width |-> IF k <= Len(l) THEN l[k] ELSE FILL]

\* A line that was typed whole is taken as it was typed: the return box's
\* bottle is the first entry of the table equal to it, whatever lines, torn or
\* whole, came before; the prototypes show it, if it is long enough.
LastLineTaken ==
  last # <<>> /\ ~spilt =>
    CASE sketch = "MEGA0809" ->
           Matches(Padded(last)) # {} => buf.id = Min(Matches(Padded(last)))
      [] sketch = "barcode_0528" ->
           typed = <<>> /\ ~torn /\ Len(last) < Cells =>
             SubSeq(Text(buf.cells, Cells), 1, Len(last) + 1) = Append(last, "newline")
      [] OTHER -> Len(last) >= Width => buf.shown = Padded(last)
=============================================================================
