---------------------------- MODULE BarcodeReader ----------------------------
(***************************************************************************)
(* Barcode() of src/bottle_collecter_v3: the serial line from the barcode   *)
(* scanner, read one character per pass of loop() into two fixed buffers.   *)
(*                                                                         *)
(* A line is the characters of one scanned code and a newline.  Its first   *)
(* character, 'A' for a member's code, selects the buffer; the newline pads *)
(* the buffer to its full width, so that nothing of an earlier, longer code *)
(* is left behind, and rewinds bar_cnt.  Nothing checks bar_cnt: a line run *)
(* together with another is stored past the end of its buffer.              *)
(*                                                                         *)
(* Code c is the characters <<c, 1>> .. <<c, CodeLen[c]>>; the other        *)
(* characters have second component 0.                                      *)
(***************************************************************************)
EXTENDS Integers, Sequences

CONSTANTS Members,   \* member codes (their first character is 'A')
          Products,  \* product barcodes
          CodeLen,   \* the length of every code
          As,        \* the characters of the codes that are an 'A'
          UserPad,   \* 13: width a member code is padded to
          ItemPad,   \* 14: width a product code is padded to
          RxCap,     \* characters the UART's receive ring holds
          Layouts,   \* how the linker may place the arrays
          MaxScans   \* bound: codes scanned in a behaviour

Codes == Members \cup Products

None == <<>>       \* no code
Torn == <<"torn">> \* no code either, but characters

NUL  == <<"NUL", 0>>    \* what the zero-initialised arrays hold
NL   == <<"newline", 0>>
FILL == <<"A", 0>>      \* the 'A' the buffers are padded with

ASSUME ReaderAssumption ==
  /\ Members \cap Products = {} /\ Codes \cap {None, Torn} = {}
  /\ UserPad \in Nat /\ ItemPad \in Nat /\ RxCap \in Nat /\ MaxScans \in Nat
  /\ CodeLen \in [Codes -> Nat \ {0}]
  /\ \A m \in Members : CodeLen[m] <= UserPad /\ <<m, 1>> \in As
  /\ \A p \in Products : CodeLen[p] <= ItemPad /\ <<p, 1>> \notin As
  /\ Layouts \subseteq {"ascending", "descending", "apart"} /\ Layouts # {}

VARIABLES layout,        \* how user_barcode, barcode and barcode_rec lie in memory
          tx, sent,      \* the code the scanner transmits, and how far it is
          rx,            \* characters received and not yet read
          bar_cnt, bar_mode, user_barcode, barcode,
          scans,         \* bound: codes scanned so far
          got,           \* ghost: what was read since the last newline
          last,          \* ghost: the code each buffer was last filled with
          garbled        \* ghost: buffers that anything but a code was stored in

txVars  == <<tx, sent, scans>>
bufVars == <<bar_cnt, bar_mode, user_barcode, barcode, got, last, garbled>>
barVars == <<layout, txVars, rx, bufVars>>

Blank(pad) == [k \in 0..pad |-> NUL]

\* The characters of code c, and what the scanner transmits for it.
Spelt(c) == [k \in 1..CodeLen[c] |-> <<c, k>>]
Line(c)  == [k \in 1..CodeLen[c] + 1 |-> IF k <= CodeLen[c] THEN <<c, k>> ELSE NL]

\* A buffer that holds code c and nothing else; the last cell stays NUL.
Padded(c, pad) ==
  IF c = None THEN Blank(pad)
  ELSE [k \in 0..pad |-> IF k < CodeLen[c] THEN <<c, k + 1>>
                         ELSE IF k < pad THEN FILL ELSE NUL]

BarInit ==
  /\ layout \in Layouts
  /\ tx = None /\ sent = 0 /\ rx = <<>> /\ scans = 0
  /\ bar_cnt = 0 /\ bar_mode = 2
  /\ user_barcode = Blank(UserPad) /\ barcode = Blank(ItemPad)
  /\ got = <<>> /\ last = [user |-> None, item |-> None] /\ garbled = {}

\* The customer scans code c.
ScannerSends(c) ==
  /\ scans < MaxScans /\ scans' = scans + 1
  /\ tx = None /\ tx' = c /\ sent' = 0
  /\ UNCHANGED <<layout, rx, bufVars>>

\* The next character arrives; a full ring discards it, whichever it is.
Arrive ==
  /\ tx # None
  /\ LET a == Line(tx)[sent + 1]
     IN /\ rx' = IF Len(rx) < RxCap THEN Append(rx, a) ELSE rx
        /\ tx' = IF a = NL THEN None ELSE tx
        /\ sent' = IF a = NL THEN 0 ELSE sent + 1
  /\ UNCHANGED <<layout, scans, bufVars>>

\* 'A' as the first character of a line announces a member code.
ModeOf(a) == IF a \in As THEN 1 ELSE 2
Mode      == IF bar_cnt = 0 THEN ModeOf(Head(rx)) ELSE bar_mode

\* The cell of each array that user_barcode[bar_cnt] or barcode[bar_cnt]
\* denotes: past the end of one array lies the next one up.
UserCell(mode) == IF mode = 1 THEN bar_cnt
                  ELSE IF layout = "descending" THEN bar_cnt - (ItemPad + 1) ELSE -1
ItemCell(mode) == IF mode = 2 THEN bar_cnt
                  ELSE IF layout = "ascending" THEN bar_cnt - (UserPad + 1) ELSE -1

\* A cell outside the array is one of another array, or of memory not modelled.
Put(buf, cell, a) == [k \in DOMAIN buf |-> IF k = cell THEN a ELSE buf[k]]

\* The buffers a store of this mode reaches.
Hit(mode) == {kind \in {"user", "item"} :
                (IF kind = "user" THEN UserCell(mode) ELSE ItemCell(mode)) >= 0}

\* What was read so far is the beginning of some code; or all of it.
Begins(s) == \E c \in Codes : Len(s) <= CodeLen[c] /\ \A k \in 1..Len(s) : s[k] = <<c, k>>
CodeIn(s) == IF \E c \in Codes : s = Spelt(c) THEN CHOOSE c \in Codes : s = Spelt(c) ELSE Torn

Store(a, mode) ==
  /\ user_barcode' = Put(user_barcode, UserCell(mode), a)
  /\ barcode' = Put(barcode, ItemCell(mode), a)
  /\ bar_cnt' = bar_cnt + 1
  /\ got' = Append(got, a)
  /\ last' = [user |-> IF mode = 2 /\ "user" \in Hit(mode) THEN Torn ELSE last.user,
              item |-> IF mode = 1 /\ "item" \in Hit(mode) THEN Torn ELSE last.item]
  /\ garbled' = IF Begins(got') THEN garbled ELSE garbled \cup Hit(mode)

\* Mutant: the padding is one character short.
PadShort(buf, pad) ==
  [k \in DOMAIN buf |-> IF k \in bar_cnt..pad - 2 THEN FILL ELSE buf[k]]

PadFrom(buf, pad) ==
  [k \in DOMAIN buf |-> IF k \in bar_cnt..pad - 1 THEN FILL ELSE buf[k]]

\* The line read is what its buffer was last filled with.
LineEnds(mode) ==
  /\ got' = <<>>
  /\ last' = [last EXCEPT ![IF mode = 1 THEN "user" ELSE "item"] = CodeIn(got)]
  /\ UNCHANGED garbled

\* Mutant: bar_cnt is not rewound.
FinishOnly(mode) ==
  /\ user_barcode' = IF mode = 1 THEN PadFrom(user_barcode, UserPad) ELSE user_barcode
  /\ barcode' = IF mode = 2 THEN PadFrom(barcode, ItemPad) ELSE barcode
  /\ UNCHANGED bar_cnt
  /\ LineEnds(mode)

Finish(mode) ==
  /\ user_barcode' = IF mode = 1 THEN PadFrom(user_barcode, UserPad) ELSE user_barcode
  /\ barcode' = IF mode = 2 THEN PadFrom(barcode, ItemPad) ELSE barcode
  /\ bar_cnt' = 0
  /\ LineEnds(mode)

\* One call of Barcode(): read a character and store it, or end the line.
Barcode ==
  /\ rx # <<>> /\ rx' = Tail(rx)
  /\ bar_mode' = Mode
  /\ IF Head(rx) # NL THEN Store(Head(rx), Mode) ELSE Finish(Mode)
  /\ UNCHANGED <<layout, txVars>>

BarNext == Barcode \/ Arrive \/ \E c \in Codes : ScannerSends(c)

BarSpec == BarInit /\ [][BarNext]_barVars
-----------------------------------------------------------------------------
(***************************************************************************)
(* Properties                                                              *)
(***************************************************************************)
Chars == {<<c, k>> : c \in Codes, k \in 1..UserPad + ItemPad} \cup {NUL, NL, FILL}

\* As long as what was read since the last newline, and the character at hand,
\* are the beginning of a code, the store (user_barcode[bar_cnt] = a or
\* barcode[bar_cnt] = a) stays inside its buffer: however many characters and
\* newlines the receive ring has dropped before, bar_cnt and bar_mode are
\* those of this line alone.
BarInBounds ==
  rx # <<>> /\ Begins(Append(got, Head(rx))) =>
    bar_cnt < IF Mode = 1 THEN UserPad ELSE ItemPad

\* Cell k of a buffer is that of the line being read into it; else that of the
\* code it was last filled with.  The last cell, which the padding leaves alone,
\* is NUL only until anything but a code is stored in the buffer.
HoldsLast(buf, kind, mode, pad) ==
  \A k \in 0..pad :
    IF bar_mode = mode /\ k < Len(got) THEN buf[k] = got[k + 1]
    ELSE IF k < pad THEN last[kind] # Torn => buf[k] = Padded(last[kind], pad)[k]
    ELSE kind \notin garbled => buf[k] = NUL

\* At every moment each buffer is the code last read into it, except for the
\* characters of the line being read: once a code has been read to its end,
\* nothing of a longer code or of a torn line is left before the last cell, and
\* a member's scan never disturbs the product's buffer, nor the reverse, short
\* of a line so long that it is stored past the end of its own.
BuffersHoldLastScan ==
  /\ HoldsLast(user_barcode, "user", 1, UserPad)
  /\ HoldsLast(barcode, "item", 2, ItemPad)
=============================================================================
