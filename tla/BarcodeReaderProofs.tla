------------------------- MODULE BarcodeReaderProofs -------------------------
(***************************************************************************)
(* Theorems about BarcodeReader, for all codes and lengths, buffers,        *)
(* layouts and receive rings of every size.                                *)
(*                                                                         *)
(* The argument: bar_cnt counts, and bar_mode comes from, what was read     *)
(* since the last newline alone (Tracked).  So the place of a character     *)
(* that continues a code is its place in the code, whatever was torn        *)
(* before, and a line that leaves its buffer is no code's.                  *)
(***************************************************************************)
EXTENDS BarcodeReader, SequenceTheorems, TLAPS

Last  == Codes \cup {None, Torn}
Kinds == {"user", "item"}

RxTypes ==
  /\ layout \in Layouts
  /\ tx \in Codes \cup {None} /\ sent \in IF tx = None THEN {0} ELSE 0..CodeLen[tx]
  /\ rx \in Seq(Chars) /\ Len(rx) <= RxCap

BufTypes ==
  /\ bar_cnt \in Nat /\ bar_mode \in {1, 2} /\ got \in Seq(Chars)
  /\ DOMAIN user_barcode = 0..UserPad /\ DOMAIN barcode = 0..ItemPad
  /\ last \in [user : Last, item : Last] /\ garbled \subseteq Kinds

\* The counter and the mode are those of the line being read, and the buffer it
\* has filled to the last cell is marked.
Tracked ==
  /\ Len(got) = bar_cnt
  /\ bar_cnt > 0 => bar_mode = ModeOf(got[1])
  /\ bar_mode = 1 /\ bar_cnt > UserPad => "user" \in garbled
  /\ bar_mode = 2 /\ bar_cnt > ItemPad => "item" \in garbled

BufInv == BufTypes /\ Tracked /\ BuffersHoldLastScan
BarInv == RxTypes /\ BufInv

-----------------------------------------------------------------------------
(***************************************************************************)
(* Codes, lines and the receive ring.                                      *)
(***************************************************************************)
LEMMA CodesFit ==
  ASSUME NEW c \in Codes
  PROVE  /\ CodeLen[c] \in Nat \ {0} /\ CodeLen[c] <= UserPad + ItemPad
         /\ <<c, 1>> \in As => CodeLen[c] <= UserPad
         /\ <<c, 1>> \notin As => CodeLen[c] <= ItemPad
<1>1. CASE c \in Members
  BY <1>1, ReaderAssumption DEF Codes
<1>2. CASE c \in Products
  BY <1>2, ReaderAssumption DEF Codes
<1> QED BY <1>1, <1>2 DEF Codes

LEMMA LineIs ==
  ASSUME NEW c \in Codes, NEW k \in 1..CodeLen[c] + 1
  PROVE  /\ Line(c)[k] \in Chars
         /\ k <= CodeLen[c] => Line(c)[k] = <<c, k>> /\ Line(c)[k] # NL
         /\ k > CodeLen[c] => Line(c)[k] = NL
<1>1. CodeLen[c] \in Nat /\ CodeLen[c] <= UserPad + ItemPad
  BY CodesFit
<1>2. Line(c)[k] = IF k <= CodeLen[c] THEN <<c, k>> ELSE NL
  BY DEF Line
<1>3. CASE k <= CodeLen[c]
  <2>1. k \in 1..UserPad + ItemPad /\ k # 0
    BY <1>1, <1>3, ReaderAssumption
  <2>2. <<c, k>> \in Chars
    BY <2>1 DEF Chars
  <2>3. <<c, k>> # NL
    BY <2>1 DEF NL
  <2> QED BY <1>1, <1>2, <1>3, <2>2, <2>3
<1>4. CASE ~ (k <= CodeLen[c])
  BY <1>1, <1>2, <1>4 DEF Chars
<1> QED BY <1>3, <1>4

LEMMA ScanRx ==
  ASSUME RxTypes, NEW c \in Codes, ScannerSends(c)
  PROVE  RxTypes'
<1>1. c # None /\ CodeLen[c] \in Nat
  BY CodesFit, ReaderAssumption
<1> QED BY <1>1 DEF ScannerSends, RxTypes

LEMMA ArriveRx ==
  ASSUME RxTypes, Arrive
  PROVE  RxTypes'
<1>1. tx \in Codes /\ sent \in 0..CodeLen[tx] /\ CodeLen[tx] \in Nat
  BY CodesFit DEF Arrive, RxTypes
<1>2. PICK a : a = Line(tx)[sent + 1]
  OBVIOUS
<1>3. /\ a \in Chars /\ (a # NL => sent + 1 \in 0..CodeLen[tx])
  <2>1. sent + 1 \in 1..CodeLen[tx] + 1
    BY <1>1
  <2> QED BY <1>1, <1>2, <2>1, LineIs
<1>4. /\ rx' = (IF Len(rx) < RxCap THEN Append(rx, a) ELSE rx) /\ layout' = layout
      /\ tx' = (IF a = NL THEN None ELSE tx) /\ sent' = (IF a = NL THEN 0 ELSE sent + 1)
  BY <1>2 DEF Arrive
<1>5. rx' \in Seq(Chars) /\ Len(rx') <= RxCap
  BY <1>3, <1>4, ReaderAssumption DEF RxTypes
<1>6. tx' \in Codes \cup {None} /\ sent' \in IF tx' = None THEN {0} ELSE 0..CodeLen[tx']
  BY <1>1, <1>3, <1>4, ReaderAssumption
<1> QED BY <1>4, <1>5, <1>6 DEF RxTypes

LEMMA ReadRx ==
  ASSUME RxTypes, Barcode
  PROVE  /\ RxTypes' /\ Head(rx) \in Chars /\ rx # <<>> /\ rx' = Tail(rx)
         /\ bar_mode' = Mode
         /\ Head(rx) # NL => Store(Head(rx), Mode)
         /\ Head(rx) = NL => Finish(Mode)
<1>1. rx # <<>> /\ rx' = Tail(rx) /\ UNCHANGED <<layout, tx, sent>>
  BY DEF Barcode, txVars
<1>2. Head(rx) \in Chars /\ rx' \in Seq(Chars) /\ Len(rx') <= RxCap
  <2>1. rx \in Seq(Chars) /\ Len(rx) <= RxCap
    BY DEF RxTypes
  <2>2. Len(Tail(rx)) = Len(rx) - 1 /\ Len(rx) \in Nat
    BY <1>1, <2>1
  <2> QED BY <1>1, <2>1, <2>2, ReaderAssumption
<1> QED BY <1>1, <1>2 DEF Barcode, RxTypes

-----------------------------------------------------------------------------
(***************************************************************************)
(* The character at hand: one that continues a code is stored in its place. *)
(***************************************************************************)
Padding(mode) == IF mode = 1 THEN UserPad ELSE ItemPad

LEMMA ModeKept ==
  ASSUME BufTypes, Tracked
  PROVE  Mode \in {1, 2} /\ (bar_cnt > 0 => Mode = bar_mode)
BY DEF BufTypes, Tracked, Mode, ModeOf

LEMMA InPlace ==
  ASSUME BufTypes, Tracked, NEW a, a = Head(rx), Begins(Append(got, a))
  PROVE  bar_cnt < Padding(Mode)
<1>1. got \in Seq(Chars) /\ Len(got) = bar_cnt /\ bar_cnt \in Nat
  BY DEF BufTypes, Tracked
<1>2. PICK s : s = Append(got, a)
  OBVIOUS
<1>3. /\ Len(s) = bar_cnt + 1 /\ s[bar_cnt + 1] = a
      /\ \A k \in 1..bar_cnt : s[k] = got[k]
  BY <1>1, <1>2
<1>4. PICK c \in Codes : Len(s) <= CodeLen[c] /\ \A k \in 1..Len(s) : s[k] = <<c, k>>
  BY <1>2 DEF Begins
<1>5. s[1] = <<c, 1>>
  BY <1>1, <1>3, <1>4
<1>6. Mode = ModeOf(<<c, 1>>)
  <2>1. CASE bar_cnt = 0
    BY <1>3, <1>5, <2>1 DEF Mode
  <2>2. CASE bar_cnt # 0
    <3>1. 1 \in 1..bar_cnt
      BY <1>1, <2>2
    <3>2. got[1] = <<c, 1>>
      BY <1>3, <1>5, <3>1
    <3> QED BY <1>1, <2>2, <3>2 DEF Mode, Tracked
  <2> QED BY <2>1, <2>2
<1> QED BY <1>1, <1>3, <1>4, <1>6, CodesFit, ReaderAssumption DEF ModeOf, Padding

LEMMA InvInBounds == BarInv => BarInBounds
BY InPlace DEF BarInv, BufInv, BarInBounds, Padding

-----------------------------------------------------------------------------
(***************************************************************************)
(* The buffers.  Holds is HoldsLast for one buffer, with what it reads of   *)
(* the state as arguments: sel says that the mode selects this buffer.      *)
(***************************************************************************)
Holds(buf, pad, sel, line, code, clean) ==
  \A k \in 0..pad :
    IF sel /\ k < Len(line) THEN buf[k] = line[k + 1]
    ELSE IF k < pad THEN code # Torn => buf[k] = Padded(code, pad)[k]
    ELSE clean => buf[k] = NUL

UserHolds ==
  Holds(user_barcode, UserPad, bar_mode = 1, got, last.user, "user" \notin garbled)
ItemHolds ==
  Holds(barcode, ItemPad, bar_mode = 2, got, last.item, "item" \notin garbled)

HoldsBothIs == BuffersHoldLastScan <=> UserHolds /\ ItemHolds
LEMMA HoldsBoth == HoldsBothIs
BY DEF HoldsBothIs, BuffersHoldLastScan, HoldsLast, Holds, UserHolds, ItemHolds
LEMMA HoldsBothNext == HoldsBothIs'
BY HoldsBoth, PTL

\* A character stored extends the line in its own buffer, and in the other
\* spoils what it reaches.
LEMMA HoldsStored ==
  ASSUME NEW pad \in Nat, NEW buf, NEW to, NEW sel, NEW now, NEW line \in Seq(Chars),
         NEW a \in Chars, NEW code, NEW code2, NEW clean, NEW clean2,
         Holds(buf, pad, sel, line, code, clean), Len(line) > 0 => (now <=> sel),
         now => /\ code2 = code /\ (clean2 => clean)
                /\ \A k \in 0..pad : to[k] = IF k = Len(line) THEN a ELSE buf[k],
         ~ now => /\ code2 # Torn => code2 = code /\ \A k \in 0..pad : to[k] = buf[k]
                  /\ clean2 => clean /\ to[pad] = buf[pad]
  PROVE  Holds(to, pad, now, Append(line, a), code2, clean2)
<1> DEFINE line2 == Append(line, a)
<1>0. /\ Len(line2) = Len(line) + 1 /\ Len(line) \in Nat /\ line2[Len(line) + 1] = a
      /\ \A k \in 1..Len(line) : line2[k] = line[k]
  OBVIOUS
<1> SUFFICES ASSUME NEW k \in 0..pad
             PROVE  IF now /\ k < Len(line2) THEN to[k] = line2[k + 1]
                    ELSE IF k < pad THEN code2 # Torn => to[k] = Padded(code2, pad)[k]
                    ELSE clean2 => to[k] = NUL
  BY DEF Holds
<1> HIDE DEF line2
<1>1. IF sel /\ k < Len(line) THEN buf[k] = line[k + 1]
      ELSE IF k < pad THEN code # Torn => buf[k] = Padded(code, pad)[k]
      ELSE clean => buf[k] = NUL
  BY DEF Holds
<1>2. k < Len(line) => (now <=> sel)
  BY <1>0
<1>3. CASE now /\ k = Len(line)
  BY <1>0, <1>3
<1>4. CASE now /\ k < Len(line)
  <2>1. k + 1 \in 1..Len(line) /\ k # Len(line)
    BY <1>0, <1>4
  <2>2. line2[k + 1] = line[k + 1]
    BY <1>0, <2>1
  <2> QED BY <1>0, <1>1, <1>2, <1>4, <2>1, <2>2
<1>5. CASE now /\ k > Len(line)
  <2>1. ~ (k < Len(line2)) /\ ~ (k < Len(line)) /\ k # Len(line)
    BY <1>0, <1>5
  <2> QED BY <1>1, <1>5, <2>1
<1>6. CASE ~ now
  <2>1. ~ (sel /\ k < Len(line))
    BY <1>2, <1>6
  <2>2. CASE k < pad
    BY <1>1, <1>6, <2>1, <2>2
  <2>3. CASE ~ (k < pad)
    <3>1. k = pad
      BY <2>3
    <3> QED BY <1>1, <1>6, <2>1, <2>3, <3>1
  <2> QED BY <2>2, <2>3
<1> QED BY <1>0, <1>3, <1>4, <1>5, <1>6

\* A newline leaves the line just read, and nothing else, before the last cell.
LEMMA HoldsFinished ==
  ASSUME NEW pad \in Nat, NEW buf, NEW to, NEW sel, NEW now, NEW line \in Seq(Chars),
         NEW code, NEW code2, NEW clean,
         Holds(buf, pad, sel, line, code, clean), Len(line) > 0 => (now <=> sel),
         now => /\ code2 = CodeIn(line) /\ (Len(line) > pad => ~ clean)
                /\ \A k \in 0..pad : to[k] = IF k < Len(line) \/ k = pad THEN buf[k] ELSE FILL,
         ~ now => code2 = code /\ to = buf
  PROVE  Holds(to, pad, FALSE, <<>>, code2, clean)
<1> SUFFICES ASSUME NEW k \in 0..pad
             PROVE  IF k < pad THEN code2 # Torn => to[k] = Padded(code2, pad)[k]
                    ELSE clean => to[k] = NUL
  BY DEF Holds
<1>0. Len(line) \in Nat
  OBVIOUS
<1>1. IF sel /\ k < Len(line) THEN buf[k] = line[k + 1]
      ELSE IF k < pad THEN code # Torn => buf[k] = Padded(code, pad)[k]
      ELSE clean => buf[k] = NUL
  BY DEF Holds
<1>2. k < Len(line) => (now <=> sel)
  BY <1>0
<1>3. CASE now /\ k < pad
  <2> SUFFICES ASSUME code2 # Torn PROVE to[k] = Padded(code2, pad)[k]
    BY <1>3
  <2>1. code2 \in Codes /\ line = Spelt(code2)
    BY <1>3 DEF CodeIn
  <2>2. CodeLen[code2] \in Nat /\ code2 # None
    BY <2>1, CodesFit, ReaderAssumption
  <2>3. Len(line) = CodeLen[code2] /\ \A n \in 1..Len(line) : line[n] = <<code2, n>>
    BY <2>1, <2>2 DEF Spelt
  <2>4. Padded(code2, pad)[k] = IF k < Len(line) THEN <<code2, k + 1>> ELSE FILL
    BY <1>3, <2>2, <2>3 DEF Padded
  <2>5. CASE k < Len(line)
    <3>1. k + 1 \in 1..Len(line)
      BY <1>0, <2>5
    <3> QED BY <1>1, <1>2, <1>3, <2>3, <2>4, <2>5, <3>1
  <2>6. CASE ~ (k < Len(line))
    BY <1>3, <2>4, <2>6
  <2> QED BY <2>5, <2>6
<1>4. CASE now /\ ~ (k < pad)
  <2>1. k = pad /\ to[k] = buf[k]
    BY <1>4
  <2> QED BY <1>0, <1>1, <1>4, <2>1
<1>5. CASE ~ now
  BY <1>1, <1>2, <1>5
<1> QED BY <1>3, <1>4, <1>5

-----------------------------------------------------------------------------
(***************************************************************************)
(* The steps.                                                              *)
(***************************************************************************)
\* The reader after power-up.
FreshReader ==
  /\ bar_cnt = 0 /\ bar_mode = 2 /\ got = <<>> /\ garbled = {}
  /\ user_barcode = Blank(UserPad) /\ barcode = Blank(ItemPad)
  /\ last = [user |-> None, item |-> None]

LEMMA Fresh ==
  ASSUME FreshReader
  PROVE  BufInv
<1>1. BufTypes /\ Tracked
  <2>1. bar_cnt = 0 /\ bar_mode = 2 /\ got = <<>> /\ garbled = {}
    BY DEF FreshReader
  <2>2. got \in Seq(Chars) /\ Len(got) = 0
    BY <2>1
  <2>3. DOMAIN user_barcode = 0..UserPad /\ DOMAIN barcode = 0..ItemPad
    BY DEF FreshReader, Blank
  <2>4. last \in [user : Last, item : Last]
    BY DEF FreshReader, Last
  <2>5. BufTypes
    BY <2>1, <2>2, <2>3, <2>4 DEF BufTypes
  <2>6. Tracked
    BY <2>1, <2>2, ReaderAssumption DEF Tracked
  <2> QED BY <2>5, <2>6
<1>2. \A k : \A pad \in Nat : k \in 0..pad => Padded(None, pad)[k] = NUL /\ Blank(pad)[k] = NUL
  BY DEF Padded, Blank
<1>3. UserHolds /\ ItemHolds
  BY <1>2, ReaderAssumption DEF FreshReader, UserHolds, ItemHolds, Holds
<1> QED BY <1>1, <1>3, HoldsBoth DEF BufInv, HoldsBothIs

LEMMA SameBuffers ==
  ASSUME BufInv, UNCHANGED bufVars
  PROVE  BufInv'
BY DEF bufVars, BufInv, BufTypes, Tracked, BuffersHoldLastScan, HoldsLast

\* Which cells and which buffers a character reaches.
LEMMA Reached ==
  ASSUME BufTypes, Tracked, NEW mode \in {1, 2}
  PROVE  /\ mode = 1 => /\ UserCell(mode) = bar_cnt /\ "user" \in Hit(mode)
                        /\ "item" \notin Hit(mode) => \A k \in 0..ItemPad : k # ItemCell(mode)
                        /\ bar_cnt < UserPad => "item" \notin Hit(mode)
         /\ mode = 2 => /\ ItemCell(mode) = bar_cnt /\ "item" \in Hit(mode)
                        /\ "user" \notin Hit(mode) => \A k \in 0..UserPad : k # UserCell(mode)
                        /\ bar_cnt < ItemPad => "user" \notin Hit(mode)
<1>1. bar_cnt \in Nat /\ UserPad \in Nat /\ ItemPad \in Nat
  BY ReaderAssumption DEF BufTypes
<1>2. /\ "user" \in Hit(mode) <=> UserCell(mode) >= 0
      /\ "item" \in Hit(mode) <=> ItemCell(mode) >= 0
  BY DEF Hit
<1>3. CASE mode = 1
  <2>1. UserCell(mode) = bar_cnt
    BY <1>3 DEF UserCell
  <2>2. ItemCell(mode) = bar_cnt - (UserPad + 1) \/ ItemCell(mode) = -1
    BY <1>3 DEF ItemCell
  <2> QED BY <1>1, <1>2, <1>3, <2>1, <2>2
<1>4. CASE mode = 2
  <2>1. ItemCell(mode) = bar_cnt
    BY <1>4 DEF ItemCell
  <2>2. UserCell(mode) = bar_cnt - (ItemPad + 1) \/ UserCell(mode) = -1
    BY <1>4 DEF UserCell
  <2> QED BY <1>1, <1>2, <1>4, <2>1, <2>2
<1> QED BY <1>3, <1>4

LEMMA StoreKeeps ==
  ASSUME BufInv, NEW a \in Chars, a = Head(rx), bar_mode' = Mode, Store(a, Mode)
  PROVE  BufInv'
<1>1. /\ BufTypes /\ Tracked /\ UserHolds /\ ItemHolds
      /\ UserPad \in Nat /\ ItemPad \in Nat
  BY HoldsBoth, ReaderAssumption DEF BufInv, HoldsBothIs
<1>2. PICK mode \in {1, 2} : mode = Mode /\ (bar_cnt > 0 => mode = bar_mode)
  BY <1>1, ModeKept
<1>3. /\ bar_cnt \in Nat /\ got \in Seq(Chars) /\ Len(got) = bar_cnt
      /\ bar_mode \in {1, 2} /\ last \in [user : Last, item : Last] /\ garbled \subseteq Kinds
      /\ DOMAIN user_barcode = 0..UserPad /\ DOMAIN barcode = 0..ItemPad
  BY <1>1 DEF BufTypes, Tracked
<1>4. /\ bar_mode' = mode /\ bar_cnt' = bar_cnt + 1 /\ got' = Append(got, a)
      /\ user_barcode' = Put(user_barcode, UserCell(mode), a)
      /\ barcode' = Put(barcode, ItemCell(mode), a)
      /\ last' = [user |-> IF mode = 2 /\ "user" \in Hit(mode) THEN Torn ELSE last.user,
                  item |-> IF mode = 1 /\ "item" \in Hit(mode) THEN Torn ELSE last.item]
      /\ garbled' = IF Begins(got') THEN garbled ELSE garbled \cup Hit(mode)
  BY <1>2 DEF Store
<1>5. Begins(got') => bar_cnt < Padding(mode)
  BY <1>1, <1>2, <1>4, InPlace
<1>6. /\ last'.user = IF mode = 2 /\ "user" \in Hit(mode) THEN Torn ELSE last.user
      /\ last'.item = IF mode = 1 /\ "item" \in Hit(mode) THEN Torn ELSE last.item
  BY <1>4
<1>7. garbled' \subseteq Kinds /\ \A x \in garbled : x \in garbled'
  BY <1>3, <1>4 DEF Hit, Kinds
<1>8. \A x \in Hit(mode) : x \in garbled' \/ bar_cnt < Padding(mode)
  BY <1>4, <1>5
<1>9. BufTypes'
  <2>1. DOMAIN user_barcode' = 0..UserPad /\ DOMAIN barcode' = 0..ItemPad
    BY <1>3, <1>4 DEF Put
  <2>2. last' \in [user : Last, item : Last]
    BY <1>3, <1>4, <1>6 DEF Last
  <2>3. bar_cnt' \in Nat /\ bar_mode' \in {1, 2} /\ got' \in Seq(Chars)
    BY <1>3, <1>4
  <2> QED BY <1>7, <2>1, <2>2, <2>3 DEF BufTypes
<1>10. Tracked'
  <2>1. Len(got') = bar_cnt'
    BY <1>3, <1>4
  <2>2. bar_mode' = ModeOf(got'[1])
    <3>1. CASE bar_cnt = 0
      BY <1>2, <1>3, <1>4, <3>1 DEF Mode
    <3>2. CASE bar_cnt # 0
      <4>1. got'[1] = got[1] /\ bar_cnt > 0
        BY <1>3, <1>4, <3>2
      <4> QED BY <1>1, <1>2, <1>4, <4>1 DEF Tracked
    <3> QED BY <3>1, <3>2
  <2>3. /\ bar_mode' = 1 /\ bar_cnt' > UserPad => "user" \in garbled'
        /\ bar_mode' = 2 /\ bar_cnt' > ItemPad => "item" \in garbled'
    BY <1>1, <1>3, <1>4, <1>8, Reached DEF Padding
  <2> QED BY <2>1, <2>2, <2>3 DEF Tracked
<1>11. UserHolds'
  <2> DEFINE clean  == "user" \notin garbled
             clean2 == "user" \notin garbled'
  <2>1. Holds(user_barcode, UserPad, bar_mode = 1, got, last.user, clean)
    BY <1>1 DEF UserHolds
  <2>2. Len(got) > 0 => (mode = 1 <=> bar_mode = 1)
    BY <1>2, <1>3
  <2>3. clean2 => clean
    BY <1>7
  <2>4. mode = 1 => /\ last'.user = last.user
                    /\ \A k \in 0..UserPad :
                         user_barcode'[k] = IF k = Len(got) THEN a ELSE user_barcode[k]
    BY <1>1, <1>3, <1>4, <1>6, Reached DEF Put
  <2>5. ASSUME mode # 1, "user" \notin Hit(mode)
        PROVE  last'.user = last.user /\ \A k \in 0..UserPad : user_barcode'[k] = user_barcode[k]
    <3>1. \A k \in 0..UserPad : k # UserCell(mode)
      BY <1>1, <2>5, Reached
    <3> QED BY <1>3, <1>4, <1>6, <2>5, <3>1 DEF Put
  <2>6. mode # 1 => (last'.user # Torn => "user" \notin Hit(mode))
    BY <1>6
  <2>7. mode # 1 => (clean2 => "user" \notin Hit(mode))
    BY <1>1, <1>8, Reached DEF Padding
  <2>8. UserPad \in 0..UserPad
    BY <1>1
  <2> HIDE DEF clean, clean2
  <2>9. mode # 1 => /\ last'.user # Torn => /\ last'.user = last.user
                                             /\ \A k \in 0..UserPad : user_barcode'[k] = user_barcode[k]
                    /\ clean2 => clean /\ user_barcode'[UserPad] = user_barcode[UserPad]
    BY <2>3, <2>5, <2>6, <2>7, <2>8
  <2> DEFINE sel == bar_mode = 1
             now == mode = 1
             to  == user_barcode'
             is  == last'.user
  <2>10. /\ Holds(user_barcode, UserPad, sel, got, last.user, clean) /\ (Len(got) > 0 => (now <=> sel))
         /\ now => /\ is = last.user /\ (clean2 => clean)
                   /\ \A k \in 0..UserPad : to[k] = IF k = Len(got) THEN a ELSE user_barcode[k]
         /\ ~ now => /\ is # Torn => is = last.user /\ \A k \in 0..UserPad : to[k] = user_barcode[k]
                     /\ clean2 => clean /\ to[UserPad] = user_barcode[UserPad]
    BY <2>1, <2>2, <2>3, <2>4, <2>9
  <2> HIDE DEF sel, now, to, is
  <2>11. Holds(to, UserPad, now, Append(got, a), is, clean2)
    BY <1>1, <1>3, <2>10, HoldsStored
  <2> USE DEF clean2, sel, now, to, is
  <2> QED BY <1>4, <2>11 DEF UserHolds
<1>12. ItemHolds'
  <2> DEFINE clean  == "item" \notin garbled
             clean2 == "item" \notin garbled'
  <2>1. Holds(barcode, ItemPad, bar_mode = 2, got, last.item, clean)
    BY <1>1 DEF ItemHolds
  <2>2. Len(got) > 0 => (mode = 2 <=> bar_mode = 2)
    BY <1>2, <1>3
  <2>3. clean2 => clean
    BY <1>7
  <2>4. mode = 2 => /\ last'.item = last.item
                    /\ \A k \in 0..ItemPad :
                         barcode'[k] = IF k = Len(got) THEN a ELSE barcode[k]
    BY <1>1, <1>3, <1>4, <1>6, Reached DEF Put
  <2>5. ASSUME mode # 2, "item" \notin Hit(mode)
        PROVE  last'.item = last.item /\ \A k \in 0..ItemPad : barcode'[k] = barcode[k]
    <3>1. \A k \in 0..ItemPad : k # ItemCell(mode)
      BY <1>1, <2>5, Reached
    <3> QED BY <1>3, <1>4, <1>6, <2>5, <3>1 DEF Put
  <2>6. mode # 2 => (last'.item # Torn => "item" \notin Hit(mode))
    BY <1>6
  <2>7. mode # 2 => (clean2 => "item" \notin Hit(mode))
    BY <1>1, <1>8, Reached DEF Padding
  <2>8. ItemPad \in 0..ItemPad
    BY <1>1
  <2> HIDE DEF clean, clean2
  <2>9. mode # 2 => /\ last'.item # Torn => /\ last'.item = last.item
                                             /\ \A k \in 0..ItemPad : barcode'[k] = barcode[k]
                    /\ clean2 => clean /\ barcode'[ItemPad] = barcode[ItemPad]
    BY <2>3, <2>5, <2>6, <2>7, <2>8
  <2> DEFINE sel == bar_mode = 2
             now == mode = 2
             to  == barcode'
             is  == last'.item
  <2>10. /\ Holds(barcode, ItemPad, sel, got, last.item, clean) /\ (Len(got) > 0 => (now <=> sel))
         /\ now => /\ is = last.item /\ (clean2 => clean)
                   /\ \A k \in 0..ItemPad : to[k] = IF k = Len(got) THEN a ELSE barcode[k]
         /\ ~ now => /\ is # Torn => is = last.item /\ \A k \in 0..ItemPad : to[k] = barcode[k]
                     /\ clean2 => clean /\ to[ItemPad] = barcode[ItemPad]
    BY <2>1, <2>2, <2>3, <2>4, <2>9
  <2> HIDE DEF sel, now, to, is
  <2>11. Holds(to, ItemPad, now, Append(got, a), is, clean2)
    BY <1>1, <1>3, <2>10, HoldsStored
  <2> USE DEF clean2, sel, now, to, is
  <2> QED BY <1>4, <2>11 DEF ItemHolds
<1> QED BY <1>9, <1>10, <1>11, <1>12, HoldsBothNext DEF BufInv, HoldsBothIs

\* A newline read as the end of a line of this mode.
LEMMA FinishKeeps ==
  ASSUME BufInv, bar_mode' = Mode, Finish(Mode)
  PROVE  /\ BufInv' /\ bar_cnt' = 0 /\ got' = <<>> /\ garbled' = garbled
         /\ last'.user = IF Mode = 1 THEN CodeIn(got) ELSE last.user
         /\ last'.item = IF Mode = 2 THEN CodeIn(got) ELSE last.item
<1>1. /\ BufTypes /\ Tracked /\ UserHolds /\ ItemHolds
      /\ UserPad \in Nat /\ ItemPad \in Nat
  BY HoldsBoth, ReaderAssumption DEF BufInv, HoldsBothIs
<1>2. PICK mode \in {1, 2} : mode = Mode /\ (bar_cnt > 0 => mode = bar_mode)
  BY <1>1, ModeKept
<1>3. /\ bar_cnt \in Nat /\ got \in Seq(Chars) /\ Len(got) = bar_cnt
      /\ bar_mode \in {1, 2} /\ last \in [user : Last, item : Last] /\ garbled \subseteq Kinds
      /\ DOMAIN user_barcode = 0..UserPad /\ DOMAIN barcode = 0..ItemPad
  BY <1>1 DEF BufTypes, Tracked
<1>4. /\ bar_mode' = mode /\ bar_cnt' = 0 /\ got' = <<>> /\ garbled' = garbled
      /\ user_barcode' = IF mode = 1 THEN PadFrom(user_barcode, UserPad) ELSE user_barcode
      /\ barcode' = IF mode = 2 THEN PadFrom(barcode, ItemPad) ELSE barcode
      /\ last' = [last EXCEPT ![IF mode = 1 THEN "user" ELSE "item"] = CodeIn(got)]
  BY <1>2 DEF Finish, LineEnds
<1>5. /\ last'.user = IF mode = 1 THEN CodeIn(got) ELSE last.user
      /\ last'.item = IF mode = 2 THEN CodeIn(got) ELSE last.item
  <2>1. CASE mode = 1
    BY <1>3, <1>4, <2>1
  <2>2. CASE mode = 2
    BY <1>3, <1>4, <2>2
  <2> QED BY <1>2, <2>1, <2>2
<1>6. CodeIn(got) \in Last
  BY DEF CodeIn, Last
<1>7. BufTypes'
  <2>1. DOMAIN user_barcode' = 0..UserPad /\ DOMAIN barcode' = 0..ItemPad
    BY <1>3, <1>4 DEF PadFrom
  <2>2. last' \in [user : Last, item : Last]
    BY <1>3, <1>4, <1>5, <1>6
  <2> QED BY <1>3, <1>4, <2>1, <2>2 DEF BufTypes
<1>8. Tracked'
  BY <1>1, <1>4 DEF Tracked
<1>9. UserHolds'
  <2> DEFINE clean == "user" \notin garbled
  <2>1. Holds(user_barcode, UserPad, bar_mode = 1, got, last.user, clean)
    BY <1>1 DEF UserHolds
  <2>2. Len(got) > 0 => (mode = 1 <=> bar_mode = 1)
    BY <1>2, <1>3
  <2>3. mode = 1 => (Len(got) > UserPad => ~ clean)
    BY <1>1, <1>2, <1>3 DEF Tracked
  <2>4. mode = 1 => \A k \in 0..UserPad : user_barcode'[k] =
                      IF k < Len(got) \/ k = UserPad THEN user_barcode[k] ELSE FILL
    BY <1>1, <1>3, <1>4 DEF PadFrom
  <2>5. mode # 1 => user_barcode' = user_barcode
    BY <1>4
  <2> HIDE DEF clean
  <2>6. Holds(user_barcode', UserPad, FALSE, <<>>, last'.user, clean)
    BY <1>1, <1>3, <1>5, <2>1, <2>2, <2>3, <2>4, <2>5, HoldsFinished
  <2> USE DEF clean
  <2> QED BY <1>4, <2>6 DEF UserHolds, Holds
<1>10. ItemHolds'
  <2> DEFINE clean == "item" \notin garbled
  <2>1. Holds(barcode, ItemPad, bar_mode = 2, got, last.item, clean)
    BY <1>1 DEF ItemHolds
  <2>2. Len(got) > 0 => (mode = 2 <=> bar_mode = 2)
    BY <1>2, <1>3
  <2>3. mode = 2 => (Len(got) > ItemPad => ~ clean)
    BY <1>1, <1>2, <1>3 DEF Tracked
  <2>4. mode = 2 => \A k \in 0..ItemPad : barcode'[k] =
                      IF k < Len(got) \/ k = ItemPad THEN barcode[k] ELSE FILL
    BY <1>1, <1>3, <1>4 DEF PadFrom
  <2>5. mode # 2 => barcode' = barcode
    BY <1>4
  <2> HIDE DEF clean
  <2>6. Holds(barcode', ItemPad, FALSE, <<>>, last'.item, clean)
    BY <1>1, <1>3, <1>5, <2>1, <2>2, <2>3, <2>4, <2>5, HoldsFinished
  <2> USE DEF clean
  <2> QED BY <1>4, <2>6 DEF ItemHolds, Holds
<1> QED BY <1>2, <1>4, <1>5, <1>7, <1>8, <1>9, <1>10, HoldsBothNext DEF BufInv, HoldsBothIs

-----------------------------------------------------------------------------
(***************************************************************************)
(* The theorems.                                                           *)
(***************************************************************************)
LEMMA InitBar == BarInit => BarInv
<1> SUFFICES ASSUME BarInit PROVE BarInv
  OBVIOUS
<1>1. RxTypes
  <2>1. rx \in Seq(Chars) /\ Len(rx) = 0 /\ RxCap \in Nat
    BY ReaderAssumption DEF BarInit
  <2> QED BY <2>1 DEF BarInit, RxTypes
<1>2. FreshReader
  BY DEF BarInit, FreshReader
<1> QED BY <1>1, <1>2, Fresh DEF BarInv

LEMMA BarStep == BarInv /\ [BarNext]_barVars => BarInv'
<1> SUFFICES ASSUME BarInv, [BarNext]_barVars PROVE BarInv'
  OBVIOUS
<1>1. RxTypes /\ BufInv
  BY DEF BarInv
<1>2. ASSUME NEW c \in Codes, ScannerSends(c) PROVE BarInv'
  <2>1. UNCHANGED bufVars
    BY <1>2 DEF ScannerSends
  <2> QED BY <1>1, <1>2, <2>1, ScanRx, SameBuffers DEF BarInv
<1>3. CASE Arrive
  <2>1. UNCHANGED bufVars
    BY <1>3 DEF Arrive
  <2> QED BY <1>1, <1>3, <2>1, ArriveRx, SameBuffers DEF BarInv
<1>4. CASE Barcode
  BY <1>1, <1>4, ReadRx, StoreKeeps, FinishKeeps DEF BarInv
<1>5. CASE UNCHANGED barVars
  <2>1. UNCHANGED bufVars /\ RxTypes'
    BY <1>1, <1>5 DEF barVars, txVars, RxTypes
  <2> QED BY <1>1, <2>1, SameBuffers DEF BarInv
<1> QED BY <1>2, <1>3, <1>4, <1>5 DEF BarNext

LEMMA BarAlways == BarSpec => []BarInv
BY InitBar, BarStep, PTL DEF BarSpec

\* Whatever is scanned, and whichever characters the receive ring drops,
\* user_barcode[bar_cnt] = a and barcode[bar_cnt] = a stay within the array
\* while the line read is the beginning of a code.
THEOREM AlwaysInBounds == BarSpec => []BarInBounds
BY BarAlways, InvInBounds, PTL

\* Each buffer is the code last read into it, but for the characters of the
\* line being read: nothing of an earlier code or of a torn line is left before
\* the last cell, nor in it until anything but a code has been stored there.
THEOREM BuffersAlwaysHoldLastScan == BarSpec => []BuffersHoldLastScan
<1>1. BarInv => BuffersHoldLastScan
  BY DEF BarInv, BufInv
<1> QED BY <1>1, BarAlways, PTL
=============================================================================
