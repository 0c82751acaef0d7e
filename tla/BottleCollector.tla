--------------------------- MODULE BottleCollector ---------------------------
(***************************************************************************)
(* The bottle collector, src/bottle_collecter_v3: loop() visits the slots   *)
(* in turn, registers a bottle that appeared (Pin mode 1) or one that was   *)
(* taken (Pin mode 2), and then reads at most one character of the barcode  *)
(* scanner (module BarcodeReader).  Everything blocks, so customers scan,   *)
(* place and take bottles between any two steps of the sketch, and the      *)
(* power may fail at any of them.                                           *)
(*                                                                         *)
(* pc is where the sketch is:                                               *)
(*   scan    digitalRead of slot i          serial  end of the pass         *)
(*   insert  after delay(1500)              remove  after delay(500)        *)
(*   weigh   in Weight(slot, 1)             report_out  in send_data(2)     *)
(*   report_in  in send_data(1)             unweigh  in Weight(slot, 2)     *)
(*                                                                         *)
(* The record send_data transmits is fixed when it is called; how it gets   *)
(* through the modem is the subject of module AtModem.                      *)
(***************************************************************************)
EXTENDS BarcodeReader, FiniteSets

CONSTANTS NSlots,     \* 20 slots, each with a switch under it
          Weights,    \* grams a bottle may weigh
          Noise,      \* grams a reading of the scale may be off
          MaxMoves,   \* bound: bottles placed or taken in a behaviour
          MaxReboots, \* bound: power failures in a behaviour
          Orderly,    \* customers act only while the sketch has nothing to do
          Lifo        \* customers take the bottle placed last

Slots == 0..NSlots - 1

ASSUME CollectorAssumption ==
  /\ NSlots \in Nat \ {0}
  /\ Weights \subseteq Nat \ {0} /\ Noise \subseteq Int
  /\ MaxMoves \in Nat /\ MaxReboots \in Nat
  /\ Orderly \in BOOLEAN /\ Lifo \in BOOLEAN

VARIABLES pc, i, pin_usg, bottle_cnt, pin_cnt, weight_rec, pin_rec,
          barcode_rec, total_weight,
          occ,      \* grams standing on each slot, 0 if none
          load,     \* grams standing on the platform
          tare,     \* load at power-up, the scale's zero
          moves, reboots,
          scanned,  \* ghost: the member at the machine, the product in hand, and
                    \* whether the collector was emptied since it was scanned
          tag,      \* ghost: the same and the weight, for the bottle on each slot
          reported  \* ghost: bottles and grams reported since power-up

recVars == <<pin_usg, bottle_cnt, pin_cnt, weight_rec, pin_rec, total_weight>>
envVars == <<occ, load, tare, moves, reboots, scanned, tag>>
readerVars == <<layout, txVars, rx, bar_cnt, bar_mode, user_barcode, got>>
vars    == <<pc, i, recVars, barcode_rec, envVars, reported, barVars>>

JUNK  == <<"junk", 0>>   \* the low byte of the address of ""
Wiped == [k \in 0..ItemPad |-> JUNK]
Nobody == [user |-> None, item |-> None, emptied |-> FALSE]
NoTag  == [user |-> None, item |-> None, emptied |-> FALSE, weight |-> 0, nth |-> 0]

Zeros == [k \in Slots |-> 0]

Init ==
  /\ pc = "scan" /\ i = 0
  /\ pin_usg = [s \in Slots |-> FALSE]
  /\ bottle_cnt = 0 /\ pin_cnt = 0 /\ total_weight = 0
  /\ weight_rec = Zeros /\ pin_rec = Zeros
  /\ barcode_rec = [k \in Slots |-> Blank(ItemPad)]
  /\ reported = [n |-> 0, w |-> 0]
  /\ BarInit
  /\ occ = Zeros /\ load = 0 /\ tare = 0
  /\ moves = 0 /\ reboots = 0
  /\ scanned = Nobody
  /\ tag = [s \in Slots |-> NoTag]
-----------------------------------------------------------------------------
(***************************************************************************)
(* The sketch                                                              *)
(***************************************************************************)
\* The next slot of the pass, or the serial ports after the last one.
NextSlot ==
  IF i = NSlots - 1 THEN pc' = "serial" /\ i' = 0 ELSE pc' = "scan" /\ i' = i + 1

\* Mutant: slots that were emptied are passed over.
ScanArrivals ==
  /\ pc = "scan"
  /\ IF occ[i] > 0 /\ ~pin_usg[i] THEN pc' = "insert" /\ UNCHANGED i ELSE NextSlot
  /\ UNCHANGED <<recVars, barcode_rec, envVars, reported, barVars>>

\* digitalRead(pin_num[i]) compared with what was registered.
Scan ==
  /\ pc = "scan"
  /\ \/ occ[i] > 0 /\ ~pin_usg[i] /\ pc' = "insert" /\ UNCHANGED i
     \/ occ[i] = 0 /\ pin_usg[i] /\ pc' = "remove" /\ UNCHANGED i
     \/ (occ[i] > 0) = pin_usg[i] /\ NextSlot
  /\ UNCHANGED <<recVars, barcode_rec, envVars, reported, barVars>>

\* Mutant: the slot is not marked as used.
InsertUnmarked ==
  /\ pc = "insert"
  /\ IF occ[i] > 0 THEN pc' = "weigh" /\ UNCHANGED i ELSE NextSlot
  /\ UNCHANGED <<recVars, barcode_rec, envVars, reported, barVars>>

\* Pin(i, 1) after its delay: is the bottle still there?
Insert ==
  /\ pc = "insert"
  /\ IF occ[i] > 0
     THEN pin_usg' = [pin_usg EXCEPT ![i] = TRUE] /\ pc' = "weigh" /\ UNCHANGED i
     ELSE NextSlot /\ UNCHANGED pin_usg
  /\ UNCHANGED <<bottle_cnt, pin_cnt, weight_rec, pin_rec, total_weight,
                 barcode_rec, envVars, reported, barVars>>

\* Mutant: bottle_cnt is incremented before the weight is stored.
WeighLate ==
  /\ pc = "weigh"
  /\ \E e \in Noise :
       /\ total_weight' = load - tare + e
       /\ weight_rec' = [weight_rec EXCEPT ![bottle_cnt + 1] = total_weight' - total_weight]
  /\ bottle_cnt' = bottle_cnt + 1 /\ pin_cnt' = pin_cnt + 1
  /\ pin_rec' = [pin_rec EXCEPT ![pin_cnt] = i]
  /\ pc' = "report_in"
  /\ UNCHANGED <<i, pin_usg, barcode_rec, envVars, reported, barVars>>

\* Weight(i, 1): what the platform carries beyond the total is the new bottle.
Weigh ==
  /\ pc = "weigh"
  /\ \E e \in Noise :
       LET val == (load - tare + e) - total_weight
       IN /\ total_weight' = total_weight + val
          /\ weight_rec' = [weight_rec EXCEPT ![bottle_cnt] = val]
  /\ bottle_cnt' = bottle_cnt + 1
  /\ pin_rec' = [pin_rec EXCEPT ![pin_cnt] = i]
  /\ pin_cnt' = pin_cnt + 1
  /\ pc' = "report_in"
  /\ UNCHANGED <<i, pin_usg, barcode_rec, envVars, reported, barVars>>

\* The record send_data(mode) builds.  For a removal the barcode is read from
\* the row whose number is the slot in the newest entry of pin_rec.
Record(mode) ==
  [user   |-> user_barcode,
   code   |-> IF mode = 1 THEN barcode ELSE barcode_rec[pin_rec[pin_cnt - 1]],
   slot   |-> pin_rec[pin_cnt - 1],
   weight |-> weight_rec[bottle_cnt - 1],
   total  |-> total_weight,
   mode   |-> mode]

\* send_data(1), then the scanned barcode is kept in the newest row.
ReportIn ==
  /\ pc = "report_in"
  /\ reported' = [n |-> reported.n + 1, w |-> reported.w + Record(1).weight]
  /\ barcode_rec' = [barcode_rec EXCEPT ![pin_cnt - 1] = barcode]
  /\ NextSlot
  /\ UNCHANGED <<recVars, envVars, barVars>>

\* Mutant: the slot is marked as free before it is read again.
RemoveEarly ==
  /\ pc = "remove"
  /\ pin_usg' = [pin_usg EXCEPT ![i] = FALSE]
  /\ IF occ[i] = 0 THEN pc' = "report_out" /\ UNCHANGED i ELSE NextSlot
  /\ UNCHANGED <<bottle_cnt, pin_cnt, weight_rec, pin_rec, total_weight,
                 barcode_rec, envVars, reported, barVars>>

\* Pin(i, 2) after its delay: is the slot still empty?
Remove ==
  /\ pc = "remove"
  /\ IF occ[i] = 0
     THEN pin_usg' = [pin_usg EXCEPT ![i] = FALSE] /\ pc' = "report_out" /\ UNCHANGED i
     ELSE NextSlot /\ UNCHANGED pin_usg
  /\ UNCHANGED <<bottle_cnt, pin_cnt, weight_rec, pin_rec, total_weight,
                 barcode_rec, envVars, reported, barVars>>

\* Mutant: the weight of the slot's own index is reported.
ReportSlot ==
  /\ pc = "report_out"
  /\ reported' = [n |-> reported.n - 1, w |-> reported.w - weight_rec[i]]
  /\ pc' = "unweigh"
  /\ UNCHANGED <<i, recVars, barcode_rec, envVars, barVars>>

\* send_data(2): the newest record is reported as the one removed.
ReportOut ==
  /\ pc = "report_out"
  /\ reported' = [n |-> reported.n - 1, w |-> reported.w - Record(2).weight]
  /\ pc' = "unweigh"
  /\ UNCHANGED <<i, recVars, barcode_rec, envVars, barVars>>

\* barcode_rec[row] is overwritten with "".  Row -1 is whatever lies below
\* the array: barcode, or memory that is not modelled.
ClearRow(row) ==
  IF row \in Slots
  THEN /\ barcode_rec' = [barcode_rec EXCEPT ![row] = Wiped]
       /\ UNCHANGED <<barcode, last, garbled>>
  ELSE /\ UNCHANGED barcode_rec
       /\ IF layout = "ascending"
          THEN /\ barcode' = Wiped
               /\ last' = [last EXCEPT !.item = Torn] /\ garbled' = garbled \cup {"item"}
          ELSE UNCHANGED <<barcode, last, garbled>>

\* Mutant: the weight of the slot's own index is dropped.
UnweighSlot ==
  /\ pc = "unweigh"
  /\ total_weight' = total_weight - weight_rec[i]
  /\ weight_rec' = [weight_rec EXCEPT ![i] = 0]
  /\ bottle_cnt' = bottle_cnt - 1 /\ pin_cnt' = pin_cnt - 1
  /\ pin_rec' = [pin_rec EXCEPT ![pin_cnt - 1] = 0]
  /\ ClearRow(pin_cnt - 2) /\ NextSlot
  /\ UNCHANGED <<pin_usg, envVars, reported, readerVars>>

\* Mutant: pin_cnt is not decremented.
UnweighHalf ==
  /\ pc = "unweigh"
  /\ total_weight' = total_weight - weight_rec[bottle_cnt - 1]
  /\ weight_rec' = [weight_rec EXCEPT ![bottle_cnt - 1] = 0]
  /\ bottle_cnt' = bottle_cnt - 1
  /\ pin_rec' = [pin_rec EXCEPT ![pin_cnt - 1] = 0]
  /\ ClearRow(pin_cnt - 1) /\ NextSlot
  /\ UNCHANGED <<pin_cnt, pin_usg, envVars, reported, readerVars>>

\* Weight(i, 2) drops the newest record; the row cleared is chosen after
\* pin_cnt was decremented.
Unweigh ==
  /\ pc = "unweigh"
  /\ total_weight' = total_weight - weight_rec[bottle_cnt - 1]
  /\ weight_rec' = [weight_rec EXCEPT ![bottle_cnt - 1] = 0]
  /\ bottle_cnt' = bottle_cnt - 1
  /\ pin_rec' = [pin_rec EXCEPT ![pin_cnt - 1] = 0]
  /\ pin_cnt' = pin_cnt - 1
  /\ ClearRow(pin_cnt - 2)
  /\ NextSlot
  /\ UNCHANGED <<pin_usg, envVars, reported, readerVars>>

\* Above barcode lie the rows of barcode_rec: a line too long goes on there.
RecCell(mode) == IF layout = "ascending" THEN ItemCell(mode) - (ItemPad + 1) ELSE -1

StoreBeyond ==
  barcode_rec' =
    [row \in Slots |-> [k \in 0..ItemPad |->
       IF Head(rx) # NL /\ RecCell(Mode) = row * (ItemPad + 1) + k
       THEN Head(rx) ELSE barcode_rec[row][k]]]

\* if (Serial3.available()) Barcode();
ReadSerial ==
  /\ pc = "serial"
  /\ pc' = "scan"
  /\ \/ Barcode /\ StoreBeyond
     \/ rx = <<>> /\ UNCHANGED <<barVars, barcode_rec>>
  /\ UNCHANGED <<i, recVars, envVars, reported>>

Sketch == \/ Scan \/ Insert \/ Weigh \/ ReportIn
          \/ Remove \/ ReportOut \/ Unweigh \/ ReadSerial
-----------------------------------------------------------------------------
(***************************************************************************)
(* Customers, the scanner and the power supply                             *)
(***************************************************************************)
Standing == {s \in Slots : occ[s] > 0}

\* Nothing is left for the sketch to notice.
Quiet ==
  /\ pc \in {"scan", "serial"} /\ tx = None /\ rx = <<>>
  /\ \A s \in Slots : pin_usg[s] = (s \in Standing)

MayAct == (Orderly => Quiet) /\ moves < MaxMoves

PlaceBottle(s, w) ==
  /\ MayAct /\ occ[s] = 0
  /\ occ' = [occ EXCEPT ![s] = w] /\ load' = load + w /\ moves' = moves + 1
  /\ tag' = [tag EXCEPT ![s] = [user |-> scanned.user, item |-> scanned.item,
                                emptied |-> scanned.emptied,
                                weight |-> w, nth |-> Cardinality(Standing) + 1]]
  /\ scanned' = [scanned EXCEPT !.item = None]
  /\ UNCHANGED <<pc, i, recVars, barcode_rec, tare, reboots, reported, barVars>>

LiftBottle(s) ==
  /\ MayAct /\ occ[s] > 0
  /\ Lifo => tag[s].nth = Cardinality(Standing)
  /\ occ' = [occ EXCEPT ![s] = 0] /\ load' = load - occ[s] /\ moves' = moves + 1
  /\ scanned' = [scanned EXCEPT !.emptied = @ \/ Standing = {s}]
  /\ UNCHANGED <<pc, i, recVars, barcode_rec, tare, reboots, tag, reported, barVars>>

ScanCode(c) ==
  /\ Orderly => Quiet
  /\ ScannerSends(c)
  /\ scanned' = IF c \in Members THEN [scanned EXCEPT !.user = c]
                ELSE [scanned EXCEPT !.item = c, !.emptied = FALSE]
  /\ UNCHANGED <<pc, i, recVars, barcode_rec, occ, load, tare, moves, reboots, tag,
                 reported>>

ScannerWorks == Arrive /\ UNCHANGED <<pc, i, recVars, barcode_rec, envVars, reported>>

\* The power fails and returns: setup() tares the scale under what stands on it.
\* The scanner may go on with its line.
Reboot ==
  /\ reboots < MaxReboots /\ reboots' = reboots + 1
  /\ tare' = load
  /\ pc' = "scan" /\ i' = 0
  /\ pin_usg' = [s \in Slots |-> FALSE]
  /\ bottle_cnt' = 0 /\ pin_cnt' = 0 /\ total_weight' = 0
  /\ weight_rec' = Zeros /\ pin_rec' = Zeros
  /\ barcode_rec' = [k \in Slots |-> Blank(ItemPad)]
  /\ reported' = [n |-> 0, w |-> 0]
  /\ tx' \in {tx, None} /\ sent' = IF tx' = None THEN 0 ELSE sent
  /\ rx' = <<>> /\ bar_cnt' = 0 /\ bar_mode' = 2
  /\ user_barcode' = Blank(UserPad) /\ barcode' = Blank(ItemPad)
  /\ got' = <<>> /\ last' = [user |-> None, item |-> None] /\ garbled' = {}
  /\ UNCHANGED <<occ, load, moves, scanned, tag, layout, scans>>

Environment ==
  \/ \E s \in Slots : LiftBottle(s) \/ \E w \in Weights : PlaceBottle(s, w)
  \/ \E c \in Codes : ScanCode(c)
  \/ ScannerWorks
  \/ Reboot

Next == Sketch \/ Environment

\* loop() runs for ever; customers need not come.
Spec == Init /\ [][Next]_vars /\ WF_vars(Sketch)
-----------------------------------------------------------------------------
(***************************************************************************)
(* Properties                                                              *)
(***************************************************************************)
Cells == Chars \cup {JUNK}

ReaderTypeOK ==
  /\ layout \in Layouts
  /\ tx \in Codes \cup {None} /\ sent \in IF tx = None THEN {0} ELSE 0..CodeLen[tx]
  /\ rx \in Seq(Chars) /\ Len(rx) <= RxCap /\ bar_cnt \in Nat /\ bar_mode \in {1, 2}
  /\ user_barcode \in [0..UserPad -> Chars] /\ barcode \in [0..ItemPad -> Cells]

\* Every variable of the sketch and of its surroundings holds a value of its
\* type (the ghosts of the reader apart).
TypeOK ==
  /\ pc \in {"scan", "insert", "weigh", "report_in", "remove", "report_out",
             "unweigh", "serial"}
  /\ i \in Slots
  /\ pin_usg \in [Slots -> BOOLEAN]
  /\ bottle_cnt \in 0..NSlots /\ pin_cnt \in 0..NSlots
  /\ total_weight \in Int
  /\ weight_rec \in [Slots -> Int] /\ pin_rec \in [Slots -> Slots]
  /\ barcode_rec \in [Slots -> [0..ItemPad -> Cells]]
  /\ ReaderTypeOK
  /\ occ \in [Slots -> Weights \cup {0}] /\ load \in Int /\ tare \in Int
  /\ moves \in 0..MaxMoves /\ reboots \in 0..MaxReboots
  /\ reported \in [n : Int, w : Int]

Registered == {s \in Slots : pin_usg[s]}

\* pin_cnt is bottle_cnt (the comment on pin_cnt++ asks for it), and both are
\* the number of registered slots, except between setting pin_usg and
\* adjusting the records, when the slot at hand is counted early.
CountsAgree ==
  /\ pin_cnt = bottle_cnt
  /\ bottle_cnt + (IF pc = "weigh" THEN 1 ELSE 0)
       = Cardinality(Registered) + (IF pc \in {"report_out", "unweigh"} THEN 1 ELSE 0)

\* Weight() and send_data() index the twenty-entry arrays inside their bounds,
\* however customers interleave with the sketch: bottle_cnt and pin_cnt before
\* an insertion, bottle_cnt - 1 and pin_cnt - 1 afterwards and at a removal.
IndexInBounds ==
  /\ pc = "weigh" => bottle_cnt \in Slots /\ pin_cnt \in Slots
  /\ pc \in {"report_in", "report_out", "unweigh"} =>
       bottle_cnt - 1 \in Slots /\ pin_cnt - 1 \in Slots

RecSum[k \in 0..NSlots] == IF k = 0 THEN 0 ELSE RecSum[k - 1] + weight_rec[k - 1]

\* total_weight is the sum of the weights on record: no interleaving of
\* customers, noise of the scale or power failure makes the two drift apart.
TotalIsSum == total_weight = RecSum[bottle_cnt]

\* What was reported since power-up, insertions less removals, is what the
\* sketch holds, in bottles and in grams; it differs by exactly the record at
\* hand between Weight() and send_data(), whose order differs in the two modes.
BooksMatch ==
  IF pc \in {"report_in", "unweigh"}
  THEN /\ reported.n = bottle_cnt - 1
       /\ reported.w = total_weight - weight_rec[bottle_cnt - 1]
  ELSE reported.n = bottle_cnt /\ reported.w = total_weight

\* The product's buffer reads c.  Emptying the collector may overwrite it: the
\* row cleared is then the one below barcode_rec.  What that leaves in the last
\* cell, no later scan replaces.
ShowsItem(buf, c, emptied) ==
  IF layout = "ascending"
  THEN ~emptied => \A k \in 0..ItemPad - 1 : buf[k] = Padded(c, ItemPad)[k]
  ELSE buf = Padded(c, ItemPad)

\* For orderly customers an insertion is reported with the member at the machine
\* and the product scanned for this bottle (if any was), its slot, its weight and
\* the weight then on the platform; the one exception is a product scanned before
\* the last bottle was taken out, where the linker put barcode below barcode_rec.
InsertionReportTrue ==
  pc = "report_in" /\ reboots = 0 =>
    LET r == Record(1)
    IN /\ tag[i].user # None => r.user = Padded(tag[i].user, UserPad)
       /\ tag[i].item # None => ShowsItem(r.code, tag[i].item, tag[i].emptied)
       /\ r.slot = i /\ r.weight = tag[i].weight /\ r.total = load

\* For orderly customers who take bottles in reverse order, a removal is
\* reported with the slot and the weight of the bottle that was taken.
RemovalReportTrue ==
  pc = "report_out" /\ reboots = 0 =>
    Record(2).slot = i /\ Record(2).weight = tag[i].weight

\* A bottle left standing is registered in the end, and the registration of a
\* slot left empty is undone, also across power failures.
EveryBottleNoticed ==
  \A s \in Slots : /\ occ[s] > 0 ~> occ[s] = 0 \/ pin_usg[s]
                   /\ occ[s] = 0 ~> occ[s] > 0 \/ ~pin_usg[s]

\* When customers stop coming, the number of bottles reported since power-up
\* settles at the number of bottles that stand in the collector.
ReportsSettle == <>[](reported.n = Cardinality(Standing))

\* The reports, read in order, are those of a ledger of at most NSlots weights:
\* each removal takes back the very weight of the insertion it is matched with.
Ledger == INSTANCE StackLedger
            WITH Capacity <- NSlots,
                 stack    <- [k \in 1..reported.n |-> weight_rec[k - 1]],
                 balance  <- reported.w

ReportsAreLedger == Ledger!LedgerSpec
-----------------------------------------------------------------------------
(***************************************************************************)
(* What the comments of the sketch say and the code does not do            *)
(***************************************************************************)
\* "the barcodes of the 1st to 20th product stored" (line 17): the row of every
\* bottle on record still holds what was stored in it.
RecordsKept == pc = "scan" => \A k \in 0..pin_cnt - 1 : barcode_rec[k] # Wiped
=============================================================================
