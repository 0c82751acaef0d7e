------------------------ MODULE BottleCollectorProofs ------------------------
(***************************************************************************)
(* Theorems about BottleCollector, for every number of slots, every set of  *)
(* weights and codes, every noise of the scale and every bound.             *)
(*                                                                         *)
(* TypeOK is not inductive alone: an insertion keeps bottle_cnt within      *)
(* 0..NSlots only because the slot at hand was not counted yet.  Counted    *)
(* says which slots those are, and CountsAgree relates them to the counters.*)
(* The books and the total rest on it (BookInv, SumInv); what customers are  *)
(* told (OrderInv) rests on the barcode reader's invariant as well.          *)
(***************************************************************************)
EXTENDS BottleCollector, BarcodeReaderProofs, FiniteSetTheorems, WellFoundedInduction

\* What the flag of the slot at hand says while the sketch is busy with it.
Counted ==
  /\ pc \in {"insert", "report_out", "unweigh"} => ~pin_usg[i]
  /\ pc \in {"weigh", "report_in", "remove"} => pin_usg[i]

CountInv == TypeOK /\ CountsAgree /\ Counted

-----------------------------------------------------------------------------
(***************************************************************************)
(* Lemmas about the parts of the model                                     *)
(***************************************************************************)
\* The registered slots are finitely many, at most NSlots.
LEMMA RegisteredFinite ==
  ASSUME TypeOK
  PROVE  /\ IsFiniteSet(Registered)
         /\ Cardinality(Registered) \in 0..NSlots
<1>1. IsFiniteSet(Slots) /\ Cardinality(Slots) = NSlots
  BY FS_Interval, CollectorAssumption DEF Slots
<1>2. Registered \in SUBSET Slots
  BY DEF Registered
<1>3. IsFiniteSet(Registered) /\ Cardinality(Registered) <= NSlots
  BY <1>1, <1>2, FS_Subset
<1>4. Cardinality(Registered) \in Nat
  BY <1>3, FS_CardinalityType
<1> QED
  BY <1>3, <1>4, CollectorAssumption

\* Setting the flag of a slot that was clear adds one to the registered slots.
LEMMA RegisterOne ==
  ASSUME TypeOK, ~pin_usg[i], pin_usg' = [pin_usg EXCEPT ![i] = TRUE]
  PROVE  Cardinality(Registered)' = Cardinality(Registered) + 1
<1>1. Registered' = Registered \cup {i} /\ i \notin Registered
  BY DEF TypeOK, Registered
<1> QED
  BY <1>1, RegisteredFinite, FS_AddElement

\* Clearing the flag of a slot that was set takes one away.
LEMMA UnregisterOne ==
  ASSUME TypeOK, pin_usg[i], pin_usg' = [pin_usg EXCEPT ![i] = FALSE]
  PROVE  Cardinality(Registered)' = Cardinality(Registered) - 1
<1>1. Registered' = Registered \ {i} /\ i \in Registered
  BY DEF TypeOK, Registered
<1> QED
  BY <1>1, RegisteredFinite, FS_RemoveElement

\* Without a change of pin_usg the registered slots are the same.
LEMMA RegisteredSame ==
  ASSUME UNCHANGED pin_usg
  PROVE  Cardinality(Registered)' = Cardinality(Registered)
BY DEF Registered

\* Writing a weight into a table of weights, wherever, leaves one.
LEMMA ExceptType ==
  ASSUME NEW f \in [Slots -> Int], NEW k, NEW w \in Int
  PROVE  [f EXCEPT ![k] = w] \in [Slots -> Int]
OBVIOUS

\* Moving on leads to a slot of the pass, or to the serial ports.
LEMMA NextSlotType ==
  ASSUME i \in Slots, NextSlot
  PROVE  i' \in Slots /\ pc' \in {"scan", "serial"}
BY CollectorAssumption DEF NextSlot, Slots

\* Blank buffers are well typed.
LEMMA BlankType ==
  ASSUME NEW pad \in Nat
  PROVE  Blank(pad) \in [0..pad -> Chars]
BY DEF Blank, Chars

\* The reader's variables keep their types: when they do not change,
LEMMA SameReaderType ==
  ASSUME ReaderTypeOK, UNCHANGED barVars
  PROVE  ReaderTypeOK'
BY DEF ReaderTypeOK, barVars, txVars, bufVars

\* in a scan,
LEMMA ScannerType ==
  ASSUME ReaderTypeOK, NEW c \in Codes, ScannerSends(c)
  PROVE  ReaderTypeOK'
<1>1. RxTypes'
  BY ScanRx DEF ReaderTypeOK, RxTypes
<1> QED
  BY <1>1 DEF ReaderTypeOK, RxTypes, ScannerSends, bufVars

\* when a character arrives,
LEMMA ArriveType ==
  ASSUME ReaderTypeOK, Arrive
  PROVE  ReaderTypeOK'
<1>1. RxTypes'
  BY ArriveRx DEF ReaderTypeOK, RxTypes
<1>2. UNCHANGED bufVars
  BY DEF Arrive
<1> QED
  BY <1>1, <1>2 DEF ReaderTypeOK, RxTypes, bufVars

\* and in a call of Barcode().
LEMMA BarcodeType ==
  ASSUME ReaderTypeOK, Barcode
  PROVE  ReaderTypeOK' /\ Head(rx) \in Chars
<1>1. /\ RxTypes' /\ Head(rx) \in Chars /\ bar_mode' = Mode
      /\ Head(rx) # NL => Store(Head(rx), Mode)
      /\ Head(rx) = NL => Finish(Mode)
  <2>1. RxTypes
    BY DEF ReaderTypeOK, RxTypes
  <2> QED BY <2>1, ReadRx
<1>2. Mode \in {1, 2}
  BY DEF Mode, ModeOf, ReaderTypeOK
<1>3. FILL \in Chars /\ Chars \subseteq Cells
  BY DEF Chars, Cells
<1>4. CASE Head(rx) # NL
  <2>1. Store(Head(rx), Mode)
    BY <1>1, <1>4
  <2>2. user_barcode' \in [0..UserPad -> Chars]
    BY <2>1, <1>1 DEF Store, Put, ReaderTypeOK
  <2>3. barcode' \in [0..ItemPad -> Cells]
    BY <2>1, <1>1, <1>3 DEF Store, Put, ReaderTypeOK
  <2>4. bar_cnt' \in Nat
    BY <2>1 DEF Store, ReaderTypeOK
  <2> QED
    BY <2>2, <2>3, <2>4, <1>1, <1>2 DEF ReaderTypeOK, RxTypes
<1>5. CASE Head(rx) = NL
  <2>1. Finish(Mode)
    BY <1>1, <1>5
  <2>2. user_barcode' \in [0..UserPad -> Chars]
    BY <2>1, <1>3 DEF Finish, PadFrom, ReaderTypeOK
  <2>3. barcode' \in [0..ItemPad -> Cells]
    BY <2>1, <1>3 DEF Finish, PadFrom, ReaderTypeOK
  <2>4. bar_cnt' \in Nat
    BY <2>1 DEF Finish
  <2> QED
    BY <2>2, <2>3, <2>4, <1>1, <1>2 DEF ReaderTypeOK, RxTypes
<1> QED
  BY <1>1, <1>4, <1>5
-----------------------------------------------------------------------------
(***************************************************************************)
(* Types, counts and indices                                               *)
(***************************************************************************)
\* The counters stay inside their arrays where the sketch uses them.
LEMMA CountInvBounds ==
  ASSUME CountInv
  PROVE  IndexInBounds
<1>1. Cardinality(Registered) \in 0..NSlots
  BY RegisteredFinite DEF CountInv
<1>2. bottle_cnt \in Int /\ pin_cnt = bottle_cnt /\ bottle_cnt \in 0..NSlots
  BY CollectorAssumption DEF CountInv, TypeOK, CountsAgree
<1>3. CASE pc = "weigh"
  BY <1>1, <1>2, <1>3, CollectorAssumption DEF CountInv, CountsAgree, IndexInBounds, Slots
<1>4. CASE pc \in {"report_out", "unweigh"}
  BY <1>1, <1>2, <1>4, CollectorAssumption DEF CountInv, CountsAgree, IndexInBounds, Slots
<1>5. CASE pc = "report_in"
  <2>1. i \in Registered
    BY <1>5 DEF CountInv, Counted, TypeOK, Registered
  <2>2. Cardinality(Registered) # 0
    BY <2>1, RegisteredFinite, FS_EmptySet DEF CountInv
  <2> QED
    BY <1>1, <1>2, <1>5, <2>2, CollectorAssumption
    DEF CountInv, CountsAgree, IndexInBounds, Slots
<1> QED
  BY <1>3, <1>4, <1>5 DEF IndexInBounds
LEMMA CountInvInit ==
  ASSUME Init
  PROVE  CountInv
<1>1. ReaderTypeOK
  <2>1. rx \in Seq(Chars) /\ Len(rx) <= RxCap
    BY ReaderAssumption DEF Init, BarInit
  <2> QED
    BY <2>1, BlankType, ReaderAssumption DEF Init, BarInit, ReaderTypeOK, Cells
<1>2. barcode_rec \in [Slots -> [0..ItemPad -> Cells]]
  BY BlankType, ReaderAssumption DEF Init, Cells
<1>3. TypeOK
  BY <1>1, <1>2, CollectorAssumption DEF Init, TypeOK, Zeros, Slots
<1>4. Registered = {}
  BY DEF Init, Registered
<1> QED
  BY <1>3, <1>4, FS_EmptySet, CollectorAssumption DEF Init, CountInv, CountsAgree, Counted

\* The steps that neither change a flag nor a counter.
LEMMA CountInvScan ==
  ASSUME CountInv, Scan
  PROVE  CountInv'
<1>1. ReaderTypeOK'
  BY SameReaderType DEF CountInv, TypeOK, Scan
<1>2. i' \in Slots /\ pc' \in {"scan", "serial", "insert", "remove"}
  BY NextSlotType DEF CountInv, TypeOK, Scan
<1>3. TypeOK'
  BY <1>1, <1>2 DEF CountInv, TypeOK, Scan, recVars, envVars
<1>4. CountsAgree'
  BY <1>2, RegisteredSame DEF CountInv, CountsAgree, Scan, recVars
<1>5. Counted'
  BY NextSlotType DEF CountInv, TypeOK, Counted, Scan, recVars
<1> QED
  BY <1>3, <1>4, <1>5 DEF CountInv

LEMMA CountInvInsert ==
  ASSUME CountInv, Insert
  PROVE  CountInv'
<1>1. ReaderTypeOK'
  BY SameReaderType DEF CountInv, TypeOK, Insert
<1>2. i' \in Slots /\ pc' \in {"scan", "serial", "weigh"}
  BY NextSlotType DEF CountInv, TypeOK, Insert
<1>3. TypeOK'
  BY <1>1, <1>2 DEF CountInv, TypeOK, Insert, envVars
<1>4. CASE occ[i] > 0
  <2>1. pin_usg' = [pin_usg EXCEPT ![i] = TRUE] /\ pc' = "weigh" /\ i' = i /\ pc = "insert"
    BY <1>4 DEF Insert
  <2>2. Cardinality(Registered)' = Cardinality(Registered) + 1
    BY <2>1, RegisterOne DEF CountInv, Counted
  <2>3. CountsAgree'
    BY <2>1, <2>2, RegisteredFinite DEF CountInv, TypeOK, CountsAgree, Insert
  <2>4. Counted'
    BY <2>1 DEF CountInv, TypeOK, Counted
  <2> QED
    BY <1>3, <2>3, <2>4 DEF CountInv
<1>5. CASE ~(occ[i] > 0)
  <2>1. UNCHANGED pin_usg /\ pc' \in {"scan", "serial"} /\ pc = "insert"
    BY <1>5, NextSlotType DEF CountInv, TypeOK, Insert
  <2>2. CountsAgree'
    BY <2>1, RegisteredSame DEF CountInv, CountsAgree, Insert
  <2>3. Counted'
    BY <2>1 DEF Counted
  <2> QED
    BY <1>3, <2>2, <2>3 DEF CountInv
<1> QED
  BY <1>4, <1>5
LEMMA CountInvWeigh ==
  ASSUME CountInv, Weigh
  PROVE  CountInv'
<1>1. pc = "weigh" /\ pc' = "report_in" /\ UNCHANGED <<i, pin_usg>>
  BY DEF Weigh
<1>2. bottle_cnt \in Slots /\ pin_cnt \in Slots
  BY <1>1, CountInvBounds DEF IndexInBounds
<1>3. bottle_cnt' \in 0..NSlots /\ pin_cnt' \in 0..NSlots
  BY <1>2, CollectorAssumption DEF Weigh, Slots
<1>4. PICK e \in Noise :
        LET val == (load - tare + e) - total_weight
        IN /\ total_weight' = total_weight + val
           /\ weight_rec' = [weight_rec EXCEPT ![bottle_cnt] = val]
  BY DEF Weigh
<1>5. (load - tare + e) - total_weight \in Int
  BY CollectorAssumption DEF CountInv, TypeOK
<1>6. total_weight' \in Int /\ weight_rec' \in [Slots -> Int]
  <2> DEFINE val == (load - tare + e) - total_weight
  <2>1. total_weight' = total_weight + val /\ weight_rec' = [weight_rec EXCEPT ![bottle_cnt] = val]
    BY <1>4
  <2>2. val \in Int /\ total_weight \in Int /\ weight_rec \in [Slots -> Int]
    BY <1>5 DEF CountInv, TypeOK
  <2> HIDE DEF val
  <2> QED
    BY <2>1, <2>2, ExceptType
<1>7. pin_rec' \in [Slots -> Slots]
  BY DEF CountInv, TypeOK, Weigh
<1>8. ReaderTypeOK'
  BY SameReaderType DEF CountInv, TypeOK, Weigh
<1>9. TypeOK'
  BY <1>1, <1>3, <1>6, <1>7, <1>8 DEF CountInv, TypeOK, Weigh, envVars
<1>10. CountsAgree'
  <2>1. Cardinality(Registered)' = Cardinality(Registered)
    BY <1>1, RegisteredSame
  <2>2. pin_cnt = bottle_cnt /\ bottle_cnt + 1 = Cardinality(Registered) + 0
    BY <1>1 DEF CountInv, CountsAgree
  <2>3. pin_cnt' = bottle_cnt' /\ bottle_cnt' = bottle_cnt + 1
    BY <2>2 DEF Weigh
  <2>4. Cardinality(Registered) \in Int /\ bottle_cnt \in Int
    BY RegisteredFinite, CollectorAssumption DEF CountInv, TypeOK
  <2>5. bottle_cnt' + 0 = Cardinality(Registered)' + 0
    BY <2>1, <2>2, <2>3, <2>4
  <2> QED
    BY <1>1, <2>3, <2>5 DEF CountsAgree
<1>11. Counted'
  BY <1>1 DEF CountInv, Counted
<1> QED
  BY <1>9, <1>10, <1>11 DEF CountInv

LEMMA CountInvReportIn ==
  ASSUME CountInv, ReportIn
  PROVE  CountInv'
<1>1. pc = "report_in" /\ pc' \in {"scan", "serial"} /\ i' \in Slots /\ UNCHANGED recVars
  BY NextSlotType DEF CountInv, TypeOK, ReportIn
<1>2. bottle_cnt - 1 \in Slots
  BY <1>1, CountInvBounds DEF IndexInBounds
<1>3. reported' \in [n : Int, w : Int]
  <2>1. Record(1).weight = weight_rec[bottle_cnt - 1]
    BY DEF Record
  <2>2. Record(1).weight \in Int
    BY <2>1, <1>2 DEF CountInv, TypeOK
  <2> QED
    BY <2>2 DEF CountInv, TypeOK, ReportIn
<1>4. barcode_rec' \in [Slots -> [0..ItemPad -> Cells]]
  BY DEF CountInv, TypeOK, ReaderTypeOK, ReportIn
<1>5. ReaderTypeOK'
  BY SameReaderType DEF CountInv, TypeOK, ReportIn
<1>6. TypeOK'
  BY <1>1, <1>3, <1>4, <1>5 DEF CountInv, TypeOK, ReportIn, envVars, recVars
<1>7. CountsAgree'
  BY <1>1, RegisteredSame DEF CountInv, CountsAgree, recVars
<1>8. Counted'
  BY <1>1 DEF Counted
<1> QED
  BY <1>6, <1>7, <1>8 DEF CountInv

LEMMA CountInvRemove ==
  ASSUME CountInv, Remove
  PROVE  CountInv'
<1>1. ReaderTypeOK'
  BY SameReaderType DEF CountInv, TypeOK, Remove
<1>2. i' \in Slots /\ pc' \in {"scan", "serial", "report_out"}
  BY NextSlotType DEF CountInv, TypeOK, Remove
<1>3. TypeOK'
  BY <1>1, <1>2 DEF CountInv, TypeOK, Remove, envVars
<1>4. CASE occ[i] = 0
  <2>1. pin_usg' = [pin_usg EXCEPT ![i] = FALSE] /\ pc' = "report_out" /\ i' = i
        /\ pc = "remove"
    BY <1>4 DEF Remove
  <2>2. Cardinality(Registered)' = Cardinality(Registered) - 1
    BY <2>1, UnregisterOne DEF CountInv, Counted
  <2>3. CountsAgree'
    BY <2>1, <2>2, RegisteredFinite DEF CountInv, TypeOK, CountsAgree, Remove
  <2>4. Counted'
    BY <2>1 DEF CountInv, TypeOK, Counted
  <2> QED
    BY <1>3, <2>3, <2>4 DEF CountInv
<1>5. CASE occ[i] # 0
  <2>1. UNCHANGED pin_usg /\ pc' \in {"scan", "serial"} /\ pc = "remove"
    BY <1>5, NextSlotType DEF CountInv, TypeOK, Remove
  <2>2. CountsAgree'
    BY <2>1, RegisteredSame DEF CountInv, CountsAgree, Remove
  <2>3. Counted'
    BY <2>1 DEF Counted
  <2> QED
    BY <1>3, <2>2, <2>3 DEF CountInv
<1> QED
  BY <1>4, <1>5

LEMMA CountInvReportOut ==
  ASSUME CountInv, ReportOut
  PROVE  CountInv'
<1>1. pc = "report_out" /\ pc' = "unweigh" /\ UNCHANGED <<i, recVars>>
  BY DEF ReportOut
<1>2. bottle_cnt - 1 \in Slots
  BY <1>1, CountInvBounds DEF IndexInBounds
<1>3. reported' \in [n : Int, w : Int]
  <2>1. Record(2).weight = weight_rec[bottle_cnt - 1]
    BY DEF Record
  <2>2. Record(2).weight \in Int
    BY <2>1, <1>2 DEF CountInv, TypeOK
  <2> QED
    BY <2>2 DEF CountInv, TypeOK, ReportOut
<1>4. ReaderTypeOK'
  BY SameReaderType DEF CountInv, TypeOK, ReportOut
<1>5. TypeOK'
  BY <1>1, <1>3, <1>4 DEF CountInv, TypeOK, ReportOut, envVars, recVars
<1>6. CountsAgree'
  BY <1>1, RegisteredSame DEF CountInv, CountsAgree, recVars
<1>7. Counted'
  BY <1>1 DEF CountInv, Counted, recVars
<1> QED
  BY <1>5, <1>6, <1>7 DEF CountInv

LEMMA CountInvUnweigh ==
  ASSUME CountInv, Unweigh
  PROVE  CountInv'
<1>1. pc = "unweigh" /\ pc' \in {"scan", "serial"} /\ i' \in Slots /\ UNCHANGED pin_usg
  BY NextSlotType DEF CountInv, TypeOK, Unweigh
<1>2. bottle_cnt - 1 \in Slots /\ pin_cnt - 1 \in Slots
  BY <1>1, CountInvBounds DEF IndexInBounds
<1>3. bottle_cnt' \in 0..NSlots /\ pin_cnt' \in 0..NSlots
  BY <1>2, CollectorAssumption DEF Unweigh, Slots
<1>4. total_weight' \in Int /\ weight_rec' \in [Slots -> Int]
  <2>1. weight_rec[bottle_cnt - 1] \in Int /\ total_weight \in Int
    BY <1>2 DEF CountInv, TypeOK
  <2>2. total_weight' \in Int
    BY <2>1 DEF Unweigh
  <2>3. weight_rec' = [weight_rec EXCEPT ![bottle_cnt - 1] = 0]
    BY DEF Unweigh
  <2>4. weight_rec \in [Slots -> Int]
    BY DEF CountInv, TypeOK
  <2>5. weight_rec' \in [Slots -> Int]
    BY <2>3, <2>4, ExceptType
  <2> QED
    BY <2>2, <2>5
<1>5. pin_rec' \in [Slots -> Slots]
  <2>1. 0 \in Slots
    BY CollectorAssumption DEF Slots
  <2> QED
    BY <2>1 DEF CountInv, TypeOK, Unweigh
<1>6. Wiped \in [0..ItemPad -> Cells]
  BY DEF Wiped, Cells
<1>7. barcode_rec' \in [Slots -> [0..ItemPad -> Cells]] /\ barcode' \in [0..ItemPad -> Cells]
  BY <1>6 DEF CountInv, TypeOK, ReaderTypeOK, Unweigh, ClearRow
<1>8. ReaderTypeOK'
  <2>1. UNCHANGED <<layout, tx, sent, rx, bar_cnt, bar_mode, user_barcode>>
    BY DEF Unweigh, readerVars, txVars
  <2> QED
    BY <1>7, <2>1 DEF CountInv, TypeOK, ReaderTypeOK
<1>9. TypeOK'
  BY <1>1, <1>3, <1>4, <1>5, <1>7, <1>8 DEF CountInv, TypeOK, Unweigh, envVars
<1>10. CountsAgree'
  <2>1. Cardinality(Registered)' = Cardinality(Registered)
    BY <1>1, RegisteredSame
  <2>2. pin_cnt = bottle_cnt /\ bottle_cnt + 0 = Cardinality(Registered) + 1
    BY <1>1 DEF CountInv, CountsAgree
  <2>3. pin_cnt' = bottle_cnt' /\ bottle_cnt' = bottle_cnt - 1
    BY <2>2 DEF Unweigh
  <2>4. Cardinality(Registered) \in Int /\ bottle_cnt \in Int
    BY RegisteredFinite, CollectorAssumption DEF CountInv, TypeOK
  <2>5. bottle_cnt' + 0 = Cardinality(Registered)' + 0
    BY <2>1, <2>2, <2>3, <2>4
  <2> QED
    BY <1>1, <2>3, <2>5 DEF CountsAgree
<1>11. Counted'
  BY <1>1 DEF Counted
<1> QED
  BY <1>9, <1>10, <1>11 DEF CountInv

LEMMA CountInvReadSerial ==
  ASSUME CountInv, ReadSerial
  PROVE  CountInv'
<1>1. pc = "serial" /\ pc' = "scan" /\ UNCHANGED <<i, recVars>>
  BY DEF ReadSerial
<1>2. ReaderTypeOK'
  <2>1. CASE Barcode
    BY <2>1, BarcodeType DEF CountInv, TypeOK
  <2>2. CASE UNCHANGED barVars
    BY <2>2, SameReaderType DEF CountInv, TypeOK
  <2> QED
    BY <2>1, <2>2 DEF ReadSerial
<1>6. barcode_rec' \in [Slots -> [0..ItemPad -> Cells]]
  <2>1. barcode_rec \in [Slots -> [0..ItemPad -> Cells]]
    BY DEF CountInv, TypeOK
  <2>2. CASE Barcode /\ StoreBeyond
    <3>1. Head(rx) \in Cells
      BY <2>2, BarcodeType DEF CountInv, TypeOK, Cells
    <3> QED
      BY <2>1, <2>2, <3>1 DEF StoreBeyond
  <2>3. CASE UNCHANGED barcode_rec
    BY <2>1, <2>3
  <2> QED
    BY <2>2, <2>3 DEF ReadSerial
<1>3. TypeOK'
  BY <1>1, <1>2, <1>6 DEF CountInv, TypeOK, ReadSerial, envVars, recVars
<1>4. CountsAgree'
  BY <1>1, RegisteredSame DEF CountInv, CountsAgree, recVars
<1>5. Counted'
  BY <1>1 DEF Counted
<1> QED
  BY <1>3, <1>4, <1>5 DEF CountInv
\* Customers disturb neither the counters nor the place of the sketch.
LEMMA CountInvPlace ==
  ASSUME CountInv, NEW s \in Slots, NEW w \in Weights, PlaceBottle(s, w)
  PROVE  CountInv'
<1>1. UNCHANGED <<pc, i, recVars, barcode_rec, tare, reboots, reported, barVars>>
  BY DEF PlaceBottle
<1>2. occ' \in [Slots -> Weights \cup {0}] /\ load' \in Int
  BY CollectorAssumption DEF CountInv, TypeOK, PlaceBottle
<1>3. moves' \in 0..MaxMoves
  <2>1. moves \in 0..MaxMoves /\ MaxMoves \in Nat
    BY CollectorAssumption DEF CountInv, TypeOK
  <2>2. moves' = moves + 1 /\ moves < MaxMoves
    BY DEF PlaceBottle, MayAct
  <2> QED
    BY <2>1, <2>2
<1>4. ReaderTypeOK'
  BY <1>1, SameReaderType DEF CountInv, TypeOK
<1>5. TypeOK'
  BY <1>1, <1>2, <1>3, <1>4 DEF CountInv, TypeOK, recVars
<1> QED
  BY <1>1, <1>5, RegisteredSame DEF CountInv, CountsAgree, Counted, recVars

LEMMA CountInvLift ==
  ASSUME CountInv, NEW s \in Slots, LiftBottle(s)
  PROVE  CountInv'
<1>1. UNCHANGED <<pc, i, recVars, barcode_rec, tare, reboots, reported, barVars>>
  BY DEF LiftBottle
<1>2. occ' \in [Slots -> Weights \cup {0}]
  BY DEF CountInv, TypeOK, LiftBottle
<1>3. load' \in Int
  <2>1. occ[s] \in Int /\ load \in Int
    <3>1. occ[s] \in Weights \cup {0}
      BY DEF CountInv, TypeOK
    <3>2. Weights \cup {0} \subseteq Int
      BY CollectorAssumption
    <3>3. load \in Int
      BY DEF CountInv, TypeOK
    <3> QED
      BY <3>1, <3>2, <3>3
  <2> QED
    BY <2>1 DEF LiftBottle
<1>4. moves' \in 0..MaxMoves
  <2>1. moves \in 0..MaxMoves /\ MaxMoves \in Nat
    BY CollectorAssumption DEF CountInv, TypeOK
  <2>2. moves' = moves + 1 /\ moves < MaxMoves
    BY DEF LiftBottle, MayAct
  <2> QED
    BY <2>1, <2>2
<1>5. ReaderTypeOK'
  BY <1>1, SameReaderType DEF CountInv, TypeOK
<1>6. TypeOK'
  BY <1>1, <1>2, <1>3, <1>4, <1>5 DEF CountInv, TypeOK, recVars
<1> QED
  BY <1>1, <1>6, RegisteredSame DEF CountInv, CountsAgree, Counted, recVars

LEMMA CountInvScanCode ==
  ASSUME CountInv, NEW c \in Codes, ScanCode(c)
  PROVE  CountInv'
<1>1. UNCHANGED <<pc, i, recVars, barcode_rec, occ, load, tare, moves, reboots, reported>>
  BY DEF ScanCode
<1>2. ReaderTypeOK'
  BY ScannerType DEF CountInv, TypeOK, ScanCode
<1>3. TypeOK'
  BY <1>1, <1>2 DEF CountInv, TypeOK, recVars
<1> QED
  BY <1>1, <1>3, RegisteredSame DEF CountInv, CountsAgree, Counted, recVars

LEMMA CountInvScanner ==
  ASSUME CountInv, ScannerWorks
  PROVE  CountInv'
<1>1. UNCHANGED <<pc, i, recVars, barcode_rec, occ, load, tare, moves, reboots, reported>>
  BY DEF ScannerWorks, envVars
<1>2. ReaderTypeOK'
  BY ArriveType DEF CountInv, TypeOK, ScannerWorks
<1>3. TypeOK'
  BY <1>1, <1>2 DEF CountInv, TypeOK, recVars
<1> QED
  BY <1>1, <1>3, RegisteredSame DEF CountInv, CountsAgree, Counted, recVars

LEMMA CountInvReboot ==
  ASSUME CountInv, Reboot
  PROVE  CountInv'
<1>1. ReaderTypeOK'
  <2>1. /\ layout' \in Layouts /\ tx' \in Codes \cup {None}
        /\ sent' \in IF tx' = None THEN {0} ELSE 0..CodeLen[tx']
    BY DEF CountInv, TypeOK, ReaderTypeOK, Reboot
  <2>2. rx' \in Seq(Chars) /\ Len(rx') <= RxCap
    BY ReaderAssumption DEF Reboot
  <2>3. /\ bar_cnt' \in Nat /\ bar_mode' \in {1, 2}
        /\ user_barcode' \in [0..UserPad -> Chars] /\ barcode' \in [0..ItemPad -> Cells]
    BY BlankType, ReaderAssumption DEF Reboot, Cells
  <2> QED
    BY <2>1, <2>2, <2>3 DEF ReaderTypeOK
<1>2. barcode_rec' \in [Slots -> [0..ItemPad -> Cells]]
  BY BlankType, ReaderAssumption DEF Reboot, Cells
<1>3. reboots' \in 0..MaxReboots
  BY CollectorAssumption DEF CountInv, TypeOK, Reboot
<1>4. TypeOK'
  <2>1. Zeros \in [Slots -> Int] /\ Zeros \in [Slots -> Slots] /\ 0 \in Slots
        /\ 0 \in 0..NSlots
    BY CollectorAssumption DEF Zeros, Slots
  <2>2. pc' = "scan" /\ i' = 0 /\ bottle_cnt' = 0 /\ pin_cnt' = 0 /\ total_weight' = 0
        /\ weight_rec' = Zeros /\ pin_rec' = Zeros /\ pin_usg' \in [Slots -> BOOLEAN]
        /\ reported' \in [n : Int, w : Int] /\ tare' = load /\ UNCHANGED <<occ, load, moves>>
    BY DEF Reboot
  <2>3. occ' \in [Slots -> Weights \cup {0}] /\ load' \in Int /\ tare' \in Int
        /\ moves' \in 0..MaxMoves
    BY <2>2 DEF CountInv, TypeOK
  <2> QED
    BY <1>1, <1>2, <1>3, <2>1, <2>2, <2>3 DEF TypeOK
<1>5. Registered' = {}
  BY DEF Reboot, Registered
<1>6. Cardinality(Registered)' = 0
  BY <1>5, FS_EmptySet
<1> QED
  BY <1>4, <1>6 DEF Reboot, CountInv, CountsAgree, Counted

LEMMA CountInvStep ==
  ASSUME CountInv, [Next]_vars
  PROVE  CountInv'
<1>1. CASE Sketch
  BY <1>1, CountInvScan, CountInvInsert, CountInvWeigh, CountInvReportIn, CountInvRemove,
     CountInvReportOut, CountInvUnweigh, CountInvReadSerial DEF Sketch
<1>2. CASE Environment
  BY <1>2, CountInvPlace, CountInvLift, CountInvScanCode, CountInvScanner, CountInvReboot
  DEF Environment
<1>3. CASE UNCHANGED vars
  <2>1. ReaderTypeOK'
    BY <1>3, SameReaderType DEF vars, CountInv, TypeOK
  <2> QED
    BY <1>3, <2>1, RegisteredSame
    DEF vars, CountInv, TypeOK, CountsAgree, Counted, recVars, envVars
<1> QED
  BY <1>1, <1>2, <1>3 DEF Next

LEMMA CountInvHolds == Spec => []CountInv
<1>1. Init => CountInv
  BY CountInvInit
<1>2. CountInv /\ [Next]_vars => CountInv'
  BY CountInvStep
<1> QED
  BY <1>1, <1>2, PTL DEF Spec

\* Every variable of the sketch and its surroundings keeps its type.
THEOREM TypeCorrect == Spec => []TypeOK
<1>1. CountInv => TypeOK
  BY DEF CountInv
<1> QED
  BY <1>1, CountInvHolds, PTL

\* bottle_cnt, pin_cnt and the registered slots agree, whatever customers do
\* while the sketch is blocked.
THEOREM CountsAlwaysAgree == Spec => []CountsAgree
<1>1. CountInv => CountsAgree
  BY DEF CountInv
<1> QED
  BY <1>1, CountInvHolds, PTL

\* The arrays of twenty entries are indexed inside their bounds.
THEOREM IndicesInBounds == Spec => []IndexInBounds
<1>1. CountInv => IndexInBounds
  BY CountInvBounds
<1> QED
  BY <1>1, CountInvHolds, PTL
-----------------------------------------------------------------------------
(***************************************************************************)
(* The books                                                               *)
(*                                                                         *)
(* The total is the sum of the weights on record.  The sum is stated by its *)
(* partial sums, base[k] the sum of the first k weights, so that no         *)
(* recursive function has to be unfolded.                                   *)
(***************************************************************************)
PartialSums(base) ==
  /\ base[0] = 0
  /\ \A k \in 0..bottle_cnt - 1 : base[k + 1] = base[k] + weight_rec[k]
  /\ total_weight = base[bottle_cnt]

SumInv == \E base \in [0..NSlots -> Int] : PartialSums(base)

BookInv == CountInv /\ SumInv /\ BooksMatch

\* The steps that leave the records alone leave their sum alone.
LEMMA SumInvSame ==
  ASSUME SumInv, UNCHANGED <<bottle_cnt, weight_rec, total_weight>>
  PROVE  SumInv'
BY DEF SumInv, PartialSums

LEMMA SumInvWeigh ==
  ASSUME CountInv, SumInv, Weigh
  PROVE  SumInv'
<1>1. bottle_cnt \in Slots /\ bottle_cnt + 1 \in 0..NSlots
  BY CountInvBounds, CollectorAssumption DEF IndexInBounds, Weigh, Slots
<1>2. PICK base \in [0..NSlots -> Int] : PartialSums(base)
  BY DEF SumInv
<1>3. PICK e \in Noise :
        LET val == (load - tare + e) - total_weight
        IN /\ total_weight' = total_weight + val
           /\ weight_rec' = [weight_rec EXCEPT ![bottle_cnt] = val]
  BY DEF Weigh
<1> DEFINE val == (load - tare + e) - total_weight
           sums == [base EXCEPT ![bottle_cnt + 1] = base[bottle_cnt] + val]
<1>4. val \in Int /\ total_weight' = total_weight + val
      /\ weight_rec' = [weight_rec EXCEPT ![bottle_cnt] = val]
  BY <1>3, CollectorAssumption DEF CountInv, TypeOK
<1>5. bottle_cnt' = bottle_cnt + 1
  BY DEF Weigh
<1> HIDE DEF val
<1>6. sums \in [0..NSlots -> Int]
  <2>1. base[bottle_cnt] + val \in Int
    BY <1>1, <1>2, <1>4, CollectorAssumption DEF Slots
  <2> QED
    BY <1>2, <2>1
<1>7. sums[0] = 0
  BY <1>1, <1>2, CollectorAssumption DEF PartialSums, Slots
<1>8. total_weight' = sums[bottle_cnt']
  BY <1>1, <1>2, <1>4, <1>5 DEF PartialSums
<1>9. ASSUME NEW k \in 0..bottle_cnt' - 1
      PROVE  sums[k + 1] = sums[k] + weight_rec'[k]
  <2>1. k \in 0..bottle_cnt /\ bottle_cnt \in Int /\ k \in Slots
    BY <1>1, <1>5, CollectorAssumption DEF Slots
  <2>2. weight_rec \in [Slots -> Int]
    BY DEF CountInv, TypeOK
  <2>3. CASE k = bottle_cnt
    <3>1. sums[k] = base[bottle_cnt] /\ weight_rec'[k] = val
      BY <1>1, <1>2, <1>4, <2>2, <2>3, CollectorAssumption DEF Slots
    <3>2. sums[k + 1] = base[bottle_cnt] + val
      BY <1>1, <1>2, <2>3
    <3> QED
      BY <3>1, <3>2
  <2>4. CASE k # bottle_cnt
    <3>1. k \in 0..bottle_cnt - 1 /\ k \in 0..NSlots /\ k + 1 \in 0..NSlots
      BY <2>1, <2>4, <1>1, CollectorAssumption DEF Slots
    <3>2. sums[k + 1] = base[k + 1] /\ sums[k] = base[k]
      BY <3>1, <1>1, <1>2, <2>4, CollectorAssumption DEF Slots
    <3>3. weight_rec'[k] = weight_rec[k]
      BY <1>4, <2>1, <2>2, <2>4
    <3> QED
      BY <3>1, <3>2, <3>3, <1>2 DEF PartialSums
  <2> QED
    BY <2>3, <2>4
<1> HIDE DEF sums
<1>10. PICK t \in [0..NSlots -> Int] : t = sums
  BY <1>6
<1>11. PartialSums(t)'
  BY <1>7, <1>8, <1>9, <1>10 DEF PartialSums
<1> QED
  BY <1>11 DEF SumInv

LEMMA SumInvUnweigh ==
  ASSUME CountInv, SumInv, Unweigh
  PROVE  SumInv'
<1>1. bottle_cnt - 1 \in Slots /\ bottle_cnt \in 0..NSlots
  BY CountInvBounds DEF IndexInBounds, Unweigh, CountInv, TypeOK
<1>2. PICK base \in [0..NSlots -> Int] : PartialSums(base)
  BY DEF SumInv
<1>3. bottle_cnt' = bottle_cnt - 1
      /\ total_weight' = total_weight - weight_rec[bottle_cnt - 1]
      /\ weight_rec' = [weight_rec EXCEPT ![bottle_cnt - 1] = 0]
  BY DEF Unweigh
<1>4. base[0] = 0
  BY <1>2 DEF PartialSums
<1>5. weight_rec \in [Slots -> Int]
  BY DEF CountInv, TypeOK
<1>6. total_weight' = base[bottle_cnt']
  <2>1. bottle_cnt - 1 \in 0..bottle_cnt - 1 /\ bottle_cnt - 1 \in 0..NSlots
    BY <1>1, CollectorAssumption DEF Slots
  <2>2. base[(bottle_cnt - 1) + 1] = base[bottle_cnt - 1] + weight_rec[bottle_cnt - 1]
    BY <1>2, <2>1 DEF PartialSums
  <2>3. base[bottle_cnt] = base[bottle_cnt - 1] + weight_rec[bottle_cnt - 1]
    <3>1. (bottle_cnt - 1) + 1 = bottle_cnt
      BY <1>1, CollectorAssumption
    <3> QED
      BY <2>2, <3>1
  <2>4. base[bottle_cnt - 1] \in Int /\ weight_rec[bottle_cnt - 1] \in Int
    BY <1>1, <1>2, <1>5, <2>1
  <2>5. total_weight = base[bottle_cnt]
    BY <1>2 DEF PartialSums
  <2> QED
    BY <1>3, <2>3, <2>4, <2>5
<1>7. ASSUME NEW k \in 0..bottle_cnt' - 1
      PROVE  base[k + 1] = base[k] + weight_rec'[k]
  <2>1. k \in 0..bottle_cnt - 1 /\ k # bottle_cnt - 1 /\ k \in Slots
    BY <1>1, <1>3, CollectorAssumption DEF Slots
  <2>2. weight_rec'[k] = weight_rec[k]
    BY <1>3, <1>5, <2>1
  <2> QED
    BY <1>2, <2>1, <2>2 DEF PartialSums
<1>8. PartialSums(base)'
  BY <1>4, <1>6, <1>7 DEF PartialSums
<1> QED
  BY <1>2, <1>8 DEF SumInv

\* The sum is empty at power-up.
LEMMA SumInvZero ==
  /\ bottle_cnt = 0 /\ total_weight = 0 => SumInv
  /\ bottle_cnt' = 0 /\ total_weight' = 0 => SumInv'
<1> DEFINE zero == [k \in 0..NSlots |-> 0]
<1>1. zero \in [0..NSlots -> Int] /\ zero[0] = 0
  BY CollectorAssumption
<1> HIDE DEF zero
<1>2. PICK base \in [0..NSlots -> Int] : base[0] = 0
  BY <1>1
<1>3. ASSUME bottle_cnt = 0, total_weight = 0
      PROVE  PartialSums(base)
  BY <1>2, <1>3 DEF PartialSums
<1>4. ASSUME bottle_cnt' = 0, total_weight' = 0
      PROVE  PartialSums(base)'
  BY <1>2, <1>4 DEF PartialSums
<1> QED
  BY <1>3, <1>4 DEF SumInv

\* What is reported stays in step with the records.
LEMMA BooksStep ==
  ASSUME CountInv, BooksMatch, [Next]_vars
  PROVE  BooksMatch'
<1> DEFINE Ahead == pc \in {"report_in", "unweigh"}
<1>1. /\ bottle_cnt \in Int /\ total_weight \in Int /\ reported \in [n : Int, w : Int]
      /\ weight_rec \in [Slots -> Int]
  BY CollectorAssumption DEF CountInv, TypeOK
<1>2. ASSUME UNCHANGED <<bottle_cnt, total_weight, weight_rec, reported>>, ~Ahead, ~Ahead'
      PROVE  BooksMatch'
  BY <1>2 DEF BooksMatch
<1>3. CASE Weigh
  <2>1. ~Ahead /\ Ahead' /\ bottle_cnt' = bottle_cnt + 1 /\ UNCHANGED reported
    BY <1>3 DEF Weigh
  <2>2. bottle_cnt \in Slots
    BY <1>3, CountInvBounds DEF IndexInBounds, Weigh
  <2>3. PICK e \in Noise :
          LET val == (load - tare + e) - total_weight
          IN /\ total_weight' = total_weight + val
             /\ weight_rec' = [weight_rec EXCEPT ![bottle_cnt] = val]
    BY <1>3 DEF Weigh
  <2> DEFINE val == (load - tare + e) - total_weight
  <2>4. val \in Int /\ total_weight' = total_weight + val
        /\ weight_rec' = [weight_rec EXCEPT ![bottle_cnt] = val]
    BY <2>3, CollectorAssumption DEF CountInv, TypeOK
  <2> HIDE DEF val
  <2>5. weight_rec'[bottle_cnt' - 1] = val
    <3>1. bottle_cnt' - 1 = bottle_cnt
      BY <2>1, <1>1
    <3> QED
      BY <3>1, <2>2, <2>4, <1>1
  <2> QED
    BY <1>1, <2>1, <2>4, <2>5 DEF BooksMatch
<1>4. CASE ReportIn
  <2>1. Ahead /\ ~Ahead' /\ UNCHANGED <<bottle_cnt, total_weight, weight_rec>>
    BY <1>4, NextSlotType DEF ReportIn, recVars, CountInv, TypeOK
  <2>2. reported' = [n |-> reported.n + 1, w |-> reported.w + weight_rec[bottle_cnt - 1]]
    BY <1>4 DEF ReportIn, Record
  <2>3. weight_rec[bottle_cnt - 1] \in Int
    BY <1>1, <1>4, CountInvBounds DEF IndexInBounds, ReportIn
  <2> QED
    BY <1>1, <2>1, <2>2, <2>3 DEF BooksMatch
<1>5. CASE ReportOut
  <2>1. ~Ahead /\ Ahead' /\ UNCHANGED <<bottle_cnt, total_weight, weight_rec>>
    BY <1>5 DEF ReportOut, recVars
  <2>2. reported' = [n |-> reported.n - 1, w |-> reported.w - weight_rec[bottle_cnt - 1]]
    BY <1>5 DEF ReportOut, Record
  <2>3. weight_rec[bottle_cnt - 1] \in Int
    BY <1>1, <1>5, CountInvBounds DEF IndexInBounds, ReportOut
  <2> QED
    BY <1>1, <2>1, <2>2, <2>3 DEF BooksMatch
<1>6. CASE Unweigh
  <2>1. Ahead /\ ~Ahead' /\ UNCHANGED reported
    BY <1>6, NextSlotType DEF Unweigh, CountInv, TypeOK
  <2>2. bottle_cnt' = bottle_cnt - 1
        /\ total_weight' = total_weight - weight_rec[bottle_cnt - 1]
    BY <1>6 DEF Unweigh
  <2>3. weight_rec[bottle_cnt - 1] \in Int
    BY <1>1, <1>6, CountInvBounds DEF IndexInBounds, Unweigh
  <2> QED
    BY <1>1, <2>1, <2>2, <2>3 DEF BooksMatch
<1>7. CASE Scan
  BY <1>2, <1>7, NextSlotType DEF Scan, recVars, CountInv, TypeOK
<1>8. CASE Insert
  BY <1>2, <1>8, NextSlotType DEF Insert, CountInv, TypeOK
<1>9. CASE Remove
  BY <1>2, <1>9, NextSlotType DEF Remove, CountInv, TypeOK
<1>10. CASE ReadSerial
  BY <1>2, <1>10 DEF ReadSerial, recVars
<1>11. CASE Reboot
  <2>1. pc' = "scan" /\ bottle_cnt' = 0 /\ total_weight' = 0
        /\ reported.n' = 0 /\ reported.w' = 0
    BY <1>11 DEF Reboot
  <2>2. ~Ahead'
    BY <2>1
  <2> QED
    BY <2>1, <2>2 DEF BooksMatch
<1>12. CASE UNCHANGED <<pc, recVars, reported>>
  BY <1>12 DEF recVars, BooksMatch
<1>13. CASE Environment
  <2>1. Reboot \/ UNCHANGED <<pc, recVars, reported>>
    BY <1>13 DEF Environment, PlaceBottle, LiftBottle, ScanCode, ScannerWorks
  <2> QED
    BY <2>1, <1>11, <1>12
<1>14. CASE Sketch
  BY <1>14, <1>3, <1>4, <1>5, <1>6, <1>7, <1>8, <1>9, <1>10 DEF Sketch
<1>15. CASE UNCHANGED vars
  BY <1>12, <1>15 DEF vars
<1> QED
  BY <1>13, <1>14, <1>15 DEF Next
LEMMA BookInvHolds == Spec => []BookInv
<1>1. ASSUME Init PROVE BookInv
  <2>1. pc = "scan" /\ bottle_cnt = 0 /\ total_weight = 0 /\ reported.n = 0 /\ reported.w = 0
    BY <1>1 DEF Init
  <2>2. BooksMatch
    BY <2>1 DEF BooksMatch
  <2> QED
    BY <1>1, <2>1, <2>2, CountInvInit, SumInvZero DEF BookInv
<1>2. BookInv /\ [Next]_vars => BookInv'
  <2> SUFFICES ASSUME BookInv, [Next]_vars PROVE BookInv'
    OBVIOUS
  <2>1. CountInv' /\ BooksMatch'
    BY CountInvStep, BooksStep DEF BookInv
  <2>2. SumInv'
    <3>1. CASE Weigh
      BY <3>1, SumInvWeigh DEF BookInv
    <3>2. CASE Unweigh
      BY <3>2, SumInvUnweigh DEF BookInv
    <3>3. CASE Reboot
      BY <3>3, SumInvZero DEF Reboot
    <3>4. CASE UNCHANGED <<bottle_cnt, weight_rec, total_weight>>
      BY <3>4, SumInvSame DEF BookInv
    <3>5. Weigh \/ Unweigh \/ Reboot \/ UNCHANGED <<bottle_cnt, weight_rec, total_weight>>
      BY DEF Next, Sketch, Environment, Scan, Insert, ReportIn, Remove, ReportOut, ReadSerial,
             PlaceBottle, LiftBottle, ScanCode, ScannerWorks, recVars, vars
    <3> QED
      BY <3>1, <3>2, <3>3, <3>4, <3>5
  <2> QED
    BY <2>1, <2>2 DEF BookInv
<1> QED
  BY <1>1, <1>2, PTL DEF Spec

\* The reports since power-up amount to what the sketch holds.
THEOREM BooksAlwaysMatch == Spec => []BooksMatch
<1>1. BookInv => BooksMatch
  BY DEF BookInv
<1> QED
  BY <1>1, BookInvHolds, PTL

-----------------------------------------------------------------------------
(***************************************************************************)
(* The recursive sum itself.  The rule of induction takes the predicate as  *)
(* the set of numbers that satisfy it, and rests on < being well-founded.   *)
(***************************************************************************)
LEMMA Induction ==
  ASSUME NEW T, 0 \in T, \A n \in Nat : n \in T => n + 1 \in T
  PROVE  Nat \subseteq T
<1> SUFFICES ASSUME Nat \ T # {} PROVE FALSE
  OBVIOUS
<1>1. PICK x \in Nat \ T : \A y \in Nat \ T : ~ (<<y, x>> \in OpToRel(<, Nat))
  <2>1. Nat \ T \subseteq Nat
    OBVIOUS
  <2> QED BY <2>1, WFMin, NatLessThanWellFounded
<1>2. \A y \in Nat \ T : ~ (y < x)
  BY <1>1 DEF OpToRel
<1>3. x # 0 /\ x - 1 \in Nat /\ x - 1 < x
  OBVIOUS
<1>4. x - 1 \in T
  BY <1>2, <1>3
<1> QED BY <1>3, <1>4

\* f is the partial sums of the first n weights of w.
IsSums(f, w, n) == f = [k \in 0..n |-> IF k = 0 THEN 0 ELSE f[k - 1] + w[k - 1]]

LEMMA SumsExist ==
  ASSUME NEW w, NEW n \in Nat
  PROVE  \E f : IsSums(f, w, n)
<1> DEFINE T == {m \in Nat : \E f : IsSums(f, w, m)}
<1>1. 0 \in T
  <2>1. IsSums([k \in 0..0 |-> 0], w, 0)
    BY DEF IsSums
  <2> QED BY <2>1
<1>2. ASSUME NEW m \in Nat, m \in T PROVE m + 1 \in T
  <2>1. PICK g : IsSums(g, w, m)
    BY <1>2
  <2> DEFINE h == [k \in 0..m + 1 |-> IF k = m + 1 THEN g[m] + w[m] ELSE g[k]]
  <2>2. \A k \in 0..m : h[k] = g[k]
    OBVIOUS
  <2>3. \A k \in 0..m : h[k] = IF k = 0 THEN 0 ELSE h[k - 1] + w[k - 1]
    BY <2>1, <2>2 DEF IsSums
  <2>4. h[m + 1] = h[m] + w[m]
    BY <2>2
  <2>5. IsSums(h, w, m + 1)
    BY <2>3, <2>4 DEF IsSums
  <2> QED BY <2>5
<1> HIDE DEF T
<1>3. n \in T
  BY <1>1, <1>2, Induction
<1> QED BY <1>3 DEF T

LEMMA RecSumIs ==
  RecSum[0] = 0 /\ \A k \in 1..NSlots : RecSum[k] = RecSum[k - 1] + weight_rec[k - 1]
<1> DEFINE IsIt(f) == f = [k \in 0..NSlots |-> IF k = 0 THEN 0 ELSE f[k - 1] + weight_rec[k - 1]]
<1>1. \E f : IsIt(f)
  <2>1. \E f : IsSums(f, weight_rec, NSlots)
    BY SumsExist, CollectorAssumption
  <2> QED BY <2>1 DEF IsSums
<1>2. IsIt(CHOOSE f : IsIt(f))
  BY <1>1
<1>3. RecSum = CHOOSE f : IsIt(f)
  BY DEF RecSum
<1>4. RecSum = [k \in 0..NSlots |-> IF k = 0 THEN 0 ELSE RecSum[k - 1] + weight_rec[k - 1]]
  BY <1>2, <1>3
<1>5. 0 \in 0..NSlots /\ \A k \in 1..NSlots : k \in 0..NSlots /\ k # 0
  BY CollectorAssumption
<1> HIDE DEF IsIt
<1> QED BY <1>4, <1>5

LEMMA SumInvIsSum ==
  ASSUME CountInv, SumInv
  PROVE  TotalIsSum
<1> PICK base \in [0..NSlots -> Int] : PartialSums(base)
  BY DEF SumInv
<1> DEFINE T == {k \in Nat : k <= bottle_cnt => RecSum[k] = base[k]}
<1>1. bottle_cnt \in 0..NSlots /\ NSlots \in Nat
  BY CollectorAssumption DEF CountInv, TypeOK
<1>2. 0 \in T
  BY RecSumIs DEF PartialSums
<1>3. ASSUME NEW k \in Nat, k \in T PROVE k + 1 \in T
  <2> SUFFICES ASSUME k + 1 <= bottle_cnt PROVE RecSum[k + 1] = base[k + 1]
    OBVIOUS
  <2>1. /\ k \in 0..bottle_cnt - 1 /\ k <= bottle_cnt
        /\ k + 1 \in 1..NSlots /\ (k + 1) - 1 = k
    BY <1>1
  <2>2. RecSum[k + 1] = RecSum[k] + weight_rec[k]
    BY <2>1, RecSumIs
  <2>3. base[k + 1] = base[k] + weight_rec[k]
    BY <2>1 DEF PartialSums
  <2>4. RecSum[k] = base[k]
    BY <1>3, <2>1
  <2> QED BY <2>2, <2>3, <2>4
<1> HIDE DEF T
<1>4. bottle_cnt \in T
  <2>1. Nat \subseteq T
    BY <1>2, <1>3, Induction
  <2>2. bottle_cnt \in Nat
    BY <1>1
  <2> QED BY <2>1, <2>2
<1>5. RecSum[bottle_cnt] = base[bottle_cnt]
  BY <1>1, <1>4 DEF T
<1> QED BY <1>5 DEF TotalIsSum, PartialSums

\* total_weight is the sum of weight_rec[0] .. weight_rec[bottle_cnt - 1], for
\* every number of slots: neither the noise of the scale nor a customer who
\* moves a bottle while the sketch is blocked lets the two drift apart.
THEOREM TotalAlwaysSum == Spec => []TotalIsSum
<1>1. BookInv => TotalIsSum
  BY SumInvIsSum DEF BookInv
<1> QED
  BY <1>1, BookInvHolds, PTL

-----------------------------------------------------------------------------
(***************************************************************************)
(* The reports implement the stack ledger                                  *)
(***************************************************************************)
Reports == [k \in 1..reported.n |-> weight_rec[k - 1]]

\* The number of bottles reported, by the place of the sketch.
LEMMA ReportedCount ==
  ASSUME BookInv
  PROVE  /\ Reports \in Seq(Int) /\ Len(Reports) = reported.n
         /\ reported.n \in 0..NSlots /\ reported.w \in Int
         /\ pc = "weigh" => reported.n = bottle_cnt /\ bottle_cnt \in Slots
         /\ pc = "report_in" => reported.n + 1 = bottle_cnt
         /\ pc = "report_out" => reported.n = bottle_cnt /\ bottle_cnt - 1 \in Slots
         /\ pc = "unweigh" => reported.n + 1 = bottle_cnt
<1>1. bottle_cnt \in 0..NSlots /\ weight_rec \in [Slots -> Int] /\ reported \in [n : Int, w : Int]
  BY DEF BookInv, CountInv, TypeOK
<1>2. IndexInBounds
  BY CountInvBounds DEF BookInv
<1>3. reported.n \in 0..NSlots
  BY <1>1, <1>2, CollectorAssumption DEF BookInv, BooksMatch, IndexInBounds, Slots
<1>4. \A k \in 1..reported.n : weight_rec[k - 1] \in Int
  BY <1>1, <1>3, CollectorAssumption DEF Slots
<1>5. Reports \in [1..reported.n -> Int]
  BY <1>4 DEF Reports
<1>6. Reports \in Seq(Int) /\ Len(Reports) = reported.n
  BY <1>3, <1>5
<1> QED
  BY <1>1, <1>2, <1>3, <1>6 DEF BookInv, BooksMatch, IndexInBounds
THEOREM ImplementsLedger == Spec => ReportsAreLedger
<1> USE DEF Ledger!ledger
<1>1. ASSUME Init PROVE Ledger!LedgerInit
  <2>1. reported.n = 0 /\ reported.w = 0
    BY <1>1 DEF Init
  <2>2. Reports = <<>>
    BY <2>1 DEF Reports
  <2> QED
    BY <2>1, <2>2 DEF Ledger!LedgerInit, Reports
<1>2. ASSUME BookInv, BookInv', [Next]_vars
      PROVE  Ledger!LedgerNext \/ UNCHANGED <<Reports, reported.w>>
  <2>1. weight_rec \in [Slots -> Int] /\ bottle_cnt \in Int
    BY <1>2, CollectorAssumption DEF BookInv, CountInv, TypeOK
  <2>2. CASE ReportIn
    <3>1. pc = "report_in" /\ UNCHANGED weight_rec
          /\ reported' = [n |-> reported.n + 1, w |-> reported.w + weight_rec[bottle_cnt - 1]]
      BY <2>2 DEF ReportIn, recVars, Record
    <3>2. bottle_cnt - 1 = reported.n /\ reported.n \in 0..NSlots - 1 /\ reported.w \in Int
          /\ Reports \in Seq(Int) /\ Len(Reports) = reported.n
      <4>1. bottle_cnt \in 0..NSlots /\ reported.n + 1 = bottle_cnt /\ reported.n \in 0..NSlots
            /\ reported.w \in Int /\ Reports \in Seq(Int) /\ Len(Reports) = reported.n
        BY <1>2, <3>1, ReportedCount DEF BookInv, CountInv, TypeOK
      <4> QED
        BY <4>1, CollectorAssumption
    <3>3. weight_rec[reported.n] \in Int
      BY <2>1, <3>2 DEF Slots
    <3>4. reported.w' \in Int /\ reported.w' - reported.w = weight_rec[reported.n]
      BY <3>1, <3>2, <3>3
    <3>5. Reports' = Append(Reports, weight_rec[reported.n])
      BY <3>1, <3>2, <3>3 DEF Reports
    <3>6. Len(Reports) < NSlots /\ reported.w' \in Int
          /\ Reports' = Append(Reports, reported.w' - reported.w)
      BY <3>2, <3>4, <3>5, CollectorAssumption
    <3> QED
      BY <3>6 DEF Ledger!LedgerNext, Ledger!Deposit, Reports
  <2>3. CASE ReportOut
    <3>1. pc = "report_out" /\ UNCHANGED weight_rec
          /\ reported' = [n |-> reported.n - 1, w |-> reported.w - weight_rec[bottle_cnt - 1]]
      BY <2>3 DEF ReportOut, recVars, Record
    <3>2. bottle_cnt = reported.n /\ reported.n \in 1..NSlots /\ reported.w \in Int
          /\ Reports \in Seq(Int) /\ Len(Reports) = reported.n
      BY <1>2, <3>1, <2>1, ReportedCount, CollectorAssumption DEF Slots
    <3>3. Reports # <<>> /\ Reports[reported.n] = weight_rec[reported.n - 1]
      BY <3>2 DEF Reports
    <3>4. reported.w' = reported.w - Reports[Len(Reports)]
      BY <3>1, <3>2, <3>3
    <3>5. Reports' = SubSeq(Reports, 1, Len(Reports) - 1)
      BY <3>1, <3>2 DEF Reports
    <3> QED
      BY <3>3, <3>4, <3>5 DEF Ledger!LedgerNext, Ledger!Withdraw, Reports
  <2>4. CASE Weigh
    <3>1. pc = "weigh" /\ UNCHANGED reported
      BY <2>4 DEF Weigh
    <3>2. bottle_cnt = reported.n /\ reported.n \in 0..NSlots
      BY <1>2, <3>1, ReportedCount
    <3>3. ASSUME NEW k \in 1..reported.n PROVE weight_rec'[k - 1] = weight_rec[k - 1]
      <4>1. k - 1 # bottle_cnt /\ k - 1 \in Slots
        BY <3>2, CollectorAssumption DEF Slots
      <4>2. PICK val : weight_rec' = [weight_rec EXCEPT ![bottle_cnt] = val]
        BY <2>4 DEF Weigh
      <4> QED
        BY <2>1, <4>1, <4>2
    <3>4. UNCHANGED Reports
      BY <3>1, <3>3 DEF Reports
    <3> QED
      BY <3>1, <3>4
  <2>5. CASE Unweigh
    <3>1. pc = "unweigh" /\ UNCHANGED reported
          /\ weight_rec' = [weight_rec EXCEPT ![bottle_cnt - 1] = 0]
      BY <2>5 DEF Unweigh
    <3>2. bottle_cnt - 1 = reported.n /\ reported.n \in 0..NSlots
      BY <1>2, <2>1, <3>1, ReportedCount, CollectorAssumption
    <3>3. ASSUME NEW k \in 1..reported.n PROVE weight_rec'[k - 1] = weight_rec[k - 1]
      <4>1. k - 1 # bottle_cnt - 1 /\ k - 1 \in Slots
        BY <3>2, CollectorAssumption DEF Slots
      <4> QED
        BY <2>1, <3>1, <4>1
    <3>4. UNCHANGED Reports
      BY <3>1, <3>3 DEF Reports
    <3> QED
      BY <3>1, <3>4
  <2>6. CASE Reboot
    <3>1. reported.n' = 0 /\ reported.w' = 0
      BY <2>6 DEF Reboot
    <3>2. Reports' = <<>>
      BY <3>1 DEF Reports
    <3> QED
      BY <3>1, <3>2 DEF Ledger!LedgerNext, Ledger!Forget, Reports
  <2>7. CASE UNCHANGED <<weight_rec, reported>>
    BY <2>7 DEF Reports
  <2>8. \/ ReportIn \/ ReportOut \/ Weigh \/ Unweigh \/ Reboot
        \/ UNCHANGED <<weight_rec, reported>>
    BY <1>2 DEF Next, Sketch, Environment, Scan, Insert, Remove, ReadSerial,
                PlaceBottle, LiftBottle, ScanCode, ScannerWorks, recVars, vars
  <2> QED
    BY <2>2, <2>3, <2>4, <2>5, <2>6, <2>7, <2>8
<1>3. ASSUME BookInv, BookInv', [Next]_vars
      PROVE  [Ledger!LedgerNext]_(Ledger!ledger)
  BY <1>2, <1>3 DEF Reports
<1> QED
  BY <1>1, <1>3, BookInvHolds, PTL DEF Spec, ReportsAreLedger, Ledger!LedgerSpec

-----------------------------------------------------------------------------
(***************************************************************************)
(* What orderly customers are told.                                        *)
(*                                                                         *)
(* Customers who wait for the sketch leave it one thing to notice at a      *)
(* time: the slot Pending.  While one is pending nothing is scanned, so the *)
(* buffers still show what was scanned for it, but for the row that is      *)
(* wiped when the collector is emptied; the platform differs from           *)
(* total_weight by its bottle alone; and since the newest bottle is taken   *)
(* first, the records are a stack with the bottle on top (StackTop).  The   *)
(* sketch itself assumes these customers: it always removes its newest      *)
(* record.                                                                  *)
(***************************************************************************)
OrderlyCustomers ==
  /\ Orderly /\ Lifo /\ Noise \subseteq {0}
  /\ \A c \in Codes : CodeLen[c] < RxCap

\* Slot s has changed and the records do not say so yet.
Pending(s) ==
  \/ pin_usg[s] # (occ[s] > 0)
  \/ s = i /\ pc \in {"weigh", "report_out", "unweigh"}

\* The bottle on s is yet to be reported.
Arriving(s) == (Pending(s) /\ occ[s] > 0) \/ (pc = "report_in" /\ s = i)

Tag == [user : Members \cup {None}, item : Products \cup {None}, emptied : BOOLEAN,
        weight : Nat, nth : Nat]

OrdTypes ==
  /\ tare = 0 /\ tag \in [Slots -> Tag]
  /\ scanned \in [user : Members \cup {None}, item : Products \cup {None}, emptied : BOOLEAN]

\* No line is under way,
Idle == tx = None /\ rx = <<>> /\ got = <<>>

\* or that of code c: its first bar_cnt characters are read, the next Len(rx)
\* have arrived.
UnderWay(c) ==
  /\ tx \in {c, None} /\ bar_cnt <= CodeLen[c]
  /\ bar_cnt + Len(rx) = IF tx = c THEN sent ELSE CodeLen[c] + 1
  /\ \A k \in 1..bar_cnt : got[k] = <<c, k>>
  /\ \A k \in 1..Len(rx) : rx[k] = Line(c)[bar_cnt + k]

\* Each buffer was last filled with the code last scanned of its kind, unless
\* that is c, or was wiped when the collector was emptied.
Filled(c) ==
  /\ scanned.user \notin {None, c} => last.user = scanned.user
  /\ scanned.item \notin {None, c} /\ ~ (layout = "ascending" /\ scanned.emptied) =>
       last.item = scanned.item

\* At most one line is under way, and it is the last code scanned of its kind.
OneLine ==
  \/ Idle /\ Filled(None)
  \/ \E c \in Codes : /\ UnderWay(c) /\ Filled(c)
                      /\ IF c \in Members THEN scanned.user = c ELSE scanned.item = c

\* The last cells are untouched, but for the wiped row.
Clean ==
  /\ "user" \notin garbled
  /\ layout = "ascending" \/ "item" \notin garbled

\* The records are the standing bottles, in the order they were placed in.
StackTop ==
  \A k \in 0..pin_cnt - 1 :
    /\ tag[pin_rec[k]].nth = k + 1 /\ tag[pin_rec[k]].weight = weight_rec[k]
    /\ pin_usg[pin_rec[k]] \/ (pin_rec[k] = i /\ pc \in {"report_out", "unweigh"})
StackAll ==
  \A s \in Slots : pin_usg[s] =>
    (pc = "weigh" /\ s = i) \/ \E k \in 0..pin_cnt - 1 : pin_rec[k] = s

OnePending == \A s, t \in Slots : Pending(s) /\ Pending(t) => s = t

\* What stands on the slot at hand.
AtSlot ==
  /\ pc \in {"insert", "weigh", "report_in"} => occ[i] > 0
  /\ pc \in {"remove", "report_out", "unweigh"} => occ[i] = 0
  /\ pc \in {"insert", "remove"} => Pending(i)
  /\ pc = "report_in" =>
       (\A s \in Slots : ~ Pending(s)) /\ pin_cnt > 0 /\ pin_rec[pin_cnt - 1] = i

Balance ==
  /\ (\A s \in Slots : ~ Pending(s)) => load = total_weight
  /\ \A s \in Slots : Pending(s) =>
       IF occ[s] > 0 THEN load = total_weight + occ[s] /\ tag[s].nth = pin_cnt + 1
       ELSE /\ load = total_weight - tag[s].weight
            /\ pin_cnt > 0 /\ s = pin_rec[pin_cnt - 1]

TagsWeigh == \A s \in Slots : occ[s] > 0 => tag[s].weight = occ[s]

\* The only bottle is gone.
Emptying(s) == Pending(s) /\ ~ (occ[s] > 0) /\ pin_cnt = 1

Silent ==
  \A s \in Slots : /\ Pending(s) \/ Arriving(s) => Idle
                   /\ Emptying(s) => scanned.emptied

ShowsScans(t) ==
  /\ t.user # None => user_barcode = Padded(t.user, UserPad)
  /\ t.item # None => ShowsItem(barcode, t.item, t.emptied)

Shown == \A s \in Slots : Arriving(s) => ShowsScans(tag[s])

\* The part about the slots, and that about the scans.
SlotsInv == OnePending /\ AtSlot /\ Balance /\ TagsWeigh /\ StackTop /\ StackAll
ScansInv == OrdTypes /\ BufInv /\ OneLine /\ Clean /\ Silent /\ Shown
OrderInv == CountInv /\ (reboots = 0 => SlotsInv /\ ScansInv)

-----------------------------------------------------------------------------
\* The types the steps need.
LEMMA SlotTypes ==
  ASSUME CountInv
  PROVE  /\ i \in Slots /\ pin_usg \in [Slots -> BOOLEAN] /\ NSlots \in Nat \ {0}
         /\ pin_cnt \in Nat /\ pin_cnt = bottle_cnt /\ pin_cnt \in 0..NSlots
         /\ total_weight \in Int /\ load \in Int
         /\ weight_rec \in [Slots -> Int] /\ pin_rec \in [Slots -> Slots]
         /\ occ \in [Slots -> Nat]
         /\ \A k \in 0..pin_cnt - 1 : k \in Slots
         /\ \A s \in Slots : occ[s] = 0 <=> ~ (occ[s] > 0)
<1>1. occ \in [Slots -> Nat]
  <2>1. occ \in [Slots -> Weights \cup {0}]
    BY DEF CountInv, TypeOK
  <2>2. Weights \cup {0} \subseteq Nat
    BY CollectorAssumption
  <2> QED BY <2>1, <2>2
<1>2. /\ i \in Slots /\ pin_usg \in [Slots -> BOOLEAN] /\ NSlots \in Nat \ {0}
      /\ pin_cnt \in 0..NSlots /\ pin_cnt = bottle_cnt
      /\ total_weight \in Int /\ load \in Int
      /\ weight_rec \in [Slots -> Int] /\ pin_rec \in [Slots -> Slots]
  BY CollectorAssumption DEF CountInv, TypeOK, CountsAgree
<1>3. pin_cnt \in Nat /\ \A k \in 0..pin_cnt - 1 : k \in Slots
  BY <1>2 DEF Slots
<1>4. \A s \in Slots : occ[s] = 0 <=> ~ (occ[s] > 0)
  BY <1>1
<1> QED BY <1>1, <1>2, <1>3, <1>4

\* A line under way is not over.
LEMMA LineGoesOn ==
  ASSUME CountInv, BufInv, NEW c \in Codes, UnderWay(c)
  PROVE  /\ tx # None \/ rx # <<>>
         /\ c # None /\ c # Torn /\ CodeLen[c] \in Nat \ {0} /\ bar_cnt \in Nat
         /\ rx \in Seq(Chars) /\ got \in Seq(Chars) /\ Len(got) = bar_cnt
         /\ sent \in Nat
<1>1. /\ c # None /\ c # Torn /\ CodeLen[c] \in Nat \ {0}
  BY CodesFit, ReaderAssumption
<1>2. /\ bar_cnt \in Nat /\ rx \in Seq(Chars) /\ got \in Seq(Chars) /\ Len(got) = bar_cnt
  BY DEF BufInv, BufTypes, Tracked, CountInv, TypeOK, ReaderTypeOK
<1>3. tx # None \/ rx # <<>>
  <2> SUFFICES ASSUME tx = None, Len(rx) = 0 PROVE FALSE
    BY <1>2
  <2>1. bar_cnt <= CodeLen[c] /\ bar_cnt + 0 = CodeLen[c] + 1
    BY <1>1 DEF UnderWay
  <2> QED BY <1>1, <1>2, <2>1
<1>4. sent \in Nat
  <2>1. sent \in {0} \/ (tx \in Codes /\ sent \in 0..CodeLen[tx])
    BY DEF CountInv, TypeOK, ReaderTypeOK
  <2> QED BY <2>1, CodesFit
<1> QED BY <1>1, <1>2, <1>3, <1>4

\* With nothing in the ring and nothing transmitted, nothing is under way.
LEMMA NothingUnderWay ==
  ASSUME CountInv, ScansInv, tx = None, rx = <<>>
  PROVE  Idle /\ Filled(None)
BY LineGoesOn DEF ScansInv, OneLine

\* What a customer who waits finds.
LEMMA QuietMeans ==
  ASSUME CountInv, ScansInv, Quiet
  PROVE  /\ \A s \in Slots : ~ Pending(s) /\ ~ Arriving(s)
         /\ \A s \in Slots : pin_usg[s] <=> occ[s] > 0
         /\ IsFiniteSet(Standing) /\ Cardinality(Standing) = pin_cnt
         /\ Idle /\ Filled(None) /\ pc \in {"scan", "serial"}
<1>1. pc \in {"scan", "serial"} /\ rx = <<>> /\ tx = None
  BY DEF Quiet
<1>2. \A s \in Slots : pin_usg[s] = (occ[s] > 0)
  BY DEF Quiet, Standing
<1>3. \A s \in Slots : ~ Pending(s) /\ ~ Arriving(s)
  BY <1>1, <1>2 DEF Pending, Arriving
<1>4. Standing = Registered
  BY <1>2 DEF Standing, Registered
<1>5. IsFiniteSet(Standing) /\ Cardinality(Standing) = pin_cnt
  <2>1. IsFiniteSet(Registered) /\ Cardinality(Registered) \in Int /\ bottle_cnt \in Int
    BY RegisteredFinite, CollectorAssumption DEF CountInv, TypeOK
  <2>2. bottle_cnt + 0 = Cardinality(Registered) + 0 /\ pin_cnt = bottle_cnt
    BY <1>1 DEF CountInv, CountsAgree
  <2> QED BY <1>4, <2>1, <2>2
<1> QED BY <1>1, <1>2, <1>3, <1>5, NothingUnderWay

-----------------------------------------------------------------------------
\* A step that changes no slot, flag or record and finishes no removal.
LEMMA SlotsSame ==
  ASSUME SlotsInv, UNCHANGED <<pin_usg, occ, tag, load, total_weight, pin_cnt, pin_rec, weight_rec>>,
         \A s \in Slots : Pending(s)' <=> Pending(s), AtSlot', pc # "weigh",
         pc \in {"report_out", "unweigh"} => pc' \in {"report_out", "unweigh"} /\ i' = i
  PROVE  SlotsInv'
<1>1. OnePending'
  BY DEF SlotsInv, OnePending
<1>2. Balance'
  BY DEF SlotsInv, Balance
<1>3. TagsWeigh'
  BY DEF SlotsInv, TagsWeigh
<1>4. StackTop'
  BY DEF SlotsInv, StackTop
<1>5. StackAll'
  BY DEF SlotsInv, StackAll
<1> QED BY <1>1, <1>2, <1>3, <1>4, <1>5 DEF SlotsInv

\* The state of the reader, as far as the argument goes.
LEMMA SameLine ==
  ASSUME UNCHANGED <<barVars, scanned>>
  PROVE  /\ Idle' <=> Idle
         /\ OneLine => OneLine'
         /\ Clean => Clean'
         /\ BufInv => BufInv'
<1>1. /\ UNCHANGED <<layout, tx, sent, rx, bar_cnt, got, last, garbled, scanned>>
      /\ UNCHANGED bufVars
  BY DEF barVars, txVars, bufVars
<1>2. /\ Filled(None)' <=> Filled(None)
      /\ \A c \in Codes : (Filled(c)' <=> Filled(c)) /\ (UnderWay(c)' <=> UnderWay(c))
  BY <1>1 DEF Filled, UnderWay
<1> QED BY <1>1, <1>2, SameBuffers DEF Idle, OneLine, Clean

\* A step that reads nothing, and after which no more bottles are to be reported.
LEMMA ScansSame ==
  ASSUME ScansInv, UNCHANGED <<barVars, scanned, tag, tare>>,
         \A s \in Slots : Pending(s)' => Pending(s) /\ UNCHANGED <<occ, pin_cnt>>,
         \A s \in Slots : Arriving(s)' => Arriving(s)
  PROVE  ScansInv'
<1>1. UNCHANGED <<layout, user_barcode, barcode, scanned>>
  BY DEF barVars, bufVars
<1>2. OrdTypes' /\ OneLine' /\ Clean' /\ BufInv'
  BY SameLine DEF ScansInv, OrdTypes
<1>3. \A s \in Slots : Emptying(s)' => Emptying(s)
  BY DEF Emptying
<1>4. Silent'
  BY <1>1, <1>3, SameLine DEF ScansInv, Silent
<1>5. Shown'
  BY <1>1 DEF ScansInv, Shown, ShowsScans, ShowsItem
<1> QED BY <1>2, <1>4, <1>5 DEF ScansInv

LEMMA OrderScan ==
  ASSUME CountInv, SlotsInv, ScansInv, Scan
  PROVE  SlotsInv' /\ ScansInv'
<1>1. pc = "scan" /\ UNCHANGED <<recVars, barcode_rec, envVars, reported, barVars>>
  BY DEF Scan
<1>2. /\ UNCHANGED <<pin_usg, occ, tag, load, total_weight, pin_cnt, pin_rec, weight_rec>>
      /\ UNCHANGED <<barVars, scanned, tag, tare>>
  BY <1>1 DEF recVars, envVars
<1>3. \/ pc' = "insert" /\ i' = i /\ occ[i] > 0 /\ ~ pin_usg[i]
      \/ pc' = "remove" /\ i' = i /\ occ[i] = 0 /\ pin_usg[i]
      \/ pc' \in {"scan", "serial"}
  BY NextSlotType, SlotTypes DEF Scan
<1>4. i \in Slots /\ pin_usg[i] \in BOOLEAN /\ occ[i] \in Nat
  BY SlotTypes
<1>5. \A s \in Slots : /\ Pending(s)' <=> Pending(s)
                       /\ Arriving(s)' <=> Arriving(s)
  BY <1>1, <1>2, <1>3 DEF Pending, Arriving
<1>6. AtSlot'
  BY <1>1, <1>2, <1>3, <1>4 DEF AtSlot, Pending
<1> QED BY <1>1, <1>2, <1>5, <1>6, SlotsSame, ScansSame

LEMMA OrderInsert ==
  ASSUME CountInv, SlotsInv, ScansInv, Insert
  PROVE  SlotsInv' /\ ScansInv'
<1>1. /\ pc = "insert" /\ pc' = "weigh" /\ i' = i /\ pin_usg' = [pin_usg EXCEPT ![i] = TRUE]
      /\ UNCHANGED <<occ, tag, load, total_weight, pin_cnt, pin_rec, weight_rec>>
      /\ UNCHANGED <<barVars, scanned, tag, tare>>
  BY DEF Insert, SlotsInv, AtSlot, envVars
<1>2. /\ i \in Slots /\ pin_usg \in [Slots -> BOOLEAN] /\ pin_rec \in [Slots -> Slots]
      /\ \A k \in 0..pin_cnt - 1 : k \in Slots
  BY SlotTypes
<1>3. occ[i] > 0 /\ Pending(i)
  BY <1>1 DEF SlotsInv, AtSlot
<1>4. /\ \A s \in Slots : pin_usg'[s] <=> pin_usg[s] \/ s = i
      /\ \A s \in Slots : s # i => pin_usg'[s] = pin_usg[s]
  BY <1>1, <1>2
<1>5. \A s \in Slots : Pending(s)' <=> Pending(s)
  BY <1>1, <1>3, <1>4 DEF Pending
<1>6. \A s \in Slots : Arriving(s)' <=> Arriving(s)
  BY <1>1, <1>5 DEF Arriving
<1>7. AtSlot'
  BY <1>1, <1>3 DEF AtSlot
<1>8. OnePending' /\ TagsWeigh'
  BY <1>1, <1>5 DEF SlotsInv, OnePending, TagsWeigh
<1>9. Balance'
  BY <1>1, <1>5 DEF SlotsInv, Balance
<1>10. StackTop'
  <2> SUFFICES ASSUME NEW k \in 0..pin_cnt - 1
               PROVE  /\ tag[pin_rec[k]].nth = k + 1 /\ tag[pin_rec[k]].weight = weight_rec[k]
                      /\ pin_usg'[pin_rec[k]]
    BY <1>1 DEF StackTop
  <2>1. /\ tag[pin_rec[k]].nth = k + 1 /\ tag[pin_rec[k]].weight = weight_rec[k]
        /\ pin_usg[pin_rec[k]]
    BY <1>1 DEF SlotsInv, StackTop
  <2>2. pin_rec[k] \in Slots
    BY <1>2
  <2> QED BY <1>4, <2>1, <2>2
<1>11. StackAll'
  BY <1>1, <1>4 DEF SlotsInv, StackAll
<1>12. SlotsInv'
  BY <1>7, <1>8, <1>9, <1>10, <1>11 DEF SlotsInv
<1> QED BY <1>1, <1>5, <1>6, <1>12, ScansSame

\* What the platform carries beyond the total is the one new bottle.
LEMMA OrderWeigh ==
  ASSUME OrderlyCustomers, CountInv, SlotsInv, ScansInv, Weigh
  PROVE  SlotsInv' /\ ScansInv'
<1>1. /\ pc = "weigh" /\ pc' = "report_in" /\ i' = i /\ pin_cnt' = pin_cnt + 1
      /\ pin_rec' = [pin_rec EXCEPT ![pin_cnt] = i]
      /\ UNCHANGED <<occ, tag, load, pin_usg>>
      /\ UNCHANGED <<barVars, scanned, tag, tare>>
  BY DEF Weigh, envVars
<1>2. /\ i \in Slots /\ pin_usg \in [Slots -> BOOLEAN] /\ pin_rec \in [Slots -> Slots]
      /\ occ \in [Slots -> Nat] /\ weight_rec \in [Slots -> Int]
      /\ total_weight \in Int /\ load \in Int /\ pin_cnt = bottle_cnt /\ pin_cnt \in Nat
      /\ \A k \in 0..pin_cnt - 1 : k \in Slots
  BY SlotTypes
<1>3. pin_cnt \in Slots
  BY <1>1, CountInvBounds DEF IndexInBounds
<1>4. occ[i] > 0 /\ pin_usg[i] /\ Pending(i)
  BY <1>1 DEF SlotsInv, AtSlot, Pending, CountInv, Counted
<1>5. load = total_weight + occ[i] /\ tag[i].nth = pin_cnt + 1 /\ tag[i].weight = occ[i]
  BY <1>2, <1>4 DEF SlotsInv, Balance, TagsWeigh
<1>6. total_weight' = load /\ weight_rec' = [weight_rec EXCEPT ![pin_cnt] = occ[i]]
  <2>1. PICK e \in Noise :
          LET val == (load - tare + e) - total_weight
          IN /\ total_weight' = total_weight + val
             /\ weight_rec' = [weight_rec EXCEPT ![bottle_cnt] = val]
    BY DEF Weigh
  <2>2. e = 0 /\ tare = 0
    BY DEF OrderlyCustomers, ScansInv, OrdTypes
  <2>3. (load - tare + e) - total_weight = occ[i]
    BY <1>2, <1>5, <2>2
  <2> QED BY <1>2, <1>5, <2>1, <2>3
<1>7. \A s \in Slots : ~ Pending(s)'
  <2> SUFFICES ASSUME NEW s \in Slots, Pending(s)' PROVE FALSE
    OBVIOUS
  <2>1. pin_usg[s] # (occ[s] > 0)
    BY <1>1 DEF Pending
  <2>2. s = i
    BY <1>2, <1>4, <2>1 DEF SlotsInv, OnePending, Pending
  <2> QED BY <1>4, <2>1, <2>2
<1>8. \A s \in Slots : Arriving(s)' => Arriving(s)
  BY <1>1, <1>4, <1>7 DEF Arriving
<1>9. /\ \A k \in 0..pin_cnt - 1 : pin_rec'[k] = pin_rec[k] /\ weight_rec'[k] = weight_rec[k]
      /\ pin_rec'[pin_cnt] = i /\ weight_rec'[pin_cnt] = occ[i]
  BY <1>1, <1>2, <1>3, <1>6
<1>10. OnePending' /\ TagsWeigh'
  BY <1>1, <1>7 DEF SlotsInv, OnePending, TagsWeigh
<1>11. Balance'
  BY <1>1, <1>6, <1>7 DEF Balance
<1>12. AtSlot'
  <2>1. pin_cnt' > 0 /\ pin_cnt' - 1 = pin_cnt
    BY <1>1, <1>2
  <2> QED BY <1>1, <1>4, <1>7, <1>9, <2>1 DEF AtSlot
<1>13. StackTop'
  <2> SUFFICES ASSUME NEW k \in 0..pin_cnt' - 1
               PROVE  /\ tag[pin_rec'[k]].nth = k + 1 /\ tag[pin_rec'[k]].weight = weight_rec'[k]
                      /\ pin_usg[pin_rec'[k]]
    BY <1>1 DEF StackTop
  <2>1. CASE k = pin_cnt
    BY <1>4, <1>5, <1>9, <2>1
  <2>2. CASE k # pin_cnt
    <3>1. k \in 0..pin_cnt - 1
      BY <1>1, <1>2, <2>2
    <3>2. /\ tag[pin_rec[k]].nth = k + 1 /\ tag[pin_rec[k]].weight = weight_rec[k]
          /\ pin_usg[pin_rec[k]]
      BY <1>1, <3>1 DEF SlotsInv, StackTop
    <3> QED BY <1>9, <3>1, <3>2
  <2> QED BY <2>1, <2>2
<1>14. StackAll'
  <2> SUFFICES ASSUME NEW s \in Slots, pin_usg[s]
               PROVE  \E k \in 0..pin_cnt' - 1 : pin_rec'[k] = s
    BY <1>1 DEF StackAll
  <2>1. pin_cnt \in 0..pin_cnt' - 1 /\ \A k \in 0..pin_cnt - 1 : k \in 0..pin_cnt' - 1
    BY <1>1, <1>2
  <2>2. CASE s = i
    BY <1>9, <2>1, <2>2
  <2>3. CASE s # i
    BY <1>9, <2>1, <2>3 DEF SlotsInv, StackAll
  <2> QED BY <2>2, <2>3
<1>15. SlotsInv'
  BY <1>10, <1>11, <1>12, <1>13, <1>14 DEF SlotsInv
<1> QED BY <1>1, <1>7, <1>8, <1>15, ScansSame

LEMMA OrderReportIn ==
  ASSUME CountInv, SlotsInv, ScansInv, ReportIn
  PROVE  SlotsInv' /\ ScansInv'
<1>1. pc = "report_in" /\ pc' \in {"scan", "serial"}
  BY NextSlotType, SlotTypes DEF ReportIn
<1>2. /\ UNCHANGED <<pin_usg, occ, tag, load, total_weight, pin_cnt, pin_rec, weight_rec>>
      /\ UNCHANGED <<barVars, scanned, tag, tare>>
  BY DEF ReportIn, recVars, envVars
<1>3. \A s \in Slots : ~ Pending(s)
  BY <1>1 DEF SlotsInv, AtSlot
<1>4. \A s \in Slots : ~ Pending(s)' /\ ~ Arriving(s)'
  BY <1>1, <1>2, <1>3 DEF Pending, Arriving
<1>5. AtSlot'
  BY <1>1 DEF AtSlot
<1> QED BY <1>1, <1>2, <1>3, <1>4, <1>5, SlotsSame, ScansSame

LEMMA OrderRemove ==
  ASSUME CountInv, SlotsInv, ScansInv, Remove
  PROVE  SlotsInv' /\ ScansInv'
<1>1. /\ pc = "remove" /\ pc' = "report_out" /\ i' = i /\ pin_usg' = [pin_usg EXCEPT ![i] = FALSE]
      /\ UNCHANGED <<occ, tag, load, total_weight, pin_cnt, pin_rec, weight_rec>>
      /\ UNCHANGED <<barVars, scanned, tag, tare>>
  BY DEF Remove, SlotsInv, AtSlot, envVars
<1>2. /\ i \in Slots /\ pin_usg \in [Slots -> BOOLEAN] /\ pin_rec \in [Slots -> Slots]
      /\ \A k \in 0..pin_cnt - 1 : k \in Slots
      /\ \A s \in Slots : occ[s] = 0 <=> ~ (occ[s] > 0)
  BY SlotTypes
<1>3. occ[i] = 0 /\ Pending(i)
  BY <1>1 DEF SlotsInv, AtSlot
<1>4. /\ \A s \in Slots : pin_usg'[s] <=> pin_usg[s] /\ s # i
      /\ \A s \in Slots : s # i => pin_usg'[s] = pin_usg[s]
  BY <1>1, <1>2
<1>5. \A s \in Slots : Pending(s)' <=> Pending(s)
  BY <1>1, <1>3, <1>4 DEF Pending
<1>6. \A s \in Slots : Arriving(s)' <=> Arriving(s)
  BY <1>1, <1>5 DEF Arriving
<1>7. AtSlot'
  BY <1>1, <1>3 DEF AtSlot
<1>8. OnePending' /\ TagsWeigh'
  BY <1>1, <1>5 DEF SlotsInv, OnePending, TagsWeigh
<1>9. Balance'
  BY <1>1, <1>5 DEF SlotsInv, Balance
<1>10. StackTop'
  <2> SUFFICES ASSUME NEW k \in 0..pin_cnt - 1
               PROVE  /\ tag[pin_rec[k]].nth = k + 1 /\ tag[pin_rec[k]].weight = weight_rec[k]
                      /\ pin_usg'[pin_rec[k]] \/ pin_rec[k] = i
    BY <1>1 DEF StackTop
  <2>1. /\ tag[pin_rec[k]].nth = k + 1 /\ tag[pin_rec[k]].weight = weight_rec[k]
        /\ pin_usg[pin_rec[k]]
    BY <1>1 DEF SlotsInv, StackTop
  <2>2. pin_rec[k] \in Slots
    BY <1>2
  <2> QED BY <1>4, <2>1, <2>2
<1>11. StackAll'
  BY <1>1, <1>4 DEF SlotsInv, StackAll
<1>12. SlotsInv'
  BY <1>7, <1>8, <1>9, <1>10, <1>11 DEF SlotsInv
<1> QED BY <1>1, <1>5, <1>6, <1>12, ScansSame

LEMMA OrderReportOut ==
  ASSUME CountInv, SlotsInv, ScansInv, ReportOut
  PROVE  SlotsInv' /\ ScansInv'
<1>1. pc = "report_out" /\ pc' = "unweigh" /\ i' = i
  BY DEF ReportOut
<1>2. /\ UNCHANGED <<pin_usg, occ, tag, load, total_weight, pin_cnt, pin_rec, weight_rec>>
      /\ UNCHANGED <<barVars, scanned, tag, tare>>
  BY DEF ReportOut, recVars, envVars
<1>3. \A s \in Slots : (Pending(s)' <=> Pending(s)) /\ (Arriving(s)' <=> Arriving(s))
  BY <1>1, <1>2 DEF Pending, Arriving
<1>4. AtSlot'
  BY <1>1, <1>2 DEF SlotsInv, AtSlot
<1> QED BY <1>1, <1>2, <1>3, <1>4, SlotsSame, ScansSame

-----------------------------------------------------------------------------
\* The record on top of the stack is that of the bottle taken.
LEMMA OrderUnweigh ==
  ASSUME CountInv, SlotsInv, ScansInv, Unweigh
  PROVE  SlotsInv' /\ ScansInv'
<1>1. /\ pc = "unweigh" /\ pin_cnt' = pin_cnt - 1
      /\ total_weight' = total_weight - weight_rec[bottle_cnt - 1]
      /\ weight_rec' = [weight_rec EXCEPT ![bottle_cnt - 1] = 0]
      /\ pin_rec' = [pin_rec EXCEPT ![pin_cnt - 1] = 0]
      /\ UNCHANGED <<pin_usg, occ, tag, load, tare, scanned>>
      /\ UNCHANGED <<layout, tx, rx, bar_cnt, bar_mode, user_barcode, got>>
      /\ ClearRow(pin_cnt - 2)
  BY DEF Unweigh, envVars, readerVars, txVars
<1>2. pc' \in {"scan", "serial"}
  BY NextSlotType, SlotTypes DEF Unweigh
<1>3. /\ i \in Slots /\ pin_usg \in [Slots -> BOOLEAN] /\ pin_rec \in [Slots -> Slots]
      /\ weight_rec \in [Slots -> Int] /\ pin_cnt = bottle_cnt /\ pin_cnt \in Nat
      /\ \A k \in 0..pin_cnt - 1 : k \in Slots
  BY SlotTypes
<1>4. occ[i] = 0 /\ ~ pin_usg[i] /\ Pending(i) /\ ~ (occ[i] > 0)
  BY <1>1, SlotTypes DEF SlotsInv, AtSlot, Pending, CountInv, Counted
<1>5. /\ load = total_weight - tag[i].weight
      /\ pin_cnt > 0 /\ i = pin_rec[pin_cnt - 1]
  BY <1>3, <1>4 DEF SlotsInv, Balance
<1>6. pin_cnt - 1 \in 0..pin_cnt - 1 /\ pin_cnt - 1 \in Slots
  BY <1>3, <1>5
<1>7. tag[i].nth = pin_cnt /\ tag[i].weight = weight_rec[pin_cnt - 1]
  BY <1>3, <1>5, <1>6 DEF SlotsInv, StackTop
<1>8. \A s \in Slots : ~ Pending(s)' /\ ~ Arriving(s)'
  <2>1. \A s \in Slots : ~ Pending(s)'
    <3> SUFFICES ASSUME NEW s \in Slots, Pending(s)' PROVE FALSE
      OBVIOUS
    <3>1. pin_usg[s] # (occ[s] > 0)
      BY <1>1, <1>2 DEF Pending
    <3>2. s = i
      BY <1>3, <1>4, <3>1 DEF SlotsInv, OnePending, Pending
    <3>3. pin_usg[i] = FALSE /\ (occ[i] > 0) = FALSE
      BY <1>3, <1>4
    <3> QED BY <3>1, <3>2, <3>3
  <2> QED BY <1>2, <2>1 DEF Arriving
<1>9. \A k \in 0..pin_cnt' - 1 :
        /\ k \in 0..pin_cnt - 1 /\ k + 1 # pin_cnt
        /\ pin_rec'[k] = pin_rec[k] /\ weight_rec'[k] = weight_rec[k]
  <2> SUFFICES ASSUME NEW k \in 0..pin_cnt' - 1
               PROVE  /\ k \in 0..pin_cnt - 1 /\ k + 1 # pin_cnt
                      /\ pin_rec'[k] = pin_rec[k] /\ weight_rec'[k] = weight_rec[k]
    OBVIOUS
  <2>1. k \in 0..pin_cnt - 1 /\ k # pin_cnt - 1 /\ k + 1 # pin_cnt
    BY <1>1, <1>3
  <2>2. k \in Slots
    BY <1>3, <2>1
  <2> QED BY <1>1, <1>3, <2>1, <2>2
<1>10. OnePending' /\ TagsWeigh' /\ AtSlot'
  BY <1>1, <1>2, <1>8 DEF SlotsInv, OnePending, TagsWeigh, AtSlot
<1>11. Balance'
  <2>1. load' = total_weight'
    BY <1>1, <1>3, <1>5, <1>7
  <2> QED BY <1>8, <2>1 DEF Balance
<1>12. StackTop'
  <2> SUFFICES ASSUME NEW k \in 0..pin_cnt' - 1
               PROVE  /\ tag[pin_rec'[k]].nth = k + 1 /\ tag[pin_rec'[k]].weight = weight_rec'[k]
                      /\ pin_usg[pin_rec'[k]]
    BY <1>1 DEF StackTop
  <2>1. /\ tag[pin_rec[k]].nth = k + 1 /\ tag[pin_rec[k]].weight = weight_rec[k]
        /\ pin_usg[pin_rec[k]] \/ pin_rec[k] = i
    BY <1>9 DEF SlotsInv, StackTop
  <2>2. pin_rec[k] # i
    BY <1>7, <1>9, <2>1
  <2> QED BY <1>9, <2>1, <2>2
<1>13. StackAll'
  <2> SUFFICES ASSUME NEW s \in Slots, pin_usg[s]
               PROVE  \E k \in 0..pin_cnt' - 1 : pin_rec'[k] = s
    BY <1>1 DEF StackAll
  <2>1. PICK k \in 0..pin_cnt - 1 : pin_rec[k] = s
    BY <1>1 DEF SlotsInv, StackAll
  <2>2. k # pin_cnt - 1
    BY <1>4, <1>5, <2>1
  <2>3. k \in 0..pin_cnt' - 1
    BY <1>1, <1>3, <2>2
  <2> QED BY <1>9, <2>1, <2>3
<1>14. SlotsInv'
  BY <1>10, <1>11, <1>12, <1>13 DEF SlotsInv
<1>15. Idle /\ Filled(None)
  BY <1>3, <1>4, NothingUnderWay DEF ScansInv, Silent, Idle
<1>16. OrdTypes' /\ Silent' /\ Shown'
  BY <1>1, <1>8 DEF ScansInv, OrdTypes, Silent, Shown, Emptying
<1>17. Idle'
  BY <1>1, <1>15 DEF Idle
<1>18. CASE UNCHANGED <<barcode, last, garbled>>
  <2>1. UNCHANGED bufVars
    BY <1>1, <1>18 DEF bufVars
  <2>2. BufInv' /\ Clean'
    BY <1>1, <1>18, <2>1, SameBuffers DEF ScansInv, Clean
  <2>3. Filled(None)'
    BY <1>1, <1>15, <1>18 DEF Filled
  <2> QED BY <1>14, <1>16, <1>17, <2>2, <2>3 DEF ScansInv, OneLine
<1>19. CASE ~ UNCHANGED <<barcode, last, garbled>>
  <2>1. /\ layout = "ascending" /\ barcode' = Wiped
        /\ last' = [last EXCEPT !.item = Torn] /\ garbled' = garbled \cup {"item"}
        /\ pin_cnt - 2 \notin Slots
    BY <1>1, <1>19 DEF ClearRow
  <2>2. scanned.emptied
    <3>1. pin_cnt = 1
      <4>1. pin_cnt \in 0..NSlots /\ NSlots \in Nat
        BY SlotTypes
      <4> QED BY <1>5, <2>1, <4>1 DEF Slots
    <3> QED BY <1>3, <1>4, <3>1 DEF ScansInv, Silent, Emptying
  <2>3. /\ BufTypes /\ Tracked /\ UserHolds /\ ItemHolds
        /\ UserPad \in Nat /\ ItemPad \in Nat
    BY HoldsBoth, ReaderAssumption DEF ScansInv, BufInv, HoldsBothIs
  <2>4. last'.user = last.user /\ last'.item = Torn /\ last' \in [user : Last, item : Last]
    <3>1. last \in [user : Last, item : Last] /\ Torn \in Last
      BY <2>3 DEF BufTypes, Last
    <3> QED BY <2>1, <3>1
  <2>5. BufTypes' /\ Tracked'
    <3>1. DOMAIN barcode' = 0..ItemPad
      BY <2>1 DEF Wiped
    <3> QED BY <1>1, <2>1, <2>3, <2>4, <3>1 DEF BufTypes, Tracked, Kinds
  <2>6. "user" \notin garbled' <=> "user" \notin garbled
    BY <2>1
  <2>7. UserHolds'
    BY <1>1, <2>3, <2>4, <2>6 DEF UserHolds, Holds
  <2>8. ItemHolds'
    <3>1. got' = <<>> /\ Len(got') = 0 /\ "item" \in garbled'
      BY <1>17, <2>1 DEF Idle
    <3> QED BY <2>3, <2>4, <3>1 DEF ItemHolds, Holds
  <2>9. BufInv'
    BY <2>5, <2>7, <2>8, HoldsBothNext DEF BufInv, HoldsBothIs
  <2>10. Clean'
    BY <1>1, <2>1, <2>6 DEF ScansInv, Clean
  <2>11. Filled(None)'
    BY <1>1, <1>15, <2>1, <2>2, <2>4 DEF Filled
  <2> QED BY <1>14, <1>16, <1>17, <2>9, <2>10, <2>11 DEF ScansInv, OneLine
<1> QED BY <1>18, <1>19

\* The code that is read is the code that was scanned.
LEMMA CodeRead ==
  ASSUME NEW c \in Codes, NEW s \in Seq(Chars), Len(s) = CodeLen[c],
         \A k \in 1..CodeLen[c] : s[k] = <<c, k>>
  PROVE  CodeIn(s) = c
<1>1. CodeLen[c] \in Nat \ {0}
  BY CodesFit
<1>2. s = Spelt(c)
  <2>1. s \in [1..CodeLen[c] -> Chars]
    BY <1>1
  <2>2. Spelt(c) = [k \in 1..CodeLen[c] |-> <<c, k>>]
    BY DEF Spelt
  <2> QED BY <2>1, <2>2
<1>3. ASSUME NEW d \in Codes, s = Spelt(d) PROVE d = c
  <2>1. CodeLen[d] \in Nat \ {0}
    BY CodesFit
  <2>2. s[1] = <<d, 1>>
    BY <1>3, <2>1 DEF Spelt
  <2>3. s[1] = <<c, 1>>
    BY <1>1
  <2> QED BY <2>2, <2>3
<1> QED BY <1>2, <1>3 DEF CodeIn

\* Barcode() reads the next character of the one line under way, or ends it and
\* has filled the buffer of its kind.
LEMMA OrderReads ==
  ASSUME CountInv, ScansInv, Barcode, UNCHANGED scanned
  PROVE  BufInv' /\ OneLine' /\ Clean'
<1>1. /\ rx # <<>> /\ rx' = Tail(rx) /\ bar_mode' = Mode /\ Head(rx) \in Chars
      /\ Head(rx) # NL => Store(Head(rx), Mode)
      /\ Head(rx) = NL => Finish(Mode)
      /\ UNCHANGED <<layout, tx, sent>>
  <2>1. RxTypes
    BY DEF CountInv, TypeOK, ReaderTypeOK, RxTypes
  <2> QED BY <2>1, ReadRx DEF Barcode, txVars
<1>2. BufInv /\ BufTypes /\ Tracked
  BY DEF ScansInv, BufInv
<1>3. PICK c \in Codes : /\ UnderWay(c) /\ Filled(c)
                         /\ IF c \in Members THEN scanned.user = c ELSE scanned.item = c
  BY <1>1 DEF ScansInv, OneLine, Idle
<1>4. /\ c # None /\ c # Torn /\ CodeLen[c] \in Nat \ {0} /\ bar_cnt \in Nat
      /\ rx \in Seq(Chars) /\ got \in Seq(Chars) /\ Len(got) = bar_cnt /\ sent \in Nat
  BY <1>2, <1>3, LineGoesOn
<1>5. /\ tx \in {c, None} /\ bar_cnt <= CodeLen[c]
      /\ bar_cnt + Len(rx) = IF tx = c THEN sent ELSE CodeLen[c] + 1
      /\ \A k \in 1..bar_cnt : got[k] = <<c, k>>
      /\ \A k \in 1..Len(rx) : rx[k] = Line(c)[bar_cnt + k]
  BY <1>3 DEF UnderWay
<1>6. /\ Len(rx) \in Nat \ {0} /\ Len(rx') = Len(rx) - 1
      /\ \A k \in 1..Len(rx') : rx'[k] = rx[k + 1]
  BY <1>1, <1>4
<1>7. Head(rx) = Line(c)[bar_cnt + 1]
  <2>1. Head(rx) = rx[1] /\ 1 \in 1..Len(rx)
    BY <1>4, <1>6
  <2> QED BY <1>5, <2>1
<1>8. bar_cnt + 1 \in 1..CodeLen[c] + 1
  BY <1>4, <1>5
<1>9. CASE bar_cnt < CodeLen[c]
  <2>1. Head(rx) = <<c, bar_cnt + 1>> /\ Head(rx) # NL
    BY <1>4, <1>7, <1>8, <1>9, LineIs
  <2>2. Store(Head(rx), Mode)
    BY <1>1, <2>1
  <2>3. bar_cnt' = bar_cnt + 1 /\ got' = Append(got, Head(rx))
    BY <2>2 DEF Store
  <2>4. /\ Len(got') = bar_cnt + 1
        /\ \A k \in 1..bar_cnt + 1 : got'[k] = <<c, k>>
    <3>1. /\ Len(got') = bar_cnt + 1 /\ got'[bar_cnt + 1] = <<c, bar_cnt + 1>>
          /\ \A k \in 1..bar_cnt : got'[k] = got[k]
      BY <1>4, <2>1, <2>3
    <3>2. \A k \in 1..bar_cnt + 1 : k = bar_cnt + 1 \/ k \in 1..bar_cnt
      BY <1>4
    <3> QED BY <1>5, <3>1, <3>2
  <2>5. Begins(got') /\ Begins(Append(got, Head(rx)))
    <3>1. Len(got') <= CodeLen[c] /\ \A k \in 1..Len(got') : got'[k] = <<c, k>>
      BY <1>4, <1>9, <2>4
    <3> QED BY <2>3, <3>1 DEF Begins
  <2>6. bar_cnt < Padding(Mode) /\ Mode \in {1, 2}
    BY <1>2, <2>5, InPlace, ModeKept
  <2>7. garbled' = garbled /\ last'.user = last.user /\ last'.item = last.item
    <3>1. /\ Mode = 1 => "item" \notin Hit(Mode)
          /\ Mode = 2 => "user" \notin Hit(Mode)
      BY <1>2, <2>6, Reached DEF Padding
    <3> QED BY <2>2, <2>5, <2>6, <3>1 DEF Store
  <2>8. BufInv' /\ Clean'
    BY <1>1, <1>2, <2>2, <2>7, StoreKeeps DEF ScansInv, Clean
  <2>9. UnderWay(c)'
    <3>1. \A k \in 1..Len(rx') : rx'[k] = Line(c)[bar_cnt' + k]
      <4> SUFFICES ASSUME NEW k \in 1..Len(rx') PROVE rx'[k] = Line(c)[bar_cnt' + k]
        OBVIOUS
      <4>1. k + 1 \in 1..Len(rx) /\ bar_cnt + (k + 1) = bar_cnt' + k
        BY <1>4, <1>6, <2>3
      <4> QED BY <1>5, <1>6, <4>1
    <3>2. bar_cnt' + Len(rx') = bar_cnt + Len(rx) /\ bar_cnt' <= CodeLen[c]
      BY <1>4, <1>6, <1>9, <2>3
    <3> QED BY <1>1, <1>5, <2>3, <2>4, <3>1, <3>2 DEF UnderWay
  <2>10. Filled(c)'
    BY <1>1, <1>3, <2>7 DEF Filled
  <2> QED BY <1>3, <2>8, <2>9, <2>10 DEF OneLine
<1>10. CASE ~ (bar_cnt < CodeLen[c])
  <2>1. bar_cnt = CodeLen[c]
    BY <1>4, <1>5, <1>10
  <2>2. Head(rx) = NL
    BY <1>4, <1>7, <1>8, <2>1, LineIs
  <2>3. Finish(Mode)
    BY <1>1, <2>2
  <2>4. /\ BufInv' /\ got' = <<>> /\ garbled' = garbled
        /\ last'.user = IF Mode = 1 THEN CodeIn(got) ELSE last.user
        /\ last'.item = IF Mode = 2 THEN CodeIn(got) ELSE last.item
    BY <1>1, <1>2, <2>3, FinishKeeps
  <2>5. tx = None /\ Len(rx) = 1
    <3>1. tx = c => sent <= CodeLen[c]
      BY <1>4 DEF CountInv, TypeOK, ReaderTypeOK
    <3> QED BY <1>4, <1>5, <1>6, <2>1, <3>1
  <2>6. Idle'
    <3>1. rx' = <<>>
      BY <1>1, <1>4, <2>5
    <3> QED BY <1>1, <2>4, <2>5, <3>1 DEF Idle
  <2>7. CodeIn(got) = c
    BY <1>4, <1>5, <2>1, CodeRead
  <2>8. Mode = IF c \in Members THEN 1 ELSE 2
    <3>1. got[1] = <<c, 1>> /\ bar_cnt > 0
      BY <1>4, <1>5, <2>1
    <3>2. Mode = ModeOf(<<c, 1>>)
      BY <1>2, <3>1, ModeKept DEF Tracked
    <3>3. <<c, 1>> \in As <=> c \in Members
      BY ReaderAssumption DEF Codes
    <3> QED BY <3>2, <3>3 DEF ModeOf
  <2>9. Filled(None)'
    <3>1. scanned \in [user : Members \cup {None}, item : Products \cup {None}, emptied : BOOLEAN]
      BY DEF ScansInv, OrdTypes
    <3>2. CASE c \in Members
      <4>1. scanned.item # c /\ scanned.user = c
        BY <1>3, <1>4, <3>1, <3>2, ReaderAssumption
      <4>2. last'.user = c /\ last'.item = last.item
        BY <2>4, <2>7, <2>8, <3>2
      <4> QED BY <1>1, <1>3, <4>1, <4>2 DEF Filled
    <3>3. CASE c \notin Members
      <4>1. scanned.user # c /\ scanned.item = c
        BY <1>3, <1>4, <3>1, <3>3
      <4>2. last'.item = c /\ last'.user = last.user
        BY <2>4, <2>7, <2>8, <3>3
      <4> QED BY <1>1, <1>3, <4>1, <4>2 DEF Filled
    <3> QED BY <3>2, <3>3
  <2>10. Clean'
    BY <1>1, <2>4 DEF ScansInv, Clean
  <2> QED BY <2>4, <2>6, <2>9, <2>10 DEF OneLine
<1> QED BY <1>9, <1>10

\* The ring has room for the next character of the one line.
LEMMA OrderArrives ==
  ASSUME OrderlyCustomers, CountInv, ScansInv, Arrive, UNCHANGED scanned
  PROVE  BufInv' /\ OneLine' /\ Clean'
<1>1. tx # None /\ UNCHANGED <<layout, bufVars>>
  BY DEF Arrive
<1>2. UNCHANGED <<bar_cnt, got, last, garbled>>
  BY <1>1 DEF bufVars
<1>3. BufInv' /\ Clean'
  BY <1>1, <1>2, SameBuffers DEF ScansInv, Clean
<1>4. PICK c \in Codes : /\ UnderWay(c) /\ Filled(c)
                         /\ IF c \in Members THEN scanned.user = c ELSE scanned.item = c
  BY <1>1 DEF ScansInv, OneLine, Idle
<1>5. /\ c # None /\ CodeLen[c] \in Nat \ {0} /\ bar_cnt \in Nat /\ rx \in Seq(Chars)
      /\ sent \in Nat
  BY <1>4, LineGoesOn DEF ScansInv
<1>6. /\ tx = c /\ bar_cnt <= CodeLen[c] /\ bar_cnt + Len(rx) = sent
      /\ \A k \in 1..bar_cnt : got[k] = <<c, k>>
      /\ \A k \in 1..Len(rx) : rx[k] = Line(c)[bar_cnt + k]
  BY <1>1, <1>4 DEF UnderWay
<1>7. sent <= CodeLen[c] /\ sent + 1 \in 1..CodeLen[c] + 1
  <2>1. sent \in 0..CodeLen[c]
    BY <1>5, <1>6 DEF CountInv, TypeOK, ReaderTypeOK
  <2> QED BY <1>5, <2>1
<1>8. PICK a : a = Line(c)[sent + 1]
  OBVIOUS
<1>9. a \in Chars /\ (a = NL <=> sent = CodeLen[c])
  BY <1>5, <1>7, <1>8, LineIs
<1>10. rx' = Append(rx, a)
  <2>1. CodeLen[c] < RxCap /\ RxCap \in Nat
    BY ReaderAssumption DEF OrderlyCustomers
  <2>2. Len(rx) < RxCap
    BY <1>5, <1>6, <1>7, <2>1
  <2> QED BY <1>6, <1>8, <2>2 DEF Arrive
<1>11. tx' = (IF a = NL THEN None ELSE c) /\ sent' = (IF a = NL THEN 0 ELSE sent + 1)
  BY <1>6, <1>8 DEF Arrive
<1>12. /\ Len(rx') = Len(rx) + 1
       /\ \A k \in 1..Len(rx') : rx'[k] = Line(c)[bar_cnt + k]
  <2>1. /\ Len(rx') = Len(rx) + 1 /\ rx'[Len(rx) + 1] = a
        /\ \A k \in 1..Len(rx) : rx'[k] = rx[k]
    BY <1>5, <1>9, <1>10
  <2> SUFFICES ASSUME NEW k \in 1..Len(rx') PROVE rx'[k] = Line(c)[bar_cnt + k]
    BY <2>1
  <2>2. CASE k = Len(rx) + 1
    <3>1. bar_cnt + k = sent + 1
      <4>1. Len(rx) \in Nat /\ bar_cnt \in Nat /\ bar_cnt + Len(rx) = sent
        BY <1>5, <1>6
      <4> QED BY <2>2, <4>1
    <3> QED BY <1>8, <2>1, <2>2, <3>1
  <2>3. CASE k # Len(rx) + 1
    <3>1. k \in 1..Len(rx)
      BY <1>5, <2>1, <2>3
    <3> QED BY <1>6, <2>1, <3>1
  <2> QED BY <2>2, <2>3
<1>13. bar_cnt + Len(rx') = IF tx' = c THEN sent' ELSE CodeLen[c] + 1
  BY <1>5, <1>6, <1>9, <1>11, <1>12
<1>14. UnderWay(c)'
  BY <1>2, <1>6, <1>11, <1>12, <1>13 DEF UnderWay
<1>15. Filled(c)'
  BY <1>1, <1>2, <1>4 DEF Filled
<1> QED BY <1>3, <1>4, <1>14, <1>15 DEF OneLine

LEMMA OrderScanner ==
  ASSUME OrderlyCustomers, CountInv, SlotsInv, ScansInv, ScannerWorks
  PROVE  SlotsInv' /\ ScansInv'
<1>1. /\ Arrive /\ tx # None
      /\ UNCHANGED <<pin_usg, occ, tag, load, total_weight, pin_cnt, pin_rec, weight_rec>>
      /\ UNCHANGED <<pc, i, scanned, tare>>
  BY DEF ScannerWorks, Arrive, recVars, envVars
<1>2. \A s \in Slots : ~ Pending(s)' /\ ~ Arriving(s)'
  <2>1. \A s \in Slots : ~ Pending(s) /\ ~ Arriving(s)
    BY <1>1 DEF ScansInv, Silent, Idle
  <2> QED BY <1>1, <2>1 DEF Pending, Arriving
<1>3. SlotsInv'
  <2>1. AtSlot'
    BY <1>1, <1>2 DEF SlotsInv, AtSlot, Pending
  <2>2. pc \notin {"weigh", "report_out", "unweigh"}
    BY <1>1, <1>2, SlotTypes DEF Pending
  <2>3. \A s \in Slots : Pending(s)' <=> Pending(s)
    BY <1>1 DEF Pending
  <2> QED BY <1>1, <2>1, <2>2, <2>3, SlotsSame
<1>4. OrdTypes' /\ Silent' /\ Shown'
  BY <1>1, <1>2 DEF ScansInv, OrdTypes, Silent, Shown, Emptying
<1> QED BY <1>1, <1>3, <1>4, OrderArrives DEF ScansInv

LEMMA OrderReadSerial ==
  ASSUME CountInv, SlotsInv, ScansInv, ReadSerial
  PROVE  SlotsInv' /\ ScansInv'
<1>1. pc = "serial" /\ pc' = "scan"
  BY DEF ReadSerial
<1>2. /\ UNCHANGED <<pin_usg, occ, tag, load, total_weight, pin_cnt, pin_rec, weight_rec>>
      /\ UNCHANGED <<i, scanned, tag, tare>>
  BY DEF ReadSerial, recVars, envVars
<1>3. \A s \in Slots : (Pending(s)' <=> Pending(s)) /\ (Arriving(s)' <=> Arriving(s))
  BY <1>1, <1>2 DEF Pending, Arriving
<1>4. SlotsInv'
  <2>1. AtSlot'
    BY <1>1 DEF AtSlot
  <2> QED BY <1>1, <1>2, <1>3, <2>1, SlotsSame
<1>5. CASE UNCHANGED barVars
  BY <1>2, <1>3, <1>4, <1>5, ScansSame
<1>6. CASE Barcode
  <2>1. rx # <<>>
    BY <1>6 DEF Barcode
  <2>2. \A s \in Slots : ~ Pending(s)' /\ ~ Arriving(s)'
    BY <1>3, <2>1 DEF ScansInv, Silent, Idle
  <2>3. OrdTypes' /\ Silent' /\ Shown'
    BY <1>2, <2>2 DEF ScansInv, OrdTypes, Silent, Shown, Emptying
  <2> QED BY <1>2, <1>4, <1>6, <2>3, OrderReads DEF ScansInv
<1> QED BY <1>5, <1>6 DEF ReadSerial

\* A scan starts the one line.
LEMMA OrderScanCode ==
  ASSUME OrderlyCustomers, CountInv, SlotsInv, ScansInv, NEW c \in Codes, ScanCode(c)
  PROVE  SlotsInv' /\ ScansInv'
<1>1. /\ \A s \in Slots : ~ Pending(s) /\ ~ Arriving(s)
      /\ Idle /\ Filled(None) /\ pc \in {"scan", "serial"}
  BY QuietMeans DEF OrderlyCustomers, ScanCode
<1>2. /\ UNCHANGED <<pin_usg, occ, tag, load, total_weight, pin_cnt, pin_rec, weight_rec>>
      /\ UNCHANGED <<pc, i, tag, tare, layout, rx, bufVars>>
      /\ tx' = c /\ sent' = 0
      /\ scanned' = IF c \in Members THEN [scanned EXCEPT !.user = c]
                    ELSE [scanned EXCEPT !.item = c, !.emptied = FALSE]
  BY DEF ScanCode, ScannerSends, recVars
<1>3. \A s \in Slots : ~ Pending(s)' /\ ~ Arriving(s)'
  BY <1>1, <1>2 DEF Pending, Arriving
<1>4. SlotsInv'
  <2>1. AtSlot'
    BY <1>1, <1>2 DEF AtSlot
  <2> QED BY <1>1, <1>2, <1>3, <2>1, SlotsSame
<1>5. scanned \in [user : Members \cup {None}, item : Products \cup {None}, emptied : BOOLEAN]
  BY DEF ScansInv, OrdTypes
<1>6. \/ /\ c \in Members /\ scanned'.user = c
         /\ scanned'.item = scanned.item /\ scanned'.emptied = scanned.emptied
      \/ /\ c \in Products /\ c \notin Members /\ scanned'.item = c
         /\ scanned'.user = scanned.user
  BY <1>2, <1>5, ReaderAssumption DEF Codes
<1>7. OrdTypes'
  BY <1>2, <1>5 DEF ScansInv, OrdTypes, Codes
<1>8. BufInv' /\ Clean'
  BY <1>2, SameBuffers DEF ScansInv, Clean, bufVars
<1>9. UNCHANGED <<layout, rx, bar_cnt, got, last>>
  BY <1>2 DEF bufVars
<1>10. UnderWay(c)'
  <2>1. bar_cnt = 0 /\ Len(rx) = 0
    <3>1. Len(got) = bar_cnt /\ got = <<>> /\ rx = <<>>
      BY <1>1 DEF ScansInv, BufInv, Tracked, Idle
    <3> QED BY <3>1
  <2>2. CodeLen[c] \in Nat
    BY CodesFit
  <2> QED BY <1>2, <1>9, <2>1, <2>2 DEF UnderWay
<1>11. Filled(c)'
  BY <1>1, <1>6, <1>9 DEF Filled
<1>12. OneLine'
  BY <1>6, <1>10, <1>11 DEF OneLine
<1>13. Silent' /\ Shown'
  BY <1>3 DEF Silent, Shown, Emptying
<1> QED BY <1>4, <1>7, <1>8, <1>12, <1>13 DEF ScansInv

\* Between two lines the buffers show what they were last filled with.
LEMMA ScansShown ==
  ASSUME CountInv, ScansInv, Idle, Filled(None)
  PROVE  ShowsScans(scanned)
<1>1. UserHolds /\ ItemHolds /\ UserPad \in Nat /\ ItemPad \in Nat
  BY HoldsBoth, ReaderAssumption DEF ScansInv, BufInv, HoldsBothIs
<1>2. got = <<>> /\ Len(got) = 0
  BY DEF Idle
<1>3. /\ user_barcode \in [0..UserPad -> Chars] /\ barcode \in [0..ItemPad -> Cells]
      /\ scanned \in [user : Members \cup {None}, item : Products \cup {None}, emptied : BOOLEAN]
  BY DEF CountInv, TypeOK, ReaderTypeOK, ScansInv, OrdTypes
<1>4. ASSUME scanned.user # None
      PROVE  user_barcode = Padded(scanned.user, UserPad)
  <2>1. PICK u \in Members : u = scanned.user /\ u = last.user
    BY <1>3, <1>4 DEF Filled
  <2>2. u # None /\ u # Torn /\ CodeLen[u] \in Nat /\ CodeLen[u] <= UserPad
    BY ReaderAssumption DEF Codes
  <2>3. Padded(u, UserPad) = [k \in 0..UserPad |-> IF k < CodeLen[u] THEN <<u, k + 1>>
                                                 ELSE IF k < UserPad THEN FILL ELSE NUL]
    BY <2>2 DEF Padded
  <2>4. \A k \in 0..UserPad : user_barcode[k] = Padded(u, UserPad)[k]
    <3> SUFFICES ASSUME NEW k \in 0..UserPad PROVE user_barcode[k] = Padded(u, UserPad)[k]
      OBVIOUS
    <3>1. CASE k < UserPad
      BY <1>1, <1>2, <2>1, <2>2, <3>1 DEF UserHolds, Holds
    <3>2. CASE ~ (k < UserPad)
      <4>1. user_barcode[k] = NUL
        BY <1>1, <1>2, <3>2 DEF UserHolds, Holds, ScansInv, Clean
      <4>2. ~ (k < CodeLen[u])
        BY <1>1, <2>2, <3>2
      <4> QED BY <2>3, <3>2, <4>1, <4>2
    <3> QED BY <3>1, <3>2
  <2> QED BY <1>3, <2>1, <2>3, <2>4
<1>5. ASSUME scanned.item # None
      PROVE  ShowsItem(barcode, scanned.item, scanned.emptied)
  <2> SUFFICES ASSUME ~ (layout = "ascending" /\ scanned.emptied)
               PROVE  ShowsItem(barcode, scanned.item, scanned.emptied)
    BY DEF ShowsItem
  <2>1. PICK p \in Products : p = scanned.item /\ p = last.item
    BY <1>3, <1>5 DEF Filled
  <2>2. p # None /\ p # Torn /\ CodeLen[p] \in Nat /\ CodeLen[p] <= ItemPad
    BY ReaderAssumption DEF Codes
  <2>3. Padded(p, ItemPad) = [k \in 0..ItemPad |-> IF k < CodeLen[p] THEN <<p, k + 1>>
                                                 ELSE IF k < ItemPad THEN FILL ELSE NUL]
    BY <2>2 DEF Padded
  <2>4. \A k \in 0..ItemPad : k < ItemPad => barcode[k] = Padded(p, ItemPad)[k]
    BY <1>1, <1>2, <2>1, <2>2 DEF ItemHolds, Holds
  <2>5. CASE layout = "ascending"
    <3>1. \A k \in 0..ItemPad - 1 : k \in 0..ItemPad /\ k < ItemPad
      BY <1>1
    <3> QED BY <2>1, <2>4, <2>5, <3>1 DEF ShowsItem
  <2>6. CASE layout # "ascending"
    <3>1. \A k \in 0..ItemPad : barcode[k] = Padded(p, ItemPad)[k]
      <4> SUFFICES ASSUME NEW k \in 0..ItemPad, ~ (k < ItemPad)
                   PROVE  barcode[k] = Padded(p, ItemPad)[k]
        BY <2>4
      <4>1. barcode[k] = NUL
        BY <1>1, <1>2, <2>6 DEF ItemHolds, Holds, ScansInv, Clean
      <4>2. ~ (k < CodeLen[p])
        BY <1>1, <2>2
      <4> QED BY <2>3, <4>1, <4>2
    <3> QED BY <1>3, <2>1, <2>3, <2>6, <3>1 DEF ShowsItem
  <2> QED BY <2>5, <2>6
<1> QED BY <1>4, <1>5 DEF ShowsScans

\* A bottle placed is the one thing pending, and was scanned for.
LEMMA OrderPlace ==
  ASSUME OrderlyCustomers, CountInv, SlotsInv, ScansInv,
         NEW s \in Slots, NEW w \in Weights, PlaceBottle(s, w)
  PROVE  SlotsInv' /\ ScansInv'
<1>1. /\ \A t \in Slots : ~ Pending(t) /\ ~ Arriving(t)
      /\ \A t \in Slots : pin_usg[t] <=> occ[t] > 0
      /\ Cardinality(Standing) = pin_cnt
      /\ Idle /\ Filled(None) /\ pc \in {"scan", "serial"}
  BY QuietMeans DEF OrderlyCustomers, PlaceBottle, MayAct
<1>2. /\ occ' = [occ EXCEPT ![s] = w] /\ load' = load + w /\ occ[s] = 0
      /\ tag' = [tag EXCEPT ![s] = [user |-> scanned.user, item |-> scanned.item,
                                    emptied |-> scanned.emptied,
                                    weight |-> w, nth |-> pin_cnt + 1]]
      /\ scanned' = [scanned EXCEPT !.item = None]
      /\ UNCHANGED <<pc, i, pin_usg, total_weight, pin_cnt, pin_rec, weight_rec>>
      /\ UNCHANGED <<tare, barVars>>
  BY <1>1 DEF PlaceBottle, recVars
<1>3. /\ pin_usg \in [Slots -> BOOLEAN] /\ pin_rec \in [Slots -> Slots]
      /\ occ \in [Slots -> Nat] /\ pin_cnt \in Nat /\ w \in Nat /\ w > 0
      /\ total_weight \in Int /\ load \in Int
      /\ \A k \in 0..pin_cnt - 1 : k \in Slots
  BY SlotTypes, CollectorAssumption
<1>4. /\ tag \in [Slots -> Tag]
      /\ scanned \in [user : Members \cup {None}, item : Products \cup {None}, emptied : BOOLEAN]
  BY DEF ScansInv, OrdTypes
<1>5. /\ occ'[s] = w /\ tag'[s].nth = pin_cnt + 1 /\ tag'[s].weight = w
      /\ tag'[s].user = scanned.user /\ tag'[s].item = scanned.item
      /\ tag'[s].emptied = scanned.emptied
      /\ scanned'.user = scanned.user /\ scanned'.item = None
      /\ \A t \in Slots : t # s => occ'[t] = occ[t] /\ tag'[t] = tag[t]
  BY <1>2, <1>3, <1>4
<1>6. ~ pin_usg[s] /\ pin_usg[s] = FALSE /\ (occ'[s] > 0) = TRUE
  BY <1>1, <1>2, <1>3, <1>5
<1>7. \A t \in Slots : Pending(t)' <=> t = s
  <2> SUFFICES ASSUME NEW t \in Slots PROVE Pending(t)' <=> t = s
    OBVIOUS
  <2>1. CASE t = s
    BY <1>2, <1>6, <2>1 DEF Pending
  <2>2. CASE t # s
    BY <1>1, <1>2, <1>5, <2>2 DEF Pending
  <2> QED BY <2>1, <2>2
<1>8. \A t \in Slots : Arriving(t)' => t = s
  BY <1>1, <1>2, <1>7 DEF Arriving
<1>9. OnePending' /\ AtSlot'
  BY <1>1, <1>2, <1>7 DEF OnePending, AtSlot
<1>10. Balance'
  <2>1. load = total_weight
    BY <1>1 DEF SlotsInv, Balance
  <2>2. load' = total_weight' + occ'[s] /\ tag'[s].nth = pin_cnt' + 1 /\ occ'[s] > 0
    BY <1>2, <1>3, <1>5, <2>1
  <2> QED BY <1>7, <2>2 DEF Balance
<1>11. TagsWeigh'
  BY <1>5 DEF SlotsInv, TagsWeigh
<1>12. StackTop'
  <2> SUFFICES ASSUME NEW k \in 0..pin_cnt - 1
               PROVE  /\ tag'[pin_rec[k]].nth = k + 1
                      /\ tag'[pin_rec[k]].weight = weight_rec[k]
                      /\ pin_usg[pin_rec[k]]
    BY <1>1, <1>2 DEF StackTop
  <2>1. /\ tag[pin_rec[k]].nth = k + 1 /\ tag[pin_rec[k]].weight = weight_rec[k]
        /\ pin_usg[pin_rec[k]]
    BY <1>1 DEF SlotsInv, StackTop
  <2>2. pin_rec[k] \in Slots /\ pin_rec[k] # s
    BY <1>3, <1>6, <2>1
  <2> QED BY <1>5, <2>1, <2>2
<1>13. StackAll'
  BY <1>1, <1>2 DEF SlotsInv, StackAll
<1>14. SlotsInv'
  BY <1>9, <1>10, <1>11, <1>12, <1>13 DEF SlotsInv
<1>15. OrdTypes'
  <2>1. pin_cnt + 1 \in Nat
    BY <1>3
  <2>2. [user |-> scanned.user, item |-> scanned.item, emptied |-> scanned.emptied,
         weight |-> w, nth |-> pin_cnt + 1] \in Tag
    BY <1>3, <1>4, <2>1 DEF Tag
  <2> QED BY <1>2, <1>4, <2>2 DEF ScansInv, OrdTypes
<1>16. /\ UNCHANGED <<layout, tx, rx, got, last, garbled, user_barcode, barcode>>
       /\ UNCHANGED bufVars
  BY <1>2 DEF barVars, txVars, bufVars
<1>17. Idle' /\ BufInv' /\ Clean'
  BY <1>1, <1>16, SameBuffers DEF ScansInv, Idle, Clean
<1>18. OneLine'
  <2>1. Filled(None)'
    BY <1>1, <1>5, <1>16 DEF Filled
  <2> QED BY <1>17, <2>1 DEF OneLine
<1>19. Silent'
  BY <1>5, <1>6, <1>7, <1>17 DEF Silent, Emptying
<1>20. ShowsScans(scanned)
  BY <1>1, ScansShown
<1>21. Shown'
  <2> SUFFICES ASSUME NEW t \in Slots, Arriving(t)' PROVE ShowsScans(tag[t])'
    BY DEF Shown
  <2>1. t = s
    BY <1>8
  <2> QED BY <1>5, <1>16, <1>20, <2>1 DEF ShowsScans, ShowsItem
<1> QED BY <1>14, <1>15, <1>17, <1>18, <1>19, <1>21 DEF ScansInv

\* So is a bottle taken, whose record is the newest.
LEMMA OrderLift ==
  ASSUME OrderlyCustomers, CountInv, SlotsInv, ScansInv, NEW s \in Slots, LiftBottle(s)
  PROVE  SlotsInv' /\ ScansInv'
<1>1. /\ \A t \in Slots : ~ Pending(t) /\ ~ Arriving(t)
      /\ \A t \in Slots : pin_usg[t] <=> occ[t] > 0
      /\ IsFiniteSet(Standing) /\ Cardinality(Standing) = pin_cnt
      /\ Idle /\ Filled(None) /\ pc \in {"scan", "serial"}
  BY QuietMeans DEF OrderlyCustomers, LiftBottle, MayAct
<1>2. /\ occ' = [occ EXCEPT ![s] = 0] /\ load' = load - occ[s] /\ occ[s] > 0
      /\ tag[s].nth = pin_cnt
      /\ scanned' = [scanned EXCEPT !.emptied = @ \/ Standing = {s}]
      /\ UNCHANGED <<pc, i, pin_usg, tag, total_weight, pin_cnt, pin_rec, weight_rec>>
      /\ UNCHANGED <<tare, barVars>>
  BY <1>1 DEF LiftBottle, recVars, OrderlyCustomers
<1>3. /\ pin_usg \in [Slots -> BOOLEAN] /\ occ \in [Slots -> Nat] /\ pin_cnt \in Nat
      /\ total_weight \in Int /\ load \in Int
  BY SlotTypes
<1>4. scanned \in [user : Members \cup {None}, item : Products \cup {None}, emptied : BOOLEAN]
  BY DEF ScansInv, OrdTypes
<1>5. /\ occ'[s] = 0 /\ scanned'.user = scanned.user /\ scanned'.item = scanned.item
      /\ scanned'.emptied <=> scanned.emptied \/ Standing = {s}
      /\ \A t \in Slots : t # s => occ'[t] = occ[t]
  BY <1>2, <1>3, <1>4
<1>6. pin_usg[s] = TRUE /\ (occ'[s] > 0) = FALSE
  BY <1>1, <1>2, <1>3, <1>5
<1>7. \A t \in Slots : Pending(t)' <=> t = s
  <2> SUFFICES ASSUME NEW t \in Slots PROVE Pending(t)' <=> t = s
    OBVIOUS
  <2>1. CASE t = s
    BY <1>2, <1>6, <2>1 DEF Pending
  <2>2. CASE t # s
    BY <1>1, <1>2, <1>5, <2>2 DEF Pending
  <2> QED BY <2>1, <2>2
<1>8. \A t \in Slots : ~ Arriving(t)'
  BY <1>1, <1>2, <1>6, <1>7 DEF Arriving
<1>9. OnePending' /\ AtSlot'
  BY <1>1, <1>2, <1>7 DEF OnePending, AtSlot
<1>10. pin_cnt > 0 /\ s = pin_rec[pin_cnt - 1]
  <2>1. PICK k \in 0..pin_cnt - 1 : pin_rec[k] = s
    BY <1>1, <1>6 DEF SlotsInv, StackAll
  <2>2. tag[s].nth = k + 1
    BY <2>1 DEF SlotsInv, StackTop
  <2>3. k = pin_cnt - 1 /\ pin_cnt > 0
    BY <1>2, <1>3, <2>2
  <2> QED BY <2>1, <2>3
<1>11. Balance'
  <2>1. load = total_weight /\ tag[s].weight = occ[s]
    BY <1>1, <1>2 DEF SlotsInv, Balance, TagsWeigh
  <2>2. load' = total_weight' - tag'[s].weight /\ pin_cnt' > 0 /\ s = pin_rec'[pin_cnt' - 1]
    BY <1>2, <1>3, <1>10, <2>1
  <2> QED BY <1>6, <1>7, <2>2 DEF Balance
<1>12. TagsWeigh'
  BY <1>2, <1>5, <1>6 DEF SlotsInv, TagsWeigh
<1>13. StackTop' /\ StackAll'
  BY <1>1, <1>2 DEF SlotsInv, StackTop, StackAll
<1>14. SlotsInv'
  BY <1>9, <1>11, <1>12, <1>13 DEF SlotsInv
<1>15. OrdTypes'
  BY <1>2, <1>4 DEF ScansInv, OrdTypes
<1>16. /\ UNCHANGED <<layout, tx, rx, got, last, garbled>>
       /\ UNCHANGED bufVars
  BY <1>2 DEF barVars, txVars, bufVars
<1>17. Idle' /\ BufInv' /\ Clean'
  BY <1>1, <1>16, SameBuffers DEF ScansInv, Idle, Clean
<1>18. OneLine'
  <2>1. Filled(None)'
    BY <1>1, <1>5, <1>16 DEF Filled
  <2> QED BY <1>17, <2>1 DEF OneLine
<1>19. pin_cnt = 1 => Standing = {s}
  <2>1. s \in Standing
    BY <1>2 DEF Standing
  <2>2. pin_cnt = 1 => \E t : Standing = {t}
    BY <1>1, FS_Singleton
  <2> QED BY <2>1, <2>2
<1>20. Silent' /\ Shown'
  BY <1>2, <1>5, <1>8, <1>17, <1>19 DEF Silent, Shown, Emptying
<1> QED BY <1>14, <1>15, <1>17, <1>18, <1>20 DEF ScansInv

-----------------------------------------------------------------------------
LEMMA OrderInit ==
  ASSUME Init
  PROVE  OrderInv
<1>1. CountInv
  BY CountInvInit
<1>2. /\ pc = "scan" /\ pin_cnt = 0 /\ load = 0 /\ total_weight = 0 /\ tare = 0
      /\ pin_usg = [s \in Slots |-> FALSE] /\ occ = [s \in Slots |-> 0]
      /\ scanned = [user |-> None, item |-> None, emptied |-> FALSE]
      /\ tag = [s \in Slots |-> NoTag]
      /\ tx = None /\ rx = <<>> /\ got = <<>> /\ garbled = {}
  BY DEF Init, BarInit, Zeros, Nobody
<1>3. \A s \in Slots : ~ Pending(s) /\ ~ Arriving(s) /\ ~ pin_usg[s] /\ ~ (occ[s] > 0)
  <2> SUFFICES ASSUME NEW s \in Slots
               PROVE  ~ Pending(s) /\ ~ Arriving(s) /\ ~ pin_usg[s] /\ ~ (occ[s] > 0)
    OBVIOUS
  <2>1. pin_usg[s] = FALSE /\ (occ[s] > 0) = FALSE
    BY <1>2
  <2> QED BY <1>2, <2>1 DEF Pending, Arriving
<1>4. SlotsInv
  BY <1>2, <1>3 DEF SlotsInv, OnePending, AtSlot, Balance, TagsWeigh, StackTop, StackAll
<1>5. OrdTypes
  <2>1. NoTag \in Tag
    BY DEF NoTag, Tag
  <2> QED BY <1>2, <2>1 DEF OrdTypes
<1>6. BufInv
  <2>1. FreshReader
    BY DEF Init, BarInit, FreshReader
  <2> QED BY <2>1, Fresh
<1>7. OneLine /\ Clean
  BY <1>2 DEF OneLine, Idle, Filled, Clean
<1>8. Silent /\ Shown
  BY <1>3 DEF Silent, Shown, Emptying
<1>9. ScansInv
  BY <1>5, <1>6, <1>7, <1>8 DEF ScansInv
<1> QED BY <1>1, <1>4, <1>9 DEF OrderInv

\* When nothing happens.
LEMMA OrderStutter ==
  ASSUME SlotsInv, ScansInv, UNCHANGED vars
  PROVE  SlotsInv' /\ ScansInv'
<1>1. UNCHANGED <<pc, i, pin_usg, occ, tag, load, total_weight, pin_cnt, pin_rec, weight_rec,
                  barVars, scanned, tare>>
  BY DEF vars, recVars, envVars
<1>2. \A s \in Slots : (Pending(s)' <=> Pending(s)) /\ (Arriving(s)' <=> Arriving(s))
  BY <1>1 DEF Pending, Arriving
<1>3. SlotsInv'
  <2>1. OnePending' /\ TagsWeigh'
    BY <1>1, <1>2 DEF SlotsInv, OnePending, TagsWeigh
  <2>2. AtSlot'
    BY <1>1 DEF SlotsInv, AtSlot, Pending
  <2>3. Balance'
    BY <1>1, <1>2 DEF SlotsInv, Balance
  <2>4. StackTop' /\ StackAll'
    BY <1>1 DEF SlotsInv, StackTop, StackAll
  <2> QED BY <2>1, <2>2, <2>3, <2>4 DEF SlotsInv
<1> QED BY <1>1, <1>2, <1>3, ScansSame

LEMMA OrderStep ==
  ASSUME OrderlyCustomers, OrderInv, [Next]_vars
  PROVE  OrderInv'
<1>1. CountInv'
  BY CountInvStep DEF OrderInv
<1> SUFFICES ASSUME reboots' = 0 PROVE SlotsInv' /\ ScansInv'
  BY <1>1 DEF OrderInv
<1>2. ~ Reboot
  <2>1. reboots \in Nat
    BY CollectorAssumption DEF OrderInv, CountInv, TypeOK
  <2> QED BY <2>1 DEF Reboot
<1>3. reboots = 0
  <2>1. CASE Sketch
    BY <2>1 DEF Sketch, Scan, Insert, Weigh, ReportIn, Remove, ReportOut, Unweigh, ReadSerial,
                envVars
  <2>2. CASE Environment
    BY <1>2, <2>2 DEF Environment, LiftBottle, PlaceBottle, ScanCode, ScannerWorks, envVars
  <2>3. CASE UNCHANGED vars
    BY <2>3 DEF vars, envVars
  <2> QED BY <2>1, <2>2, <2>3 DEF Next
<1>4. CountInv /\ SlotsInv /\ ScansInv
  BY <1>3 DEF OrderInv
<1>5. CASE Scan \/ Insert \/ Weigh \/ ReportIn
  BY <1>4, <1>5, OrderScan, OrderInsert, OrderWeigh, OrderReportIn
<1>6. CASE Remove \/ ReportOut \/ Unweigh \/ ReadSerial
  BY <1>4, <1>6, OrderRemove, OrderReportOut, OrderUnweigh, OrderReadSerial
<1>7. CASE Environment
  BY <1>2, <1>4, <1>7, OrderPlace, OrderLift, OrderScanCode, OrderScanner DEF Environment
<1>8. CASE UNCHANGED vars
  BY <1>4, <1>8, OrderStutter
<1> QED BY <1>5, <1>6, <1>7, <1>8 DEF Next, Sketch

LEMMA OrderAlways == OrderlyCustomers => (Spec => []OrderInv)
<1>1. Init => OrderInv
  BY OrderInit
<1>2. OrderlyCustomers /\ OrderInv /\ [Next]_vars => OrderInv'
  BY OrderStep
<1>3. ASSUME OrderlyCustomers PROVE Spec => []OrderInv
  <2>1. OrderInv /\ [Next]_vars => OrderInv'
    BY <1>2, <1>3
  <2> QED BY <1>1, <2>1, PTL DEF Spec
<1> QED BY <1>3

\* To customers who wait for the collector, on a scale that reads true, every
\* insertion is reported truly: the member at the machine, the product scanned
\* for this bottle, its slot, its weight and the weight then on the platform; the
\* product's code excepted where barcode lies below barcode_rec and the collector
\* was emptied after the scan.
THEOREM InsertionsReportedTrue == OrderlyCustomers => (Spec => []InsertionReportTrue)
<1>1. OrderInv => InsertionReportTrue
  <2> SUFFICES ASSUME OrderInv, pc = "report_in", reboots = 0
               PROVE  /\ ShowsScans(tag[i])
                      /\ pin_rec[pin_cnt - 1] = i
                      /\ weight_rec[bottle_cnt - 1] = tag[i].weight /\ total_weight = load
    BY DEF InsertionReportTrue, Record, ShowsScans
  <2>1. CountInv /\ SlotsInv /\ ScansInv
    BY DEF OrderInv
  <2>2. i \in Slots /\ pin_cnt = bottle_cnt /\ pin_cnt \in Nat
    BY <2>1, SlotTypes
  <2>3. /\ \A s \in Slots : ~ Pending(s)
        /\ pin_cnt > 0 /\ pin_rec[pin_cnt - 1] = i
    BY <2>1 DEF SlotsInv, AtSlot
  <2>4. pin_cnt - 1 \in 0..pin_cnt - 1
    BY <2>2, <2>3
  <2>5. tag[i].weight = weight_rec[pin_cnt - 1]
    BY <2>1, <2>3, <2>4 DEF SlotsInv, StackTop
  <2>6. load = total_weight
    BY <2>1, <2>3 DEF SlotsInv, Balance
  <2>7. Arriving(i)
    BY DEF Arriving
  <2> QED BY <2>1, <2>2, <2>3, <2>5, <2>6, <2>7 DEF ScansInv, Shown
<1> QED BY <1>1, OrderAlways, PTL

\* And since they take the bottle placed last, every removal is reported with
\* the slot and the weight of the bottle that was taken.
THEOREM RemovalsReportedTrue == OrderlyCustomers => (Spec => []RemovalReportTrue)
<1>1. OrderInv => RemovalReportTrue
  <2> SUFFICES ASSUME OrderInv, pc = "report_out", reboots = 0
               PROVE  pin_rec[pin_cnt - 1] = i /\ weight_rec[bottle_cnt - 1] = tag[i].weight
    BY DEF RemovalReportTrue, Record
  <2>1. CountInv /\ SlotsInv
    BY DEF OrderInv
  <2>2. i \in Slots /\ pin_cnt = bottle_cnt /\ pin_cnt \in Nat /\ ~ (occ[i] > 0)
    BY <2>1, SlotTypes DEF SlotsInv, AtSlot
  <2>3. Pending(i)
    BY DEF Pending
  <2>4. pin_cnt > 0 /\ i = pin_rec[pin_cnt - 1]
    BY <2>1, <2>2, <2>3 DEF SlotsInv, Balance
  <2>5. pin_cnt - 1 \in 0..pin_cnt - 1
    BY <2>2, <2>4
  <2> QED BY <2>1, <2>2, <2>4, <2>5 DEF SlotsInv, StackTop
<1> QED BY <1>1, OrderAlways, PTL
=============================================================================
