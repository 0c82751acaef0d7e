---------------------------- MODULE GetValueProofs ----------------------------
(***************************************************************************)
(* What getValue() returns for every text, separator and index: the field   *)
(* it is meant to return, whenever the text does not end in the separator.  *)
(*                                                                         *)
(* The argument is by induction on the characters scanned.  tlapm has no    *)
(* prover that takes an operator for the induction predicate; here the      *)
(* predicate is a set of numbers, so that the rule (Induction) follows from *)
(* the fact that < is well-founded on the naturals.  The recursive function *)
(* inside Scan exists for the same reason (ScanExists).                     *)
(***************************************************************************)
EXTENDS GetValue, FiniteSetTheorems, WellFoundedInduction, TLAPS

\* Every set of numbers has a least element, and so induction is sound.
LEMMA Least ==
  ASSUME NEW T, T \subseteq Nat, T # {}
  PROVE  \E x \in T : \A y \in T : x <= y
<1>1. PICK x \in T : \A y \in T : ~ (<<y, x>> \in OpToRel(<, Nat))
  BY WFMin, NatLessThanWellFounded
<1>2. \A y \in T : ~ (y < x)
  BY <1>1 DEF OpToRel
<1> QED BY <1>2

LEMMA Induction ==
  ASSUME NEW T, 0 \in T, \A n \in Nat : n \in T => n + 1 \in T
  PROVE  Nat \subseteq T
<1> SUFFICES ASSUME Nat \ T # {} PROVE FALSE
  OBVIOUS
<1>1. PICK x \in Nat \ T : \A y \in Nat \ T : x <= y
  BY Least
<1>2. x # 0 /\ x - 1 \in Nat /\ x - 1 \in T
  BY <1>1
<1> QED BY <1>1, <1>2

-----------------------------------------------------------------------------
(***************************************************************************)
(* The scan.  ScanStart and ScanStep are the two branches of the function   *)
(* in Scan; IsScan says that g is that function, for m characters.          *)
(***************************************************************************)
ScanStep(data, separator, index, was, n) ==
  IF was.found <= index /\ (data[n] = separator \/ n = Len(data))
  THEN [found |-> was.found + 1,
        from  |-> was.to + 1,
        to    |-> IF n = Len(data) THEN n ELSE n - 1]
  ELSE was
ScanStart == [found |-> 0, from |-> 0, to |-> -1]
IsScan(data, separator, index, g, m) ==
  g = [n \in 0..m |-> IF n = 0 THEN ScanStart ELSE ScanStep(data, separator, index, g[n - 1], n)]

\* A function defined by recursion on its argument exists.
LEMMA ScanExists ==
  ASSUME NEW data, NEW separator, NEW index, NEW m \in Nat
  PROVE  \E g : IsScan(data, separator, index, g, m)
<1> DEFINE T == {n \in Nat : \E g : IsScan(data, separator, index, g, n)}
<1>1. 0 \in T
  <2>1. IsScan(data, separator, index, [n \in 0..0 |-> ScanStart], 0)
    BY DEF IsScan
  <2> QED BY <2>1
<1>2. ASSUME NEW k \in Nat, k \in T PROVE k + 1 \in T
  <2>1. PICK g : IsScan(data, separator, index, g, k)
    BY <1>2
  <2> DEFINE h == [n \in 0..k + 1 |->
                 IF n = k + 1 THEN ScanStep(data, separator, index, g[k], n) ELSE g[n]]
  <2>2. \A n \in 0..k : h[n] = g[n]
    OBVIOUS
  <2>3. \A n \in 0..k + 1 : h[n] = IF n = 0 THEN ScanStart
                                  ELSE ScanStep(data, separator, index, h[n - 1], n)
    BY <2>1, <2>2 DEF IsScan
  <2>4. IsScan(data, separator, index, h, k + 1)
    BY <2>3 DEF IsScan
  <2> QED BY <2>4
<1> HIDE DEF T
<1>3. m \in T
  BY <1>1, <1>2, Induction
<1> QED BY <1>3 DEF T

LEMMA ScanIs ==
  ASSUME NEW S, NEW data \in Seq(S), NEW separator, NEW index
  PROVE  \E g : /\ IsScan(data, separator, index, g, Len(data))
                /\ Scan(data, separator, index) = g[Len(data)]
<1> DEFINE IsIt(g) == g = [n \in 0..Len(data) |->
        IF n = 0 THEN [found |-> 0, from |-> 0, to |-> -1]
        ELSE LET was == g[n - 1]
             IN IF was.found <= index /\ (data[n] = separator \/ n = Len(data))
                THEN [found |-> was.found + 1,
                      from  |-> was.to + 1,
                      to    |-> IF n = Len(data) THEN n ELSE n - 1]
                ELSE was]
<1>1. \A g : IsScan(data, separator, index, g, Len(data)) <=> IsIt(g)
  BY DEF IsScan, ScanStep, ScanStart
<1>2. \E g : IsIt(g)
  <2>1. Len(data) \in Nat
    OBVIOUS
  <2>2. \E g : IsScan(data, separator, index, g, Len(data))
    BY <2>1, ScanExists
  <2> QED BY <1>1, <2>2
<1>3. IsIt(CHOOSE g : IsIt(g))
  BY <1>2
<1>4. Scan(data, separator, index) = (CHOOSE g : IsIt(g))[Len(data)]
  BY DEF Scan
<1> QED BY <1>1, <1>3, <1>4

-----------------------------------------------------------------------------
(***************************************************************************)
(* The invariant of the scan.  Passed counts the separators among the first *)
(* k characters.                                                           *)
(***************************************************************************)
Passed(data, separator, k) == Cardinality(Cuts(SubSeq(data, 1, k), separator))

LEMMA PassedNext ==
  ASSUME NEW S, NEW data \in Seq(S), NEW separator
  PROVE  /\ Passed(data, separator, 0) = 0
         /\ \A k \in 1..Len(data) :
              /\ Passed(data, separator, k) \in Nat /\ Passed(data, separator, k - 1) \in Nat
              /\ Passed(data, separator, k) =
                   Passed(data, separator, k - 1) + IF data[k] = separator THEN 1 ELSE 0
<1> DEFINE cut(k) == {j \in 1..k : data[j] = separator}
<1>1. \A k \in 0..Len(data) : Cuts(SubSeq(data, 1, k), separator) = cut(k)
  <2> TAKE k \in 0..Len(data)
  <2>1. Len(SubSeq(data, 1, k)) = k /\ \A j \in 1..k : SubSeq(data, 1, k)[j] = data[j]
    OBVIOUS
  <2>2. DOMAIN SubSeq(data, 1, k) = 1..k
    BY <2>1
  <2> QED BY <2>1, <2>2 DEF Cuts
<1>2. \A k \in 0..Len(data) : IsFiniteSet(cut(k))
  <2> TAKE k \in 0..Len(data)
  <2>1. IsFiniteSet(1..k)
    BY FS_Interval
  <2> QED BY <2>1, FS_Subset
<1>3. cut(0) = {}
  OBVIOUS
<1>4. ASSUME NEW k \in 1..Len(data)
      PROVE  cut(k) = IF data[k] = separator THEN cut(k - 1) \cup {k} ELSE cut(k - 1)
  OBVIOUS
<1>5. \A k \in 1..Len(data) : k - 1 \in 0..Len(data) /\ k \notin cut(k - 1)
  OBVIOUS
<1>6. 0 \in 0..Len(data)
  OBVIOUS
<1> HIDE DEF cut
<1>7. Passed(data, separator, 0) = 0
  BY <1>1, <1>3, <1>6, FS_EmptySet DEF Passed
<1>8. ASSUME NEW k \in 1..Len(data)
      PROVE  /\ Passed(data, separator, k) \in Nat /\ Passed(data, separator, k - 1) \in Nat
             /\ Passed(data, separator, k) =
                  Passed(data, separator, k - 1) + IF data[k] = separator THEN 1 ELSE 0
  <2>1. /\ Passed(data, separator, k) = Cardinality(cut(k))
        /\ Passed(data, separator, k - 1) = Cardinality(cut(k - 1))
    BY <1>1, <1>5 DEF Passed
  <2>2. IsFiniteSet(cut(k)) /\ IsFiniteSet(cut(k - 1))
    BY <1>2, <1>5
  <2>3. Cardinality(cut(k)) \in Nat /\ Cardinality(cut(k - 1)) \in Nat
    BY <2>2, FS_CardinalityType
  <2>4. Cardinality(cut(k - 1) \cup {k}) = Cardinality(cut(k - 1)) + 1
    BY <1>5, <2>2, FS_AddElement
  <2>5. CASE data[k] = separator
    BY <1>4, <2>1, <2>3, <2>4, <2>5
  <2>6. CASE data[k] # separator
    BY <1>4, <2>1, <2>3, <2>6
  <2> QED BY <2>5, <2>6
<1> QED BY <1>7, <1>8

\* After n characters, none of them the last one: while no more than index
\* separators were passed, to + 1 is the place of the last of them; afterwards
\* from and to enclose the characters after exactly index separators.
Scanned(data, separator, index, was, n) ==
  /\ was.found \in Nat /\ was.from \in Nat /\ was.to \in Nat \cup {-1}
  /\ Passed(data, separator, n) \in Nat
  /\ \A k \in 1..n : Passed(data, separator, k) \in 0..Passed(data, separator, n)
  /\ IF Passed(data, separator, n) <= index
     THEN /\ was.found = Passed(data, separator, n) /\ was.to + 1 <= n
          /\ \A k \in 1..n :
               data[k] # separator /\ Passed(data, separator, k) = Passed(data, separator, n)
                 <=> k > was.to + 1
     ELSE /\ was.found = index + 1 /\ was.from <= was.to /\ was.to <= n
          /\ \A k \in 1..n :
               data[k] # separator /\ Passed(data, separator, k) = index
                 <=> k > was.from /\ k <= was.to

LEMMA ScannedNext ==
  ASSUME NEW S, NEW data \in Seq(S), NEW separator, NEW index \in Nat, NEW was,
         NEW n \in Nat, n + 1 < Len(data), Scanned(data, separator, index, was, n)
  PROVE  Scanned(data, separator, index, ScanStep(data, separator, index, was, n + 1), n + 1)
<1> DEFINE p(k) == Passed(data, separator, k)
           now == ScanStep(data, separator, index, was, n + 1)
<1>1. n + 1 \in 1..Len(data) /\ (n + 1) - 1 = n
  OBVIOUS
<1>2. p(n + 1) \in Nat /\ p(n) \in Nat /\ p(n + 1) = p(n) + IF data[n + 1] = separator THEN 1 ELSE 0
  <2>1. /\ p(n + 1) \in Nat /\ p((n + 1) - 1) \in Nat
        /\ p(n + 1) = p((n + 1) - 1) + IF data[n + 1] = separator THEN 1 ELSE 0
    BY <1>1, PassedNext
  <2> QED BY <1>1, <2>1
<1>3. /\ was.found \in Nat /\ was.from \in Nat /\ was.to \in Nat \cup {-1}
      /\ \A k \in 1..n : p(k) \in 0..p(n)
      /\ p(n) <= index => /\ was.found = p(n) /\ was.to + 1 <= n
                          /\ \A k \in 1..n : data[k] # separator /\ p(k) = p(n) <=> k > was.to + 1
      /\ ~(p(n) <= index) => /\ was.found = index + 1 /\ was.from <= was.to /\ was.to <= n
                          /\ \A k \in 1..n : data[k] # separator /\ p(k) = index <=> k > was.from /\ k <= was.to
  BY DEF Scanned
<1>4. now = IF was.found <= index /\ data[n + 1] = separator
            THEN [found |-> was.found + 1, from |-> was.to + 1, to |-> n]
            ELSE was
  BY DEF ScanStep
<1> HIDE DEF p, now
<1>5. \A k \in 1..n + 1 : p(k) \in 0..p(n + 1)
  <2>1. \A k \in 1..n + 1 : k \in 1..n \/ k = n + 1
    OBVIOUS
  <2> QED BY <1>2, <1>3, <2>1
<1>6. CASE was.found <= index /\ data[n + 1] = separator
  <2>1. now.found = was.found + 1 /\ now.from = was.to + 1 /\ now.to = n
    BY <1>4, <1>6
  <2>2. p(n) <= index /\ p(n + 1) = p(n) + 1 /\ now.found = p(n + 1)
    BY <1>2, <1>3, <1>6, <2>1
  <2>3. \A k \in 1..n + 1 : k \in 1..n \/ k = n + 1
    OBVIOUS
  <2>4. CASE p(n + 1) <= index
    <3>1. \A k \in 1..n + 1 : ~(data[k] # separator /\ p(k) = p(n + 1)) /\ ~(k > now.to + 1)
      <4>1. \A k \in 1..n : p(k) # p(n + 1)
        BY <1>2, <1>3, <2>2
      <4>2. \A k \in 1..n + 1 : ~(k > now.to + 1)
        BY <2>1
      <4> QED BY <1>6, <2>3, <4>1, <4>2
    <3> QED BY <1>2, <1>3, <1>5, <2>1, <2>2, <2>4, <3>1 DEF Scanned, p, now
  <2>5. CASE ~(p(n + 1) <= index)
    <3>1. p(n) = index
      BY <1>2, <2>2, <2>5
    <3>2. \A k \in 1..n + 1 : data[k] # separator /\ p(k) = index <=> k > now.from /\ k <= now.to
      BY <1>2, <1>3, <1>6, <2>1, <2>2, <2>3, <3>1
    <3>3. now.found = index + 1 /\ now.from \in Nat /\ now.to \in Nat
          /\ now.from <= now.to /\ now.to <= n + 1
      BY <1>2, <1>3, <2>1, <2>2, <3>1
    <3> QED BY <1>2, <1>5, <2>5, <3>2, <3>3 DEF Scanned, p, now
  <2> QED BY <2>4, <2>5
<1>7. CASE ~(was.found <= index /\ data[n + 1] = separator)
  <2>1. now = was
    BY <1>4, <1>7
  <2>2. \A k \in 1..n + 1 : k \in 1..n \/ k = n + 1
    OBVIOUS
  <2>3. CASE p(n) <= index
    <3>1. data[n + 1] # separator /\ p(n + 1) = p(n)
      BY <1>2, <1>3, <1>7, <2>3
    <3>2. \A k \in 1..n + 1 : data[k] # separator /\ p(k) = p(n + 1) <=> k > was.to + 1
      BY <1>3, <2>2, <2>3, <3>1
    <3> QED BY <1>2, <1>3, <1>5, <2>1, <2>3, <3>1, <3>2 DEF Scanned, p, now
  <2>4. CASE ~(p(n) <= index)
    <3>1. ~(p(n + 1) <= index) /\ p(n + 1) # index
      BY <1>2, <2>4
    <3>2. \A k \in 1..n + 1 : data[k] # separator /\ p(k) = index <=> k > was.from /\ k <= was.to
      BY <1>3, <2>2, <2>4, <3>1
    <3> QED BY <1>2, <1>3, <1>5, <2>1, <2>4, <3>1, <3>2 DEF Scanned, p, now
  <2> QED BY <2>3, <2>4
<1> QED BY <1>6, <1>7

\* By induction, the invariant holds up to the last character.
LEMMA ScannedAll ==
  ASSUME NEW S, NEW data \in Seq(S), NEW separator, NEW index \in Nat, NEW g,
         IsScan(data, separator, index, g, Len(data)), NEW n \in Nat, n < Len(data)
  PROVE  Scanned(data, separator, index, g[n], n)
<1> DEFINE T == {k \in Nat : k < Len(data) => Scanned(data, separator, index, g[k], k)}
<1>1. /\ g[0] = ScanStart
      /\ \A k \in 1..Len(data) : g[k] = ScanStep(data, separator, index, g[k - 1], k)
  <2>1. 0 \in 0..Len(data) /\ \A k \in 1..Len(data) : k \in 0..Len(data) /\ k # 0
    OBVIOUS
  <2> QED BY <2>1 DEF IsScan
<1>2. 0 \in T
  <2>1. Scanned(data, separator, index, ScanStart, 0)
    BY PassedNext DEF Scanned, ScanStart
  <2> QED BY <1>1, <2>1
<1>3. ASSUME NEW k \in Nat, k \in T PROVE k + 1 \in T
  <2> SUFFICES ASSUME k + 1 < Len(data) PROVE Scanned(data, separator, index, g[k + 1], k + 1)
    OBVIOUS
  <2>1. k < Len(data) /\ k + 1 \in 1..Len(data) /\ (k + 1) - 1 = k
    OBVIOUS
  <2>2. g[k + 1] = ScanStep(data, separator, index, g[k], k + 1)
    BY <1>1, <2>1
  <2>3. Scanned(data, separator, index, g[k], k)
    BY <1>3, <2>1
  <2> QED BY <2>2, <2>3, ScannedNext
<1> HIDE DEF T
<1>4. n \in T
  BY <1>2, <1>3, Induction
<1> QED BY <1>4 DEF T

\* Where getValue cuts: within the text, and, unless a separator ends it, around
\* the characters after exactly index separators.
Inside(data, separator, index) ==
  {k \in DOMAIN data \ Cuts(data, separator) : Passed(data, separator, k) = index}

LEMMA ScanEnds ==
  ASSUME NEW S, NEW data \in Seq(S), NEW separator, NEW index \in Nat, data # <<>>
  PROVE  LET end == Scan(data, separator, index) IN
         /\ end.found > index =>
              /\ end.from \in 0..Len(data) /\ end.to \in 0..Len(data)
              /\ end.from <= end.to
         /\ data[Len(data)] # separator =>
              Inside(data, separator, index) =
                IF end.found > index THEN end.from + 1..end.to ELSE {}
<1> DEFINE n == Len(data) - 1
           p(k) == Passed(data, separator, k)
           end == Scan(data, separator, index)
<1>1. /\ n \in Nat /\ n < Len(data) /\ n + 1 = Len(data) /\ n \in 0..Len(data)
      /\ Len(data) \in Nat /\ Len(data) \in 1..Len(data)
  OBVIOUS
<1>2. PICK g : IsScan(data, separator, index, g, Len(data)) /\ end = g[Len(data)]
  BY ScanIs
<1> DEFINE was == g[n]
<1>3. Scanned(data, separator, index, was, n)
  BY <1>1, <1>2, ScannedAll
<1>4. end = ScanStep(data, separator, index, was, Len(data))
  BY <1>1, <1>2 DEF IsScan
<1> HIDE DEF end, was
<1>5. /\ was.found \in Nat /\ was.from \in Nat /\ was.to \in Nat \cup {-1}
      /\ p(n) \in Nat /\ \A k \in 1..n : p(k) \in 0..p(n)
      /\ p(n) <= index => /\ was.found = p(n) /\ was.to + 1 <= n
                          /\ \A k \in 1..n : data[k] # separator /\ p(k) = p(n) <=> k > was.to + 1
      /\ ~(p(n) <= index) => /\ was.found = index + 1 /\ was.from <= was.to /\ was.to <= n
                          /\ \A k \in 1..n : data[k] # separator /\ p(k) = index <=> k > was.from /\ k <= was.to
  BY <1>3 DEF Scanned
<1>6. end = IF was.found <= index
            THEN [found |-> was.found + 1, from |-> was.to + 1, to |-> Len(data)]
            ELSE was
  BY <1>4 DEF ScanStep
<1>7. /\ p(Len(data)) \in Nat
      /\ p(Len(data)) = p(n) + IF data[Len(data)] = separator THEN 1 ELSE 0
  BY <1>1, PassedNext
<1>8. Inside(data, separator, index) = {k \in 1..Len(data) : data[k] # separator /\ p(k) = index}
  BY DEF Inside, Cuts
<1>9. \A k \in 1..Len(data) : k \in 1..n \/ k = Len(data)
  OBVIOUS
<1> HIDE DEF p, n
<1>10. CASE was.found <= index
  <2>1. end.found = was.found + 1 /\ end.from = was.to + 1 /\ end.to = Len(data)
    BY <1>6, <1>10
  <2>2. p(n) <= index /\ was.found = p(n) /\ was.to + 1 <= n
        /\ \A k \in 1..n : data[k] # separator /\ p(k) = p(n) <=> k > was.to + 1
    BY <1>5, <1>10
  <2>3. end.from \in 0..Len(data) /\ end.to \in 0..Len(data) /\ end.from <= end.to
    BY <1>1, <1>5, <2>1, <2>2
  <2>4. ASSUME data[Len(data)] # separator
        PROVE  Inside(data, separator, index) =
                  IF end.found > index THEN end.from + 1..end.to ELSE {}
    <3>1. p(Len(data)) = p(n)
      BY <1>5, <1>7, <2>4
    <3>2. CASE p(n) = index
      <4>1. \A k \in 1..Len(data) : data[k] # separator /\ p(k) = index <=> k \in end.from + 1..end.to
        BY <1>1, <1>9, <2>1, <2>2, <2>3, <2>4, <3>1, <3>2
      <4>2. end.found > index /\ end.from + 1..end.to \subseteq 1..Len(data)
        BY <1>1, <2>1, <2>2, <2>3, <3>2
      <4> QED BY <1>8, <4>1, <4>2
    <3>3. CASE p(n) < index
      <4>1. \A k \in 1..Len(data) : p(k) # index
        BY <1>5, <1>9, <3>1, <3>3
      <4>2. ~(end.found > index)
        BY <1>5, <2>1, <2>2, <3>3
      <4> QED BY <1>8, <4>1, <4>2
    <3> QED BY <1>5, <2>2, <3>2, <3>3
  <2> QED BY <2>3, <2>4 DEF end
<1>11. CASE ~(was.found <= index)
  <2>1. end = was
    BY <1>6, <1>11
  <2>2. ~(p(n) <= index) /\ was.found = index + 1 /\ was.from <= was.to /\ was.to <= n
        /\ \A k \in 1..n : data[k] # separator /\ p(k) = index <=> k > was.from /\ k <= was.to
    BY <1>5, <1>11
  <2>3. end.from \in 0..Len(data) /\ end.to \in 0..Len(data) /\ end.from <= end.to
    BY <1>1, <1>5, <2>1, <2>2
  <2>4. Inside(data, separator, index) = end.from + 1..end.to
    <3>1. p(Len(data)) # index
      BY <1>5, <1>7, <2>2
    <3>2. \A k \in 1..Len(data) : data[k] # separator /\ p(k) = index <=> k \in end.from + 1..end.to
      BY <1>1, <1>9, <2>1, <2>2, <2>3, <3>1
    <3>3. end.from + 1..end.to \subseteq 1..Len(data)
      BY <1>1, <2>3
    <3> QED BY <1>8, <3>2, <3>3
  <2>5. end.found > index
    BY <2>1, <2>2
  <2> QED BY <2>3, <2>4, <2>5 DEF end
<1> QED BY <1>10, <1>11

LEMMA ScanOfNothing ==
  ASSUME NEW separator, NEW index PROVE Scan(<<>>, separator, index) = ScanStart
<1>1. <<>> \in Seq({}) /\ Len(<<>>) = 0
  OBVIOUS
<1>2. PICK g : IsScan(<<>>, separator, index, g, 0) /\ Scan(<<>>, separator, index) = g[0]
  BY <1>1, ScanIs
<1> QED BY <1>2 DEF IsScan

\* The least and the greatest number of a range.
LEMMA EndsOf ==
  ASSUME NEW a \in Nat, NEW b \in Nat, a <= b PROVE Min(a..b) = a /\ Max(a..b) = b
<1>1. \A x \in a..b : (\A y \in a..b : x <= y) <=> x = a
  OBVIOUS
<1>2. \A x \in a..b : (\A y \in a..b : x >= y) <=> x = b
  OBVIOUS
<1> QED BY <1>1, <1>2 DEF Min, Max

-----------------------------------------------------------------------------
\* getValue returns the field number index, the characters after exactly index
\* separators up to the next, for every text that does not end in a separator
\* (the comment "split result from server" at its uses).
THEOREM GetValueCuts ==
  ASSUME NEW S, NEW data \in Seq(S), NEW separator, NEW index \in Nat,
         data = <<>> \/ data[Len(data)] # separator
  PROVE  getValue(data, separator, index) = Field(data, separator, index)
<1> DEFINE end == Scan(data, separator, index)
           inside == Inside(data, separator, index)
<1>1. Field(data, separator, index) =
        IF inside = {} THEN <<>> ELSE SubSeq(data, Min(inside), Max(inside))
  BY DEF Field, Inside, Passed
<1>2. CASE data = <<>>
  <2>1. end = ScanStart
    BY <1>2, ScanOfNothing
  <2>2. ~(end.found > index)
    BY <2>1 DEF ScanStart
  <2>3. inside = {}
    BY <1>2 DEF Inside
  <2> QED BY <1>1, <2>2, <2>3 DEF getValue
<1>3. CASE data # <<>>
  <2>1. /\ end.found > index => /\ end.from \in 0..Len(data) /\ end.to \in 0..Len(data)
                                /\ end.from <= end.to
        /\ inside = IF end.found > index THEN end.from + 1..end.to ELSE {}
    BY <1>3, ScanEnds
  <2>2. getValue(data, separator, index) =
          IF end.found > index THEN SubSeq(data, end.from + 1, end.to) ELSE <<>>
    BY DEF getValue
  <2> HIDE DEF end, inside
  <2>3. CASE ~(end.found > index)
    BY <1>1, <2>1, <2>2, <2>3
  <2>4. CASE end.found > index /\ end.from = end.to
    <3>1. inside = {}
      BY <2>1, <2>4
    <3>2. SubSeq(data, end.from + 1, end.to) = <<>>
      BY <2>1, <2>4
    <3> QED BY <1>1, <2>2, <2>4, <3>1, <3>2
  <2>5. CASE end.found > index /\ end.from # end.to
    <3>1. end.from + 1 \in Nat /\ end.to \in Nat /\ end.from + 1 <= end.to
      BY <2>1, <2>5
    <3>2. inside = end.from + 1..end.to /\ inside # {}
      BY <2>1, <2>5, <3>1
    <3>3. Min(inside) = end.from + 1 /\ Max(inside) = end.to
      BY <3>1, <3>2, EndsOf
    <3> QED BY <1>1, <2>2, <2>5, <3>2, <3>3
  <2> QED BY <2>3, <2>4, <2>5
<1> QED BY <1>2, <1>3

\* What it returns is text of the same alphabet, whatever the text ends in.
LEMMA GetValueTyped ==
  ASSUME NEW S, NEW data \in Seq(S), NEW separator, NEW index \in Nat
  PROVE  getValue(data, separator, index) \in Seq(S)
<1> DEFINE end == Scan(data, separator, index)
<1>1. CASE ~(end.found > index)
  BY <1>1 DEF getValue
<1>2. CASE end.found > index
  <2>1. data # <<>>
    BY <1>2, ScanOfNothing DEF ScanStart
  <2>2. end.from \in 0..Len(data) /\ end.to \in 0..Len(data)
    BY <1>2, <2>1, ScanEnds
  <2>3. getValue(data, separator, index) = SubSeq(data, end.from + 1, end.to)
    BY <1>2 DEF getValue
  <2> HIDE DEF end
  <2>4. SubSeq(data, end.from + 1, end.to) \in Seq(S)
    BY <2>2
  <2> QED BY <2>3, <2>4
<1> QED BY <1>1, <1>2
=============================================================================
