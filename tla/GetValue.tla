------------------------------- MODULE GetValue -------------------------------
(***************************************************************************)
(* getValue(), the string splitter that every sketch of the QR box carries: *)
(* the field number index (from 0) of data, cut at separator.  Text is a    *)
(* sequence of characters, "s" standing for a space, newline or return.     *)
(***************************************************************************)
EXTENDS Integers, Sequences, FiniteSetsExt

(***************************************************************************)
(* found, strIndex[0] and strIndex[1] after the first n characters.  The    *)
(* loop stops once the field is found, and the last character always ends a *)
(* field, which it belongs to even when it is a separator.                  *)
(***************************************************************************)
Scan(data, separator, index) ==
  LET scan[n \in 0..Len(data)] ==
        IF n = 0 THEN [found |-> 0, from |-> 0, to |-> -1]
        ELSE LET was == scan[n - 1]
             IN IF was.found <= index /\ (data[n] = separator \/ n = Len(data))
                THEN [found |-> was.found + 1,
                      from  |-> was.to + 1,
                      to    |-> IF n = Len(data) THEN n ELSE n - 1]
                ELSE was
  IN scan[Len(data)]

\* Mutant: the last field loses its last character.
getShort(data, separator, index) ==
  LET end == Scan(data, separator, index)
  IN IF end.found > index
     THEN SubSeq(data, end.from + 1, IF end.to = Len(data) THEN end.to - 1 ELSE end.to)
     ELSE <<>>

getValue(data, separator, index) ==
  LET end == Scan(data, separator, index)
  IN IF end.found > index THEN SubSeq(data, end.from + 1, end.to) ELSE <<>>

\* String.trim(): no space at either end.
trim(text) ==
  LET ink == {k \in DOMAIN text : text[k] # "s"}
  IN IF ink = {} THEN <<>> ELSE SubSeq(text, Min(ink), Max(ink))
-----------------------------------------------------------------------------
(***************************************************************************)
(* The definition it is checked against.                                   *)
(***************************************************************************)
Cuts(data, separator) == {k \in DOMAIN data : data[k] = separator}

\* The stretch of data after exactly index separators, up to the next one.
Field(data, separator, index) ==
  LET inside == {k \in DOMAIN data \ Cuts(data, separator) :
                   Cardinality(Cuts(SubSeq(data, 1, k), separator)) = index}
  IN IF inside = {} THEN <<>> ELSE SubSeq(data, Min(inside), Max(inside))

Texts == UNION {[1..n -> {"@", "1", "s"}] : n \in 0..5}

\* getValue returns the field the comment "split result from server" means,
\* for every text that does not end in a separator (such a last separator
\* ends up inside the last field) and every index.
GetValueIsField ==
  \A data \in Texts : \A index \in 0..3 :
    data = <<>> \/ data[Len(data)] # "@" =>
      getValue(data, "@", index) = Field(data, "@", index)
=============================================================================
