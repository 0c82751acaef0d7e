-------------------------- MODULE MCBottleCollector --------------------------
(***************************************************************************)
(* BottleCollector for TLC: one member and two products of different       *)
(* lengths; or no scanner, for the runs about weights and counts.          *)
(***************************************************************************)
EXTENDS BottleCollector, TLC

CONSTANTS m1, p1, p2

MCMembers  == {m1}
MCProducts == {p1, p2}
MCCodeLen  == [c \in {m1, p1, p2} |-> IF c = p1 THEN 2 ELSE 1]
MCAs       == {<<m1, 1>>}
MCNoCodes  == <<>>
MCNoise    == {0, 1}
MCExact    == {0}
=============================================================================
