-------------------------- MODULE MCReturnSequence --------------------------
(***************************************************************************)
(* A table with one barcode per kind, and times short enough to run out:   *)
(* a byte of the timer counts two values, so that 60 seconds and 3 minutes *)
(* need two bytes and the lid's times, as in the sketch, one.              *)
(***************************************************************************)
EXTENDS ReturnSequence

CONSTANTS beer, small, soju

OnlyBeer  == {beer}
BothBeers == {beer, small}
WithBeer  == {beer, soju}

MCKindOf  == [b \in Bottles |-> CASE b = beer -> 1 [] b = small -> 2 [] b = soju -> 3]
=============================================================================
