--------------------------- MODULE MCBarcodeReader ---------------------------
(***************************************************************************)
(* BarcodeReader for TLC: a long and a short member code, a product of full *)
(* width and a shorter one, and a ring that overflows on a fast scanner.    *)
(***************************************************************************)
EXTENDS BarcodeReader, TLC

CONSTANTS m1, m2, p1, p2

MCMembers  == {m1, m2}
MCProducts == {p1, p2}
MCCodeLen  == (m1 :> 3) @@ (m2 :> 1) @@ (p1 :> 4) @@ (p2 :> 2)
MCAs       == {<<m1, 1>>, <<m1, 3>>, <<m2, 1>>}
=============================================================================
