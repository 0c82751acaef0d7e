------------------------------ MODULE MCAtModem ------------------------------
(***************************************************************************)
(* AtModem for TLC: small limits, as attempts multiply the states.          *)
(***************************************************************************)
EXTENDS AtModem

MCMaxTime == <<1, 2, 2, 1, 1>>
=============================================================================
