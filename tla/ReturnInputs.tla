----------------------------- MODULE ReturnInputs -----------------------------
(***************************************************************************)
(* The two inputs of a session of the return box, run side by side: the     *)
(* timer's KeyScan() may interrupt Usb.Task() anywhere, and shares nothing  *)
(* with it.  (The prototypes have the scanner without the switches.)        *)
(***************************************************************************)
EXTENDS HidScanner, KeyScan

Init == HidInit /\ KeyInit

Next == \/ HidNext /\ UNCHANGED keyVars
        \/ sketch = "MEGA0809" /\ KeyNext /\ UNCHANGED hidVars

Spec == Init /\ [][Next]_<<hidVars, keyVars>>
=============================================================================
