------------------------------ MODULE ByteStream ------------------------------
(***************************************************************************)
(* What a WiFiClient promises a sketch: connections, one after another, each *)
(* the sketch's to dial and to leave, opened only when this very peer has    *)
(* accepted, from which are taken the peer's bytes, in order and once, and   *)
(* which ends without being left only when the peer has closed it and the    *)
(* last of its bytes is taken, or when the connection broke: then what was   *)
(* taken is the first part of what was sent, and no more is promised.        *)
(***************************************************************************)
EXTENDS SequencesExt

VARIABLES phase,    \* as the sketch sees it: "left", "dialling", "open", "ended"
          accepted, \* the peer of the present connection has accepted it
          ended,    \* and has closed it
          broken,   \* the connection was aborted, or the network lost, since it was dialled
          sent,     \* the bytes it sent
          taken     \* the bytes the sketch took

vars == <<phase, accepted, ended, broken, sent, taken>>

Init == phase = "left" /\ ~accepted /\ ~ended /\ ~broken /\ sent = <<>> /\ taken = <<>>

Dial ==
  /\ phase \in {"left", "ended"} /\ phase' = "dialling"
  /\ ~accepted' /\ ~ended' /\ ~broken' /\ sent' = <<>> /\ taken' = <<>>

Accept == ~accepted /\ accepted' /\ UNCHANGED <<phase, ended, broken, sent, taken>>
Send   == /\ accepted /\ ~ended /\ IsPrefix(sent, sent')
          /\ UNCHANGED <<phase, accepted, ended, broken, taken>>
End    == accepted /\ ended' /\ UNCHANGED <<phase, accepted, broken, sent, taken>>
Break  == broken' /\ UNCHANGED <<phase, accepted, ended, sent, taken>>

Open   == /\ phase = "dialling" /\ accepted /\ phase' = "open"
          /\ UNCHANGED <<accepted, ended, broken, sent, taken>>
Take   == /\ phase = "open" /\ IsPrefix(taken, taken') /\ IsPrefix(taken', sent)
          /\ UNCHANGED <<phase, accepted, ended, broken, sent>>
HangUp == /\ phase = "open" /\ ((ended /\ taken = sent) \/ broken) /\ phase' = "ended"
          /\ UNCHANGED <<accepted, ended, broken, sent, taken>>
Leave  == phase # "left" /\ phase' = "left" /\ UNCHANGED <<accepted, ended, broken, sent, taken>>

Next == Dial \/ Accept \/ Send \/ End \/ Break \/ Open \/ Take \/ HangUp \/ Leave

Spec == Init /\ [][Next]_vars
=============================================================================
