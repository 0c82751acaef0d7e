------------------------------- MODULE MCQrBox -------------------------------
(***************************************************************************)
(* QrBox for TLC.  A header line, then the line of the command, between     *)
(* line ends; a hurried network ends it with one more line, cuts it in two   *)
(* between '@' and the command, or never delivers it.                       *)
(***************************************************************************)
EXTENDS QrBox

Value(c) == <<"s", "@", c, "s">>

MCWhole == [c \in Commands |-> {<<<<"h">>, Value(c)>>}]

MCReplies ==
  [c \in Commands |-> MCWhole[c] \cup
     {<<<<"h">>, Value(c), <<"s">>>>,
      <<<<"h">>, <<"s", "@">>, <<c, "s">>>>,
      <<<<"h">>>>}]
=============================================================================
