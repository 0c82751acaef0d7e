---------------------------- MODULE MCReturnInputs ----------------------------
(***************************************************************************)
(* ReturnInputs for TLC: codes of two to six characters in a buffer of five *)
(* of which three are compared; switches that count to three.               *)
(***************************************************************************)
EXTENDS ReturnInputs

\* One that is padded, one of the table's width, one that is in no entry, one
\* that does not fit; keys repeat within a code and between codes.
MCLines == {<<"1", "2">>, <<"1", "2", "3">>, <<"2", "2", "1">>,
            <<"1", "2", "3", "2", "1", "2">>}

\* The last two entries are one code: the first of them is taken.
MCTable == <<<<"1", "2", FILL>>, <<"1", "2", "3">>, <<"1", "2", "3">>>>
=============================================================================
