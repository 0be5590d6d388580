---------------------------- MODULE MCColumnTypes ----------------------------
(***************************************************************************)
(* Model-checking instance of ColumnTypes: every "decimal(" string with up *)
(* to five more characters over digits, sign, comma, blank and ")", so     *)
(* precisions and scales in and out of range, blanks around them, missing *)
(* or repeated commas and every closing character occur; the six type     *)
(* names; and near-misses of them.                                         *)
(***************************************************************************)
EXTENDS ColumnTypes

MCAlphabet == {"0", "1", "3", "8", "9", "-", ",", " ", ")"}

MCInputs ==
  {DecimalPrefix \o x : x \in SeqOf(MCAlphabet, 5)}
    \cup {TypeName[i] : i \in NonParameterizedIDs}
    \cup {<<>>, <<"i", "n">>, <<"I", "n", "t">>, <<"i", "n", "t", " ">>,
          <<"d", "e", "c", "i", "m", "a", "l">>}

\* Well-formed decimal strings only: "decimal(", up to four characters, ")".
MCClosedInputs == {DecimalPrefix \o x \o <<")">> : x \in SeqOf(MCAlphabet, 4)}
=============================================================================
