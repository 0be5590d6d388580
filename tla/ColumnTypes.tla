----------------------------- MODULE ColumnTypes -----------------------------
(***************************************************************************)
(* Column types (src/unnamed/part_002, package types): the six             *)
(* non-parameterised types, DecimalType, their String methods, and         *)
(* StringToColumnType with parseDecimalType.  A Go string is a sequence of *)
(* one-character TLA+ strings; a column type is a record with its          *)
(* ColumnTypeID and, for decimals, precision and scale (0 otherwise).      *)
(***************************************************************************)
EXTENDS Integers, Sequences, SequencesExt, FiniteSetsExt

CONSTANTS
  Inputs,    \* the strings StringToColumnType is called with
  Nil,       \* no call yet
  ParseErr   \* the non-nil error StringToColumnType returns

\* ColumnTypeIDInt = iota + 1, ...
ColumnTypeIDInt == 1
ColumnTypeIDFloat == 2
ColumnTypeIDBool == 3
ColumnTypeIDDecimal == 4
ColumnTypeIDString == 5
ColumnTypeIDBytes == 6
ColumnTypeIDTimestamp == 7

NonParameterizedIDs == {1, 2, 3, 5, 6, 7}

\* The singletons ColumnTypeInt, ... and a *DecimalType.
NonParameterized(id) == [id |-> id, prec |-> 0, scale |-> 0]
Decimal(p, s) == [id |-> ColumnTypeIDDecimal, prec |-> p, scale |-> s]

\* The names nonParameterizedType.String prints and StringToColumnType reads.
TypeName ==
  [i \in NonParameterizedIDs |->
     CASE i = ColumnTypeIDInt       -> <<"i", "n", "t">>
       [] i = ColumnTypeIDFloat     -> <<"f", "l", "o", "a", "t">>
       [] i = ColumnTypeIDBool      -> <<"b", "o", "o", "l">>
       [] i = ColumnTypeIDString    -> <<"s", "t", "r", "i", "n", "g">>
       [] i = ColumnTypeIDBytes     -> <<"b", "y", "t", "e", "s">>
       [] i = ColumnTypeIDTimestamp -> <<"t", "i", "m", "e", "s", "t", "a", "m", "p">>]

DecimalPrefix == <<"d", "e", "c", "i", "m", "a", "l", "(">>

Digits == <<"0", "1", "2", "3", "4", "5", "6", "7", "8", "9">>
IsDigit(c) == \E d \in 1..10 : Digits[d] = c
DigitVal(c) == CHOOSE d \in 0..9 : Digits[d + 1] = c

\* fmt's %d of a non-negative int.
RECURSIVE Itoa(_)
Itoa(n) == IF n < 10 THEN <<Digits[n + 1]>>
           ELSE Itoa(n \div 10) \o <<Digits[(n % 10) + 1]>>

RECURSIVE DigitsVal(_)
DigitsVal(s) == IF s = <<>> THEN 0 ELSE 10 * DigitsVal(Front(s)) + DigitVal(Last(s))

\* strconv.Atoi: an optional sign, then one or more decimal digits.
Atoi(s) ==
  LET signed == s # <<>> /\ Head(s) \in {"+", "-"}
      body   == IF signed THEN Tail(s) ELSE s
  IN IF body = <<>> \/ \E i \in DOMAIN body : ~IsDigit(body[i])
     THEN [ok |-> FALSE, val |-> 0]
     ELSE [ok |-> TRUE,
           val |-> IF signed /\ Head(s) = "-" THEN -DigitsVal(body)
                                               ELSE DigitsVal(body)]

\* strings.Trim(s, " \t").
Trim(s) ==
  LET kept == {i \in DOMAIN s : s[i] \notin {" ", "\t"}}
  IN IF kept = {} THEN <<>> ELSE SubSeq(s, Min(kept), Max(kept))

\* ColumnType.String for both implementations.
String(ct) ==
  IF ct.id = ColumnTypeIDDecimal
  THEN DecimalPrefix \o Itoa(ct.prec) \o <<",">> \o Itoa(ct.scale) \o <<")">>
  ELSE TypeName[ct.id]

\* ColumnTypesToString: the names joined with ",".
ColumnTypesToString(cts) ==
  FlattenSeq([i \in DOMAIN cts |->
                String(cts[i]) \o (IF i # Len(cts) THEN <<",">> ELSE <<>>)])

\* Mutant: the argument runs to the end of the string, closing character
\* included.
DecimalArgKeepsLast(s) == SubSeq(s, 9, Len(s))

\* rem := sargtype[8 : len(sargtype)-1]: the closing character is dropped
\* unseen.
DecimalArg(s) == SubSeq(s, 9, Len(s) - 1)

\* Mutant: the scale > precision check is missing.
DecimalInRangeNoScaleCheck(prec, scale) ==
  /\ 1 <= prec /\ prec <= 38
  /\ 0 <= scale /\ scale <= 38

\* The range checks on the parsed precision and scale.
DecimalInRange(prec, scale) ==
  /\ 1 <= prec /\ prec <= 38
  /\ 0 <= scale /\ scale <= 38
  /\ scale <= prec

(***************************************************************************)
(* parseDecimalType: the argument text, split at its first comma, each     *)
(* side trimmed of blanks and parsed with Atoi, then range-checked; every  *)
(* failure is an error.                                                    *)
(***************************************************************************)
ParseDecimalType(s) ==
  LET rem == DecimalArg(s)
      comIndex == SelectInSeq(rem, LAMBDA c : c = ",")
      prec == Atoi(Trim(SubSeq(rem, 1, comIndex - 1)))
      scale == Atoi(Trim(SubSeq(rem, comIndex + 1, Len(rem))))
  IN IF /\ Len(s) > 8 /\ Len(rem) >= 3 /\ comIndex # 0
        /\ prec.ok /\ scale.ok /\ DecimalInRange(prec.val, scale.val)
     THEN Decimal(prec.val, scale.val)
     ELSE ParseErr

StringToColumnType(s) ==
  IF \E i \in NonParameterizedIDs : TypeName[i] = s
  THEN NonParameterized(CHOOSE i \in NonParameterizedIDs : TypeName[i] = s)
  ELSE IF IsPrefix(DecimalPrefix, s) THEN ParseDecimalType(s)
  ELSE ParseErr

\* ColumnTypesEqual: same ID, and for two decimals the same scale and
\* precision.
ColumnTypesEqual(ct1, ct2) ==
  /\ ct1.id = ct2.id
  /\ ct1.id = ColumnTypeIDDecimal =>
       ct1.scale = ct2.scale /\ ct1.prec = ct2.prec

\* Every column type the package's constructors and parser produce.
AllTypes ==
  {NonParameterized(i) : i \in NonParameterizedIDs}
    \cup UNION {{Decimal(p, sc) : sc \in 0..p} : p \in 1..38}

VARIABLES
  input,    \* the string of the call
  parsed,   \* what StringToColumnType returned: a type, ParseErr, or Nil
  printed   \* the type whose String() was parsed, or Nil

vars == <<input, parsed, printed>>

TypeOK ==
  /\ input \in Seq(STRING)
  /\ parsed \in AllTypes \cup {Nil, ParseErr}
  /\ printed \in AllTypes \cup {Nil}

Init == input = <<>> /\ parsed = Nil /\ printed = Nil

\* StringToColumnType on a string from outside (a DDL statement).
Parse ==
  /\ parsed = Nil
  /\ \E s \in Inputs :
       /\ input' = s
       /\ parsed' = StringToColumnType(s)
  /\ UNCHANGED printed

\* A type's String() is stored and later read back with StringToColumnType.
PrintThenParse ==
  /\ parsed = Nil
  /\ \E ct \in AllTypes :
       /\ printed' = ct
       /\ input' = String(ct)
       /\ parsed' = StringToColumnType(String(ct))

Next == Parse \/ PrintThenParse

Spec == Init /\ [][Next]_vars

-----------------------------------------------------------------------------
(***************************************************************************)
(* Every column type survives String then StringToColumnType: the parse    *)
(* succeeds and ColumnTypesEqual holds.  Relates the fmt format of         *)
(* DecimalType.String to the slicing, splitting, trimming, Atoi and range  *)
(* checks of parseDecimalType at every precision and scale.                *)
(***************************************************************************)
PrintParseRoundTrip ==
  printed # Nil => parsed # ParseErr /\ ColumnTypesEqual(parsed, printed)

(***************************************************************************)
(* A string StringToColumnType accepts as a decimal has the form of one:   *)
(* "decimal(", the arguments, and a closing ")".  parseDecimalType drops   *)
(* the last character without looking at it.                               *)
(***************************************************************************)
AcceptedDecimalIsClosed ==
  parsed \in AllTypes /\ parsed.id = ColumnTypeIDDecimal => Last(input) = ")"

(***************************************************************************)
(* The error parseDecimalType returns for an out-of-range precision says   *)
(* "must be > 1 and <= 38": a decimal StringToColumnType accepts has a     *)
(* precision above 1.                                                      *)
(***************************************************************************)
AcceptedPrecisionAsDocumented ==
  parsed \in AllTypes /\ parsed.id = ColumnTypeIDDecimal => parsed.prec > 1

=============================================================================
