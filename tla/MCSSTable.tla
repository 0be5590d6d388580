------------------------------ MODULE MCSSTable ------------------------------
(***************************************************************************)
(* Model-checking instance of SSTable.  Keys are 0 to 3 bytes over a       *)
(* three-letter alphabet with a 1-byte version suffix, so the index pads   *)
(* keys of different lengths, a key can be a zero-extension of another,    *)
(* and the empty key is too short for its version suffix.  MaxUint32 is   *)
(* scaled down: after two entries with 30-byte values the offset of the    *)
(* third wraps at line 68, and the too-big path runs.                      *)
(***************************************************************************)
EXTENDS SSTable

MCKeys == {<<>>, <<0, 1>>, <<1>>, <<1, 0>>, <<2, 1, 1>>}
MCValues == {<<>>, <<7>>, [i \in 1..30 |-> 7]}
\* The empty lookup key is left out: on the empty table findOffset returns
\* the metadata pointer for it, not -1 (README, "What stays unchecked").
MCLookupKeys == (MCKeys \ {<<>>}) \cup {<<0>>, <<1, 0, 0>>, <<1, 1>>, <<2, 2>>}
MCTimes == {1000}
MCFormats == {1}

\* The buffer storage hands back: as written.
MCPrefixes == {<<>>}
MCTruncations == {0}

\* A caller placing the table after one byte of its own, and storage
\* losing the last byte.
MCPrefixesOffset == {<<9>>}
MCTruncationsCut == {0, 1}

\* Two-byte version suffixes: <<1,1,1,0>> is logical key <<1,1>> at version
\* 65535 - 256 (suffix <<1,0>>), and zero-extends the stored key <<1,1,1>>
\* (logical key <<1>>, suffix <<1,1>>).  Neither version is MaxUint64.
MCKeysV2 == {<<1, 1, 1>>, <<1, 1, 1, 0>>, <<2, 0, 1>>}
MCValuesV2 == {<<>>}

\* Keys and lookup keys none of which ends in a zero byte, so no key is a
\* zero-extension of another: a key, a longer key with the same first byte,
\* and lookup keys below, between, inside and above them.
MCKeysNoZero == {<<0, 1>>, <<1>>, <<1, 2>>, <<2, 1, 1>>}
MCLookupKeysNoZero == MCKeysNoZero \cup {<<0, 2>>, <<1, 1>>, <<1, 2, 1>>, <<2, 2>>, <<3>>}
=============================================================================
