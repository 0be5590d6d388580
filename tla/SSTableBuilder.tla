--------------------------- MODULE SSTableBuilder ---------------------------
(***************************************************************************)
(* BuildSSTable (src/sst/sstable.go): one pass over a sorted iterator that *)
(* appends length-prefixed entries, collects index entries and summary    *)
(* statistics, then appends the fixed-stride index region and fills in    *)
(* the metadata pointer.  One step is one iteration of the loop; the      *)
(* iterator may fail in IsValid or Next at any iteration.                  *)
(***************************************************************************)
EXTENDS SSTableCodec, FiniteSets

CONSTANTS
  Keys,        \* keys the iterator may yield (byte sequences)
  Values,      \* values the iterator may yield; <<>> is a tombstone
  MaxEntries,  \* bound on the number of entries the iterator yields
  Formats,     \* format tags a caller may pass
  Times        \* wall-clock readings time.Now() may return

ASSUME Keys \subseteq Seq(0..255)
ASSUME Values \subseteq Seq(0..255) /\ <<>> \in Values
ASSUME MaxEntries \in Nat

VARIABLES
  input,         \* the entries the iterator yields, in order
  pos,           \* index in input of iter.Current()
  buff,          \* the buffer being built
  indexEntries,  \* [key, offset] per entry appended so far
  maxKeyLength, numEntries, numDeletes,
  first, prevKey, smallestKey, largestKey,
  minVersion, maxVersion,
  pc,            \* "loop", then "built", "error", "panic" or "too_big"
  table          \* the returned *SSTable, Nil until built

builderVars == <<input, pos, buff, indexEntries, maxKeyLength, numEntries,
                 numDeletes, first, prevKey, smallestKey, largestKey,
                 minVersion, maxVersion, pc, table>>

Entry == [key : Keys, value : Values]

KeysOf(s) == [i \in DOMAIN s |-> s[i].key]

\* The caller's arguments: a format tag and an iterator over at most
\* MaxEntries entries (in any order: ordering is the caller's contract).
Init ==
  /\ input \in SeqOf(Entry, MaxEntries)
  /\ pos = 1
  /\ \E format \in Formats : buff = <<format, 0, 0, 0, 0>>
  /\ indexEntries = <<>>
  /\ maxKeyLength = 0 /\ numEntries = 0 /\ numDeletes = 0
  /\ first = TRUE /\ prevKey = Nil
  /\ smallestKey = Nil /\ largestKey = Nil
  /\ maxVersion = 0 /\ minVersion = MaxUint64
  /\ pc = "loop"
  /\ table = Nil

\* iter.IsValid() returned true and the entry passes the sanity check.
Valid == pc = "loop" /\ pos <= Len(input)
\* Mutant: the sanity check compares with > instead of >=.
InOrderAllowsDuplicates(key) ==
  IF prevKey = Nil THEN TRUE ELSE BytesLess(prevKey, key) \/ prevKey = key
InOrder(key) == IF prevKey = Nil THEN TRUE ELSE BytesLess(prevKey, key)

\* Mutant: smallestKey is overwritten on every entry (no "first" flag).
ProcessEntrySmallestAlways ==
  LET kv == input[pos]
      version == Version(kv.key)
  IN /\ InOrder(kv.key)
     /\ HasVersion(kv.key)
     /\ prevKey' = kv.key
     /\ first' = FALSE
     /\ smallestKey' = kv.key
     /\ maxKeyLength' = IF Len(kv.key) > maxKeyLength THEN Len(kv.key)
                                                     ELSE maxKeyLength
     /\ buff' = AppendBytesWithLengthPrefix(
                  AppendBytesWithLengthPrefix(buff, kv.key), kv.value)
     /\ indexEntries' = Append(indexEntries,
                               [key |-> kv.key, offset |-> U32(Len(buff))])
     /\ numEntries' = numEntries + 1
     /\ numDeletes' = IF kv.value = <<>> THEN numDeletes + 1 ELSE numDeletes
     /\ largestKey' = kv.key
     /\ maxVersion' = IF version > maxVersion THEN version ELSE maxVersion
     /\ minVersion' = IF version < minVersion THEN version ELSE minVersion

\* Mutant: numEntries is only counted for entries that are not deletes.
ProcessEntryCountsLiveOnly ==
  LET kv == input[pos]
      version == Version(kv.key)
  IN /\ InOrder(kv.key)
     /\ HasVersion(kv.key)
     /\ prevKey' = kv.key
     /\ first' = FALSE
     /\ smallestKey' = IF first THEN kv.key ELSE smallestKey
     /\ maxKeyLength' = IF Len(kv.key) > maxKeyLength THEN Len(kv.key)
                                                     ELSE maxKeyLength
     /\ buff' = AppendBytesWithLengthPrefix(
                  AppendBytesWithLengthPrefix(buff, kv.key), kv.value)
     /\ indexEntries' = Append(indexEntries,
                               [key |-> kv.key, offset |-> U32(Len(buff))])
     /\ numEntries' = IF kv.value = <<>> THEN numEntries ELSE numEntries + 1
     /\ numDeletes' = IF kv.value = <<>> THEN numDeletes + 1 ELSE numDeletes
     /\ largestKey' = kv.key
     /\ maxVersion' = IF version > maxVersion THEN version ELSE maxVersion
     /\ minVersion' = IF version < minVersion THEN version ELSE minVersion

(***************************************************************************)
(* The body of one loop iteration up to iter.Next(): the entry passes the  *)
(* sanity check and is appended, indexed and counted.                      *)
(***************************************************************************)
ProcessEntry ==
  LET kv == input[pos]
      version == Version(kv.key)
  IN /\ InOrder(kv.key)
     /\ HasVersion(kv.key)
     /\ prevKey' = kv.key
     /\ first' = FALSE
     /\ smallestKey' = IF first THEN kv.key ELSE smallestKey
     /\ maxKeyLength' = IF Len(kv.key) > maxKeyLength THEN Len(kv.key)
                                                     ELSE maxKeyLength
     /\ buff' = AppendBytesWithLengthPrefix(
                  AppendBytesWithLengthPrefix(buff, kv.key), kv.value)
     /\ indexEntries' = Append(indexEntries,
                               [key |-> kv.key, offset |-> U32(Len(buff))])
     /\ numEntries' = numEntries + 1
     /\ numDeletes' = IF kv.value = <<>> THEN numDeletes + 1 ELSE numDeletes
     /\ largestKey' = kv.key
     /\ maxVersion' = IF version > maxVersion THEN version ELSE maxVersion
     /\ minVersion' = IF version < minVersion THEN version ELSE minVersion

\* One loop iteration whose iter.Next() succeeds.
BuildStep ==
  /\ Valid
  /\ ProcessEntry
  /\ pos' = pos + 1
  /\ UNCHANGED <<input, pc, table>>

\* The sanity check panics on a key not above the previous one; slicing
\* the version suffix of a key shorter than it panics too.
BuildPanic ==
  /\ Valid
  /\ ~InOrder(input[pos].key) \/ ~HasVersion(input[pos].key)
  /\ pc' = "panic"
  /\ UNCHANGED <<input, pos, buff, indexEntries, maxKeyLength, numEntries,
                 numDeletes, first, prevKey, smallestKey, largestKey,
                 minVersion, maxVersion, table>>

\* iter.IsValid() returns an error: BuildSSTable returns it.
IsValidError ==
  /\ pc = "loop"
  /\ pc' = "error"
  /\ UNCHANGED <<input, pos, buff, indexEntries, maxKeyLength, numEntries,
                 numDeletes, first, prevKey, smallestKey, largestKey,
                 minVersion, maxVersion, table>>

\* The entry is processed, then iter.Next() returns an error, which
\* BuildSSTable returns; the iterator stays on the entry.
NextError ==
  /\ Valid
  /\ ProcessEntry
  /\ pc' = "error"
  /\ UNCHANGED <<input, pos, table>>

\* The buffer once the index region is appended after the entries.
WithIndex == buff \o IndexRegion(indexEntries, maxKeyLength)

\* Mutant: the "SSTable too big" check is missing.
BuildFinishNoSizeCheck ==
  /\ pc = "loop"
  /\ pos > Len(input)
  /\ buff' = WriteMetadataOffset(WithIndex, Len(WithIndex))
  /\ \E creationTime \in Times :
       table' = [format       |-> ByteAt(buff, 0),
                 maxKeyLength |-> U32(maxKeyLength),
                 numEntries   |-> U32(numEntries),
                 numDeletes   |-> U32(numDeletes),
                 indexOffset  |-> U32(Len(buff)),
                 creationTime |-> creationTime,
                 data         |-> buff']
  /\ pc' = "built"
  /\ UNCHANGED <<input, pos, indexEntries, maxKeyLength, numEntries,
                 numDeletes, first, prevKey, smallestKey, largestKey,
                 minVersion, maxVersion>>

(***************************************************************************)
(* iter.IsValid() returns false: the index region is appended, the        *)
(* metadata pointer filled in and the table returned.                      *)
(***************************************************************************)
BuildFinish ==
  /\ pc = "loop"
  /\ pos > Len(input)
  /\ Len(WithIndex) <= MaxUint32
  /\ buff' = WriteMetadataOffset(WithIndex, Len(WithIndex))
  /\ \E creationTime \in Times :
       table' = [format       |-> ByteAt(buff, 0),
                 maxKeyLength |-> U32(maxKeyLength),
                 numEntries   |-> U32(numEntries),
                 numDeletes   |-> U32(numDeletes),
                 indexOffset  |-> U32(Len(buff)),
                 creationTime |-> creationTime,
                 data         |-> buff']
  /\ pc' = "built"
  /\ UNCHANGED <<input, pos, indexEntries, maxKeyLength, numEntries,
                 numDeletes, first, prevKey, smallestKey, largestKey,
                 minVersion, maxVersion>>

\* The buffer with its index exceeds a uint32 offset: "SSTable too big".
BuildTooBig ==
  /\ pc = "loop"
  /\ pos > Len(input)
  /\ Len(WithIndex) > MaxUint32
  /\ pc' = "too_big"
  /\ UNCHANGED <<input, pos, buff, indexEntries, maxKeyLength, numEntries,
                 numDeletes, first, prevKey, smallestKey, largestKey,
                 minVersion, maxVersion, table>>

(***************************************************************************)
(* Reading the built buffer back.                                          *)
(***************************************************************************)

\* The length-prefixed key and value of the entry record at offset off, or
\* Nil when the record does not fit in data.
EntryAt(data, off) ==
  IF ~CanRead(data, off, 4) THEN Nil
  ELSE LET kl == ReadLE(data, off, 4) IN
       IF ~CanRead(data, off + 4 + kl, 4) THEN Nil
       ELSE LET vl == ReadLE(data, off + 4 + kl, 4) IN
            IF ~CanRead(data, off + 8 + kl, vl) THEN Nil
            ELSE [key   |-> Slice(data, off + 4, off + 4 + kl),
                  value |-> Slice(data, off + 8 + kl, off + 8 + kl + vl)]

\* Index record i (0-based) of table t: its key slice and its offset.
IndexRecordStart(t, i) == i * (t.maxKeyLength + 4) + t.indexOffset
IndexKey(t, i) ==
  Slice(t.data, IndexRecordStart(t, i), IndexRecordStart(t, i) + t.maxKeyLength)
IndexOffsetOf(t, i) == ReadLE(t.data, IndexRecordStart(t, i) + t.maxKeyLength, 4)

(***************************************************************************)
(* Layout: a built table's metadata pointer names the end of its data, its *)
(* index region ends there, and index record i holds the padded key of the *)
(* i-th entry and the offset of a record that decodes to exactly that      *)
(* entry.  Wrapped uint32 offsets, a padding or stride error, or an entry  *)
(* offset taken at the wrong moment of the loop all break it.              *)
(***************************************************************************)
IndexAddressesEntries ==
  pc = "built" =>
    /\ table.numEntries = Len(input)
    /\ ReadLE(table.data, 1, 4) = Len(table.data)
    /\ IndexRecordStart(table, table.numEntries) = Len(table.data)
    /\ \A i \in 1..Len(input) :
         /\ IndexKey(table, i - 1) = Pad(input[i].key, table.maxKeyLength)
         /\ EntryAt(table.data, IndexOffsetOf(table, i - 1)) = input[i]

(***************************************************************************)
(* The sanity check of the loop is exactly the caller's ordering contract: *)
(* a table is built only from strictly increasing keys, and a panic means  *)
(* the entries consumed so far broke the order (or a key had no version).  *)
(***************************************************************************)
OnlySortedInputBuilds ==
  /\ pc = "built" => IsSorted(KeysOf(input), BytesLess)
  /\ pc = "panic" =>
       \/ ~IsSorted(KeysOf(SubSeq(input, 1, pos)), BytesLess)
       \/ ~HasVersion(input[pos].key)

(***************************************************************************)
(* The summary BuildSSTable returns is exact: numDeletes counts the empty  *)
(* values, smallest/largest are the first and last keys, and the version   *)
(* bounds are attained by some entry (spec section 8).  An empty table     *)
(* keeps the initial values: nil keys, minVersion = MaxUint64 > maxVersion.*)
(***************************************************************************)
SummaryExact ==
  pc = "built" =>
    LET versions == {Version(input[i].key) : i \in DOMAIN input}
    IN /\ table.numDeletes = Cardinality({i \in DOMAIN input : input[i].value = <<>>})
       /\ Len(input) > 0 =>
            /\ smallestKey = input[1].key
            /\ largestKey = input[Len(input)].key
            /\ minVersion = Min(versions)
            /\ maxVersion = Max(versions)
       /\ Len(input) = 0 =>
            /\ smallestKey = Nil /\ largestKey = Nil
            /\ minVersion = MaxUint64 /\ maxVersion = 0

=============================================================================
