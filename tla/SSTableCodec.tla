---------------------------- MODULE SSTableCodec ----------------------------
(***************************************************************************)
(* The byte layout of an SSTable (src/sst/sstable.go) as pure operators:   *)
(* the little-endian integer helpers, the key order, the index padding,    *)
(* Serialize, Deserialize and the binary search of findOffset.             *)
(*                                                                         *)
(* A buffer is a sequence of byte values; offsets are 0-based as in Go, so *)
(* byte i of a Go slice is element i+1 of the sequence.  A Go slice        *)
(* expression or a fixed-width read that leaves the buffer panics; such    *)
(* outcomes are the model value Panic.                                     *)
(***************************************************************************)
EXTENDS Naturals, Integers, Sequences, SequencesExt

CONSTANTS
  VersionWidth,  \* bytes of the version suffix of a key (8 in the code)
  MaxUint32,     \* math.MaxUint32: the largest value a uint32 field holds
  Nil,           \* a nil slice
  Panic,         \* the outcome of a Go runtime panic
  NaN,           \* the float64 0/0
  PosInf         \* the float64 n/0 for n > 0

ASSUME VersionWidth \in Nat \ {0}
ASSUME MaxUint32 \in Nat \ {0}

\* math.MaxUint64, the largest version suffix, scaled with VersionWidth.
MaxUint64 == 256^VersionWidth - 1

\* The Go conversion uint32(n) of a non-negative int.
U32(n) == n % (MaxUint32 + 1)

\* Go slice expressions on 0-based offsets.
ByteAt(b, i) == b[i + 1]
Slice(b, lo, hi) == SubSeq(b, lo + 1, hi)

Zeros(n) == [i \in 1..n |-> 0]

(***************************************************************************)
(* encoding.AppendUint32ToBufferLE / AppendUint64ToBufferLE and the        *)
(* matching ReadUint32FromBufferLE / ReadUint64FromBufferLE: w bytes,      *)
(* least significant first.  A read of bytes beyond len(b) panics.         *)
(***************************************************************************)
RECURSIVE LE(_, _)
LE(n, w) == IF w = 0 THEN <<>> ELSE <<n % 256>> \o LE(n \div 256, w - 1)

RECURSIVE FromLE(_)
FromLE(s) == IF s = <<>> THEN 0 ELSE Head(s) + 256 * FromLE(Tail(s))

ReadLE(b, off, w) == FromLE(Slice(b, off, off + w))

CanRead(b, off, w) == 0 <= off /\ off + w <= Len(b)

\* binary.BigEndian.Uint64 of the version suffix.
FromBE(s) == FromLE(Reverse(s))

(***************************************************************************)
(* bytes.Compare(a, b) < 0: a is a strict prefix of b, or a has the        *)
(* smaller byte at the first position where they differ.                   *)
(***************************************************************************)
BytesLess(a, b) ==
  \/ IsStrictPrefix(a, b)
  \/ \E i \in 1..Len(a) :
        /\ i <= Len(b)
        /\ SubSeq(a, 1, i - 1) = SubSeq(b, 1, i - 1)
        /\ a[i] < b[i]

\* The version of a key: MaxUint64 minus its big-endian trailing suffix.
HasVersion(key) == Len(key) >= VersionWidth
Version(key) ==
  MaxUint64 - FromBE(Slice(key, Len(key) - VersionWidth, Len(key)))

\* appendBytesWithLengthPrefix: a uint32 length, then the bytes.
AppendBytesWithLengthPrefix(buff, bytes) ==
  buff \o LE(U32(Len(bytes)), 4) \o bytes

\* The key of an index record, zero-padded on the right to maxKeyLength.
Pad(key, maxKeyLength) == key \o Zeros(maxKeyLength - Len(key))

(***************************************************************************)
(* The index region BuildSSTable appends after the entries: one record of  *)
(* maxKeyLength + 4 bytes per index entry, the padded key then the offset. *)
(***************************************************************************)
IndexRegion(indexEntries, maxKeyLength) ==
  FlattenSeq([i \in DOMAIN indexEntries |->
                Pad(indexEntries[i].key, maxKeyLength)
                  \o LE(indexEntries[i].offset, 4)])

\* buff[1..5) = metadataOffset, written byte by byte.
WriteMetadataOffset(buff, metadataOffset) ==
  [i \in DOMAIN buff |->
     IF i \in 2..5 THEN LE(metadataOffset, 4)[i - 1] ELSE buff[i]]

FooterSize == 24

\* Mutant: numEntries and numDeletes written in swapped order.
SerializeSwapped(s) ==
  s.data \o LE(s.maxKeyLength, 4) \o LE(s.numDeletes, 4)
         \o LE(s.numEntries, 4) \o LE(s.indexOffset, 4)
         \o LE(s.creationTime, 8)

(***************************************************************************)
(* SSTable.Serialize: the footer is appended after the data buffer.        *)
(***************************************************************************)
Serialize(s) ==
  s.data \o LE(s.maxKeyLength, 4) \o LE(s.numEntries, 4)
         \o LE(s.numDeletes, 4) \o LE(s.indexOffset, 4)
         \o LE(s.creationTime, 8)

(***************************************************************************)
(* The array under s.data after s.Serialize(), when its capacity is the    *)
(* length of the buffer Deserialize was given.  Each of the five appends   *)
(* that fits the capacity writes its bytes into that array in place; the   *)
(* first that does not copies, and the rest write to the copy.             *)
(***************************************************************************)
InPlaceFooterWrite(s) ==
  LET ends == {e \in {4, 8, 12, 16, 24} : Len(s.data) + e <= Len(s.backing)}
      k == Len(s.data) + (IF ends = {} THEN 0 ELSE Max(ends))
  IN SubSeq(Serialize(s), 1, k) \o SubSeq(s.backing, k + 1, Len(s.backing))

\* s.data = buff[:len(buff)-24]
DataOf(buff) == Slice(buff, 0, Len(buff) - FooterSize)

(***************************************************************************)
(* SSTable.Deserialize(buff, offset): the format byte at offset, the       *)
(* metadata pointer after it, the footer fields read from the position the *)
(* pointer names, and data = buff[:len(buff)-24].  Returns the table and   *)
(* the offset past the footer, or Panic when a read leaves the buffer.     *)
(* backing is the array under the data slice, up to its capacity.          *)
(***************************************************************************)
Deserialize(buff, offset) ==
  IF ~CanRead(buff, offset, 5) THEN Panic
  ELSE
    LET metadataOffset == ReadLE(buff, offset + 1, 4)
    IN IF ~CanRead(buff, metadataOffset, FooterSize) THEN Panic
       ELSE [format       |-> ByteAt(buff, offset),
             maxKeyLength |-> ReadLE(buff, metadataOffset, 4),
             numEntries   |-> ReadLE(buff, metadataOffset + 4, 4),
             numDeletes   |-> ReadLE(buff, metadataOffset + 8, 4),
             indexOffset  |-> ReadLE(buff, metadataOffset + 12, 4),
             creationTime |-> ReadLE(buff, metadataOffset + 16, 8),
             data         |-> DataOf(buff),
             backing      |-> buff,
             next         |-> metadataOffset + FooterSize]

\* SSTable.SizeBytes: the data and the 24-byte footer.
SizeBytes(s) == Len(s.data) + FooterSize

\* SSTable.NumEntries, NumDeletes and CreationTime.
NumEntries(s) == s.numEntries
NumDeletes(s) == s.numDeletes
CreationTime(s) == s.creationTime

\* float64(a) / float64(b) of two uint32 values: the exact quotient as a
\* pair (a rounded quotient of small integers determines the pair's
\* ratio), NaN for 0/0 and +Inf for a positive count over 0.
FloatDiv(a, b) ==
  CASE b # 0 -> [num |-> a, den |-> b]
    [] a = 0 -> NaN
    [] OTHER -> PosInf

\* SSTable.DeleteRatio.
DeleteRatio(s) == FloatDiv(s.numDeletes, s.numEntries)

\* recordStart of index record i, and its key slice midKey / highKey.  A Go
\* slice expression may extend past len(data) into the backing array, but
\* not past its capacity: RecKeyOk says the slice stays within it.
RecordStart(s, i) == i * (s.maxKeyLength + 4) + s.indexOffset
RecKeyOk(s, i) == CanRead(s.backing, RecordStart(s, i), s.maxKeyLength)
RecKey(s, i) ==
  Slice(s.backing, RecordStart(s, i), RecordStart(s, i) + s.maxKeyLength)

(***************************************************************************)
(* The loop of findOffset: binary search for the first index record whose  *)
(* padded key is not less than key.  Returns the final high and whether    *)
(* every key slice the loop took was in bounds (ok = FALSE is a panic).    *)
(***************************************************************************)
RECURSIVE Search(_, _, _, _)
Search(s, key, low, high) ==
  IF low < high
  THEN LET middle == low + (high - low) \div 2
       IN CASE ~RecKeyOk(s, middle) -> [high |-> middle, ok |-> FALSE]
            [] BytesLess(RecKey(s, middle), key) -> Search(s, key, middle + 1, high)
            [] OTHER -> Search(s, key, low, middle)
  ELSE [high |-> high, ok |-> TRUE]

\* The record's value offset read after the loop, or Panic.
OffsetAt(s, high) ==
  LET valueStart == RecordStart(s, high) + s.maxKeyLength
  IN IF CanRead(s.data, valueStart, 4) THEN ReadLE(s.data, valueStart, 4)
     ELSE Panic

\* Mutant: the boundary check after the loop is missing, so a key above
\* every stored key resolves to the last record.
FindOffsetNoBoundCheck(s, key) ==
  LET r == Search(s, key, 0, s.numEntries - 1)
  IN IF r.ok THEN OffsetAt(s, r.high) ELSE Panic

(***************************************************************************)
(* SSTable.findOffset: the search over records 0..numEntries-1, then, when *)
(* high is still the last record, -1 if even its key is less than key.     *)
(***************************************************************************)
FindOffset(s, key) ==
  LET outerHighBound == s.numEntries - 1
      r == Search(s, key, 0, outerHighBound)
  IN CASE ~r.ok -> Panic
       [] r.high = outerHighBound /\ ~RecKeyOk(s, r.high) -> Panic
       [] r.high = outerHighBound /\ BytesLess(RecKey(s, r.high), key) -> -1
       [] OTHER -> OffsetAt(s, r.high)

=============================================================================
