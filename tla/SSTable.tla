------------------------------- MODULE SSTable -------------------------------
(***************************************************************************)
(* The life of one SSTable (src/sst/sstable.go): BuildSSTable, then        *)
(* Serialize, the bytes kept by external storage (possibly behind a       *)
(* prefix, possibly truncated), Deserialize, and findOffset lookups on    *)
(* the table read back.                                                    *)
(***************************************************************************)
EXTENDS SSTableBuilder

CONSTANTS
  StoragePrefixes,     \* bytes storage may place before the serialized table
  Truncations,  \* numbers of trailing bytes storage may lose
  LookupKeys    \* keys findOffset may be called with

VARIABLES
  stage,         \* "build", "serialized", "stored", "loaded" or "panic"
  wire,          \* the bytes Serialize returned
  stored,        \* [prefix, buff]: the buffer handed to Deserialize
  reader,        \* the *SSTable Deserialize filled in, or Nil
  lookupKey,     \* the key of the last findOffset call, or Nil
  lookupResult,  \* its result: an offset, -1, Panic, or Nil
  reserialized   \* the bytes Serialize returned for the table read back

clientVars == <<stage, wire, stored, reader, lookupKey, lookupResult,
               reserialized>>
vars == <<builderVars, clientVars>>

TypeOK ==
  /\ pc \in {"loop", "built", "error", "panic", "too_big"}
  /\ pos \in 1..(MaxEntries + 1)
  /\ buff \in Seq(0..255)
  /\ numDeletes <= numEntries /\ numEntries = Len(indexEntries)
  /\ stage \in {"build", "serialized", "stored", "loaded", "reserialized",
                "panic"}
  /\ (stage # "build") => pc = "built"
  /\ lookupResult \in Int \cup {Panic, Nil}

SpecInit ==
  /\ Init
  /\ stage = "build"
  /\ wire = <<>>
  /\ stored = Nil
  /\ reader = Nil
  /\ lookupKey = Nil
  /\ lookupResult = Nil
  /\ reserialized = <<>>

\* s.Serialize() on the built table.
SerializeTable ==
  /\ pc = "built" /\ stage = "build"
  /\ wire' = Serialize(table)
  /\ stage' = "serialized"
  /\ UNCHANGED <<builderVars, stored, reader, lookupKey, lookupResult, reserialized>>

\* External storage keeps the bytes after a prefix and may lose a tail.
Store ==
  /\ stage = "serialized"
  /\ \E prefix \in StoragePrefixes, cut \in Truncations :
       /\ cut <= Len(wire)
       /\ stored' = [prefix |-> prefix,
                     buff   |-> prefix \o SubSeq(wire, 1, Len(wire) - cut)]
  /\ stage' = "stored"
  /\ UNCHANGED <<builderVars, wire, reader, lookupKey, lookupResult, reserialized>>

\* s.Deserialize(buff, offset) at the offset where the table starts.
DeserializeTable ==
  /\ stage = "stored"
  /\ LET r == Deserialize(stored.buff, Len(stored.prefix))
     IN IF r = Panic
        THEN stage' = "panic" /\ reader' = Nil
        ELSE stage' = "loaded" /\ reader' = r
  /\ UNCHANGED <<builderVars, wire, stored, lookupKey, lookupResult,
                 reserialized>>

\* s.findOffset(key) on the table read back.
Lookup ==
  /\ stage \in {"loaded", "reserialized"}
  /\ \E key \in LookupKeys :
       /\ lookupKey' = key
       /\ lookupResult' = FindOffset(reader, key)
  /\ UNCHANGED <<builderVars, stage, wire, stored, reader, reserialized>>

(***************************************************************************)
(* s.Serialize() on the table read back: s.data is buff[:len(buff)-24], so *)
(* the footer it appends lands in the caller's buffer, which the table's   *)
(* data and index reads share.                                             *)
(***************************************************************************)
Reserialize ==
  /\ stage = "loaded"
  /\ LET nb == InPlaceFooterWrite(reader)
     IN /\ reserialized' = Serialize(reader)
        /\ stored' = [stored EXCEPT !.buff = nb]
        /\ reader' = [reader EXCEPT !.backing = nb,
                                    !.data = SubSeq(nb, 1, Len(reader.data))]
  /\ stage' = "reserialized"
  /\ UNCHANGED <<builderVars, wire, lookupKey, lookupResult>>

Next ==
  \/ BuildStep    /\ UNCHANGED clientVars
  \/ BuildPanic   /\ UNCHANGED clientVars
  \/ IsValidError /\ UNCHANGED clientVars
  \/ NextError    /\ UNCHANGED clientVars
  \/ BuildFinish  /\ UNCHANGED clientVars
  \/ BuildTooBig  /\ UNCHANGED clientVars
  \/ SerializeTable
  \/ Store
  \/ DeserializeTable
  \/ Lookup
  \/ Reserialize

Spec == SpecInit /\ [][Next]_vars

\* One iteration of the BuildSSTable loop or its exit, whichever applies.
BuildLoop ==
  /\ \/ BuildStep \/ BuildPanic \/ IsValidError \/ NextError
     \/ BuildFinish \/ BuildTooBig
  /\ UNCHANGED clientVars

(***************************************************************************)
(* BuildSSTable is one synchronous call whose loop blocks on nothing but   *)
(* the iterator, so once called it keeps stepping: weak fairness of the    *)
(* loop.  The client steps get none: a caller may never serialize or look  *)
(* anything up.                                                            *)
(***************************************************************************)
FairSpec == Spec /\ WF_vars(BuildLoop)

\* The abstract table seen through the builder and the lookups: the
\* iterator's entries, the outcome of BuildSSTable, and the entry record
\* the offset findOffset returns points at.
AbsStatus ==
  CASE pc = "loop"  -> "open"
    [] pc = "built" -> "built"
    [] OTHER        -> "failed"

AbsResult ==
  CASE lookupResult = Nil   -> Nil
    [] lookupResult = Panic -> Panic
    [] lookupResult = -1    -> "not_found"
    [] OTHER                -> EntryAt(reader.data, lookupResult)

Abs == INSTANCE SSTableAbstract
         WITH entries <- input, status <- AbsStatus,
              lookupKey <- lookupKey, lookupResult <- AbsResult,
              Less <- BytesLess, NotFound <- "not_found"

-----------------------------------------------------------------------------
(***************************************************************************)
(* Round trip (spec section 8): a table read back from the bytes Serialize *)
(* produced has the built table's metadata and byte-identical data, and    *)
(* Deserialize returns the offset just past the table's own bytes.         *)
(***************************************************************************)
RoundTrip ==
  stage = "loaded" =>
    /\ reader.format = table.format
    /\ reader.maxKeyLength = table.maxKeyLength
    /\ reader.numEntries = table.numEntries
    /\ reader.numDeletes = table.numDeletes
    /\ reader.indexOffset = table.indexOffset
    /\ reader.creationTime = table.creationTime
    /\ reader.data = table.data
    /\ reader.next = Len(stored.buff)

\* Deserialize fails closed (spec section 7): it never panics on a
\* truncated or corrupt buffer.
DeserializeFailsClosed == stage # "panic"

\* The index entry of the first built entry whose padded key is not below
\* key, or -1: the lower bound over the keys as the index stores them.
PaddedLowerBound(key) ==
  LET hits == {i \in DOMAIN indexEntries :
                 ~BytesLess(Pad(indexEntries[i].key, maxKeyLength), key)}
  IN IF hits = {} THEN -1 ELSE indexEntries[Min(hits)].offset

(***************************************************************************)
(* findOffset on the table read back returns the offset the builder        *)
(* recorded for the first entry whose zero-padded key is not less than the *)
(* lookup key, and -1 when there is none: the binary search, its boundary  *)
(* check and the stride arithmetic agree with a linear scan of the index.  *)
(***************************************************************************)
FindOffsetIsPaddedLowerBound ==
  lookupKey # Nil => lookupResult = PaddedLowerBound(lookupKey)

\* The lower bound of spec section 4.3 over the keys themselves: the offset
\* of the smallest stored key >= key, or -1.
KeyLowerBound(key) ==
  LET hits == {i \in DOMAIN indexEntries : ~BytesLess(indexEntries[i].key, key)}
  IN IF hits = {} THEN -1 ELSE indexEntries[Min(hits)].offset

(***************************************************************************)
(* Spec section 8: findOffset resolves every stored key to the offset of   *)
(* that key's own record, and any key to the smallest stored key >= it.    *)
(***************************************************************************)
FindOffsetIsKeyLowerBound ==
  lookupKey # Nil => lookupResult = KeyLowerBound(lookupKey)

(***************************************************************************)
(* Refinement: BuildSSTable, Serialize, Deserialize and findOffset         *)
(* together implement the abstract table: a table is built only from      *)
(* ascending keys, every started build ends, and the offset findOffset     *)
(* returns addresses the lower-bound entry of the key (or -1 when there is *)
(* none).  It holds for keys that do not end in a zero byte; the           *)
(* sstable_padding run shows why that restriction is needed.              *)
(***************************************************************************)
ImplementsAbstract == Abs!Spec

=============================================================================
