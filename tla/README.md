# TLA+ models of tektite's SSTable format, column types, Kafka segment client and load generators

This directory holds TLA+ specifications of the parts of the repository
under `src/` that have state and control worth model checking. It also holds
the TLC configurations that check them. `PROJECT.json` lists every
component, run, mutant, finding and hazard, and maps each definition to the
source lines it translates.

## The system

| Part | Source | What it does |
|---|---|---|
| SSTable builder | `src/sst/sstable.go` `BuildSSTable` (26-132) | Reads a sorted iterator once. It appends length-prefixed key/value records, collects one index entry per record, keeps summary statistics, then appends a fixed-stride index and fills in the metadata pointer. |
| SSTable codec | `Serialize`, `Deserialize` (134-157), `appendBytesWithLengthPrefix` | Writes a 24-byte footer after the data, and reads it back from a buffer at an offset. |
| SSTable lookup | `findOffset` (185-217) | Runs a binary search over the zero-padded index keys and returns the offset of the lower bound, or -1. |
| Kafka segment provider | `src/kafka/segment_client.go` | Wraps a segmentio `kafka.Reader` behind `Start`, `GetMessage`, `CommitOffsets`, `Stop` and `Close`. Every method takes `smp.lock` for its whole body. All providers of one factory share a consumer group. |
| Column types | `src/unnamed/part_002` | Parses and prints column type names, including `decimal(p,s)`. |
| Sequence manager | `src/unnamed/part_000` (tests only) | The implementation is not in the repository. |
| Load generators | `src/unnamed/part_000` | `simpleGenerator` and `paymentsGenerator` build a Kafka message (key, customer token, JSON value) from (partition, offset). |
| Build and config | `src/unnamed/part_001`, `src/cfg/cluster-minio.conf` | A Makefile and a static configuration file. |

How the parts interact:

- The builder produces an `*SSTable` whose `data` holds the entries, the index and the metadata pointer.
- `Serialize` adds the footer.
- External storage keeps the bytes.
- `Deserialize` rebuilds the table.
- `findOffset` searches the rebuilt table.

The Kafka provider is independent of the SSTable code. Its caller is a poll loop that later commits offsets. Several providers made by one factory join one consumer group, and kafka-go's group coordinator moves partitions between their readers at every rebalance, with no revoke callback (segment_client.go:31-39). The load generators produce the messages a load test feeds to Kafka.

## Modules

- **`SSTableCodec`** holds pure operators over byte sequences. Buffers are
  sequences of byte values and offsets are 0-based as in Go
  (`ByteAt`, `Slice`).
  - The little-endian helpers `LE`, `FromLE`, `ReadLE` and `CanRead`
    belong to the `encoding` package, which is not under `src/`. They are
    therefore modelled from the spec.
  - `BytesLess` is `bytes.Compare(a, b) < 0`.
  - `Version` is line 84.
  - `Pad` and `IndexRegion` are the padding loop at lines 97-111.
  - `Serialize` and `Deserialize` translate the methods field by field.
    `Deserialize` returns the model value `Panic` wherever a Go read leaves
    the buffer; its data slice is `DataOf`.
  - The accessors `SizeBytes`, `NumEntries`, `NumDeletes`, `DeleteRatio`
    and `CreationTime` (lines 159-177). `FloatDiv` is Go's float64
    division of two counts: the exact quotient as a pair, the model value
    `NaN` for 0/0 and `PosInf` for a positive count over 0. No property is
    stated on them: each restates its line, and nothing in the repository
    calls them.
  - `FindOffset` is the loop (`Search`, a `RECURSIVE` operator), the
    boundary check and the read of the value offset (`OffsetAt`). It
    also checks Go's slice bounds: a key slice may reach past `len(data)`
    into the backing array, but not past its capacity.
- **`SSTableBuilder`** is one state machine step per loop iteration of
  `BuildSSTable`. Its variables are the function's locals: `buff`,
  `indexEntries`, `maxKeyLength`, `numEntries`, `numDeletes`, `first`,
  `prevKey`, the smallest and largest keys, and the min and max versions.
  `pos` is the iterator position and `pc` is the return path. Its actions:
  - `BuildStep`: one whole iteration.
  - `BuildPanic`: the sanity check fails at line 61, or the version slice
    at line 84 panics.
  - `IsValidError`: `IsValid` returns an error (line 53).
  - `NextError`: the entry is processed, then `Next` fails (line 93).
  - `BuildFinish`: the index is appended, the metadata pointer is written
    and the table is returned.
  - `BuildTooBig`: the check at line 115 fails.

  The iterator's whole output is chosen in `Init` from all sequences of up
  to `MaxEntries` entries, sorted or not. Sorting is the caller's contract,
  and the sanity check is the code under test.
- **`SSTable`** composes the builder with a client that calls `Serialize`,
  then `Store`, then `Deserialize`, then `findOffset` on any key of
  `LookupKeys`.
  - `Store` is the environment. Storage may place the table after a prefix
    of the caller's bytes and may lose trailing bytes (`StoragePrefixes`,
    `Truncations`).
- **`SSTable`** also models `Serialize` on the table read back
  (`Reserialize`). `Deserialize` keeps `data = buff[:len(buff)-24]`, so
  each footer append that fits the buffer's capacity writes into the
  caller's buffer in place (`InPlaceFooterWrite`, with the capacity taken
  to be the buffer's length; Go's append copies once an append does not
  fit). The rebuilt table's `data` and index reads share that buffer.
- **`SegmentClient`** models the providers of one factory (`Providers`)
  against an abstract broker and group coordinator.
  - Per partition, the broker is a log of `LogLen` messages, the group's
    committed offset, the reader that owns it in the current generation
    (`owner`) and that reader's fetch position.
  - `Start` creates a reader, which joins the group; `Close` closes it,
    and it leaves the group, its partitions unowned. A reader replaced by
    a second `Start` stays a member (`Members`).
  - `Rebalance` is the coordinator: every partition goes to some member,
    and each restarts at the committed offset. It is the environment, so
    it has no entry in the map.
  - `CommitMessages(m)` commits `m.Offset + 1` (`KafkaCommitted`). The
    broker checks the member's generation, not the assignment, so a
    provider can still commit a partition it lost.
  - Each method is one atomic action of one provider, because it holds
    `smp.lock` throughout; the providers' steps interleave.
  - `GetMessage` is three actions: nil reader, a fetched message of an
    owned partition, and timeout/error.
  - `Close` on a nil reader sets `panicked`, and no further call runs.
  - `received[pr]` is the caller's "one past the last message", and
    `CommitOffsets` may be called with it for any non-empty set of
    partitions; `got[pr]` is every message the caller was handed.
- **`SSTableAbstract`** is what a table promises, with no bytes. A build
  ends at once, and yields a table only from ascending keys; it may always
  fail. A lookup returns the first entry whose key is not below the lookup
  key, or `NotFound`. Its `Spec` has weak fairness on `Build`.
- **`SSTable`** also holds the refinement mapping to `SSTableAbstract`
  (`Abs == INSTANCE SSTableAbstract WITH ...`):
  - `entries` is the iterator's input;
  - `status` is "open" while the loop runs, "built" once `BuildFinish`
    returned a table, and "failed" on any other exit;
  - `lookupResult` is the entry record that the offset `findOffset`
    returned decodes to (`EntryAt`), "not_found" for -1.

  `FairSpec` adds weak fairness of the whole build loop (`BuildLoop`).
- **`ColumnTypes`** holds `StringToColumnType`, `parseDecimalType`, both
  `String` methods, `ColumnTypesToString` and `ColumnTypesEqual` as
  operators.
  - A Go string is a sequence of one-character strings.
  - `strconv.Atoi` (optional sign, then one or more digits),
    `strings.Trim(s, " \t")`, `strings.IndexRune` and `%d` are modelled by
    what they do.
  - The argument slice (`DecimalArg`, line 120) and the range checks
    (`DecimalInRange`, lines 130-142) are their own operators.
  - The state machine is one call per behaviour: either `Parse` on an
    outside string, or `PrintThenParse`, which reads back a type's
    `String()`.
- **`LoadGenerator`** holds both generators. A generator value starts as
  its constructor leaves it (`uniqueIDsPerPartition` set, slices nil);
  `InitGenerator` is `Init`, and `GenerateMessage` is one call with a
  partition and offset from small sets. Go's truncated `%` (`GoMod`) is
  modelled by what it does; a modulo by zero or an index out of range sets
  `panicked`. A key or customer token is kept as the tuple of its
  `fmt.Sprintf` arguments (`PaymentID`, `CustomerToken`): each format puts
  a literal `-` between its numbers, and the `%010d`/`%019d` widths fit
  int32 and int64, so the format is one-to-one on its arguments. The random amount and
  the JSON value are left out.
- **`MCSSTable`**, **`MCSegmentClient`**, **`MCColumnTypes`** and
  **`MCLoadGenerator`** give the constants their values.

## Runs

| Run | Config | Expect | What it shows |
|---|---|---|---|
| `sstable_core` | `MCSSTable.cfg` | pass | Covers every build of 0 to 3 entries over 5 keys (the empty key included) and 3 values, each serialized, read back and looked up with 8 non-empty keys (23 820 states). It checks: the built buffer's metadata pointer, index stride and records address exactly the input entries (`IndexAddressesEntries`); a table is built only from strictly sorted input, and a panic means the consumed prefix was unsorted or a key was shorter than its version (`OnlySortedInputBuilds`); the returned summary is exact, including an empty table (`SummaryExact`); `Deserialize(Serialize(t))` gives back `t` (`RoundTrip`); `findOffset` equals a linear lower bound over the padded keys (`FindOffsetIsPaddedLowerBound`). |
| `sstable_padding` | `MCSSTable_padding.cfg` | violation | Uses 2-byte versions. Looking up the stored key `<<1,1,1,0>>` returns the offset of `<<1,1,1>>`, because padded keys cannot tell a key from its zero-extension. |
| `sstable_offset` | `MCSSTable_offset.cfg` | violation | A table stored after one byte of the caller's data does not round-trip through `Deserialize(buff, 1)`. |
| `sstable_truncated` | `MCSSTable_truncated.cfg` | violation | `Deserialize` of a buffer that lost its last byte panics. |
| `segment_client` | `MCSegmentClient.cfg` | pass | Two providers, 2 partitions of 2 messages, 2 reader lifetimes and 2 rebalances, under provider symmetry (585 533 states). Every message below a committed offset was handed to some caller (`NoMessageSkipped`), through restarts, rebalances, failed commits and commits of lost partitions, so no reader resuming at the committed offset skips a message. |
| `segment_close` | `MCSegmentClient_close.cfg` | violation | `Close` before `Start` dereferences the nil reader. |
| `segment_leak` | `MCSegmentClient_leak.cfg` | violation | A second `Start` replaces `smp.reader` without closing the first reader (`NoLeakedReader`). |
| `load_generator` | `MCLoadGenerator.cfg` | pass | Both generators, 3 partitions, offsets 0-6, `uniqueIDsPerPartition` 0, 1 or 2, up to 3 calls (10 896 states). Every message returned carries its own partition and offset, and a key and customer token of the generator's form (`TypeOK`). |
| `sstable_refine` | `MCSSTable_refine.cfg` | pass | Uses keys and lookup keys that do not end in a zero byte, under `FairSpec` (15 255 states). The SSTable implements `SSTableAbstract` (`ImplementsAbstract`): a table is built only from ascending keys, every build ends, and every offset `findOffset` returns addresses the record of the key's lower bound. With `MCKeys`, where `<<1,0>>` zero-extends `<<1>>`, the refinement fails: that is the padding finding again. |
| `column_types` | `MCColumnTypes.cfg` | pass | Every column type (6 names and 779 decimals) parses back from its `String()` (`PrintParseRoundTrip`). None of about 66 400 outside strings parses to a type outside the valid ranges (`TypeOK`). |
| `column_types_closed` | `MCColumnTypes_closed.cfg` | violation | `"decimal(1,1-"` is accepted as decimal(1,1). The last character is dropped unchecked (`AcceptedDecimalIsClosed`). |
| `column_types_precision` | `MCColumnTypes_precision.cfg` | violation | Over well-formed decimal strings only, `"decimal(1,1)"` is accepted, although the error parseDecimalType returns for a bad precision says it "must be > 1" (`AcceptedPrecisionAsDocumented`). The check (`prec < 1`) and the message disagree; `TypeOK` and `PrintParseRoundTrip` follow the check. |

Every property of a passing run has a mutant in `PROJECT.json`: a modelled
bug that TLC must catch. The mutants are:

- `>` instead of `>=` in the sanity check;
- the too-big check dropped;
- `smallestKey` overwritten on every entry;
- only live entries counted;
- footer fields swapped;
- the boundary check of `findOffset` dropped;
- `- 1` dropped in `CommitOffsets`;
- `smp.reader = nil` dropped in `Close`;
- the closing character kept in the decimal argument;
- the scale <= precision check dropped;
- `PartInfo` filled with partition and offset swapped.

## Bounds and why they are enough

- **`VersionWidth` is 1** (2 in the padding run) instead of 8. The code only
  slices the last 8 bytes and subtracts their big-endian value from
  `MaxUint64`, which scales to `256^VersionWidth - 1`.
- **`MaxUint32` is 63.** After two entries with a 30-byte value the
  buffer is past 63 bytes, so the third entry's `uint32(len(buff))` offset
  wraps at line 68, and such builds take the too-big path. Tables of three
  entries with short values are still built.
- **Keys.** Keys of lengths 1 to 3 include a key and its zero-extension
  (`<<1>>`, `<<1,0>>`), and keys of differing lengths, so the index pads.
  The empty key is shorter than its version suffix, so the slice at
  line 84 panics.
- **Lookup keys** include keys below, between and above the stored keys.
- **Entries.** Three entries give binary searches of depth 2, where the
  boundary check and the middle computation matter.
- **Column types.** The inputs are every `"decimal("` string with up to 5
  more characters, drawn from `0 1 3 8 9 - , blank )`. They reach:
  precision 38 and 39; scale above precision; signs; blanks around
  numbers; no comma and two commas; an empty side; and every closing
  character. The printed types are all of them.
  The precision run parses only well-formed strings, `"decimal("`, up to
  four characters and `")"` (`MCClosedInputs`), so its trace is not the
  unclosed-string finding again.
- **Segment client.** Two providers and two rebalances let a partition
  with uncommitted messages move to the other provider and back, and a
  provider commit a partition it lost. Two reader lifetimes allow a
  close and restart, or a leaked reader that stays in the group. The
  single-provider runs (`close`, `leak`) need no more. Providers are
  symmetric (`MCSymmetry`): they run the same code against one group, and
  no property names one.
- **Load generators.** Offsets 0-6 pass both slice lengths (3 and 4) and
  every `uniqueIDsPerPartition`, so every index and every customer-token
  remainder occurs; Kafka partition ids and offsets are never negative.

## Fairness

- **`sstable_refine`** assumes weak fairness of the build loop
  (`WF_vars(BuildLoop)`). `BuildSSTable` is one synchronous call, and its
  loop waits on nothing but the iterator, so once it is called it keeps
  stepping.
- **Client steps get no fairness.** Serialize, store, deserialize and
  lookup are the caller's choice.
- **Kafka provider.** No fairness is assumed. Its methods are called by an
  external loop, and a fetch may time out forever. Rebalances are the
  coordinator's choice and get none either.
- **Other runs.** The other runs check safety only.
- **Deadlock checking is off** where the system really stops: a returned
  or failed build, one parse call, and a provider that has panicked.

## Not modelled

- **Message contents, headers and timestamps** in `GetMessage`. They are
  copied field by field and no property concerns them.
- **`ColumnTypesToString` output read back.** It joins with ",", but a
  decimal's name contains ",". Nothing in the repository splits such a
  list, so there is no code to check against.
- **Sequence manager.** Only its tests are in the repository.
- **The JSON value and random amount** of the load generators: random
  data and a `json.Marshal` that cannot fail.
- **Makefile and configuration.** Build rules and static data.
- **`CommitOffsets` after `Close`.** It returns nil and commits nothing,
  the same nil-reader choice `GetMessage` makes. Nothing in the
  repository says whether a caller may commit after `Close`, so no run
  asserts either reading.
- **`GetMessage` holding `smp.lock` during a poll.** Close and
  CommitOffsets wait behind it for up to `pollTimeout`; that is latency,
  not a safety property.

## What stays unchecked

- **`findOffset` with an empty key on an empty table.** The record at
  index -1 has an empty key slice, which equals the empty key, so
  `findOffset` returns the 4 bytes at offset 1 (the metadata pointer, 5)
  instead of -1, contrary to spec section 4.3. The instances leave the
  empty lookup key out; with `<<>>` added to `MCLookupKeys`,
  `sstable_core` fails `FindOffsetIsPaddedLowerBound` with that trace.
- **`Serialize` on a table read back.** `Reserialize` is modelled and
  fires, but at offset 0 its in-place writes put back the bytes that were
  there, which `RoundTrip` already implies; behind a prefix the wrong
  footer comes from the line-149 bug that `sstable_offset` shows.
- **Duplicate processing across providers.** Without revoke callbacks
  two providers can hold the same uncommitted message after a rebalance;
  segment_client.go:31-39 states that this client does not prevent it.
- **Load generator panics.** A zero `uniqueIDsPerPartition`, or the
  payments generator before `Init`, panics; `GenerateMessage` models both,
  and a property would only restate its guard.
- **Liveness of the consumer group** (every committed offset eventually
  reaches the end of its partition). It would need fairness on the
  caller's poll-and-commit loop and on the group coordinator, and neither
  is code in the repository: `GetMessage` may time out for ever and the
  provider never commits on its own. An assumed fairness would make the
  property hold by assumption, so no run checks it.
- **A committed offset moving backwards.** A provider that lost a
  partition can still commit it (segment_client.go:124), so the group's
  offset can regress below the new owner's progress. That replays
  messages but never skips one, which is what `NoMessageSkipped` checks
  across such commits. Whether a regression is acceptable is not stated
  anywhere in the repository, so no run asserts either reading.
