---------------------------- MODULE LoadGenerator ----------------------------
(***************************************************************************)
(* The Kafka load generators (src/unnamed/part_000, package load):         *)
(* simpleGenerator and paymentsGenerator, their Init and GenerateMessage.  *)
(* A generator is driven with (partitionID, offset) pairs from small sets; *)
(* a message is kept as its partition, offset, Kafka key and customer      *)
(* token.  A token or id is kept as the tuple of its fmt.Sprintf          *)
(* arguments: the formats put a literal "-" between the numbers, and the  *)
(* %010d/%019d widths are those of int32 and int64, so each format is     *)
(* one-to-one on what it is given.  The JSON value is left out: its        *)
(* amount is random, and json.Marshal of a map of strings and ints cannot  *)
(* fail, so the error return is unreachable.                               *)
(***************************************************************************)
EXTENDS Integers, Sequences

CONSTANTS
  PartitionIDs,  \* partitionID arguments
  OffsetArgs,    \* offset arguments
  UniqueIDs,     \* values uniqueIDsPerPartition may be configured with
  MaxMessages    \* bound on GenerateMessage calls

Abs(n) == IF n < 0 THEN -n ELSE n

\* Go's % on integers: truncated division, the sign of the dividend.
GoMod(a, b) ==
  LET q == Abs(a) \div Abs(b)
  IN a - b * (IF (a < 0) = (b < 0) THEN q ELSE -q)

\* x % n and s[x % n] in Go panic when n = 0 or the index is out of range.
IndexOk(x, n) == n # 0 /\ GoMod(x, n) >= 0

VARIABLES
  kind,          \* "simple" or "payments"
  uniqueIDs,     \* uniqueIDsPerPartition
  paymentTypes,  \* p.paymentTypes (nil until Init)
  currencies,    \* p.currencies (nil until Init)
  inited,        \* Init has been called
  messages,      \* the messages GenerateMessage returned
  calls,         \* GenerateMessage calls so far
  panicked       \* a GenerateMessage call panicked

vars == <<kind, uniqueIDs, paymentTypes, currencies, inited, messages, calls,
          panicked>>

Token == {"customer", "payment"} \X PartitionIDs \X Int

Message == [partition : PartitionIDs, offset : OffsetArgs,
            key : Token, customer : Token]

TypeOK ==
  /\ kind \in {"simple", "payments"}
  /\ uniqueIDs \in UniqueIDs
  /\ paymentTypes \in Seq(STRING) /\ currencies \in Seq(STRING)
  /\ inited \in BOOLEAN
  /\ messages \subseteq Message
  /\ calls \in 0..MaxMessages
  /\ panicked \in BOOLEAN

\* A generator value as its constructor leaves it: only
\* uniqueIDsPerPartition set.
Init ==
  /\ kind \in {"simple", "payments"}
  /\ uniqueIDs \in UniqueIDs
  /\ paymentTypes = <<>> /\ currencies = <<>>
  /\ inited = FALSE
  /\ messages = {}
  /\ calls = 0
  /\ panicked = FALSE

\* simpleGenerator.Init does nothing; paymentsGenerator.Init fills the
\* two slices.
InitGenerator ==
  /\ ~inited /\ ~panicked
  /\ inited' = TRUE
  /\ IF kind = "payments"
     THEN /\ paymentTypes' = <<"btc", "p2p", "other">>
          /\ currencies' = <<"gbp", "usd", "eur", "aud">>
     ELSE UNCHANGED <<paymentTypes, currencies>>
  /\ UNCHANGED <<kind, uniqueIDs, messages, calls, panicked>>

\* customer-token-<partitionID>-<offset % uniqueIDsPerPartition>
CustomerToken(pid, off) == <<"customer", pid, GoMod(off, uniqueIDs)>>

\* simpleGenerator.GenerateMessage: the key is the customer token.
SimpleMessage(pid, off) ==
  [partition |-> pid, offset |-> off, key |-> CustomerToken(pid, off),
   customer |-> CustomerToken(pid, off)]

\* paymentID := fmt.Sprintf("payment-%010d-%019d", partitionID, offset)
PaymentID(pid, off) == <<"payment", pid, off>>

PaymentMessage(pid, off) ==
  [partition |-> pid, offset |-> off, key |-> PaymentID(pid, off),
   customer |-> CustomerToken(pid, off)]

\* paymentTypes[int(offset)%len(p.paymentTypes)] and
\* currencies[int(offset)%len(p.currencies)] do not panic.
PaymentIndicesOk(off) ==
  IndexOk(off, Len(paymentTypes)) /\ IndexOk(off, Len(currencies))

(***************************************************************************)
(* GenerateMessage(partitionID, offset): the customer token takes offset % *)
(* uniqueIDsPerPartition, which panics when that is 0; the payments        *)
(* generator also indexes its two slices modulo their lengths, which       *)
(* panics before Init (length 0); Kafka offsets are never negative.       *)
(***************************************************************************)
GenerateMessage ==
  /\ ~panicked /\ calls < MaxMessages
  /\ calls' = calls + 1
  /\ \E pid \in PartitionIDs, off \in OffsetArgs :
       IF uniqueIDs # 0 /\ (kind = "payments" => PaymentIndicesOk(off))
       THEN /\ messages' = messages \cup
                 {IF kind = "simple" THEN SimpleMessage(pid, off)
                                     ELSE PaymentMessage(pid, off)}
            /\ UNCHANGED panicked
       ELSE /\ panicked' = TRUE
            /\ UNCHANGED messages
  /\ UNCHANGED <<kind, uniqueIDs, paymentTypes, currencies, inited>>

Next == InitGenerator \/ GenerateMessage

Spec == Init /\ [][Next]_vars

=============================================================================
