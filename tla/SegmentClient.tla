---------------------------- MODULE SegmentClient ----------------------------
(***************************************************************************)
(* SegmentKafkaMessageProvider (src/kafka/segment_client.go): consumers    *)
(* over the segmentio kafka-go Reader, several providers made by one       *)
(* factory and so sharing one consumer group.  Every method takes the      *)
(* provider's smp.lock for its whole body, so the calls of concurrent      *)
(* goroutines (the poller, the committer, the shutdown path) interleave as *)
(* whole steps, and the steps of different providers interleave freely.   *)
(*                                                                         *)
(* The broker and the group coordinator are abstracted to what the         *)
(* providers can observe: per partition a log of LogLen messages (offsets  *)
(* 0..LogLen-1), the group's committed offset (the next offset to          *)
(* consume), the reader that owns the partition in the current generation  *)
(* and the position it fetches from.  kafka-go joins the group at          *)
(* kafka.NewReader, leaves it at Reader.Close, and at every rebalance      *)
(* restarts each assigned partition at its committed offset; there is no   *)
(* revoke callback (lines 31-39).  CommitMessages(m) commits m.Offset + 1. *)
(***************************************************************************)
EXTENDS Naturals

CONSTANTS
  Providers,     \* the SegmentKafkaMessageProviders of the factory
  Partitions,    \* partition ids of the topic
  LogLen,        \* messages per partition
  MaxReaders,    \* bound on kafka.NewReader calls (Start) over all providers
  MaxRebalances, \* bound on group generations
  PropsValid     \* BOOLEAN set: whether every prop is "bootstrap.servers"

ASSUME LogLen \in Nat /\ MaxReaders \in Nat \ {0} /\ MaxRebalances \in Nat
ASSUME PropsValid \subseteq BOOLEAN /\ PropsValid # {}

NoReader == 0   \* smp.reader == nil, or a partition no reader owns

VARIABLES
  propsOk,     \* the factory's props are all supported
  reader,      \* [Providers -> reader id]: smp.reader, or NoReader
  created,     \* kafka.NewReader calls so far (reader ids 1..created)
  closed,      \* ids of readers whose Close was called
  generation,  \* rebalances of the group so far
  owner,       \* [Partitions -> reader id]: the assignment of the generation
  position,    \* [Partitions -> offset] next offset the owner fetches
  committed,   \* [Partitions -> offset] the group's committed offset
  received,    \* [Providers -> [Partitions -> offset]] one past the last
               \* message GetMessage returned to the provider's caller
  got,         \* [Providers -> [Partitions -> SUBSET offset]] every message
               \* GetMessage ever returned to the provider's caller
  actor,       \* the provider of the last call, or "group" for a rebalance
  lastCall,    \* the method of the last call
  commitReq,   \* the partitions of the last CommitOffsets
  result,      \* what the last call returned
  panicked     \* a call dereferenced a nil reader: the process is gone

vars == <<propsOk, reader, created, closed, generation, owner, position,
          committed, received, got, actor, lastCall, commitReq, result,
          panicked>>

Offsets == 0..LogLen
Methods == {"none", "Start", "GetMessage", "CommitOffsets", "Stop", "Close",
            "Rebalance"}

\* The readers in the group: created and not closed, leaked ones included.
Members == (1..created) \ closed

TypeOK ==
  /\ propsOk \in BOOLEAN
  /\ reader \in [Providers -> 0..MaxReaders] /\ created \in 0..MaxReaders
  /\ closed \subseteq 1..MaxReaders
  /\ \A pr \in Providers : reader[pr] \notin closed
  /\ generation \in 0..MaxRebalances
  /\ owner \in [Partitions -> 0..MaxReaders]
  /\ position \in [Partitions -> Offsets]
  /\ committed \in [Partitions -> Offsets]
  /\ received \in [Providers -> [Partitions -> Offsets]]
  /\ got \in [Providers -> [Partitions -> SUBSET (0..(LogLen - 1))]]
  /\ actor \in Providers \cup {"none", "group"}
  /\ lastCall \in Methods
  /\ commitReq \subseteq Partitions
  /\ result \in {"none", "msg", "nil", "error", "panic"}
  /\ panicked \in BOOLEAN

\* NewMessageProviderFactory + NewMessageProvider: every smp.reader is nil.
Init ==
  /\ propsOk \in PropsValid
  /\ reader = [pr \in Providers |-> NoReader]
  /\ created = 0
  /\ closed = {}
  /\ generation = 0
  /\ owner = [p \in Partitions |-> NoReader]
  /\ position = [p \in Partitions |-> 0]
  /\ committed = [p \in Partitions |-> 0]
  /\ received = [pr \in Providers |-> [p \in Partitions |-> 0]]
  /\ got = [pr \in Providers |-> [p \in Partitions |-> {}]]
  /\ actor = "none"
  /\ lastCall = "none"
  /\ commitReq = {}
  /\ result = "none"
  /\ panicked = FALSE

\* A call of provider pr that returned r.
Returns(pr, m, r) ==
  /\ actor' = pr
  /\ lastCall' = m
  /\ result' = r

\* No call runs after a panic.
Alive == ~panicked

(***************************************************************************)
(* Start: setProperty rejects an unsupported prop before any reader is     *)
(* made; otherwise a new Reader, which joins the group, replaces           *)
(* smp.reader, whatever was there.                                         *)
(***************************************************************************)
Start(pr) ==
  /\ Alive
  /\ IF ~propsOk
     THEN /\ Returns(pr, "Start", "error")
          /\ UNCHANGED <<reader, created>>
     ELSE /\ created < MaxReaders
          /\ created' = created + 1
          /\ reader' = [reader EXCEPT ![pr] = created + 1]
          /\ Returns(pr, "Start", "nil")
  /\ UNCHANGED <<propsOk, closed, generation, owner, position, committed,
                 received, got, commitReq, panicked>>

\* GetMessage with smp.reader == nil returns nil, nil.
GetMessageNoReader(pr) ==
  /\ Alive /\ reader[pr] = NoReader
  /\ Returns(pr, "GetMessage", "nil")
  /\ UNCHANGED <<propsOk, reader, created, closed, generation, owner,
                 position, committed, received, got, commitReq, panicked>>

\* FetchMessage returns the next message of a partition the reader owns.
GetMessageFetch(pr) ==
  /\ Alive /\ reader[pr] # NoReader
  /\ \E p \in Partitions :
       /\ owner[p] = reader[pr] /\ position[p] < LogLen
       /\ received' = [received EXCEPT ![pr][p] = position[p] + 1]
       /\ got' = [got EXCEPT ![pr][p] = @ \cup {position[p]}]
       /\ position' = [position EXCEPT ![p] = @ + 1]
  /\ Returns(pr, "GetMessage", "msg")
  /\ UNCHANGED <<propsOk, reader, created, closed, generation, owner,
                 committed, commitReq, panicked>>

\* FetchMessage hits pollTimeout (nil, nil) or fails (an error).
GetMessageNoMessage(pr) ==
  /\ Alive /\ reader[pr] # NoReader
  /\ \E r \in {"nil", "error"} : Returns(pr, "GetMessage", r)
  /\ UNCHANGED <<propsOk, reader, created, closed, generation, owner,
                 position, committed, received, got, commitReq, panicked>>

\* The offset kafka-go commits for a kafka.Message with Offset o.
KafkaCommitted(o) == o + 1

\* Mutant: each message is built with Offset: offset, without the - 1.
CommitAllNoDecrement(ps, pr) ==
  [p \in Partitions |->
     IF p \in ps THEN KafkaCommitted(received[pr][p]) ELSE committed[p]]

\* The committed offsets after a commit of ps, each message built with
\* Offset: offset - 1.
CommitAll(ps, pr) ==
  [p \in Partitions |->
     IF p \in ps THEN KafkaCommitted(received[pr][p] - 1) ELSE committed[p]]

(***************************************************************************)
(* CommitOffsets(offsets): the caller passes, per partition, one more than *)
(* the offset of the last message it processed.  With no reader it         *)
(* returns nil and commits nothing; otherwise each partition's message is  *)
(* built with Offset: offset - 1 and CommitMessages commits them all, or   *)
(* fails and commits none.  The broker checks the member's generation,     *)
(* not the assignment: a partition lost in a rebalance is still committed. *)
(***************************************************************************)
CommitOffsets(pr) ==
  /\ Alive
  /\ \E ps \in SUBSET Partitions :
       /\ ps # {} /\ \A p \in ps : received[pr][p] > 0
       /\ commitReq' = ps
       /\ IF reader[pr] = NoReader
          THEN Returns(pr, "CommitOffsets", "nil") /\ UNCHANGED committed
          ELSE \/ /\ committed' = CommitAll(ps, pr)
                  /\ Returns(pr, "CommitOffsets", "nil")
               \/ Returns(pr, "CommitOffsets", "error") /\ UNCHANGED committed
  /\ UNCHANGED <<propsOk, reader, created, closed, generation, owner,
                 position, received, got, panicked>>

\* Stop does nothing.
Stop(pr) ==
  /\ Alive
  /\ Returns(pr, "Stop", "nil")
  /\ UNCHANGED <<propsOk, reader, created, closed, generation, owner,
                 position, committed, received, got, commitReq, panicked>>

\* Mutant: smp.reader is not reset to nil after Close.
ResetReaderKept(pr) == reader

\* smp.reader = nil.
ResetReader(pr) == [reader EXCEPT ![pr] = NoReader]

(***************************************************************************)
(* Close: smp.reader.Close() is called without a nil check, then           *)
(* smp.reader = nil, whether or not Close failed.  On a nil reader the     *)
(* method call dereferences nil.  The closed reader leaves the group and   *)
(* its partitions are unowned until the next rebalance.                    *)
(***************************************************************************)
Close(pr) ==
  /\ Alive
  /\ IF reader[pr] = NoReader
     THEN /\ panicked' = TRUE /\ Returns(pr, "Close", "panic")
          /\ UNCHANGED <<reader, closed, owner>>
     ELSE /\ closed' = closed \cup {reader[pr]}
          /\ owner' = [p \in Partitions |->
                         IF owner[p] = reader[pr] THEN NoReader ELSE owner[p]]
          /\ reader' = ResetReader(pr)
          /\ \E r \in {"nil", "error"} : Returns(pr, "Close", r)
          /\ UNCHANGED panicked
  /\ UNCHANGED <<propsOk, created, generation, position, committed, received,
                 got, commitReq>>

(***************************************************************************)
(* The group coordinator starts a new generation (a member joined or left, *)
(* or a session timed out): every partition goes to some member, and each  *)
(* member's kafka-go reader restarts it at the committed offset.           *)
(***************************************************************************)
Rebalance ==
  /\ Alive /\ generation < MaxRebalances /\ Members # {}
  /\ generation' = generation + 1
  /\ owner' \in [Partitions -> Members]
  /\ position' = committed
  /\ actor' = "group" /\ lastCall' = "Rebalance" /\ result' = "none"
  /\ UNCHANGED <<propsOk, reader, created, closed, committed, received, got,
                 commitReq, panicked>>

Next ==
  \/ \E pr \in Providers :
       \/ Start(pr)
       \/ GetMessageNoReader(pr)
       \/ GetMessageFetch(pr)
       \/ GetMessageNoMessage(pr)
       \/ CommitOffsets(pr)
       \/ Stop(pr)
       \/ Close(pr)
  \/ Rebalance

Spec == Init /\ [][Next]_vars

-----------------------------------------------------------------------------
\* The messages of p some caller has been handed.
Delivered(p) == UNION {got[pr][p] : pr \in Providers}

(***************************************************************************)
(* At-least-once across the group: every message below a partition's      *)
(* committed offset was handed to some provider's caller, so no consumer,  *)
(* resuming at the committed offset after a restart or a rebalance, skips *)
(* a message.  This rests on CommitOffsets turning the caller's "one past  *)
(* the last" offset into the message offset kafka-go expects, across       *)
(* restarts, rebalances, failed commits and commits of lost partitions.    *)
(***************************************************************************)
NoMessageSkipped ==
  \A p \in Partitions : 0..(committed[p] - 1) \subseteq Delivered(p)

(***************************************************************************)
(* GetMessage and CommitOffsets treat a nil reader as a legitimate state   *)
(* (before Start, after Close); Close on that state must not crash the     *)
(* process either.                                                         *)
(***************************************************************************)
CloseNeverPanics == ~panicked

(***************************************************************************)
(* Every kafka.Reader a provider created is either its current one or has  *)
(* been closed: Start replacing smp.reader must not drop a live reader     *)
(* (its connections and group membership) on the floor.                    *)
(***************************************************************************)
NoLeakedReader ==
  \A r \in 1..created : r \in closed \/ \E pr \in Providers : reader[pr] = r

=============================================================================
