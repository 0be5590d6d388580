--------------------------- MODULE SSTableAbstract ---------------------------
(***************************************************************************)
(* What an SSTable promises its users (spec sections 4 and 8), with no     *)
(* bytes: a build consumes the caller's entries at once and either yields  *)
(* a table, which it may only do for strictly ascending keys, or fails.    *)
(* A lookup on a built table returns the first entry whose key is not      *)
(* below the lookup key, or NotFound.                                      *)
(***************************************************************************)
EXTENDS Naturals, Sequences, SequencesExt, FiniteSetsExt

CONSTANTS
  Keys, Values,   \* the keys and values entries are drawn from
  MaxEntries,     \* bound on the number of entries
  LookupKeys,     \* keys a lookup may ask for
  Less(_, _),     \* the strict order on keys
  Nil,            \* no lookup yet
  NotFound        \* a lookup found no key >= the lookup key

VARIABLES
  entries,       \* the caller's entries, in iteration order
  status,        \* "open", "built" or "failed"
  lookupKey,     \* the key of the last lookup, or Nil
  lookupResult   \* the entry it returned, NotFound, or Nil

avars == <<entries, status, lookupKey, lookupResult>>

Ascending(s) == \A i \in 1..(Len(s) - 1) : Less(s[i].key, s[i + 1].key)

\* The first entry whose key is not below k.
LowerBound(k) ==
  LET hits == {i \in DOMAIN entries : ~Less(entries[i].key, k)}
  IN IF hits = {} THEN NotFound ELSE entries[Min(hits)]

Init ==
  /\ entries \in SeqOf([key : Keys, value : Values], MaxEntries)
  /\ status = "open"
  /\ lookupKey = Nil
  /\ lookupResult = Nil

\* The build ends: a table only from ascending keys; failure is always
\* possible (the source may fail, the table may be too big).
Build ==
  /\ status = "open"
  /\ status' \in IF Ascending(entries) THEN {"built", "failed"} ELSE {"failed"}
  /\ UNCHANGED <<entries, lookupKey, lookupResult>>

Get ==
  /\ status = "built"
  /\ \E k \in LookupKeys :
       /\ lookupKey' = k
       /\ lookupResult' = LowerBound(k)
  /\ UNCHANGED <<entries, status>>

Next == Build \/ Get

\* A build that has started runs to its end.
Spec == Init /\ [][Next]_avars /\ WF_avars(Build)
=============================================================================
