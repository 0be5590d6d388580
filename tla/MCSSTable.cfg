CONSTANTS
  VersionWidth = 1
  MaxUint32 = 63
  MaxEntries = 3
  Nil = Nil
  Panic = Panic
  NaN = NaN
  PosInf = PosInf
  Keys <- MCKeys
  Values <- MCValues
  LookupKeys <- MCLookupKeys
  Times <- MCTimes
  Formats <- MCFormats
  StoragePrefixes <- MCPrefixes
  Truncations <- MCTruncations
INIT SpecInit
NEXT Next
CHECK_DEADLOCK FALSE
INVARIANTS
  TypeOK
  IndexAddressesEntries
  OnlySortedInputBuilds
  SummaryExact
  RoundTrip
  FindOffsetIsPaddedLowerBound
