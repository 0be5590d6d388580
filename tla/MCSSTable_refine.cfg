CONSTANTS
  VersionWidth = 1
  MaxUint32 = 63
  MaxEntries = 3
  Nil = Nil
  Panic = Panic
  NaN = NaN
  PosInf = PosInf
  Keys <- MCKeysNoZero
  Values <- MCValues
  LookupKeys <- MCLookupKeysNoZero
  Times <- MCTimes
  Formats <- MCFormats
  StoragePrefixes <- MCPrefixes
  Truncations <- MCTruncations
SPECIFICATION FairSpec
CHECK_DEADLOCK FALSE
PROPERTY
  ImplementsAbstract
