CONSTANTS
  VersionWidth = 2
  MaxUint32 = 63
  MaxEntries = 2
  Nil = Nil
  Panic = Panic
  NaN = NaN
  PosInf = PosInf
  Keys <- MCKeysV2
  Values <- MCValuesV2
  LookupKeys <- MCKeysV2
  Times <- MCTimes
  Formats <- MCFormats
  StoragePrefixes <- MCPrefixes
  Truncations <- MCTruncations
INIT SpecInit
NEXT Next
CHECK_DEADLOCK FALSE
INVARIANT
  FindOffsetIsKeyLowerBound
