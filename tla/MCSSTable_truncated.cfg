CONSTANTS
  VersionWidth = 1
  MaxUint32 = 63
  MaxEntries = 1
  Nil = Nil
  Panic = Panic
  NaN = NaN
  PosInf = PosInf
  Keys <- MCKeys
  Values <- MCValues
  LookupKeys <- MCLookupKeys
  Times <- MCTimes
  Formats <- MCFormats
  StoragePrefixes <- MCPrefixes
  Truncations <- MCTruncationsCut
INIT SpecInit
NEXT Next
CHECK_DEADLOCK FALSE
INVARIANT
  DeserializeFailsClosed
