CONSTANTS
  Providers = {p1}
  Partitions <- MCPartitions
  LogLen = 2
  MaxReaders = 2
  MaxRebalances = 1
  PropsValid = {TRUE, FALSE}
INIT Init
NEXT Next
CHECK_DEADLOCK FALSE
INVARIANT
  CloseNeverPanics
