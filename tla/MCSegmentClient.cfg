CONSTANTS
  Providers = {p1, p2}
  Partitions <- MCPartitions
  LogLen = 2
  MaxReaders = 2
  MaxRebalances = 2
  PropsValid = {TRUE, FALSE}
INIT Init
NEXT Next
CHECK_DEADLOCK FALSE
INVARIANTS
  TypeOK
  NoMessageSkipped
SYMMETRY MCSymmetry
