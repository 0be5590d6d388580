--------------------------- MODULE MCLoadGenerator ---------------------------
(***************************************************************************)
(* Model-checking instance of LoadGenerator: three partitions, offsets     *)
(* 0..6 (past both slice lengths and past every uniqueIDsPerPartition), a *)
(* zero, one and two unique ids per partition, three calls.               *)
(***************************************************************************)
EXTENDS LoadGenerator

MCPartitionIDs == {0, 1, 2}
MCOffsetArgs == 0..6
=============================================================================
