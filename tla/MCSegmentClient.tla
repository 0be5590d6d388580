--------------------------- MODULE MCSegmentClient ---------------------------
(***************************************************************************)
(* Model-checking instance of SegmentClient: two partitions of two         *)
(* messages each, one or two providers and a bounded number of reader      *)
(* lifetimes and group generations: enough for a consume, commit, Close,   *)
(* Start cycle to redeliver, and for a rebalance to move a partition with  *)
(* uncommitted messages from one provider to the other.                    *)
(***************************************************************************)
EXTENDS SegmentClient, TLC

MCPartitions == {0, 1}

\* Providers are interchangeable: they run the same code against one group.
MCSymmetry == Permutations(Providers)
=============================================================================
