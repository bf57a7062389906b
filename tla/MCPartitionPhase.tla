-------------------------- MODULE MCPartitionPhase --------------------------
(* Model values for the runs of PartitionPhase. *)
EXTENDS PartitionPhase

(* Rows for both partitions, for one of them, and more than fit. *)
MCResults == {<<2, 1>>, <<0, 1>>, <<3, 0>>}
ByPartition(r) == [p \in Parts |-> r[p + 1]]
TwoPartitions == {ByPartition(r) : r \in MCResults}
=============================================================================
