------------------------- MODULE MCPartitionWorker -------------------------
(* Instances of PartitionWorker for TLC. *)
EXTENDS PartitionWorker, TLC

CONSTANTS t1, t2

NoBatch == [batch |-> FALSE, rows |-> {t1}]
NoRows  == [batch |-> TRUE, rows |-> {}]
OneTable == [batch |-> TRUE, rows |-> {t1}]
BothTables == [batch |-> TRUE, rows |-> {t1, t2}]

\* The event router writes several tables, the balance router one.
TableKinds   == {NoBatch, BothTables}
BalanceKinds == {NoRows, OneTable}
RowKinds     == {NoBatch, OneTable}

\* A group that has never committed.
NoCommit == NoOffset
=============================================================================
