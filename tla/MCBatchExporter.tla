-------------------------- MODULE MCBatchExporter --------------------------
(* Instances of BatchExporter for TLC.                                     *)
EXTENDS BatchExporter

\* One snapshot is twice as large as the others.
MixedSize == [r \in Runs |-> IF r = CHOOSE x \in Runs : TRUE THEN 2 ELSE 1]
UnitSize == [r \in Runs |-> 1]
=============================================================================
