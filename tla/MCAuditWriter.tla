---------------------------- MODULE MCAuditWriter ----------------------------
(* A queue of two, batches of two, one cluster: a batch can fail in the    *)
(* middle at a threshold flush, a flush can be repeated by a reader.       *)
EXTENDS AuditWriter, TLC

CONSTANT c1

MCCluster == {c1}
MCThreshold == [t \in Table |-> IF t = "decision" THEN 1 ELSE 2]
=============================================================================
