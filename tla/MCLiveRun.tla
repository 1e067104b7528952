------------------------------ MODULE MCLiveRun ------------------------------
(* Three records of any tables, one of them perhaps of the cluster c1, with*)
(* a batch written when it has two; a queue that holds two, a writer that  *)
(* takes one at a time, one failing statement: enough for a record enqueued*)
(* on either side of every step of the shutdown.                           *)
EXTENDS LiveRun, TLC

CONSTANT c1

MCCluster == {c1}
MCThreshold == [t \in Table |-> 2]
=============================================================================
