--------------------------- MODULE MCDagExecution ---------------------------
(* A workflow of four tasks for TLC: two roots, a chain and a join, so that *)
(* three batches are needed and a batch of two can fail in halves.         *)
EXTENDS DagExecution

MCTasks == {"a", "b", "c", "d"}

MCDeps == [a |-> {}, b |-> {}, c |-> {"a"}, d |-> {"b", "c"}]
=============================================================================
