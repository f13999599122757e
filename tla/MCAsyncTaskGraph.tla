-------------------------- MODULE MCAsyncTaskGraph --------------------------
(* The asyncio task graph for TLC: two tasks that need a third, and a task *)
(* of its own.                                                             *)
EXTENDS AsyncTaskGraph

CONSTANTS a, b, c, d

MCTasks == {a, b, c, d}

MCDeps == [t \in MCTasks |-> IF t \in {b, c} THEN {a} ELSE {}]
=============================================================================
