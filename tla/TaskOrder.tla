----------------------------- MODULE TaskOrder -----------------------------
(***************************************************************************)
(* What executing a DAG of tasks promises, whatever crashes, restarts,     *)
(* retries and batches happen on the way: results are recorded one task at *)
(* a time, each once and for good, and never before those it depends on.   *)
(***************************************************************************)
CONSTANTS Tasks,  \* the task ids of one workflow
          Deps    \* Deps[t]: the tasks that t depends on

VARIABLE recorded \* the tasks whose result is durable

Init == recorded = {}

Record(t) ==
  /\ t \notin recorded
  /\ Deps[t] \subseteq recorded
  /\ recorded' = recorded \union {t}

Next == \E t \in Tasks : Record(t)

Spec == Init /\ [][Next]_recorded
=============================================================================
