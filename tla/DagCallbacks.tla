---------------------------- MODULE DagCallbacks ----------------------------
(***************************************************************************)
(* The calls by which agents drive a workflow themselves instead of        *)
(* execute: get_batch, get_status (dag_operations.py, dag_callbacks.py),   *)
(* complete_task, on_node_complete, fail_task, and the retries and         *)
(* branches of dag_failure.py, which take a state that the caller loaded.  *)
(*                                                                         *)
(* Every call loads the execution state of the workflow, changes it and    *)
(* saves all of it in place, without a lock: two steps here.  get_next     *)
(* does not save, so that it cannot be seen, nor can a call that ends as   *)
(* it loads no state or does not find its task there.                      *)
(***************************************************************************)
EXTENDS Naturals, FiniteSets, FiniteSetsExt

CONSTANTS
  Agents,    \* processes that make the calls
  Nodes,     \* the tasks of the workflow, and the names that branches may get
  Branches,  \* those names
  Needs,     \* Needs[t]: the dependencies of t, without a cycle; none for branches
  BatchSize, \* batch_size
  MaxTries,  \* MAX_RETRIES
  MaxUses,   \* bound of the model: calls begun
  Nil,       \* no state file, no call
  Torn,      \* a file cut off by a failed or killed write
  Mangled    \* a file cut off inside a character

VARIABLES
  dagFile,   \* the state file: the status and the retry_count of each task
  using,     \* using[p]: the call p is in, with the state as changed by it
  uses,      \* history: calls begun
  handed,    \* history: how often a task was handed out in a batch
  finished,  \* history: the tasks whose end was reported and saved
  crossed,   \* history: has a call begun during another?
  unsaved,   \* history: has a save failed, or its process died?
  overlooked \* history: has a state been taken for none, as its file could not be read?

callVars == <<dagFile, using, uses, handed, finished, crossed, unsaved, overlooked>>

\* The status of a task, "absent" for a branch that was not made.
Statuses == {"absent", "pending", "ready", "running", "complete", "failed",
             "retry_pending", "retrying", "human_review"}

Init ==
  /\ dagFile = Nil
  /\ using = [p \in Agents |-> Nil]
  /\ uses = 0
  /\ handed = [t \in Nodes |-> 0]
  /\ finished = {}
  /\ crossed = FALSE
  /\ unsaved = FALSE
  /\ overlooked = FALSE

\* Mutant of IsReady: a dependency that runs no more will do.
IsReadyEnded(t, tasks) ==
  \A d \in Needs[t] : tasks[d].status \in {"complete", "failed", "human_review"}

IsReady(t, tasks) == \A d \in Needs[t] : tasks[d].status = "complete"

MarkReady(tasks) ==
  [t \in Nodes |-> IF tasks[t].status = "pending" /\ IsReady(t, tasks)
                   THEN [tasks[t] EXCEPT !.status = "ready"] ELSE tasks[t]]

InitState ==
  MarkReady([t \in Nodes |->
    [status |-> IF t \in Branches THEN "absent" ELSE "pending", tries |-> 0]])

\* _load_state: no state if the file is missing or no JSON, and none if the read
\* fails.  A file that is no UTF-8 makes it raise, and with it every call.
Loads == dagFile # Mangled

Loaded(read) == IF ~read \/ dagFile \in {Nil, Torn} THEN Nil ELSE dagFile

Setting(tasks, ts, status) ==
  [t \in Nodes |-> IF t \in ts THEN [tasks[t] EXCEPT !.status = status] ELSE tasks[t]]

-----------------------------------------------------------------------------
(* The calls up to their save.                                             *)

Use(p, state, batch, ended) ==
  /\ using[p] = Nil
  /\ uses < MaxUses
  /\ uses' = uses + 1
  /\ using' = [using EXCEPT ![p] = [state |-> state, batch |-> batch, ended |-> ended]]
  /\ crossed' = (crossed \/ \E q \in Agents : using[q] # Nil)
  /\ UNCHANGED <<dagFile, handed, finished, unsaved>>

\* The state that get_batch and get_status go on from: a new one if there is none.
Current(read) == MarkReady(IF Loaded(read) = Nil THEN InitState ELSE Loaded(read))

Read(read) ==
  /\ Loads
  /\ overlooked' = (overlooked \/ Loaded(read) # Loaded(TRUE))

ReadyTasks(tasks) == {t \in Nodes : tasks[t].status = "ready"}

\* The first batch_size ready tasks, in an order that does not matter here.
GetBatch(p, read) ==
  /\ Read(read)
  /\ LET ready == ReadyTasks(Current(read))
         size == IF Cardinality(ready) < BatchSize THEN Cardinality(ready) ELSE BatchSize
     IN \E batch \in kSubset(size, ready) :
          Use(p, Setting(Current(read), batch, "running"), batch, {})

GetStatus(p, read) == Read(read) /\ Use(p, Current(read), {}, {})

\* The state of the other calls, which need one.
There == dagFile \notin {Nil, Torn, Mangled} /\ UNCHANGED overlooked

\* complete_task and on_node_complete, for a task that was handed out.
CompleteTask(p, t) ==
  /\ There
  /\ handed[t] > 0 /\ dagFile[t].status # "absent"
  /\ Use(p, MarkReady(Setting(dagFile, {t}, "complete")), {}, {t})

FailTask(p, t) ==
  /\ There
  /\ handed[t] > 0 /\ dagFile[t].status # "absent"
  /\ Use(p, Setting(dagFile, {t}, "failed"), {}, {})

\* _handle_failure: another try, or a human.
HandleFailure(p, t) ==
  /\ There
  /\ handed[t] > 0
  /\ LET task == dagFile[t] IN
     Use(p, [dagFile EXCEPT ![t] =
               IF task.tries < MaxTries
               THEN [status |-> "retry_pending", tries |-> task.tries + 1]
               ELSE [task EXCEPT !.status = "human_review"]], {}, {})

RetryTask(p, t) ==
  /\ There
  /\ dagFile[t].status = "retry_pending"
  /\ Use(p, Setting(dagFile, {t}, "retrying"), {}, {})

\* _branch_task: a task that depends on nothing, under a name that is free.
BranchTask(p, b) ==
  /\ There
  /\ dagFile[b].status = "absent"
  /\ Use(p, Setting(dagFile, {b}, "pending"), {}, {})

-----------------------------------------------------------------------------
(* The save and the answer.                                                *)

\* The answer comes whether or not the state could be saved.
Answer(p) ==
  /\ handed' = [t \in Nodes |-> IF t \in using[p].batch THEN handed[t] + 1 ELSE handed[t]]
  /\ using' = [using EXCEPT ![p] = Nil]

Save(p) ==
  /\ using[p] # Nil
  /\ dagFile' = using[p].state
  /\ finished' = finished \union using[p].ended
  /\ Answer(p)
  /\ UNCHANGED <<uses, crossed, unsaved, overlooked>>

SaveFails(p) ==
  /\ using[p] # Nil
  /\ dagFile' \in {dagFile, Torn, Mangled}
  /\ unsaved' = TRUE
  /\ Answer(p)
  /\ UNCHANGED <<uses, finished, crossed, overlooked>>

\* The process dies before, while or after it saves, without an answer.
Die(p) ==
  /\ using[p] # Nil
  /\ dagFile' \in {dagFile, Torn, Mangled, using[p].state}
  /\ finished' = IF dagFile' = using[p].state THEN finished \union using[p].ended ELSE finished
  /\ unsaved' = TRUE
  /\ using' = [using EXCEPT ![p] = Nil]
  /\ UNCHANGED <<uses, handed, crossed, overlooked>>

Next ==
  \E p \in Agents :
    \/ Save(p) \/ SaveFails(p) \/ Die(p)
    \/ \E read \in BOOLEAN : GetBatch(p, read) \/ GetStatus(p, read)
    \/ \E t \in Nodes :
         CompleteTask(p, t) \/ FailTask(p, t) \/ HandleFailure(p, t) \/ RetryTask(p, t)
    \/ \E b \in Branches : BranchTask(p, b)

Spec == Init /\ [][Next]_callVars

-----------------------------------------------------------------------------
(* Properties.                                                             *)

States == [Nodes -> [status : Statuses, tries : 0..MaxTries]]

\* Type invariant.
TypeOK ==
  /\ dagFile \in {Nil, Torn, Mangled} \/ dagFile \in States
  /\ \A p \in Agents : using[p] = Nil \/ using[p].state \in States
  /\ uses \in 0..MaxUses
  /\ handed \in [Nodes -> Nat]
  /\ finished \subseteq Nodes
  /\ {crossed, unsaved, overlooked} \subseteq BOOLEAN

\* However the calls overlap, fail or die, no task is handed out before the end
\* of each of its dependencies was reported and saved; and while none overlap or
\* fail, and no state is taken for none, no task is handed out twice: not one that
\* failed and is to be retried, and not a branch.
HandedOutInOrder ==
  \A t \in Nodes : handed[t] > 0 =>
    /\ Needs[t] \subseteq finished
    /\ ~crossed /\ ~unsaved /\ ~overlooked => handed[t] = 1
=============================================================================
