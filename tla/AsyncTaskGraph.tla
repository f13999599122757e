--------------------------- MODULE AsyncTaskGraph ---------------------------
(***************************************************************************)
(* The asyncio task graph (runtime/async_task_graph.py): execute,          *)
(* execute_streaming with StreamingExecutor's checkpoints, _run_task with  *)
(* its retries and runner threads, cancellation, get_state and from_state. *)
(*                                                                         *)
(* One event loop runs the scheduling loop and a coroutine per launched    *)
(* task; in streaming the loop itself advances the coroutines (they are    *)
(* generators), one yield at a time.  wait_for gives up on a runner thread *)
(* after 300 s, the thread goes on.  Which of the ready tasks come first   *)
(* (the order of a dict) is left open.                                     *)
(***************************************************************************)
EXTENDS Naturals, FiniteSets

CONSTANTS
  Tasks,
  Deps,            \* Deps[t]: task.dependencies
  MaxParallel,     \* max_parallel of the graph as it was built
  DefaultParallel, \* the default of that parameter, which from_state uses
  MaxRetries,      \* task.max_retries
  Interval,        \* checkpoint_interval of StreamingExecutor
  MaxRestores,     \* bound of the model: graphs restored from a checkpoint
  Nil              \* no checkpoint, no generator

ASSUME GraphAssumption ==
  /\ IsFiniteSet(Tasks)
  /\ Deps \in [Tasks -> SUBSET Tasks]
  /\ MaxParallel \in Nat \ {0}
  /\ DefaultParallel \in Nat \ {0}
  /\ MaxRetries \in Nat
  /\ Interval \in Nat \ {0}
  /\ MaxRestores \in Nat
  /\ Nil \notin Tasks

VARIABLES
  mode,       \* "execute" or "streaming"
  main,       \* the scheduling loop: it polls, or how it ended
  limit,      \* self._max_parallel
  status,     \* task.status
  stage,      \* where the coroutine of a task is
  attempt,    \* attempt of that coroutine
  running,    \* self._running_tasks
  turn,       \* streaming: the generators to advance in this round
  current,    \* streaming: the generator being advanced
  since,      \* _completed_since_checkpoint
  saved,      \* the last checkpoint, a status of each task
  cancelled,  \* the cancel token
  threads,    \* runner threads of a task that have not ended
  timeouts,   \* history: has a thread been given up on in this process?
  restores    \* history: graphs restored

loopVars == <<main, limit, turn, current>>
taskVars == <<status, stage, attempt, running>>
saveVars == <<since, saved>>
vars == <<mode, loopVars, taskVars, saveVars, cancelled, threads, timeouts, restores>>

Settled == {"completed", "failed", "blocked"}

Statuses == {"pending", "ready", "running"} \union Settled

Init ==
  /\ mode \in {"execute", "streaming"}
  /\ main = "polls"
  /\ limit = MaxParallel
  /\ status = [t \in Tasks |-> "pending"]
  /\ stage = [t \in Tasks |-> "none"]
  /\ attempt = [t \in Tasks |-> 0]
  /\ running = {}
  /\ turn = {}
  /\ current = Nil
  /\ since = 0
  /\ saved = Nil
  /\ cancelled = FALSE
  /\ threads = [t \in Tasks |-> 0]
  /\ timeouts = FALSE
  /\ restores = 0

At(s) == {t \in Tasks : stage[t] = s}

\* The coroutines, and in streaming running_generators.
Live == Tasks \ At("none")

-----------------------------------------------------------------------------
(* The scheduling loops.                                                   *)

\* Mutant of Ready: a settled dependency is enough.
ReadySettled ==
  {t \in Tasks : status[t] = "pending" /\ \A d \in Deps[t] : status[d] \in Settled}

\* What _get_ready_tasks returns; it makes all of them READY.
Ready ==
  {t \in Tasks : status[t] = "pending" /\ \A d \in Deps[t] : status[d] = "completed"}

MarkReady == status' = [t \in Tasks |-> IF t \in Ready THEN "ready" ELSE status[t]]

\* Mutant of Launched: tasks of the last rounds are not counted.
LaunchedPerRound(n, L) ==
  Cardinality(L) = IF Cardinality(Ready) <= limit THEN Cardinality(Ready) ELSE limit

\* As many of the ready tasks as there is room for beside n others.
Launched(n, L) ==
  LET room == IF n < limit THEN limit - n ELSE 0 IN
  Cardinality(L) = IF Cardinality(Ready) <= room THEN Cardinality(Ready) ELSE room

Cancelled ==
  /\ main = "polls"
  /\ cancelled
  /\ main' = "cancelled"

\* One round of execute.  Between two rounds it sleeps, and the coroutines it
\* has created begin.
Poll ==
  /\ mode = "execute"
  /\ main = "polls"
  /\ At("created") = {}
  /\ ~cancelled
  /\ Ready # {}
  /\ MarkReady
  /\ \E L \in SUBSET Ready :
       /\ Launched(Cardinality(running), L)
       /\ stage' = [t \in Tasks |-> IF t \in L THEN "created" ELSE stage[t]]
  /\ UNCHANGED <<mode, loopVars, attempt, running, saveVars, cancelled, threads, timeouts, restores>>

\* Mutant of PollDone: tasks in their pauses are forgotten.
PollDoneEarly ==
  /\ mode = "execute"
  /\ main = "polls"
  /\ At("created") = {}
  /\ ~cancelled
  /\ Ready = {}
  /\ \A t \in Tasks : status[t] \notin {"pending", "ready"}
  /\ At("attempt") = {}
  /\ main' = "done"
  /\ UNCHANGED <<mode, limit, turn, current, taskVars, saveVars, cancelled, threads, timeouts, restores>>

\* "All tasks completed".
PollDone ==
  /\ mode = "execute"
  /\ main = "polls"
  /\ At("created") = {}
  /\ ~cancelled
  /\ Ready = {}
  /\ \A t \in Tasks : status[t] \notin {"pending", "ready"}
  /\ running = {}
  /\ main' = "done"
  /\ UNCHANGED <<mode, limit, turn, current, taskVars, saveVars, cancelled, threads, timeouts, restores>>

PollCancelled ==
  /\ mode = "execute"
  /\ Cancelled
  /\ At("created") = {}
  /\ UNCHANGED <<mode, limit, turn, current, taskVars, saveVars, cancelled, threads, timeouts, restores>>

\* The loop of execute_streaming is between two rounds, and StreamingExecutor
\* has no checkpoint to save.
BetweenRounds ==
  /\ mode = "streaming"
  /\ main = "polls"
  /\ turn = {}
  /\ current = Nil
  /\ since < Interval

\* New generators, and the round over all of them.
StreamPoll ==
  /\ BetweenRounds
  /\ ~cancelled
  /\ Ready # {} \/ Live # {}
  /\ MarkReady
  /\ \E L \in SUBSET Ready :
       /\ Launched(Cardinality(Live), L)
       /\ stage' = [t \in Tasks |-> IF t \in L THEN "created" ELSE stage[t]]
       /\ turn' = Live \union L
  /\ UNCHANGED <<mode, main, limit, current, attempt, running, saveVars, cancelled, threads, timeouts, restores>>

StreamDone ==
  /\ BetweenRounds
  /\ ~cancelled
  /\ Ready = {}
  /\ Live = {}
  /\ \A t \in Tasks : status[t] \in Settled
  /\ main' = "done"
  /\ UNCHANGED <<mode, limit, turn, current, taskVars, saveVars, cancelled, threads, timeouts, restores>>

\* The generators are dropped where they are.
StreamCancelled ==
  /\ BetweenRounds
  /\ Cancelled
  /\ stage' = [t \in Tasks |-> "none"]
  /\ UNCHANGED <<mode, limit, turn, current, status, attempt, running, saveVars, cancelled, threads, timeouts, restores>>

\* gen.__anext__()
Advance(t) ==
  /\ mode = "streaming"
  /\ current = Nil
  /\ since < Interval
  /\ t \in turn
  /\ turn' = turn \ {t}
  /\ current' = t
  /\ UNCHANGED <<mode, main, limit, taskVars, saveVars, cancelled, threads, timeouts, restores>>

-----------------------------------------------------------------------------
(* _run_task.                                                              *)

\* The coroutine of t can go on: in streaming its generator was asked to.
Resumed(t) == mode = "streaming" => current = t

\* A yield: in streaming it gives the loop the turn, and a task that ended is
\* counted for the next checkpoint.
Yield(n) ==
  /\ current' = Nil
  /\ since' = IF mode = "streaming" THEN since + n ELSE since

\* The task leaves the graph with status s.
End(t, s) ==
  /\ status' = [status EXCEPT ![t] = s]
  /\ stage' = [stage EXCEPT ![t] = "none"]
  /\ running' = running \ {t}
  /\ Yield(1)

Begin(t) ==
  /\ stage[t] = "created"
  /\ Resumed(t)
  /\ ~cancelled
  /\ status' = [status EXCEPT ![t] = "running"]
  /\ stage' = [stage EXCEPT ![t] = "begun"]
  /\ attempt' = [attempt EXCEPT ![t] = 0]
  /\ running' = running \union {t}
  /\ Yield(0)
  /\ UNCHANGED <<mode, main, limit, turn, saved, cancelled, threads, timeouts, restores>>

\* The token is set before the first attempt, or before another one; or the coroutine is
\* cancelled in an attempt, whose thread goes on.
Block(t) ==
  /\ Resumed(t)
  /\ \/ stage[t] \in {"created", "begun", "backoff"} /\ cancelled /\ UNCHANGED timeouts
     \/ stage[t] = "attempt" /\ timeouts' = TRUE
  /\ End(t, "blocked")
  /\ UNCHANGED <<mode, main, limit, turn, attempt, saved, cancelled, threads, restores>>

\* to_thread: the runner starts.
Try(t) ==
  /\ stage[t] \in {"begun", "backoff"}
  /\ Resumed(t)
  /\ ~cancelled
  /\ stage' = [stage EXCEPT ![t] = "attempt"]
  /\ threads' = [threads EXCEPT ![t] = @ + 1]
  /\ UNCHANGED <<mode, loopVars, status, attempt, running, saveVars, cancelled, timeouts, restores>>

\* The runner of this attempt returns.
Complete(t) ==
  /\ stage[t] = "attempt"
  /\ End(t, "completed")
  /\ threads' = [threads EXCEPT ![t] = @ - 1]
  /\ UNCHANGED <<mode, main, limit, turn, attempt, saved, cancelled, timeouts, restores>>

\* Mutant of Retry: the last attempt is followed by another.
RetryOneMore(t) ==
  IF attempt[t] <= MaxRetries
  THEN /\ stage' = [stage EXCEPT ![t] = "backoff"]
       /\ attempt' = [attempt EXCEPT ![t] = @ + 1]
       /\ Yield(0)
       /\ UNCHANGED <<status, running>>
  ELSE End(t, "failed") /\ UNCHANGED attempt

\* Mutant of Retry: the attempts are not counted.
RetryForever(t) ==
  /\ stage' = [stage EXCEPT ![t] = "backoff"]
  /\ Yield(0)
  /\ UNCHANGED <<status, attempt, running>>

\* After an attempt that failed: the next one after a pause, or none.
Retry(t) ==
  IF attempt[t] < MaxRetries
  THEN /\ stage' = [stage EXCEPT ![t] = "backoff"]
       /\ attempt' = [attempt EXCEPT ![t] = @ + 1]
       /\ Yield(0)
       /\ UNCHANGED <<status, running>>
  ELSE End(t, "failed") /\ UNCHANGED attempt

\* The runner raises.
Raise(t) ==
  /\ stage[t] = "attempt"
  /\ Retry(t)
  /\ threads' = [threads EXCEPT ![t] = @ - 1]
  /\ UNCHANGED <<mode, main, limit, turn, saved, cancelled, timeouts, restores>>

\* 300 s are over.
TimeOut(t) ==
  /\ stage[t] = "attempt"
  /\ Retry(t)
  /\ timeouts' = TRUE
  /\ UNCHANGED <<mode, main, limit, turn, saved, cancelled, threads, restores>>

\* A thread nobody waits for ends.
LateEnd(t) ==
  /\ threads[t] > IF stage[t] = "attempt" THEN 1 ELSE 0
  /\ threads' = [threads EXCEPT ![t] = @ - 1]
  /\ UNCHANGED <<mode, loopVars, taskVars, saveVars, cancelled, timeouts, restores>>

-----------------------------------------------------------------------------
(* Cancellation, checkpoints and restarts.                                 *)

Cancel ==
  /\ main = "polls"
  /\ ~cancelled
  /\ cancelled' = TRUE
  /\ UNCHANGED <<mode, loopVars, taskVars, saveVars, threads, timeouts, restores>>

\* get_state, as far as it decides what is done next.
SavedState == status

\* StreamingExecutor: after Interval tasks that ended, and at the end.
SaveCheckpoint ==
  /\ mode = "streaming"
  /\ since >= Interval \/ (main # "polls" /\ saved # SavedState)
  /\ saved' = SavedState
  /\ since' = 0
  /\ UNCHANGED <<mode, loopVars, taskVars, cancelled, threads, timeouts, restores>>

\* Another process continues from the checkpoint: from_state restores the status
\* of each task, but neither max_parallel nor the token.
Restore ==
  /\ saved # Nil
  /\ restores < MaxRestores
  /\ restores' = restores + 1
  /\ mode' \in {"execute", "streaming"}
  /\ main' = "polls"
  /\ limit' = DefaultParallel
  /\ status' = saved
  /\ stage' = [t \in Tasks |-> "none"]
  /\ attempt' = [t \in Tasks |-> 0]
  /\ running' = {}
  /\ turn' = {}
  /\ current' = Nil
  /\ since' = 0
  /\ cancelled' = FALSE
  /\ threads' = [t \in Tasks |-> 0]
  /\ timeouts' = FALSE
  /\ UNCHANGED saved

Loop ==
  \/ Poll \/ PollDone \/ PollCancelled
  \/ StreamPoll \/ StreamDone \/ StreamCancelled
  \/ SaveCheckpoint

RunTask(t) ==
  \/ Begin(t) \/ Block(t) \/ Try(t) \/ Complete(t) \/ Raise(t) \/ TimeOut(t)

Next ==
  \/ Loop
  \/ \E t \in Tasks : Advance(t) \/ RunTask(t) \/ LateEnd(t)
  \/ Cancel
  \/ Restore

Spec == Init /\ [][Next]_vars

\* The event loop is fair, and wait_for ends every attempt: the runners need
\* not end, and nobody need cancel or restart.
Fairness ==
  /\ WF_vars(Loop)
  /\ \A t \in Tasks : WF_vars(Advance(t)) /\ WF_vars(RunTask(t))

FairSpec == Spec /\ Fairness

-----------------------------------------------------------------------------
(* Properties.                                                             *)

\* Type invariant.
TypeOK ==
  /\ mode \in {"execute", "streaming"}
  /\ main \in {"polls", "done", "cancelled"}
  /\ limit \in {MaxParallel, DefaultParallel}
  /\ status \in [Tasks -> Statuses]
  /\ stage \in [Tasks -> {"none", "created", "begun", "attempt", "backoff"}]
  /\ attempt \in [Tasks -> 0..MaxRetries]
  /\ running \subseteq Tasks
  /\ turn \subseteq Tasks
  /\ current \in Tasks \union {Nil}
  /\ since \in Nat
  /\ saved \in [Tasks -> Statuses] \union {Nil}
  /\ cancelled \in BOOLEAN
  /\ timeouts \in BOOLEAN
  /\ threads \in [Tasks -> Nat]
  /\ restores \in 0..MaxRestores

\* A task is only made ready, run or settled when all it depends on completed:
\* also across failed and cancelled dependencies, and in a graph restored from
\* a checkpoint that was taken while others ran.
DependenciesRespected ==
  \A t \in Tasks : status[t] # "pending" => \A d \in Deps[t] : status[d] = "completed"

\* No more coroutines than max_parallel at any time, and as long as no runner
\* was given up on, one thread for each that is in an attempt: no task has two
\* runs at once.  In streaming it is one attempt altogether, as the generators
\* take turns.
RunnersBounded ==
  /\ Cardinality(Live) <= limit
  /\ ~timeouts => \A t \in Tasks : threads[t] = IF stage[t] = "attempt" THEN 1 ELSE 0
  /\ mode = "streaming" => Cardinality(At("attempt")) <= 1

\* Who can still be scheduled neither by the loop nor by a coroutine: a READY
\* task that was not launched in its round, one that depends on a task that did
\* not complete, one restored as RUNNING, and what depends on them.
Stranded(t) ==
  \/ status[t] \in {"ready", "running"} /\ stage[t] = "none"
  \/ status[t] = "pending" /\ \E d \in Deps[t] : status[d] \in {"failed", "blocked"}

\* "All tasks completed" (lines 235 and 293) is only said when every task has
\* settled, or was RUNNING in the checkpoint the graph was restored from.
DoneMeansSettled ==
  main = "done" => \A t \in Tasks : status[t] \in Settled \/ (restores > 0 /\ status[t] = "running")

\* The loop ends, whatever fails, hangs or is cancelled, and in a restored graph
\* again, unless a task is stranded.
EndsUnlessStranded == main = "polls" ~> (main # "polls" \/ \E t \in Tasks : Stranded(t))

\* async_task_graph.py:249 "Launch ready tasks (up to semaphore)": beyond that
\* number they wait, and are launched later unless the execution is cancelled.
ReadyTasksRun == \A t \in Tasks : status[t] = "ready" ~> (status[t] # "ready" \/ cancelled)
=============================================================================
