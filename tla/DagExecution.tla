---------------------------- MODULE DagExecution ----------------------------
(***************************************************************************)
(* Executing a workflow: dag_execution.execute and _run_task, with the     *)
(* state file of dag_state.py, resume of dag_callbacks.py and the ledger   *)
(* calls of idempotency.register.                                          *)
(*                                                                         *)
(* One executor process runs at a time; it can be killed at any step, its  *)
(* writes can fail half way, and it can be started again by any of its     *)
(* entry points.  Its worker threads go through register one step at a     *)
(* time: take the ledger lock, look the key up, run the task, append the   *)
(* result.  The lock is not assumed to exclude: FileLock shows that it     *)
(* does not always, and nothing below depends on it.                       *)
(***************************************************************************)
EXTENDS Integers, FiniteSets

CONSTANTS
  Tasks,         \* the task ids of the workflow
  Deps,          \* Deps[t]: the dependencies of t
  BatchSize,     \* the batch_size argument
  MaxRetries,    \* the max_retries argument
  MaxIterations, \* _max_loop_iterations(), 50 unless the environment says so
  TornAppends,   \* may a failed or killed append leave part of a line?
  MaxFaults,     \* bound of the model: crashes, failed writes and reads
  Entries        \* the entry points the operator uses: see Start

ASSUME DagAssumption ==
  /\ Deps = [t \in Tasks |-> Deps[t]]
  /\ BatchSize \in Nat \ {0}
  /\ MaxRetries \in Nat
  /\ MaxIterations \in Nat
  /\ TornAppends \in BOOLEAN
  /\ MaxFaults \in Nat
  /\ Entries \subseteq {"execute", "resume", "checkpoint"}

VARIABLES
  pc,        \* where the executor is
  mem,       \* the executor's state["tasks"]: the status of each task
  iteration, \* the loop counter of execute
  worker,    \* worker[t]: the step of register the thread of t is at
  attempts,  \* attempts[t]: the failed attempts of _run_task for t
  file,      \* the state file: [kind |-> "none" | "torn" | "ok", tasks]
  ckpt,      \* the last checkpoint: [kind |-> "none" | "ok", tasks]
  ledger,    \* the tasks whose key _read_ledger finds in the ledger file
  tail,      \* the ledger file: "clean", ends in a "torn" line, or "garbled"
  effects,   \* history: how often the runner completed t
  faults     \* history: crashes, failed writes and failed reads so far

vars ==
  <<pc, mem, iteration, worker, attempts, file, ckpt, ledger, tail, effects, faults>>

Statuses == {"pending", "ready", "running", "complete", "failed", "blocked"}

TaskStates == [Tasks -> Statuses]

Fresh == [t \in Tasks |-> "pending"]

Idle == [t \in Tasks |-> "none"]

\* Where a thread is while it may hold the ledger lock, and where it ends.
Critical == {"locked", "op", "blind", "append"}
Finished == {"ok", "failed", "blocked"}

Saved(tasks) == [kind |-> "ok", tasks |-> tasks]

Torn == [kind |-> "torn", tasks |-> Fresh]

Init ==
  /\ pc = "idle"
  /\ mem = Fresh
  /\ iteration = 0
  /\ worker = Idle
  /\ attempts = [t \in Tasks |-> 0]
  /\ file = [kind |-> "none", tasks |-> Fresh]
  /\ ckpt = [kind |-> "none", tasks |-> Fresh]
  /\ ledger = {}
  /\ tail = "clean"
  /\ effects = [t \in Tasks |-> 0]
  /\ faults = 0

-----------------------------------------------------------------------------
(* Pure parts: readiness and the reset of a resumed state.                 *)

\* Mutant of IsReady: a task that failed no longer holds back the others.
IsReadySettled(t, tasks) ==
  \A d \in Deps[t] : d \in Tasks /\ tasks[d] \in {"complete", "failed"}

IsReady(t, tasks) == \A d \in Deps[t] : d \in Tasks /\ tasks[d] = "complete"

MarkReady(tasks) ==
  [t \in Tasks |->
     IF tasks[t] = "pending" /\ IsReady(t, tasks) THEN "ready" ELSE tasks[t]]

ReadyTasks(tasks) == {t \in Tasks : tasks[t] = "ready"}

\* Any choice of at most BatchSize ready tasks: the dict order is arbitrary.
Batches(tasks) ==
  {b \in SUBSET ReadyTasks(tasks) :
     \/ Cardinality(b) = BatchSize
     \/ b = ReadyTasks(tasks) /\ Cardinality(b) <= BatchSize}

\* Mutants of ResetRunning: the interrupted batch is taken for finished, or
\* left as it is.
ResetRunningTrusting(tasks) ==
  [t \in Tasks |-> IF tasks[t] = "running" THEN "complete" ELSE tasks[t]]

ResetRunningNot(tasks) == tasks

ResetRunning(tasks) ==
  [t \in Tasks |-> IF tasks[t] = "running" THEN "pending" ELSE tasks[t]]

-----------------------------------------------------------------------------
(* The executor.                                                           *)

\* _save_state: a failing write is reported to a caller that never looks, and
\* leaves the old file or half of the new one.
Save(tasks) ==
  \/ file' = Saved(tasks) /\ UNCHANGED faults
  \/ /\ faults < MaxFaults
     /\ faults' = faults + 1
     /\ file' \in {file, Torn}

Begin(tasks) ==
  /\ pc' = "schedule"
  /\ mem' = tasks
  /\ iteration' = 0
  /\ UNCHANGED <<worker, attempts, file, ckpt, ledger, tail, effects, faults>>

\* execute(workflow): the saved state as it is, or a fresh one when the file
\* is missing, does not parse or cannot be read.
StartExecute ==
  /\ pc = "idle" /\ "execute" \in Entries
  /\ \/ file.kind = "ok" /\ Begin(file.tasks)
     \/ Begin(MarkReady(Fresh))

\* resume(run_id): only from a state file that parses.
StartResume ==
  /\ pc = "idle" /\ "resume" \in Entries
  /\ file.kind = "ok"
  /\ Begin(ResetRunning(file.tasks))

\* execute(workflow, checkpoint): from the dag_state of a saved checkpoint.
StartCheckpoint ==
  /\ pc = "idle" /\ "checkpoint" \in Entries
  /\ ckpt.kind = "ok"
  /\ Begin(ResetRunning(ckpt.tasks))

\* _save_checkpoint_for_state: whatever goes wrong is swallowed.
SaveCheckpoint(tasks) == ckpt' \in {ckpt, Saved(tasks)}

\* No ready task: save and return, with a checkpoint unless it is a deadlock.
Return ==
  LET tasks == MarkReady(mem) IN
  /\ pc = "schedule"
  /\ ReadyTasks(tasks) = {}
  /\ pc' = "idle"
  /\ mem' = tasks
  /\ Save(tasks)
  /\ IF \/ Tasks # {} /\ \A t \in Tasks : tasks[t] = "complete"
        \/ \E t \in Tasks : tasks[t] = "failed"
     THEN SaveCheckpoint(tasks) ELSE UNCHANGED ckpt
  /\ UNCHANGED <<iteration, worker, attempts, ledger, tail, effects>>

\* The hard limit on iterations: save and return with tasks still ready.
GiveUp ==
  LET tasks == MarkReady(mem) IN
  /\ pc = "schedule"
  /\ ReadyTasks(tasks) # {}
  /\ iteration >= MaxIterations
  /\ pc' = "idle"
  /\ mem' = tasks
  /\ Save(tasks)
  /\ UNCHANGED <<iteration, worker, attempts, ckpt, ledger, tail, effects>>

\* Mark the batch running, save, and submit one thread per task.
Launch ==
  LET tasks == MarkReady(mem) IN
  /\ pc = "schedule"
  /\ iteration < MaxIterations
  /\ \E batch \in Batches(tasks) :
       /\ batch # {}
       /\ mem' = [t \in Tasks |-> IF t \in batch THEN "running" ELSE tasks[t]]
       /\ worker' = [t \in Tasks |-> IF t \in batch THEN "acquire" ELSE "none"]
  /\ attempts' = [t \in Tasks |-> 0]
  /\ iteration' = iteration + 1
  /\ pc' = "batch"
  /\ Save(mem')
  /\ UNCHANGED <<ckpt, ledger, tail, effects>>

\* Mutant of StatusOf: a status no other part of the program knows.
StatusOfTypo(outcome) ==
  CASE outcome = "ok" -> "completed"
    [] outcome = "failed" -> "failed"
    [] outcome = "blocked" -> "blocked"

StatusOf(outcome) ==
  CASE outcome = "ok" -> "complete"
    [] outcome = "failed" -> "failed"
    [] outcome = "blocked" -> "blocked"

\* All futures are in: record their outcomes and save; a blocked task stops
\* the whole execution before the checkpoint.
EndBatch ==
  /\ pc = "batch"
  /\ \A t \in Tasks : worker[t] \in {"none"} \union Finished
  /\ mem' = [t \in Tasks |->
               IF worker[t] = "none" THEN mem[t] ELSE StatusOf(worker[t])]
  /\ Save(mem')
  /\ \/ /\ \E t \in Tasks : worker[t] = "blocked"
        /\ pc' = "idle"
        /\ UNCHANGED ckpt
     \/ /\ \A t \in Tasks : worker[t] # "blocked"
        /\ pc' = "schedule"
        /\ SaveCheckpoint(mem')
  /\ worker' = Idle
  /\ UNCHANGED <<iteration, attempts, ledger, tail, effects>>

-----------------------------------------------------------------------------
(* A worker thread: _run_task around idempotency.register.                 *)

Step(t, from, to) ==
  /\ worker[t] = from
  /\ worker' = [worker EXCEPT ![t] = to]
  /\ UNCHANGED <<pc, mem, iteration, file, ckpt>>

Acquire(t) ==
  /\ Step(t, "acquire", "locked")
  /\ UNCHANGED <<attempts, ledger, tail, effects, faults>>

\* The lock of the run is held longer than the timeouts: IdempotencyLockError,
\* which is not retried.
LockTimeout(t) ==
  /\ \E u \in Tasks \ {t} : worker[u] \in Critical
  /\ Step(t, "acquire", "blocked")
  /\ UNCHANGED <<attempts, ledger, tail, effects, faults>>

\* Mutant of Lookup: the ledger is not consulted.
LookupBlind(t) ==
  /\ Step(t, "locked", "op")
  /\ UNCHANGED <<attempts, ledger, tail, effects, faults>>

Lookup(t) ==
  /\ Step(t, "locked", IF t \in ledger THEN "ok" ELSE "op")
  /\ UNCHANGED <<attempts, ledger, tail, effects, faults>>

\* _read_ledger swallows the error of a file it cannot read, or decode, and
\* finds nothing: the task runs whatever the ledger says.
ReadFails(t) ==
  /\ Step(t, "locked", "blind")
  /\ \/ tail = "garbled" /\ UNCHANGED faults
     \/ faults < MaxFaults /\ faults' = faults + 1
  /\ UNCHANGED <<attempts, ledger, tail, effects>>

\* Mutant of RunOp: a finished operation is retried before it is recorded.
RunOpRetried(t) ==
  /\ \E from \in {"op", "blind"} :
       Step(t, from, IF attempts[t] < MaxRetries THEN "acquire" ELSE "append")
  /\ effects' = [effects EXCEPT ![t] = @ + 1]
  /\ attempts' = [attempts EXCEPT ![t] = @ + 1]
  /\ UNCHANGED <<ledger, tail, faults>>

RunOp(t) ==
  /\ \E from \in {"op", "blind"} : Step(t, from, "append")
  /\ effects' = [effects EXCEPT ![t] = @ + 1]
  /\ UNCHANGED <<attempts, ledger, tail, faults>>

\* Mutant of Retry: the failed attempt is not counted.
RetryForever(t, from) ==
  /\ Step(t, from, "acquire")
  /\ UNCHANGED <<attempts, effects>>

\* An exception leaves register; _run_task retries it while it may.
Retry(t, from) ==
  /\ Step(t, from, IF attempts[t] < MaxRetries THEN "acquire" ELSE "failed")
  /\ attempts' = [attempts EXCEPT ![t] = @ + 1]
  /\ UNCHANGED effects

OpRaises(t) ==
  /\ \E from \in {"op", "blind"} : Retry(t, from)
  /\ UNCHANGED <<ledger, tail, faults>>

\* Part of a line stays at the end of the ledger.  If it ends inside a character
\* the file does not decode any more, and _read_ledger finds nothing in it.
TornLine ==
  /\ TornAppends
  /\ \/ tail' = (IF tail = "clean" THEN "torn" ELSE tail) /\ UNCHANGED ledger
     \/ tail' = "garbled" /\ ledger' = {}

\* The ledger cannot be written: the result of the finished task is lost.
AppendFails(t) ==
  /\ faults < MaxFaults
  /\ faults' = faults + 1
  /\ TornLine \/ UNCHANGED <<ledger, tail>>
  /\ Retry(t, "append")

\* The entry goes to the end of the file: after part of a line it makes one
\* line with it, which _read_ledger skips.
Append(t) ==
  /\ Step(t, "append", "ok")
  /\ ledger' = IF tail = "clean" THEN ledger \union {t} ELSE ledger
  /\ tail' = IF tail = "torn" THEN "clean" ELSE tail
  /\ UNCHANGED <<attempts, effects, faults>>

Worker(t) ==
  \/ Acquire(t) \/ LockTimeout(t) \/ Lookup(t) \/ ReadFails(t)
  \/ RunOp(t) \/ OpRaises(t) \/ Append(t)

-----------------------------------------------------------------------------
(* The process dies, everything in memory with it.                         *)

Crash ==
  /\ pc # "idle"
  /\ faults < MaxFaults
  /\ faults' = faults + 1
  /\ pc' = "idle"
  /\ mem' = Fresh
  /\ iteration' = 0
  /\ worker' = Idle
  /\ attempts' = [t \in Tasks |-> 0]
  /\ \/ UNCHANGED <<ledger, tail>>
     \/ (\E t \in Tasks : worker[t] = "append") /\ TornLine
  /\ UNCHANGED <<file, ckpt, effects>>

Executor == Return \/ GiveUp \/ Launch \/ EndBatch

Start == StartExecute \/ StartResume \/ StartCheckpoint

Next ==
  \/ Start \/ Executor \/ Crash
  \/ \E t \in Tasks : Worker(t) \/ AppendFails(t)

Spec == Init /\ [][Next]_vars

\* The interpreter runs its threads; an operator who keeps starting the stopped
\* workflow uses resume again and again, not only the other entry points.
FairSpec ==
  /\ Spec
  /\ WF_vars(Executor)
  /\ \A t \in Tasks : WF_vars(Worker(t))
  /\ WF_vars(StartExecute)
  /\ SF_vars(StartResume)

-----------------------------------------------------------------------------
(* Properties.                                                             *)

Snapshot == [kind : {"none", "torn", "ok"}, tasks : TaskStates]

\* Type invariant.
TypeOK ==
  /\ pc \in {"idle", "schedule", "batch"}
  /\ mem \in TaskStates
  /\ iteration \in 0..MaxIterations
  /\ worker \in [Tasks -> {"none", "acquire"} \union Critical \union Finished]
  /\ attempts \in [Tasks -> 0..MaxRetries + 1]
  /\ file \in Snapshot
  /\ ckpt \in Snapshot
  /\ ledger \in SUBSET Tasks
  /\ tail \in {"clean", "torn", "garbled"}
  /\ effects \in [Tasks -> Nat]
  /\ faults \in 0..MaxFaults

\* No task runs before the results of all it depends on are durable: not after
\* a crash, from a stale checkpoint, or beside a task that failed or blocked.
DependenciesRespected ==
  \A t \in Tasks : effects[t] > 0 => Deps[t] \subseteq ledger

CompleteIn(tasks) == {t \in Tasks : tasks[t] = "complete"}

\* What any copy of the state calls complete is in the ledger, so dropping the
\* copy and replaying the workflow loses nothing (comment of dag_execution.py,
\* lines 111-112).
CompleteMeansRecorded ==
  CompleteIn(mem) \union CompleteIn(file.tasks) \union CompleteIn(ckpt.tasks)
    \subseteq ledger

\* A task whose result is in the ledger never runs again, whichever entry
\* point starts the next execution and whatever state file it finds, unless its
\* thread could not read the ledger.
RecordedRunsOnce ==
  [][\A t \in Tasks :
       t \in ledger /\ worker[t] # "blind" => effects'[t] = effects[t]]_vars

\* A task runs twice only if a crash or a failed write came between its end
\* and its record, or a read of the ledger failed: retries, blocked batches, early stops and restarts from old
\* checkpoints alone never repeat one.
DuplicatesNeedFaults == \A t \in Tasks : effects[t] <= 1 + faults

Abstract == INSTANCE TaskOrder WITH recorded <- ledger

\* Executing a DAG, crashes and restarts included, implements TaskOrder.
RecordsInOrder == Abstract!Spec

\* execute returns (or dies): the retries of each task and the iterations of
\* the loop are bounded, and no thread waits for ever.
Returns == pc # "idle" ~> pc = "idle"

\* A DAG whose runs are resumed gets all its results, unless a task fails or is
\* blocked for good: no crash strands a task in "running".
Completes ==
  <>(\/ ledger = Tasks
     \/ \E t \in Tasks : mem[t] \in {"failed", "blocked"})
=============================================================================
