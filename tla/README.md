# TLA+ models of the AHD loop harness

This directory models the concurrent and failure-prone core of the harness: the
plan phase, the execution of a workflow, the task graph of the new runtime, and
the files, stores and locks they stand on. TLC checks every module on a small
instance, and TLAPS proves the main properties for every value of the constants.

## The system

The harness drives coding agents through *Plan → Approve → Execute*. Everything
it knows is in small JSON or JSONL files under the repository. Many short-lived
processes (hooks, CLIs, agents) and the threads of one executor read and write
those files. There is no server: coordination means lock files, atomic renames
and append-only ledgers, and any process can die at any point. Beside these, a
newer layer runs inside one asyncio process: an event store over SQLite, its
adapters to the old files, and an asynchronous task graph.

| Component | State it keeps | Operations | Interacts with | What is hard | Correct when |
|---|---|---|---|---|---|
| plan state machine (`plan_fsm/state_machine.py`) | one state dictionary: phase, four round counters, stall count, approvals | `next_action`, `process_step` and its 12 handlers | CLI, approval gate | five nested loops over shared counters, long sequences of answers | it ends; what is approved and written passed every gate |
| plan CLI (`plan_fsm/cli.py`, `storage.py`) | the plan's JSON file | `--init`, `--step`, `--status` | state machine | concurrent steps, torn writes, a crash between two saves | a plan only moves forward and can be continued |
| DAG execution (`dag_execution.py`, `dag_state.py`, `dag_analysis.py`) | status of each task in memory and in a JSON file, checkpoints | `execute`, `resume`, `_run_task` | ledger, checkpoints, state log | threads of a batch, kills, retries, restarts from old state | tasks run after what they depend on; no result is lost or repeated |
| DAG callbacks (`dag_callbacks.py`, `dag_operations.py`, `dag_failure.py`) | the same JSON file | `get_batch`, `complete_task`, `fail_task`, retry states | agents that drive a workflow themselves | unlocked load-change-save | tasks are handed out after what they depend on, and once |
| idempotency ledger (`idempotency.py`) | a JSONL file per run | `register`, `lookup` | lock file, Redis | crash between effect and record, torn lines, two kinds of lock | a recorded task never runs again; one runs at a time |
| lock (`ahd_session_lock.py`) | a lock file | `_acquire_lock`, `_release_lock` | filelock library | locks belong to inodes, names are unlinked | one holder at a time, none left behind |
| session state (`ahd_session_state.py`) | JSON files per session | locked read, write, update | lock, hooks | overlapping updates, shared temporary name | no update is lost |
| durable session (`ahd_session_durable.py`) | checkpoint, receipts, LLM cache | advance, record, emit, cache | files | temporary files of failed saves, cut lines | the checkpoint is what was recorded; a receipt given out is found |
| async task graph (`runtime/async_task_graph.py`) | task statuses in one event loop, checkpoints | `execute`, `execute_streaming`, cancel, `from_state` | runner threads | threads that were given up on, restarts, cancellation | order, bounded parallelism, it ends |
| event store (`state_machine_v2/event_store.py`) | events, hash chain, pointer, views | `append`, `replay`, counters | state store | state read before an await and used after it, restarts | one chain, nothing acknowledged is lost |
| state store (`state_store/file_backend.py`) | SQLite rows and a log | get, set with versions, transactions, watch | event store | compare, write and log apart | a FIRST_WRITE replaces what it names; the watcher sees every change |
| migration adapters (`adapters/`) | a view and a legacy file per record | set, update, get | event store, files | the second of two writes fails | the stores agree, calls return |
| event bus, blackboard (`event_bus.py`, `blackboard_core.py`) | JSONL topics, JSON regions | publish, subscribe; read, write with a conflict rule | lock | writes in place, torn lines, timeouts | messages come once and in order; the rule of the region holds |
| state log, loop registry (`loop_memory_*.py`) | a hash-chained JSONL file; session files and `loop_state.md` | append, verify; regenerate | session files | unlocked appends; a chain of separate updates | a log that verifies is complete; decisions about sessions stay |
| approval gate (`approval_gate*.py`) | a state file and an archive per document | approve, reject, request changes, status | plan enforcement | the document changes between hash, archive and save | an approval is of the document it was given for |
| worktrees (`worktree.py`) | a list of worktrees beside git's own | create, merge, remove, clean | git, workers | each git call can fail; copies of the list | no commit is lost, the list is what there is |
| plan dispatch (`plan_dispatch*.py`) | none: it analyses a plan | analyze | active sessions | order, cycles and groups over shared files | owners come first, cycles are found |
| agent registry (`agents/registry.py`) | agents and revocations in memory, a file of revocations | load, revoke, decommission, restore | the file | a process writes back only its own revocations | a revoked agent stays revoked |

Every other part is listed with a reason in `PROJECT.json` and, where it could
be expected here, under *Not modelled*. Every hazard is there with its line.

## The modules

| Module | Models | Checked by |
|---|---|---|
| `PlanFSM` | the plan phase | `MCPlanFSM.cfg` |
| `TaskOrder` | what executing a DAG promises (abstract) | as `RecordsInOrder` |
| `DagExecution` (`MCDagExecution`) | `execute`, `resume`, the threads of a batch, state file, checkpoint, ledger | `MCDagExecution.cfg`, `DagTornLedger.cfg` |
| `AsyncTaskGraph` (`MCAsyncTaskGraph`) | the asyncio executor, both loops | `MCAsyncTaskGraph.cfg`, `ReadyTasksDropped.cfg` |
| `EventStore`, `StateStore`, `DualWrite`, composed in `Stores` (`MCStores`) | the new state layer | `MCStores.cfg`, `SagaHalfDone.cfg`, `UpdateDeadlock.cfg` |
| `FileLock`, `SessionStore` | lock files over flock, and locked read-merge-replace of a JSON file | `MCShared.cfg`, `SessionLostUpdate.cfg` |
| `Blackboard`, `EventBus`, `DurableSession`, `StateLog`, composed with the above in `Shared` (`MCShared`) | one shared file, or set of files, each | `MCShared.cfg` |
| `PlanCli`, `ApprovalGate`, in `Shared` | the files behind the commands | `MCShared.cfg` |
| `DagCallbacks`, `Worktree`, `PlanDispatch`, in `Shared` | what workers are given | `MCShared.cfg` |
| `LoopMemory`, in `Shared` | the registry of sessions | `MCShared.cfg` |
| `Idempotency` (also in `Shared`) | `register` with the Redis key and the lock file | `DoubleExecution.cfg`, `MCShared.cfg` |
| `AgentRegistry` (also in `Shared`) | revocations of several processes | `RevocationsLost.cfg`, `MCShared.cfg` |
| `PlanFSMProofs`, `DagExecutionProofs`, `AsyncTaskGraphProofs`, `BlackboardProofs` | theorems about these modules | tlapm |
| `StoresProofs` | theorems about `Stores`: the event store, the file backend, the adapters | tlapm |
| `SharedFilesProofs`, `SharedCommandsProofs`, `SharedWorkersProofs` | theorems about `Shared`: all its parts | tlapm |

`Shared` and `Stores` put components that do not interact into one specification:
the initial state chooses the component a behaviour is about, and the variables of
the others stay as they are. A property of one component therefore says what it
says in its own module. `MCShared` and `MCStores` only give the constants values,
so that the runs and the theorems are about the same specifications. The constant
`Parts` of `Shared` says which components these are; `MCShared.cfg` takes all of them.

Most of these files are read with the same few lines: a file that is missing, that
is no JSON, *or that cannot be read just now* is the default. The last of the three
is the one that hurts, because the default is then written over what was there. So
every module that has such a read has the step in which it fails on an intact file,
and its property says what that costs: which updates, writes, verdicts or entries
are given up by it, and that all others stand.

Who stands on whom: `SessionStore` extends `FileLock`; `PlanCli` applies the
handlers of `PlanFSM` to what it has loaded; `DagExecution` refines `TaskOrder`.
`Blackboard`, `EventBus` and `Worktree` use locks in `.locks`, which
`FileLock` shows (and `LockIsExclusive` proves) to be exclusive: there the lock
is one variable. `LoopMemory` and the list of `Worktree` stand on the updates
that `SessionStore` has the inside of. `EventStore` and `DualWrite` take a get or
set of `StateStore` as one step, since it holds its lock for it.

### PlanFSM and PlanCli

`plan` is the dictionary the orchestrator loads and saves, field by field; a
handler of the code is an operator `Handle...` from a record and the agent's
answer to the next record, and each action is one accepted `process_step` call.
A call with the wrong action for the phase changes nothing. Documents are not
modelled: the history variable `evidence` holds the gates the *current*
documents have passed, and is cleared where a handler sends the architect back
to write.

*Properties.* `GatesPassed`: no phase is entered on stale evidence, so what is
written was itself reviewed, approved, scanned, quality-checked and enhanced.
`RoundsBounded`: no counter passes the limit its handler checks. `Progress`:
every step increases (rounds used, position in the graph) lexicographically,
which with `RoundsBounded` is why the phase ends. `Termination` says that it
does.

*Bounds.* The limits are those of `constants.py` (7, 7, 3, 7). `MaxBlocking` = 3
lets the number of BLOCKING findings fall, stay and rise. *Fairness*: weak
fairness of `Next`, since the driver answers every action it is given until
`done` or `escalate`. Terminal states stop, so deadlock is not checked.

`PlanCli` has processes that call `--init` and `--step` on one state file:
neither takes a lock, saves are in place and can be cut off, and `--init` saves
twice. `PlanOnlyForward` says what remains: limits always hold; without
overlapping calls the plan moves forward in the sense of `Progress`; and unless
an `--init` was interrupted or a save of any command cut off, the file can be read
and the plan never stops where only a new `--init` helps. What is excluded is what
the code does: with overlapping calls a plan can go back, as no lock keeps it from
that; after an interrupted `--init` it stays in INIT, for which no step is accepted;
and after a save that was cut off there is nothing to load.

### DagExecution

`pc` is the executor (stopped, choosing a batch, waiting for it), `mem` its
`state["tasks"]`, `file` and `ckpt` the state file and the last checkpoint.
`worker[t]` is the thread of task `t` inside `register`: waiting for the lock,
holding it, running (`blind` if it could not read the ledger), appending, done.
`ledger` is what `_read_ledger` would find, `tail` whether the file ends inside
a line or, cut inside a character, does not decode any more. Entry points are
`execute` (`StartExecute`), `resume` (`StartResume`) and `execute` with a
checkpoint (`StartCheckpoint`). A thread can find the lock busy until its
timeouts (`LockTimeout`, which blocks the whole DAG), a state file that cannot be
read makes `execute` start afresh beside its ledger, the task can raise
(`OpRaises`) and is retried, the ledger can be unreadable (`ReadFails`: the code
takes it for empty), the append can fail, the checkpoint can be lost without a
word, the save of the state can fail or leave half a file, and the process can
be killed anywhere. The threads are *not* assumed to exclude each other: no
property needs it, because their keys differ.

Each action merges the code between two points another thread, a crash or a
failed write can be seen at. Recording the outcomes of a batch is one step,
since the state is in the executor's memory until it is saved.

*Properties.* `DependenciesRespected`, `CompleteMeansRecorded` (whatever any
copy of the state calls complete is in the ledger), `RecordedRunsOnce` (a
recorded task never runs again, from whatever file the next run starts, unless
its thread could not read the ledger), `DuplicatesNeedFaults` (a task repeats
only through a crash, a failed write or a failed read,
never through retries, blocked batches, early stops or old checkpoints alone),
`RecordsInOrder` (the refinement of `TaskOrder` with `recorded <- ledger`),
`Returns` and `Completes`. The condition of `RecordedRunsOnce` is the whole of what
an unreadable ledger costs, and `DuplicatesNeedFaults` counts faults without saying
which one a repetition is due to.

*Bounds.* Four tasks with two roots, a chain and a join need three batches of at
most two; two iterations per execution make it give up and be resumed; one retry
and two faults (crashes, failed saves, appends or reads) in any order. A torn
state file is cut between characters, so `_load_state` answers None; cut inside
one it would raise (see the hazards). `TornAppends` is
FALSE in the passing run and TRUE in `DagTornLedger.cfg`.

*Fairness.* The interpreter runs the executor and its threads (weak fairness);
`resume` is strongly fair because an operator who keeps starting the workflow
uses it again and again, not only the other entry points. Crashes, failures and
the choice between finishing and raising are not fair. `Completes` accepts a
failed or blocked task: `execute` and `resume` never reset these.

*Disagreement.* `DagTornLedger.cfg`: half a line left by a failed append swallows
the next entry, so a task reported complete is not in the ledger.

### DagCallbacks and Idempotency

`DagCallbacks` is the other way to drive a workflow: agents ask for a batch,
report the ends of tasks, and add tasks of their own (`BranchTask`, whose task has
no dependencies). Every call is a load and a save with nothing between them and
another call; saves fail, are cut off (also inside a character, after which every
call raises) or die, and `get_batch` and `get_status` take a state that they cannot
read for a workflow that has not begun. `HandedOutInOrder`: a task is never handed
out before the end of each of its dependencies was reported *and saved*, however
the calls overlap or fail; and while none overlap, no save fails and no state is
taken for none, it is handed out once, also after `_handle_failure` put it into a
status that no scheduler knows. The conditions are needed: two `get_batch` that
overlap load the same state, and one that cannot read it starts over.

`Idempotency` has callers of *one* key, where `DagExecution` has one caller for
each. `DoubleExecution.cfg`: the refusal of a Redis key is raised inside the
`try` that also catches a missing Redis, so the caller takes the free lock file
and runs the operation beside the holder of the key.

### FileLock and SessionStore

`FileLock` has the steps of filelock's acquire (open the file the path names,
then try flock on that inode, close and retry if it is busy) and of
`_release_lock` (unlock and close, then unlink unless the file is in `.locks`).
`persistent` says which kind of lock the behaviour is about; it is chosen in the
initial state. `SessionStore` puts `_locked_json_update` under the other kind, which
is the only one it is called with: one field per caller in the file, the one
temporary file all callers share, reads and writes that fail. `doubts` says of a
caller why it might undo the others (it held the lock beside another, or could not
read the file), `lossy` which doubts those had who replaced the file.

*Properties.* `MutualExclusion` for locks whose file is kept (those of the
blackboard and the event bus), `NoOrphanLock` for both kinds. `NoLostUpdate`: the
unlinked lock file and the failed read are the *only* ways to lose an update that
returned. Timeouts, failed writes, temporary files that dead callers leave, and
deaths lose none, in whatever order they come. `SessionLostUpdate.cfg` shows that
the first of the two does lose one: a waiter locks the unlinked inode while the
next caller locks a new file, and an update that returned is overwritten, against
the docstring of `write_session_state` (in the trace by the temporary file that one
holder has left half written and the other renames).

*Bounds.* Two callers suffice to hold a lock twice (one of them calls again) and
three inodes are one more than they can have open. In `MCShared.cfg` each
caller has one update that goes through, after any number that fail; the
disagreement needs two. Callers stop at `MaxUpdates`, so deadlock is not checked.

### AsyncTaskGraph

`main` is the scheduling loop, of `execute` or of `execute_streaming`, `stage[t]`
the coroutine of a task (created, begun, in an attempt, in a pause before the
next), `threads[t]` its runner threads: `wait_for` gives up on one after 300 s,
and it goes on. In streaming the coroutines are generators which the loop advances
one at a time (`turn`, `current`). The token of a cancellation is read where the
code reads it; a coroutine that is cancelled inside an attempt ends in the same
way, and its thread goes on. `StreamingExecutor` saves a checkpoint after
`Interval` tasks; `from_state` restores the statuses, but neither `max_parallel`
nor the token.

*Properties.* `DependenciesRespected`, `RunnersBounded` (no more coroutines than
`max_parallel`; one thread per attempt unless one was given up on),
`DoneMeansSettled` and `EndsUnlessStranded`. The threads that were given up on are
not bounded by the code, one for each such attempt. `EndsUnlessStranded`: the loop
ends unless a task is one of those that the code strands: READY and not launched,
RUNNING in the checkpoint it was restored from, or behind a dependency that did
not complete.

*Bounds.* Two tasks behind a third and one alone, two at a time and one after a
restart (the default of `from_state`), one retry, one restart. *Fairness*: the
event loop, and the end of every attempt by `wait_for`; runners need not end.

*Disagreement.* `ReadyTasksDropped.cfg`: `_get_ready_tasks` marks all ready tasks
READY and only returns PENDING ones; those beyond `max_parallel` never run, and
`execute` polls for ever.

### EventStore, StateStore and DualWrite

`EventStore` splits `append` where it awaits: number and previous hash are taken,
the event is written, the hash is set, the pointer and the view are written. The
process can be restarted anywhere, a write can fail, the row of a view expires.
Hashes are the numbers of the appends. `ChainLinked`, `AckedKept` and
`Replayable` hold *while no two calls overlap*: the code has no lock around the
number and the hash, so that overlapping appends do fork the chain, and nothing
in the code says that they may not. An append that raises with its number taken
leaves a gap, at which replay stops (`failed`); one that is cancelled would do the
same and is not modelled. `upsert` of a view is a FIRST_WRITE without an etag, so
that the second start of a session raises, with the event in the log: such an event
is not acknowledged.

`StateStore` has the inside of the file backend: get with its ttl, set and delete
under versions, transactions that read outside the lock they commit under, the
log and the watcher that follows it. An append to the log that raises, or a process
that dies in one, leaves nothing, a part of a line, or a line without its newline;
the next line then goes on in that one (`Ragged`), and the watcher can read neither.
`FirstWriteExact`: a FIRST_WRITE replaces the version it names; `WatcherUpToDate`:
what the watcher has seen is what the rows hold, but for writes in progress, the
keys whose line was not appended or was joined to one cut off, and transactions,
which log before they commit. A coroutine that is cancelled is not modelled.

`DualWrite` has the three adapters: a set is a view and a legacy file inside a
saga under a lock; the execution adapter reads the file first, and starts a new
one if it cannot. `LegacyFollowsView`: no state is in the legacy file that was
never in the view; and when nobody is in a set, the file has what the view has,
but for the items whose last write of the file raised, was cut off, or was dropped
by a write that started the file anew (`parted`). `SagaHalfDone.cfg`: no step of a
saga is ever COMPLETED, so a set whose legacy write fails raises and leaves the
view changed. `UpdateDeadlock.cfg`: every update of a plan and of a session with a
state holds the lock that the set it calls waits for.

*Bounds.* Two coroutines each; three appends and two increments, so that an
append follows a restart that follows an append; log entries up to two; two items
under one lock and three writes. Calls stop at their bounds, so deadlock is not
checked. *Fairness* (`UpdateDeadlock.cfg`): strong fairness of the steps of each
caller, as asyncio's lock serves its waiters in turn; nobody need call anything.

### Blackboard, EventBus, StateLog and DurableSession

`Blackboard` is one region with any of the five rules. A write takes the lock,
loads, resolves, logs and saves in place; it can time out, die, be cut off, or
take a region it cannot read for an empty one. `accepted` has the writes that were
answered "written" and that no such save or read has given up since.
`NoLostWrite`: these stay, as the rule of the region means it, beside any other
writer. `Contents` are two lists and a dict, which the rules tell apart.

`EventBus` is one topic: the messages that can be read, and how the file ends:
after a line, inside one, inside a character (`mangled`: every later read raises),
or with a message that only lacks its newline (`open`), which the next write makes
unreadable again. Subscribers keep the offset they were answered, and a call that
gets no lock or cannot read the file answers 0. `DeliveredInOrder`: who could
always read the topic has each message once; unless a message became unreadable
again, what a subscriber has is the beginning of the topic, in order, lines cut
off among it or not; who missed a read has some messages again, but misses none.

`StateLog`: an append reads the last line and writes without a lock.
`LogVerifies`: a log that verifies has every entry that was returned, in order,
and a log does verify unless appends overlapped or a line was cut off.

`DurableSession`: checkpoint and LLM cache are replaced through a temporary file
that all processes share and that a dead one leaves behind; receipts are
appended. `DurableKept`: without overlapping calls the checkpoint is exactly what
the calls that returned True made of it, and a receipt written before a line was
cut off is found for ever. That the cache keeps its limit is part of its types.

### LoopMemory, ApprovalGate, AgentRegistry, Worktree and PlanDispatch

`LoopMemory` splits `regenerate` at every session file it updates. A file that
cannot be read is left out by a build; an update that cannot read it leaves only the
field that it writes, without the `session_id` that builds look for. `StatusKept`:
while no two of them overlap, nor one with a session that writes its file anew, a
session file with a status has the one that was decided: one that was set completed
stays so and an active one is active or queued, also when a regenerate gives up in
the middle; and the registry has those active sessions whose files could be read. A
session whose heartbeat could not read its file has no status any more.

`ApprovalGate`: commands hash the document, check the signature, archive and save
apart, while the document is edited. A reviewer configuration that cannot be read
requires no signature, and a `status` that cannot read the state saves "pending"
over it. `ApprovalKept`: where signatures are required and that could be read, the
hash of an approval is one its signature is for; the last verdict stays unless such
a `status` comes after it; and the archive under the hash of an approved document is
that document.

`AgentRegistry`: `RevocationsLost.cfg` shows that a process that loaded one
revocation and makes another writes a file without the first.

`Worktree` splits each command at its git calls and at the load and save of the
list, which it replaces by its own copy. A `git worktree add` can fail or time out
when it has made the branch or the tree, a merge that times out may be done, and a
load that cannot read the list writes an empty one. `WorktreesKept`: unless two
commands work on one worker, no commit is lost but by `--force-discard`, through
conflicts, failing git calls, lost lists and commands that die; and while no two
commands overlap, and none dies, misreads the list or leaves a worktree half made
or half removed, the list is exactly the worktrees there are. After a conflict
`merge` advises `remove`, which refuses as long as the status is
`merge-conflict`: the model has it so.

`PlanDispatch` runs Kahn's algorithm and then the loop that gives each subtask of
the order its group (`placed` counts its turns), over all dependencies and file
sets of three subtasks. `DispatchSound`: the order is sound and complete, the
reported cycle is what waits for itself, the owner of a file is in an earlier
group than all others that touch it. The others are not ordered among
themselves: they may share a group, and are then not called safe to run in
parallel.

*Bounds of the runs of `MCShared`.* Two processes, interchangeable, in every part;
two keys, sessions, documents, agents, workers or files, where two are enough to
tell one's own from another's; and three to five calls, enough for a call of each
process and one that follows them (five for a handed-out chain with a failure and
a retry). One subscribe or one session file cannot be read (`MaxMisses`); in the other
modules any read may fail. `LoopMemory` has two regenerates of two sessions of which
one may be active, and two writes (`MaxBeats`). TLC does not go on from a state in
which a regenerate overlaps another, or a session that writes (`CONSTRAINT Apart`): `StatusKept` says nothing from
there on, the states behind it are twenty times as many, and the types, the other
property that looks at them, are a theorem (`SharedTyped`).
Nothing in these modules is scheduled or has to happen: no fairness, and deadlock
is not checked since calls stop at their bounds.

## What is proved

`PlanFSMProofs`, from `LimitsAssumption` (the limits are positive):

- `TypeCorrect`: `Spec => []TypeOK`. The record operators are typed one by one
  and each action by the handler it applies.
- `FreshEvidence`: `Spec => []GatesPassed`. `GatesPassed` is inductive with
  `TypeOK`; the lemmas `...Leads` say which phases a handler can lead to.
- `BoundedRounds`: `Spec => []RoundsBounded`, inductive because each handler
  compares with the limit before it counts.
- `AlwaysForward`: `Spec => Progress`, by cases over the handlers.

`DagExecutionProofs`, from `DagAssumption`, for any workflow, batch size, limits
and number of faults:

- `DagTypeCorrect`: `Spec => []TypeOK`. The types alone are not inductive: a
  thread still at work has attempts left, and there are no threads outside a
  batch (`Control`).
- `NeverAgain`: `Spec => RecordedRunsOnce`, from `RunsUnrecorded`: a thread that
  read the ledger and runs works for a task that is not in it, and nobody else
  puts it there.
- `InOrder`, `CompleteIsDurable` and `Implements`: `DependenciesRespected`,
  `CompleteMeansRecorded` and the refinement of `TaskOrder`. The invariant
  `Recorded` says that all three copies of the statuses are `Sound` (complete
  tasks are recorded, ready tasks have their dependencies recorded) and that the
  threads know no more than the ledger. It is what makes the scheduler's
  decisions safe from whichever copy an execution starts.
- `RepeatsAreFaults`: `Spec => []DuplicatesNeedFaults`, from `Accounted`: before
  a task runs, faults account for all its earlier runs.

The last four assume `~TornAppends`; `DagTornLedger.cfg` shows that they need it.

`AsyncTaskGraphProofs`, from `GraphAssumption`, for any finite graph, limits,
retries, checkpoints and restarts:

- `GraphTypeCorrect`: `Spec => []TypeOK`, with `ThreadAlive` (an attempt has a
  thread), without which the count of threads could fall below zero.
- `NeverBeforeDependencies`: `DependenciesRespected`. `OrderInv` adds that what
  has a coroutine has not settled, and says the same of the checkpoint.
- `DoneIsSettled`: `DoneMeansSettled`. `DoneInv` adds that the list of running
  tasks is what it says and that nothing lives once the loop is done.
- `NeverMoreRunners`: `RunnersBounded`. `BoundInv` adds `OneThreadEach` and
  `InTurn`; the bound itself needs the cardinalities of what a round launches.

`BlackboardProofs`: `WritesKept` (`NoLostWrite`), for any writers, keys, contents
and number of writes, from `BoardAssumption` (contents are lists, dicts or
scalars, and the three special names are none of what they are told from). The
invariant says that what a lock holder has loaded is still the region (`Under`),
that each rule keeps what it owes to earlier writes (`AllKept`), and which forms
the writes of a key had (`FormsKnown`), which `crdt_union` depends on.

`StoresProofs`, from `EventAssumption`, `LengthAssumption` (bounds are numbers) and
`KeysAssumption` (keys of transactions are keys, and `Nil` and `Torn` are none of
what they are told from). A lemma for each component says that `Stores` runs it as
its module does (`EventSpec`, `StoreStays`, `DualStays`), so that each invariant is
kept by the steps of one component only.

- `OneChain` (`ChainLinked`) and `NothingLost` (`AckedKept`). The invariant
  `ChainInv` has two halves. `Sound` holds in any case: hashes and numbers are not
  ahead of the appends. `Alone` holds while no two calls overlap: the pointer, the
  hash in memory and the event in hand are ends of one chain, the events
  acknowledged are at or before the pointer, and so no restart takes the number of
  one of them.
- `ReplayComplete` (`Replayable`). `Unbroken` says that as long as no write failed
  every number up to the last is taken; replay stops at the first that is not.
- `WatcherTold` (`WatcherUpToDate`). `KeysTold`: the last line about a key that the
  watcher has not read says whether there is a row, and if there is none the watcher
  knows the row. It rests on `CallsSound`: who is between row and log holds the lock
  of the shard, and a call that writes has seen the version it names. The same gives
  `VersionsExact` (`FirstWriteExact`).
  `LastMarked` says that a line without its newline is about a key that is excluded,
  so that what is joined to it is excluded too.
- `NeverAhead` (`LegacyFollowsView`). `ViewFirst`: who is in front of the legacy
  file has put its state into the view. `FileAgrees`: what the view has is in the
  file, but for the item of a set between its two writes and for those `parted`.
- `StoresTyped` (`AllTypesOK`). The counter of the event store needs `Counted`: the
  callers about to commit, and what was counted before, are within what was asked.

The three modules about `Shared` rest on its assumptions: the bounds are numbers
and the cache has room for an entry (`BoundsAssumption`;
`LLM_CALL_CACHE_MAX_ENTRIES` is 1000), the limits of the plan phase are positive
(`RoundsAssumption`), the special names are none of the values they are told from
(`ValuesAssumption`), `Parts` are parts (`PartsAssumption`), subtasks are the
places of a list (`PlacesAssumption`), there are finitely many sessions
(`SessionsAssumption`) and tasks need tasks (`NeedsAssumption`); and on the
`LockAssumption` of `FileLock`. For each part one lemma says that `Shared` runs it
as its module does (`BusSpec`, `GateSpec`, ...), one that every step keeps its
inductive invariant, and the theorem follows.

`SharedFilesProofs` begins with an inductive invariant of the lock: a caller has
the file open exactly while it tries or holds (`OpenWhileUsed`), an inode is
locked by who holds it (`NoOrphanLock`), and a file that is kept is one inode for
all (`OneInode`), which is why two holders would own the same inode. The update
under the other kind of lock only moves its locks by steps of `FileLock`, and adds
`BodyInv`: the copy of a holder without doubts is still the file, its temporary file
is the file with one more update, and until somebody with doubts has replaced it the
file is ahead of what was acknowledged. From these:

- `StoreTypeCorrect`, `LockIsExclusive` (`MutualExclusion`), `LockIsReleased`
  (`NoOrphanLock`, both kinds of lock) and `UpdatesLast` (`NoLostUpdate`), for any
  number of callers and updates.

The other parts of `SharedFilesProofs`:

- `BoardKept` (`NoLostWrite`): `BlackboardProofs` instantiated with the processes of
  `Shared` as its writers.
- `Delivered` (`DeliveredInOrder`). A message is made once and written once
  (`Fresh`); who could always read the topic has nothing of what is behind its
  offset (`Once`); what anybody has of the topic is the beginning of it, up to
  some position at or after the offset (`Beginning`); what was answered
  "published" is in the topic in that order (`Answered`).
- `DurableSaved` (`DurableKept`). Without overlapping calls (`SavesKept`) one save
  is under way at a time, nobody else has the file or the temporary file open, and
  what the save will rename is what the call will answer for: a temporary file
  left by a dead call is emptied before it is written. Receipts need no such
  condition.
- `DurableTypes`: the limit of the cache is the only type that takes an argument of
  its own (`CachesFit`): it has to hold in memory, in the files and in each save.
- `LogComplete` (`LogVerifies`). Unless appends overlapped or were cut off
  (`Chained`), each line carries the hash of the one before, and an append under
  way that of the last; what was returned is in the file in any case (`Returned`).

`SharedCommandsProofs`:

- `StatusStays` (`StatusKept`). A regenerate changes what it read earlier, so the
  invariant says what it may still hold of the files: while none overlap, those it
  could read are as they are, and those it is about to change are of active sessions
  (`UpToDate`, `DecidedKept`). The limit on active sessions (`WithinLimit`) rests on
  `StampsApart`: no two sessions were written at the same time, so that the newest
  `n` are at most `n`.
- `PlanForward` (`PlanOnlyForward`), from the lemmas of `PlanFSMProofs` about the
  handlers, applied to the plan in the file. `Alone` says that without overlapping
  calls the plan a call has loaded is the one in the file, `Classifying` what is
  special about the two saves of `--init`; a file is cut off only where
  `interrupted` says so.
- `Approved` (`ApprovalKept`): an approval carries a hash its signature is for
  (`Signed`), the last verdict is in the file (`VerdictStays`), and a command under
  way holds the hash of the document as long as that is not edited (`ArchiveTrue`).
- `IdemTypes` and `RegistryTypes`: the types of the ledger (an operation begins at
  most once per call: `IdemCounted`) and of the agent registry. Both components
  have one property beside, and it is violated (`OneRunsAtATime`,
  `RevocationsKept`).

`SharedWorkersProofs`:

- `TasksInOrder` (`HandedOutInOrder`). `CallsSound` says of the file and of the
  state in every call that a task that left `pending` has all it needs finished,
  however the calls overlap; `CallsOnce` what is left to hand out when none do.
- `Worktrees` (`WorktreesKept`). `WorkInv`: a commit is in main, on a branch or was
  discarded, and what `merge` is about to delete is in main. `TrackedInv`: while one
  command runs at a time, its copy of the list and what git has differ by what that
  command has done so far.
- `DispatchKept` (`DispatchSound`). `Sorted`: the order has nothing twice and each
  subtask after what it waits for, and the queue holds exactly those that wait for
  nothing else. That the rest is what `Stuck` says needs that a set of numbers has a
  smallest element (`Least`, from the well-foundedness of strict inclusion).
  `Grouped`: each subtask placed so far has its group above that of what it waits
  for, and right above one of them.
- `SharedTyped` (`AllTypesOK`): the types of all parts, from the invariants above.

## What is only model-checked

Liveness (`Termination`, `Returns`, `Completes`, `EndsUnlessStranded`), which is
out of this prover's reach, and the disagreements, which are counterexamples.
Every other property of a passing run is a theorem. TLC checks the same
specifications on small instances, and checked the inductive invariants there
before they were proved.

## Not modelled

Parts that do not get through their first call as they stand, so that a model of
what they were meant to do would not be one of the code:

- `runtime/backpressure.py` notifies a condition without holding it, which raises
  RuntimeError, and reads a `_cancelled` that is never set; `runtime/cache_layer.py`
  counts hits on a frozen model; `runtime/token_budget.py` keeps its budgets in
  pydantic private attributes that hold dataclass `Field`s; `child_token` of
  `runtime/cancellation.py` puts an unhashable dataclass into a set.
- `dag_executor_async.py` uses asyncio without importing it.
- `state_store/backends/redis_backend.py` reads a field of its rows that it never
  writes.
- The checkpointers of `graph_engine/checkpointer.py`: one serialises a model with
  `json.dumps`, the other validates with a method its dataclass lacks. Without them
  the graph engine and `plan_fsm/state_machine_v2.py` are one coroutine that runs
  deterministic nodes in turn.

Parts with nothing that a model would find beyond a unit test:

- `HLK/hooks/post_tool_engine.py`, `context_compaction.py` and the other tool hooks
  transform the text of one call; what they keep is session state.
- `HLK/chain/auto_pr_runner.py`, the harness upgrade loop, the upstream merge, the
  installers and wrappers run git and other programs in sequence.
- `artifact_registry.py` makes one locked read and write per call, as
  `SessionStore` does; the circuit breaker counts the failures of one process; the
  saga of the durable session is a list in memory under one lock; the checkpoint
  index, the cost ledger and the telemetry are read by reports only.
- `state_router.py`, parsing, redaction, schema validation, scoring and prompting.

In the modelled parts: paths, names, times and wording; the write log of the
blackboard and the audit logs, which nothing reads; the CRDTs of the event store
but the counter, which read and commit in the same way; the clean-up by age in
loop memory; the fallbacks of the lock for a missing filelock.

## Plan

The modules of the plan are there, and every safety property that the runs check is
proved. What is left: abstract specifications of more parts, as `TaskOrder` is of
`DagExecution` (a blackboard region and a checkpoint as one value that changes at
once, the event log as a sequence that is only appended to), with the refinement
proved from the invariants above. The assumptions of some properties (no
overlapping calls) are the code's, and would change with a lock around the DAG
state, the plan state and `append`.
