------------------------- MODULE DagExecutionProofs -------------------------
(***************************************************************************)
(* Theorems about DagExecution, for any workflow, batch size, limits and   *)
(* number of faults.  What depends on the ledger being readable is proved  *)
(* for appends that leave no part of a line behind: with torn lines it is  *)
(* wrong.                                                                  *)
(***************************************************************************)
EXTENDS DagExecution, TLAPS

-----------------------------------------------------------------------------
(* The operators the executor is built from.                               *)

\* Readiness and reset map status tables to status tables.
LEMMA TablesTyped ==
  ASSUME NEW tasks \in TaskStates
  PROVE  /\ MarkReady(tasks) \in TaskStates
         /\ ResetRunning(tasks) \in TaskStates
         /\ Fresh \in TaskStates
  BY DEF MarkReady, ResetRunning, Fresh, TaskStates, Statuses

\* The outcome of a finished thread is a status.
LEMMA StatusTyped ==
  ASSUME NEW outcome \in Finished
  PROVE  /\ StatusOf(outcome) \in Statuses
         /\ StatusOf(outcome) # "ready"
         /\ StatusOf(outcome) = "complete" <=> outcome = "ok"
  BY DEF Finished, StatusOf, Statuses

\* A save leaves the new table, the old file or a torn one, and only a fault
\* keeps it from leaving the new table.
LEMMA SaveLeaves ==
  ASSUME NEW tasks \in TaskStates, file \in Snapshot, faults \in 0..MaxFaults, Save(tasks)
  PROVE  /\ file' \in Snapshot
         /\ faults' \in 0..MaxFaults
         /\ faults' >= faults
         /\ file'.tasks \in {tasks, file.tasks, Fresh}
<1>1. Saved(tasks) \in Snapshot /\ Saved(tasks).tasks = tasks
  BY DEF Saved, Snapshot
<1>2. Torn \in Snapshot /\ Torn.tasks = Fresh
  BY TablesTyped DEF Torn, Snapshot
<1>3. MaxFaults \in Nat
  BY DagAssumption
<1>4. QED
  BY <1>1, <1>2, <1>3 DEF Save

\* The tasks of a batch are ready.
LEMMA BatchesReady ==
  ASSUME NEW tasks, NEW batch \in Batches(tasks)
  PROVE  batch \subseteq Tasks /\ \A t \in batch : tasks[t] = "ready"
  BY DEF Batches, ReadyTasks

-----------------------------------------------------------------------------
(* Types, and the control of the threads.                                  *)

Busy == {"acquire"} \union Critical

\* A thread that is still at work may fail once more, and threads only exist
\* while the executor waits for a batch.
Control ==
  /\ \A t \in Tasks : worker[t] \in Busy => attempts[t] <= MaxRetries
  /\ pc # "batch" => worker = Idle

Typed == TypeOK /\ Control

\* One step of a thread that counts no attempt.
LEMMA StepTyped ==
  ASSUME Typed, NEW t \in Tasks, NEW from \in Busy, NEW to \in Busy \union Finished,
         Step(t, from, to), UNCHANGED attempts
  PROVE  /\ worker' \in [Tasks -> {"none", "acquire"} \union Critical \union Finished]
         /\ Control'
<1> USE DEF Typed, TypeOK, Control, Step, Busy, Critical, Finished
<1>1. pc = "batch"
  BY DEF Idle
<1>2. QED
  BY <1>1

\* A failed attempt is counted, up to one more than may be retried.
LEMMA RetryTyped ==
  ASSUME Typed, NEW t \in Tasks, NEW from \in Busy, Retry(t, from)
  PROVE  /\ worker' \in [Tasks -> {"none", "acquire"} \union Critical \union Finished]
         /\ attempts' \in [Tasks -> 0..MaxRetries + 1]
         /\ Control'
<1> USE DEF Typed, TypeOK, Control, Step, Busy, Critical, Finished
<1>1. pc = "batch"
  BY DEF Idle, Retry
<1>2. MaxRetries \in Nat
  BY DagAssumption
<1>3. attempts[t] \in 0..MaxRetries
  BY <1>2 DEF Retry
<1>4. QED
  BY <1>1, <1>2, <1>3 DEF Retry

\* Each step of the executor, of a thread or of a fault keeps the types.
LEMMA TypedPreserved == Typed /\ [Next]_vars => Typed'
<1> SUFFICES ASSUME Typed, [Next]_vars PROVE Typed'
  OBVIOUS
<1> USE DagAssumption
<1>t. TypeOK
  BY DEF Typed
<1>1. CASE UNCHANGED vars
  BY <1>1 DEF Typed, TypeOK, Control, vars
<1>2. CASE Start
  <2>1. PICK tasks \in TaskStates : pc = "idle" /\ Begin(tasks)
    BY <1>2, <1>t, TablesTyped
    DEF Start, StartExecute, StartResume, StartCheckpoint, TypeOK, Snapshot
  <2>2. QED
    BY <2>1 DEF Begin, Typed, TypeOK, Control
<1>3. CASE Return \/ GiveUp
  <2>1. MarkReady(mem) \in TaskStates
    BY <1>t, TablesTyped DEF TypeOK
  <2>2. Save(MarkReady(mem)) /\ mem' = MarkReady(mem) /\ pc = "schedule" /\ pc' = "idle"
        /\ UNCHANGED <<iteration, worker, attempts, ledger, tail, effects>>
        /\ ckpt' \in {ckpt, Saved(MarkReady(mem))}
    BY <1>3 DEF Return, GiveUp, SaveCheckpoint
  <2>3. file' \in Snapshot /\ faults' \in 0..MaxFaults
    BY <1>t, <2>1, <2>2, SaveLeaves DEF TypeOK
  <2>4. ckpt' \in Snapshot
    BY <1>t, <2>1, <2>2 DEF TypeOK, Saved, Snapshot
  <2>5. QED
    BY <2>1, <2>2, <2>3, <2>4 DEF Typed, TypeOK, Control
<1>4. CASE Launch
  <2>1. MarkReady(mem) \in TaskStates
    BY <1>t, TablesTyped DEF TypeOK
  <2>2. PICK batch \in Batches(MarkReady(mem)) :
          /\ mem' = [t \in Tasks |-> IF t \in batch THEN "running" ELSE MarkReady(mem)[t]]
          /\ worker' = [t \in Tasks |-> IF t \in batch THEN "acquire" ELSE "none"]
    BY <1>4 DEF Launch
  <2>3. mem' \in TaskStates
    BY <2>1, <2>2 DEF TaskStates, Statuses
  <2>4. file' \in Snapshot /\ faults' \in 0..MaxFaults
    BY <1>t, <1>4, <2>3, SaveLeaves DEF TypeOK, Launch
  <2>5. iteration' \in 0..MaxIterations /\ attempts' = [t \in Tasks |-> 0] /\ pc' = "batch"
        /\ UNCHANGED <<ckpt, ledger, tail, effects>>
    BY <1>t, <1>4 DEF TypeOK, Launch
  <2>6. QED
    BY <1>t, <2>2, <2>3, <2>4, <2>5 DEF Typed, TypeOK, Control, Busy, Critical
<1>5. CASE EndBatch
  <2>1. mem' \in TaskStates
    <3>1. ASSUME NEW t \in Tasks, worker[t] # "none"
          PROVE  StatusOf(worker[t]) \in Statuses
      BY <1>5, <3>1, StatusTyped DEF EndBatch
    <3>2. QED
      BY <1>t, <1>5, <3>1 DEF EndBatch, TypeOK, TaskStates
  <2>2. file' \in Snapshot /\ faults' \in 0..MaxFaults
    BY <1>t, <1>5, <2>1, SaveLeaves DEF TypeOK, EndBatch
  <2>3. ckpt' \in Snapshot
    BY <1>t, <1>5, <2>1 DEF TypeOK, Saved, Snapshot, SaveCheckpoint, EndBatch
  <2>4. worker' = Idle /\ pc' \in {"idle", "schedule"}
        /\ UNCHANGED <<iteration, attempts, ledger, tail, effects>>
    BY <1>5 DEF EndBatch
  <2>5. QED
    BY <1>t, <2>1, <2>2, <2>3, <2>4 DEF Typed, TypeOK, Control, Idle, Busy, Critical
<1>6. ASSUME NEW t \in Tasks, Worker(t) PROVE Typed'
  <2>1. CASE Acquire(t) \/ LockTimeout(t) \/ Lookup(t) \/ ReadFails(t)
    <3>1. PICK from \in Busy, to \in Busy \union Finished : Step(t, from, to)
      BY <2>1 DEF Acquire, LockTimeout, Lookup, ReadFails, Busy, Critical, Finished
    <3>2. UNCHANGED <<attempts, ledger, tail, effects>> /\ faults' \in 0..MaxFaults
      BY <1>t, <2>1 DEF Acquire, LockTimeout, Lookup, ReadFails, TypeOK
    <3>3. QED
      BY <1>t, <3>1, <3>2, StepTyped DEF Typed, TypeOK, Step
  <2>2. CASE RunOp(t)
    <3>1. PICK from \in {"op", "blind"} : Step(t, from, "append")
      BY <2>2 DEF RunOp
    <3>2. effects' \in [Tasks -> Nat]
      BY <1>t, <2>2 DEF RunOp, TypeOK
    <3>3. QED
      BY <1>t, <2>2, <3>1, <3>2, StepTyped
      DEF Typed, TypeOK, Step, RunOp, Busy, Critical, Finished
  <2>3. CASE OpRaises(t)
    BY <1>t, <2>3, RetryTyped DEF OpRaises, Retry, Step, Typed, TypeOK, Busy, Critical
  <2>4. CASE Append(t)
    <3>1. Step(t, "append", "ok")
      BY <2>4 DEF Append
    <3>2. ledger' \in SUBSET Tasks
      BY <1>t, <2>4 DEF Append, TypeOK
    <3>3. QED
      BY <1>t, <2>4, <3>1, <3>2, StepTyped
      DEF Typed, TypeOK, Step, Append, Busy, Critical, Finished
  <2>5. QED
    BY <1>6, <2>1, <2>2, <2>3, <2>4 DEF Worker
<1>7. ASSUME NEW t \in Tasks, AppendFails(t) PROVE Typed'
  <2>1. /\ ledger' \in SUBSET Tasks /\ tail' \in {"clean", "torn", "garbled"}
        /\ faults' \in 0..MaxFaults
    BY <1>t, <1>7 DEF AppendFails, TornLine, TypeOK
  <2>2. QED
    BY <1>t, <1>7, <2>1, RetryTyped
    DEF AppendFails, Retry, Step, Typed, TypeOK, Busy, Critical
<1>8. CASE Crash
  <2>1. /\ ledger' \in SUBSET Tasks /\ tail' \in {"clean", "torn", "garbled"}
        /\ faults' \in 0..MaxFaults
    BY <1>t, <1>8 DEF Crash, TornLine, TypeOK
  <2>2. mem' \in TaskStates
    BY <1>t, <1>8, TablesTyped DEF Crash, TypeOK
  <2>3. QED
    BY <1>t, <1>8, <2>1, <2>2 DEF Crash, Typed, TypeOK, Control, Idle, Busy, Critical
<1>9. QED
  BY <1>1, <1>2, <1>3, <1>4, <1>5, <1>6, <1>7, <1>8 DEF Next, Executor

\* The executor starts with nothing saved and no thread.
LEMMA TypedInitially == Init => Typed
  BY DagAssumption, TablesTyped
  DEF Init, Typed, TypeOK, Control, TaskStates, Statuses, Snapshot, Fresh, Idle, Busy, Critical

\* Type correctness, torn lines included.
THEOREM DagTypeCorrect == Spec => []TypeOK
<1>1. Typed => TypeOK
  BY DEF Typed
<1>2. QED
  BY <1>1, TypedInitially, TypedPreserved, PTL DEF Spec

-----------------------------------------------------------------------------
(* What is recorded does not run again.                                    *)

\* A thread that read the ledger only gets to run a task that is not in it, and
\* no other thread appends that task's entry.
RunsUnrecorded == \A t \in Tasks : worker[t] = "op" => t \notin ledger

\* No step puts the entry of a task at work into the ledger but its own append.
LEMMA RunsPreserved == Typed /\ RunsUnrecorded /\ [Next]_vars => RunsUnrecorded'
<1> SUFFICES ASSUME Typed, RunsUnrecorded, [Next]_vars PROVE RunsUnrecorded'
  OBVIOUS
<1> USE DEF RunsUnrecorded
<1>1. CASE UNCHANGED vars
  BY <1>1 DEF vars
<1>2. CASE Start \/ Return \/ GiveUp
  BY <1>2 DEF Start, StartExecute, StartResume, StartCheckpoint, Begin, Return, GiveUp
<1>3. CASE Launch \/ EndBatch \/ Crash
  BY <1>3 DEF Launch, EndBatch, Crash, TornLine, Idle
<1>4. ASSUME NEW t \in Tasks, Worker(t) PROVE RunsUnrecorded'
  BY <1>4 DEF Worker, Acquire, LockTimeout, Lookup, ReadFails, RunOp, OpRaises, Retry,
              Append, Step, Typed, TypeOK
<1>5. ASSUME NEW t \in Tasks, AppendFails(t) PROVE RunsUnrecorded'
  BY <1>5 DEF AppendFails, TornLine, Retry, Step, Typed, TypeOK
<1>6. QED
  BY <1>1, <1>2, <1>3, <1>4, <1>5 DEF Next, Executor

\* A recorded task never runs again unless its thread could not read the ledger,
\* whatever the entry points, crashes, state files and torn lines.
THEOREM NeverAgain == Spec => RecordedRunsOnce
<1>1. Init => RunsUnrecorded
  BY DEF Init, RunsUnrecorded, Idle
<1>2. Typed /\ RunsUnrecorded /\ [Next]_vars
      => [\A t \in Tasks : t \in ledger /\ worker[t] # "blind" => effects'[t] = effects[t]]_vars
  <2> SUFFICES ASSUME Typed, RunsUnrecorded, Next, NEW t \in Tasks, t \in ledger,
                      worker[t] # "blind"
               PROVE  effects'[t] = effects[t]
    OBVIOUS
  <2>1. CASE UNCHANGED effects
    BY <2>1
  <2>2. ASSUME NEW u \in Tasks, RunOp(u) PROVE effects'[t] = effects[t]
    <3>1. u # t
      BY <2>2 DEF RunOp, Step, RunsUnrecorded
    <3>2. QED
      BY <2>2, <3>1 DEF RunOp, Typed, TypeOK
  <2>3. UNCHANGED effects \/ \E u \in Tasks : RunOp(u)
    BY DEF Next, Start, StartExecute, StartResume, StartCheckpoint, Begin, Executor,
           Return, GiveUp, Launch, EndBatch, Crash, Worker, Acquire, LockTimeout,
           Lookup, ReadFails, OpRaises, Retry, Append, AppendFails
  <2>4. QED
    BY <2>1, <2>2, <2>3
<1>3. QED
  BY <1>1, <1>2, TypedInitially, TypedPreserved, RunsPreserved, PTL
  DEF Spec, RecordedRunsOnce

-----------------------------------------------------------------------------
(* What the copies of the state and the threads know of the ledger.        *)

\* A table of statuses that does not say more than the ledger.
Sound(tasks) ==
  \A t \in Tasks : /\ tasks[t] = "complete" => t \in ledger
                   /\ tasks[t] = "ready" => Deps[t] \subseteq ledger

\* All three copies are sound; a thread works for a task whose dependencies are
\* recorded, and has recorded it when it ends well.
Recorded ==
  /\ Sound(mem) /\ Sound(file.tasks) /\ Sound(ckpt.tasks)
  /\ \A t \in Tasks :
       /\ worker[t] # "none" => Deps[t] \subseteq ledger
       /\ worker[t] = "ok" => t \in ledger
       /\ effects[t] > 0 => Deps[t] \subseteq ledger

\* No append has left a part of a line.
Readable == tail = "clean"

\* A sound table stays sound when it is reset, and when readiness is computed
\* from it; a fresh one is sound.
LEMMA SoundTables ==
  ASSUME NEW tasks \in TaskStates, Sound(tasks)
  PROVE  Sound(MarkReady(tasks)) /\ Sound(ResetRunning(tasks)) /\ Sound(Fresh)
  BY DEF Sound, MarkReady, IsReady, ResetRunning, Fresh

\* Without torn appends the ledger stays readable to its end.
LEMMA ReadablePreserved ==
  ASSUME ~TornAppends, Readable, [Next]_vars
  PROVE  Readable'
  BY DEF Readable, Next, vars, Start, StartExecute, StartResume, StartCheckpoint, Begin,
         Executor, Return, GiveUp, Launch, EndBatch, Crash, Worker, Acquire,
         LockTimeout, Lookup, ReadFails, RunOp, OpRaises, Retry, Append, AppendFails,
         TornLine

\* A save of a sound table leaves a sound file, faults included.
LEMMA SaveSound ==
  ASSUME Typed, Sound(file.tasks), NEW tasks \in TaskStates, Sound(tasks), Save(tasks),
         ledger' = ledger
  PROVE  Sound(file.tasks)'
<1>1. file'.tasks \in {tasks, file.tasks, Fresh}
  BY SaveLeaves DEF Typed, TypeOK
<1>2. Sound(Fresh)
  BY SoundTables
<1>3. QED
  BY <1>1, <1>2 DEF Sound

\* The threads and the three tables stay sound: the ledger only grows, threads
\* start for ready tasks, and the executor believes what a thread recorded.
LEMMA RecordedPreserved ==
  ASSUME ~TornAppends, Typed, Readable, Recorded, [Next]_vars
  PROVE  Recorded'
<1>t. TypeOK
  BY DEF Typed
<1>1. CASE UNCHANGED vars
  BY <1>1 DEF Recorded, Sound, vars
<1>2. CASE Start
  <2>1. PICK tasks \in TaskStates : Sound(tasks) /\ Begin(tasks)
    BY <1>2, <1>t, SoundTables, TablesTyped
    DEF Start, StartExecute, StartResume, StartCheckpoint, Recorded, TypeOK, Snapshot
  <2>2. QED
    BY <2>1 DEF Begin, Recorded, Sound
<1>3. CASE Return \/ GiveUp
  <2>1. MarkReady(mem) \in TaskStates /\ Sound(MarkReady(mem))
    BY <1>t, TablesTyped, SoundTables DEF TypeOK, Recorded
  <2>2. Save(MarkReady(mem)) /\ mem' = MarkReady(mem) /\ ckpt' \in {ckpt, Saved(mem')}
        /\ UNCHANGED <<worker, ledger, effects>>
    BY <1>3 DEF Return, GiveUp, SaveCheckpoint
  <2>3. Sound(file.tasks)'
    BY <2>1, <2>2, SaveSound DEF Recorded, Sound
  <2>4. QED
    BY <2>1, <2>2, <2>3 DEF Recorded, Sound, Saved
<1>4. CASE Launch
  <2>1. MarkReady(mem) \in TaskStates /\ Sound(MarkReady(mem))
    BY <1>t, TablesTyped, SoundTables DEF TypeOK, Recorded
  <2>2. PICK batch \in Batches(MarkReady(mem)) :
          /\ mem' = [t \in Tasks |-> IF t \in batch THEN "running" ELSE MarkReady(mem)[t]]
          /\ worker' = [t \in Tasks |-> IF t \in batch THEN "acquire" ELSE "none"]
    BY <1>4 DEF Launch
  <2>3. Save(mem') /\ UNCHANGED <<ckpt, ledger, effects>>
    BY <1>4 DEF Launch
  <2>4. mem' \in TaskStates /\ Sound(mem')
    BY <2>1, <2>2 DEF Sound, TaskStates, Statuses
  <2>5. Sound(file.tasks)'
    BY <2>3, <2>4, SaveSound DEF Recorded, Sound
  <2>6. \A t \in Tasks : worker'[t] # "none" => worker'[t] = "acquire" /\ Deps[t] \subseteq ledger
    BY <2>1, <2>2, BatchesReady DEF Sound
  <2>7. QED
    BY <2>3, <2>4, <2>5, <2>6 DEF Recorded, Sound
<1>5. CASE EndBatch
  <2>1. /\ mem' = [t \in Tasks |-> IF worker[t] = "none" THEN mem[t] ELSE StatusOf(worker[t])]
        /\ Save(mem') /\ worker' = Idle
        /\ ckpt' \in {ckpt, Saved(mem')}
        /\ UNCHANGED <<ledger, effects>>
        /\ \A t \in Tasks : worker[t] = "none" \/ worker[t] \in Finished
    BY <1>5 DEF EndBatch, SaveCheckpoint
  <2>2. mem' \in TaskStates
    BY <1>t, <2>1, StatusTyped DEF TypeOK, TaskStates
  <2>3. Sound(mem')
    BY <2>1, StatusTyped DEF Recorded, Sound
  <2>4. Sound(file.tasks)'
    BY <2>1, <2>2, <2>3, SaveSound DEF Recorded, Sound
  <2>5. QED
    BY <2>1, <2>3, <2>4 DEF Recorded, Sound, Saved, Idle
<1>6. ASSUME NEW t \in Tasks, Worker(t) PROVE Recorded'
  <2>1. UNCHANGED <<mem, file, ckpt>>
    BY <1>6 DEF Worker, Acquire, LockTimeout, Lookup, ReadFails, RunOp, OpRaises, Retry,
                Append, Step
  <2>2. CASE Acquire(t) \/ LockTimeout(t) \/ Lookup(t) \/ ReadFails(t) \/ OpRaises(t)
    BY <1>t, <2>1, <2>2 DEF Acquire, LockTimeout, Lookup, ReadFails, OpRaises, Retry,
                            Step, Recorded, Sound, TypeOK
  <2>3. CASE RunOp(t)
    BY <1>t, <2>1, <2>3 DEF RunOp, Step, Recorded, Sound, TypeOK
  <2>4. CASE Append(t)
    BY <1>t, <2>1, <2>4 DEF Append, Step, Readable, Recorded, Sound, TypeOK
  <2>5. QED
    BY <1>6, <2>2, <2>3, <2>4 DEF Worker
<1>7. ASSUME NEW t \in Tasks, AppendFails(t) PROVE Recorded'
  BY <1>t, <1>7 DEF AppendFails, TornLine, Retry, Step, Recorded, Sound, TypeOK
<1>8. CASE Crash
  BY <1>8 DEF Crash, TornLine, Recorded, Sound, Fresh, Idle
<1>9. QED
  BY <1>1, <1>2, <1>3, <1>4, <1>5, <1>6, <1>7, <1>8 DEF Next, Executor

\* The inductive invariant of the execution.
LEMMA ExecutionInvariant ==
  ASSUME ~TornAppends
  PROVE  Spec => [](Typed /\ Readable /\ Recorded)
<1>1. Init => Readable /\ Recorded
  BY DEF Init, Readable, Recorded, Sound, Fresh, Idle
<1>2. Typed /\ Readable /\ Recorded /\ [Next]_vars => Readable' /\ Recorded'
  BY ReadablePreserved, RecordedPreserved
<1>3. QED
  BY <1>1, <1>2, TypedInitially, TypedPreserved, PTL DEF Spec

\* No task runs before the results of what it depends on are durable.
THEOREM InOrder ==
  ASSUME ~TornAppends
  PROVE  Spec => []DependenciesRespected
<1>1. Recorded => DependenciesRespected
  BY DEF Recorded, DependenciesRespected
<1>2. QED
  BY <1>1, ExecutionInvariant, PTL

\* Whatever a copy of the state calls complete is in the ledger.
THEOREM CompleteIsDurable ==
  ASSUME ~TornAppends
  PROVE  Spec => []CompleteMeansRecorded
<1>1. Recorded => CompleteMeansRecorded
  BY DEF Recorded, Sound, CompleteMeansRecorded, CompleteIn
<1>2. QED
  BY <1>1, ExecutionInvariant, PTL

\* Executing a workflow implements TaskOrder: the append of a thread records its
\* task, and every other step stutters.
THEOREM Implements ==
  ASSUME ~TornAppends
  PROVE  Spec => RecordsInOrder
<1>1. Init => Abstract!Init
  BY DEF Init, Abstract!Init
<1>2. Readable /\ Recorded /\ [Next]_vars => [Abstract!Next]_ledger
  <2> SUFFICES ASSUME Readable, Recorded, [Next]_vars, ledger' # ledger
               PROVE  Abstract!Next
    OBVIOUS
  <2>1. PICK t \in Tasks : Append(t)
    BY DEF Next, vars, Start, StartExecute, StartResume, StartCheckpoint, Begin, Executor,
           Return, GiveUp, Launch, EndBatch, Crash, Worker, Acquire, LockTimeout, Lookup,
           ReadFails, RunOp, OpRaises, Retry, AppendFails, TornLine
  <2>2. Abstract!Record(t)
    BY <2>1 DEF Append, Step, Readable, Recorded, Abstract!Record
  <2>3. QED
    BY <2>2 DEF Abstract!Next
<1>3. QED
  BY <1>1, <1>2, ExecutionInvariant, PTL DEF Spec, RecordsInOrder, Abstract!Spec

-----------------------------------------------------------------------------
(* Each repetition has a fault of its own.                                 *)

\* Between the end of a task and its record it has run once more than faults
\* account for; before its next run, not: a failed read is a fault of its own.
Accounted ==
  \A t \in Tasks :
    /\ effects[t] <= 1 + faults
    /\ t \notin ledger /\ worker[t] # "append" => effects[t] <= faults
    /\ worker[t] = "blind" => effects[t] <= faults

\* Only a crash or a failed append takes a finished task back to unrecorded.
LEMMA AccountedPreserved ==
  ASSUME ~TornAppends, Typed, Readable, RunsUnrecorded, Accounted, [Next]_vars
  PROVE  Accounted'
<1>t. TypeOK /\ MaxFaults \in Nat
  BY DagAssumption DEF Typed
<1>f. faults \in Nat /\ \A t \in Tasks : effects[t] \in Nat
  BY <1>t DEF TypeOK
<1>1. CASE UNCHANGED vars
  BY <1>1 DEF Accounted, vars
<1>2. CASE Start
  BY <1>2 DEF Start, StartExecute, StartResume, StartCheckpoint, Begin, Accounted
<1>3. CASE Return \/ GiveUp
  <2>1. faults' \in {faults, faults + 1} /\ UNCHANGED <<worker, ledger, effects>>
    BY <1>3 DEF Return, GiveUp, Save
  <2>2. QED
    BY <1>f, <2>1 DEF Accounted
<1>4. CASE Launch \/ EndBatch
  <2>1. faults' \in {faults, faults + 1} /\ UNCHANGED <<ledger, effects>>
    BY <1>4 DEF Launch, EndBatch, Save
  <2>2. \A t \in Tasks : worker[t] # "append" /\ worker'[t] # "blind"
    BY <1>4 DEF Launch, EndBatch, Typed, Control, Idle, Finished
  <2>3. QED
    BY <1>f, <2>1, <2>2 DEF Accounted
<1>5. ASSUME NEW t \in Tasks, Worker(t) PROVE Accounted'
  <2>1. CASE Acquire(t) \/ LockTimeout(t) \/ Lookup(t) \/ OpRaises(t)
    BY <1>t, <2>1 DEF Acquire, LockTimeout, Lookup, OpRaises, Retry, Step, Accounted, TypeOK
  <2>2. CASE RunOp(t)
    <3>1. effects'[t] = effects[t] + 1 /\ (\A u \in Tasks : u # t => effects'[u] = effects[u])
      BY <1>t, <2>2 DEF RunOp, TypeOK
    <3>2. worker[t] \in {"op", "blind"} /\ worker'[t] = "append" /\ UNCHANGED <<ledger, faults>>
          /\ (\A u \in Tasks : u # t => worker'[u] = worker[u])
      BY <1>t, <2>2 DEF RunOp, Step, TypeOK
    <3>3. effects[t] <= faults
      BY <3>2 DEF RunsUnrecorded, Accounted
    <3>4. QED
      BY <1>f, <3>1, <3>2, <3>3 DEF Accounted
  <2>3. CASE Append(t)
    BY <1>t, <2>3 DEF Append, Step, Readable, Accounted, TypeOK
  <2>4. CASE ReadFails(t)
    <3>1. faults' = faults + 1 /\ UNCHANGED <<ledger, effects>>
      BY <2>4 DEF ReadFails, Readable
    <3>2. \A u \in Tasks : effects[u] <= faults'
      BY <1>f, <3>1 DEF Accounted
    <3>3. QED
      BY <1>f, <3>1, <3>2 DEF Accounted
  <2>5. QED
    BY <1>5, <2>1, <2>2, <2>3, <2>4 DEF Worker
<1>6. ASSUME NEW t \in Tasks, AppendFails(t) PROVE Accounted'
  <2>1. faults' = faults + 1 /\ UNCHANGED <<ledger, effects>>
    BY <1>6 DEF AppendFails, TornLine, Retry, Step
  <2>2. QED
    BY <1>f, <2>1 DEF Accounted
<1>7. CASE Crash
  <2>1. faults' = faults + 1 /\ UNCHANGED <<ledger, effects>>
    BY <1>7 DEF Crash, TornLine
  <2>2. QED
    BY <1>f, <2>1 DEF Accounted
<1>8. QED
  BY <1>1, <1>2, <1>3, <1>4, <1>5, <1>6, <1>7 DEF Next, Executor

\* A task repeats only through a crash, a failed write or a failed read of its
\* own.
THEOREM RepeatsAreFaults ==
  ASSUME ~TornAppends
  PROVE  Spec => []DuplicatesNeedFaults
<1>1. Init => Accounted
  BY DEF Init, Accounted
<1>2. Typed /\ Readable /\ RunsUnrecorded /\ Accounted /\ [Next]_vars => Accounted'
  BY AccountedPreserved
<1>3. Init => RunsUnrecorded
  BY DEF Init, RunsUnrecorded, Idle
<1>4. Accounted => DuplicatesNeedFaults
  BY DEF Accounted, DuplicatesNeedFaults
<1>5. QED
  BY <1>1, <1>2, <1>3, <1>4, ExecutionInvariant, RunsPreserved, PTL DEF Spec
=============================================================================
