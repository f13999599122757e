------------------------ MODULE AsyncTaskGraphProofs ------------------------
(***************************************************************************)
(* Proofs about the asyncio task graph, for any graph, any limits and any  *)
(* number of restores: types, the order of dependencies, what "All tasks   *)
(* completed" means, and the bounds on coroutines and runner threads.      *)
(***************************************************************************)
EXTENDS AsyncTaskGraph, FiniteSetTheorems, TLAPS

Stages == {"none", "created", "begun", "attempt", "backoff"}

-----------------------------------------------------------------------------
(* Types.  The thread of an attempt counts: it can be taken off again.     *)

ThreadAlive == \A t \in Tasks : stage[t] = "attempt" => threads[t] >= 1

TypeInv == TypeOK /\ ThreadAlive

\* A new graph has its types.
LEMMA TypeInitially == Init => TypeInv
<1>1. 0 \in 0..MaxRetries /\ 0 \in 0..MaxRestores
  BY GraphAssumption
<1>2. ASSUME Init PROVE ThreadAlive
  BY <1>2 DEF Init, ThreadAlive
<1>3. ASSUME Init PROVE status \in [Tasks -> Statuses] /\ stage \in [Tasks -> Stages]
  BY <1>3 DEF Init, Statuses, Stages
<1>4. ASSUME Init PROVE attempt \in [Tasks -> 0..MaxRetries] /\ threads \in [Tasks -> Nat]
  BY <1>1, <1>4 DEF Init
<1>5. ASSUME Init PROVE TypeOK
  BY <1>1, <1>3, <1>4, <1>5 DEF Init, TypeOK, Stages
<1> QED
  BY <1>2, <1>5 DEF TypeInv

\* The end of a task keeps the types, if its thread is taken off or stays.
LEMMA EndTyped ==
  ASSUME TypeInv, NEW t \in Tasks, NEW s \in Settled, End(t, s)
  PROVE  /\ status' \in [Tasks -> Statuses]
         /\ stage' = [stage EXCEPT ![t] = "none"]
         /\ stage' \in [Tasks -> Stages]
         /\ running' \subseteq Tasks
         /\ current' \in Tasks \union {Nil}
         /\ since' \in Nat
  BY DEF TypeInv, TypeOK, End, Yield, Statuses, Stages

\* So does what follows a failed attempt.
LEMMA RetryTyped ==
  ASSUME TypeInv, NEW t \in Tasks, Retry(t)
  PROVE  /\ status' \in [Tasks -> Statuses]
         /\ \E s \in Stages \ {"attempt"} : stage' = [stage EXCEPT ![t] = s]
         /\ stage' \in [Tasks -> Stages]
         /\ attempt' \in [Tasks -> 0..MaxRetries]
         /\ running' \subseteq Tasks
         /\ current' \in Tasks \union {Nil}
         /\ since' \in Nat
<1>1. CASE attempt[t] < MaxRetries
  <2>1. attempt[t] + 1 \in 0..MaxRetries
    BY <1>1, GraphAssumption DEF TypeInv, TypeOK
  <2>2. stage' = [stage EXCEPT ![t] = "backoff"]
    BY <1>1 DEF Retry
  <2>3. attempt' \in [Tasks -> 0..MaxRetries]
    BY <1>1, <2>1 DEF TypeInv, TypeOK, Retry
  <2>4. current' \in Tasks \union {Nil} /\ since' \in Nat
    BY <1>1 DEF TypeInv, TypeOK, Retry, Yield
  <2>5. status' = status /\ running' = running
    BY <1>1 DEF Retry
  <2> QED
    BY <2>2, <2>3, <2>4, <2>5 DEF TypeInv, TypeOK, Stages
<1>2. CASE ~(attempt[t] < MaxRetries)
  <2>1. End(t, "failed") /\ UNCHANGED attempt
    BY <1>2 DEF Retry
  <2> QED
    BY <2>1, EndTyped DEF Settled, Stages, TypeInv, TypeOK
<1> QED BY <1>1, <1>2

\* Every step keeps the types.
LEMMA TypePreserved == TypeInv /\ [Next]_vars => TypeInv'
<1> SUFFICES ASSUME TypeInv, [Next]_vars PROVE TypeInv'
  OBVIOUS
<1> USE DEF taskVars, loopVars, saveVars
<1>1. ASSUME Poll \/ StreamPoll PROVE TypeInv'
  <2>1. status' \in [Tasks -> Statuses]
    BY <1>1 DEF Poll, StreamPoll, MarkReady, TypeInv, TypeOK, Statuses
  <2>2. PICK L \in SUBSET Ready :
          /\ stage' = [t \in Tasks |-> IF t \in L THEN "created" ELSE stage[t]]
          /\ turn' \in {turn, Live \union L}
    BY <1>1 DEF Poll, StreamPoll
  <2>3. turn' \subseteq Tasks
    BY <2>2 DEF Ready, Live, TypeInv, TypeOK
  <2>4. stage' \in [Tasks -> Stages]
    BY <2>2 DEF TypeInv, TypeOK, Stages
  <2>5. UNCHANGED <<mode, main, limit, current, attempt, running, since, saved, cancelled,
                    threads, timeouts, restores>>
    BY <1>1 DEF Poll, StreamPoll
  <2> QED
    BY <2>1, <2>2, <2>3, <2>4, <2>5 DEF TypeInv, TypeOK, ThreadAlive, Stages
<1>2. ASSUME PollDone \/ StreamDone \/ PollCancelled \/ StreamCancelled PROVE TypeInv'
  BY <1>2 DEF PollDone, StreamDone, PollCancelled, StreamCancelled, Cancelled, BetweenRounds,
              TypeInv, TypeOK, ThreadAlive
<1>3. ASSUME SaveCheckpoint PROVE TypeInv'
  BY <1>3 DEF SaveCheckpoint, SavedState, TypeInv, TypeOK, ThreadAlive
<1>4. ASSUME NEW t \in Tasks, Advance(t) PROVE TypeInv'
  BY <1>4 DEF Advance, TypeInv, TypeOK, ThreadAlive
<1>5. ASSUME NEW t \in Tasks, Begin(t) PROVE TypeInv'
  BY <1>5, GraphAssumption DEF Begin, Yield, TypeInv, TypeOK, ThreadAlive, Statuses
<1>6. ASSUME NEW t \in Tasks, Block(t) PROVE TypeInv'
  <2>1. End(t, "blocked")
    BY <1>6 DEF Block
  <2> QED
    BY <1>6, <2>1, EndTyped DEF Block, TypeInv, TypeOK, ThreadAlive, Settled, Stages
<1>7. ASSUME NEW t \in Tasks, Try(t) PROVE TypeInv'
  <2>1. /\ threads' \in [Tasks -> Nat]
        /\ threads'[t] >= 1
        /\ \A u \in Tasks \ {t} : threads'[u] = threads[u]
    BY <1>7 DEF Try, TypeInv, TypeOK
  <2>2. /\ stage' \in [Tasks -> Stages]
        /\ \A u \in Tasks \ {t} : stage'[u] = stage[u]
    BY <1>7 DEF Try, TypeInv, TypeOK, Stages
  <2> QED
    BY <1>7, <2>1, <2>2 DEF Try, TypeInv, TypeOK, ThreadAlive, Stages
<1>8. ASSUME NEW t \in Tasks, Complete(t) PROVE TypeInv'
  <2>1. End(t, "completed")
    BY <1>8 DEF Complete
  <2>2. threads[t] \in Nat /\ threads[t] >= 1
    BY <1>8 DEF Complete, TypeInv, TypeOK, ThreadAlive
  <2>3. threads' \in [Tasks -> Nat]
    BY <1>8, <2>2 DEF Complete, TypeInv, TypeOK
  <2> QED
    BY <1>8, <2>1, <2>3, EndTyped DEF Complete, TypeInv, TypeOK, ThreadAlive, Settled, Stages
<1>9. ASSUME NEW t \in Tasks, Raise(t) PROVE TypeInv'
  <2>1. Retry(t)
    BY <1>9 DEF Raise
  <2>2. threads[t] \in Nat /\ threads[t] >= 1
    BY <1>9 DEF Raise, TypeInv, TypeOK, ThreadAlive
  <2>3. threads' \in [Tasks -> Nat]
    BY <1>9, <2>2 DEF Raise, TypeInv, TypeOK
  <2>4. ThreadAlive'
    BY <1>9, <2>1, RetryTyped DEF Raise, TypeInv, TypeOK, ThreadAlive
  <2> QED
    BY <1>9, <2>1, <2>3, <2>4, RetryTyped DEF Raise, TypeInv, TypeOK, Stages
<1>10. ASSUME NEW t \in Tasks, TimeOut(t) PROVE TypeInv'
  <2>1. Retry(t)
    BY <1>10 DEF TimeOut
  <2>2. ThreadAlive'
    BY <1>10, <2>1, RetryTyped DEF TimeOut, TypeInv, TypeOK, ThreadAlive
  <2> QED
    BY <1>10, <2>1, <2>2, RetryTyped DEF TimeOut, TypeInv, TypeOK, Stages
<1>11. ASSUME NEW t \in Tasks, LateEnd(t) PROVE TypeInv'
  <2> DEFINE waited == IF stage[t] = "attempt" THEN 1 ELSE 0
  <2>0. threads[t] \in Nat /\ threads[t] > waited
    BY <1>11 DEF LateEnd, TypeInv, TypeOK
  <2>1. threads[t] >= 1 /\ (stage[t] = "attempt" => threads[t] >= 2)
    BY <2>0
  <2>2. threads' \in [Tasks -> Nat]
    BY <1>11, <2>0, <2>1 DEF LateEnd, TypeInv, TypeOK
  <2>3. ThreadAlive'
    BY <1>11, <2>0, <2>1 DEF LateEnd, TypeInv, TypeOK, ThreadAlive
  <2> QED
    BY <1>11, <2>2, <2>3 DEF LateEnd, TypeInv, TypeOK
<1>12. ASSUME Cancel PROVE TypeInv'
  BY <1>12 DEF Cancel, TypeInv, TypeOK, ThreadAlive
<1>13. ASSUME Restore PROVE TypeInv'
  <2>1. 0 \in 0..MaxRetries /\ restores' \in 0..MaxRestores
    BY <1>13, GraphAssumption DEF Restore, TypeInv, TypeOK
  <2>2. status' \in [Tasks -> Statuses]
    BY <1>13 DEF Restore, TypeInv, TypeOK
  <2> QED
    BY <1>13, <2>1, <2>2 DEF Restore, TypeInv, TypeOK, ThreadAlive
<1>14. CASE UNCHANGED vars
  BY <1>14 DEF vars, TypeInv, TypeOK, ThreadAlive
<1> QED
  BY <1>1, <1>2, <1>3, <1>4, <1>5, <1>6, <1>7, <1>8, <1>9, <1>10, <1>11, <1>12, <1>13,
     <1>14 DEF Next, Loop, RunTask

\* Type correctness of the task graph, for any graph and limits: in particular a
\* runner thread is never taken off twice.
THEOREM GraphTypeCorrect == Spec => []TypeOK
<1>1. TypeInv => TypeOK
  BY DEF TypeInv
<1> QED
  BY <1>1, TypeInitially, TypePreserved, PTL DEF Spec

-----------------------------------------------------------------------------
(* Dependencies.  A coroutine has a task that is READY or RUNNING, so that *)
(* a completed task never changes its status again; and a checkpoint is in *)
(* order because the state it was taken of is.                             *)

InOrder(st) == \A t \in Tasks : st[t] # "pending" => \A d \in Deps[t] : st[d] = "completed"

LiveUnsettled == \A t \in Tasks : stage[t] # "none" => status[t] \in {"ready", "running"}

OrderInv ==
  /\ TypeInv
  /\ LiveUnsettled
  /\ InOrder(status)
  /\ saved # Nil => InOrder(saved)

\* The one status that changes is that of a task in the middle of its life:
\* nothing that depends on it has begun.
LEMMA OneChange ==
  ASSUME OrderInv, NEW t \in Tasks, status[t] \in {"ready", "running"},
         NEW s \in Statuses, status' = [status EXCEPT ![t] = s]
  PROVE  InOrder(status')
<1> SUFFICES ASSUME NEW u \in Tasks, status'[u] # "pending", NEW d \in Deps[u]
             PROVE  status'[d] = "completed"
  BY DEF InOrder
<1>1. d \in Tasks
  BY GraphAssumption
<1>2. status[u] # "pending"
  BY DEF OrderInv, TypeInv, TypeOK
<1>3. status[d] = "completed"
  BY <1>2 DEF OrderInv, InOrder
<1>4. d # t
  BY <1>3
<1> QED
  BY <1>1, <1>3, <1>4 DEF OrderInv, TypeInv, TypeOK

\* Ready tasks have completed dependencies, which no ready task is.
LEMMA ReadyInOrder == ASSUME OrderInv, MarkReady PROVE InOrder(status')
<1> SUFFICES ASSUME NEW u \in Tasks, status'[u] # "pending", NEW d \in Deps[u]
             PROVE  status'[d] = "completed"
  BY DEF InOrder
<1>1. d \in Tasks
  BY GraphAssumption
<1>2. status[d] = "completed"
  BY DEF MarkReady, Ready, OrderInv, InOrder, TypeInv, TypeOK
<1> QED
  BY <1>1, <1>2 DEF MarkReady, Ready, OrderInv, TypeInv, TypeOK

\* A task ends while it has a coroutine.
LEMMA EndInOrder ==
  ASSUME OrderInv, NEW t \in Tasks, stage[t] # "none", NEW s \in Settled, End(t, s)
  PROVE  InOrder(status') /\ LiveUnsettled'
<1>1. status[t] \in {"ready", "running"}
  BY DEF OrderInv, LiveUnsettled
<1>2. s \in Statuses
  BY DEF Statuses
<1>3. InOrder(status')
  BY <1>1, <1>2, OneChange DEF End
<1>4. LiveUnsettled'
  BY DEF End, OrderInv, LiveUnsettled, TypeInv, TypeOK
<1> QED BY <1>3, <1>4

\* A failed attempt ends the task, or leaves its status alone.
LEMMA RetryInOrder ==
  ASSUME OrderInv, NEW t \in Tasks, stage[t] = "attempt", Retry(t)
  PROVE  InOrder(status') /\ LiveUnsettled'
<1>1. CASE attempt[t] < MaxRetries
  BY <1>1 DEF Retry, OrderInv, LiveUnsettled, TypeInv, TypeOK
<1>2. CASE ~(attempt[t] < MaxRetries)
  BY <1>2, EndInOrder DEF Retry, Settled
<1> QED BY <1>1, <1>2

\* Every step keeps the order.
LEMMA OrderPreserved == OrderInv /\ [Next]_vars => OrderInv'
<1> SUFFICES ASSUME OrderInv, [Next]_vars PROVE OrderInv'
  OBVIOUS
<1> USE DEF taskVars, loopVars, saveVars
<1>0. TypeInv'
  BY TypePreserved DEF OrderInv
\* Unless a checkpoint is saved or restored, only status and stage matter.
<1>a. ASSUME InOrder(status'), LiveUnsettled', saved' = saved PROVE OrderInv'
  BY <1>0, <1>a DEF OrderInv
<1>1. ASSUME Poll \/ StreamPoll PROVE OrderInv'
  <2>1. MarkReady
    BY <1>1 DEF Poll, StreamPoll
  <2>2. PICK L \in SUBSET Ready : stage' = [t \in Tasks |-> IF t \in L THEN "created" ELSE stage[t]]
    BY <1>1 DEF Poll, StreamPoll
  <2>3. LiveUnsettled'
    BY <2>1, <2>2 DEF MarkReady, Ready, OrderInv, LiveUnsettled
  <2>4. saved' = saved
    BY <1>1 DEF Poll, StreamPoll
  <2> QED BY <2>1, <2>3, <2>4, ReadyInOrder, <1>a
<1>2. ASSUME PollDone \/ StreamDone \/ PollCancelled \/ StreamCancelled PROVE OrderInv'
  <2>1. status' = status /\ saved' = saved
    BY <1>2 DEF PollDone, StreamDone, PollCancelled, StreamCancelled
  <2>2. LiveUnsettled'
    BY <1>2, <2>1 DEF PollDone, StreamDone, PollCancelled, StreamCancelled, OrderInv, LiveUnsettled
  <2> QED BY <2>1, <2>2, <1>a DEF OrderInv
<1>3. ASSUME SaveCheckpoint PROVE OrderInv'
  BY <1>0, <1>3 DEF SaveCheckpoint, SavedState, OrderInv, LiveUnsettled
<1>4. ASSUME NEW t \in Tasks, Advance(t) \/ LateEnd(t) PROVE OrderInv'
  BY <1>4, <1>a DEF Advance, LateEnd, OrderInv, LiveUnsettled
<1>5. ASSUME NEW t \in Tasks, Begin(t) PROVE OrderInv'
  <2>1. status[t] \in {"ready", "running"}
    BY <1>5 DEF Begin, OrderInv, LiveUnsettled
  <2>2. InOrder(status')
    BY <1>5, <2>1, OneChange DEF Begin, Statuses
  <2>3. LiveUnsettled'
    BY <1>5 DEF Begin, OrderInv, LiveUnsettled, TypeInv, TypeOK
  <2> QED BY <1>5, <2>2, <2>3, <1>a DEF Begin
<1>6. ASSUME NEW t \in Tasks, Block(t) PROVE OrderInv'
  <2>1. End(t, "blocked") /\ stage[t] # "none" /\ saved' = saved
    BY <1>6 DEF Block
  <2> QED BY <2>1, EndInOrder, <1>a DEF Settled
<1>7. ASSUME NEW t \in Tasks, Try(t) PROVE OrderInv'
  <2>1. LiveUnsettled'
    BY <1>7 DEF Try, OrderInv, LiveUnsettled, TypeInv, TypeOK
  <2> QED BY <1>7, <2>1, <1>a DEF Try, OrderInv
<1>8. ASSUME NEW t \in Tasks, Complete(t) PROVE OrderInv'
  <2>1. End(t, "completed") /\ stage[t] # "none" /\ saved' = saved
    BY <1>8 DEF Complete
  <2> QED BY <2>1, EndInOrder, <1>a DEF Settled
<1>9. ASSUME NEW t \in Tasks, Raise(t) \/ TimeOut(t) PROVE OrderInv'
  <2>1. Retry(t) /\ stage[t] = "attempt" /\ saved' = saved
    BY <1>9 DEF Raise, TimeOut
  <2> QED BY <2>1, RetryInOrder, <1>a
<1>10. ASSUME Cancel PROVE OrderInv'
  BY <1>10, <1>a DEF Cancel, OrderInv, LiveUnsettled
<1>11. ASSUME Restore PROVE OrderInv'
  BY <1>0, <1>11 DEF Restore, OrderInv, LiveUnsettled
<1>12. CASE UNCHANGED vars
  BY <1>12, <1>a DEF vars, OrderInv, LiveUnsettled
<1> QED
  BY <1>1, <1>2, <1>3, <1>4, <1>5, <1>6, <1>7, <1>8, <1>9, <1>10, <1>11, <1>12
  DEF Next, Loop, RunTask

\* A new graph has begun nothing.
LEMMA OrderInitially == Init => OrderInv
<1> SUFFICES ASSUME Init PROVE OrderInv
  OBVIOUS
<1>1. InOrder(status) /\ LiveUnsettled /\ saved = Nil
  BY DEF Init, InOrder, LiveUnsettled
<1> QED BY <1>1, TypeInitially DEF OrderInv

\* In no graph, with any limits, failures, timeouts, cancellations and restores,
\* is a task made ready or run before all it depends on has completed.
THEOREM NeverBeforeDependencies == Spec => []DependenciesRespected
<1>1. OrderInv => DependenciesRespected
  BY DEF OrderInv, InOrder, DependenciesRespected
<1> QED
  BY <1>1, OrderInitially, OrderPreserved, PTL DEF Spec

-----------------------------------------------------------------------------
(* "All tasks completed".  A RUNNING task is one of _running_tasks, or was *)
(* RUNNING in a checkpoint; and a loop that is done has no coroutine left. *)

Begun == {"begun", "attempt", "backoff"}

RunningListed ==
  \A t \in Tasks :
    /\ stage[t] \in Begun => t \in running /\ status[t] = "running"
    /\ status[t] = "running" => t \in running \/ restores > 0

NoneLiveWhenDone == main = "done" => \A t \in Tasks : stage[t] = "none"

DoneInv == OrderInv /\ RunningListed /\ NoneLiveWhenDone /\ DoneMeansSettled

\* What ends, ends while the loop polls, and is no more on the list.
LEMMA EndListed ==
  ASSUME DoneInv, NEW t \in Tasks, stage[t] # "none", NEW s \in Settled, End(t, s),
         main' = main, restores' = restores
  PROVE  RunningListed' /\ main' # "done"
<1>1. main # "done"
  BY DEF DoneInv, NoneLiveWhenDone
<1>2. s # "running"
  BY DEF Settled
<1> QED
  BY <1>1, <1>2 DEF End, DoneInv, OrderInv, RunningListed, TypeInv, TypeOK, Begun

\* After a failed attempt a task ends or goes on running.
LEMMA RetryListed ==
  ASSUME DoneInv, NEW t \in Tasks, stage[t] = "attempt", Retry(t),
         main' = main, restores' = restores
  PROVE  RunningListed' /\ main' # "done"
<1>1. CASE attempt[t] < MaxRetries
  BY <1>1 DEF Retry, DoneInv, OrderInv, RunningListed, NoneLiveWhenDone, TypeInv, TypeOK, Begun
<1>2. CASE ~(attempt[t] < MaxRetries)
  BY <1>2, EndListed DEF Retry, Settled
<1> QED BY <1>1, <1>2

\* Every step keeps the invariant.
LEMMA DonePreserved == DoneInv /\ [Next]_vars => DoneInv'
<1> SUFFICES ASSUME DoneInv, [Next]_vars PROVE DoneInv'
  OBVIOUS
<1> USE DEF taskVars, loopVars, saveVars
<1>0. OrderInv'
  BY OrderPreserved DEF DoneInv
<1>a. ASSUME RunningListed', main' # "done" PROVE DoneInv'
  BY <1>0, <1>a DEF DoneInv, NoneLiveWhenDone, DoneMeansSettled
\* Neither the loop's end nor a task's life is touched.
<1>b. ASSUME main' = main, status' = status, stage' = stage, running' = running,
             restores' = restores
      PROVE  DoneInv'
  BY <1>0, <1>b DEF DoneInv, RunningListed, NoneLiveWhenDone, DoneMeansSettled
<1>1. ASSUME Poll \/ StreamPoll PROVE DoneInv'
  <2>1. main' # "done"
    BY <1>1 DEF Poll, StreamPoll, BetweenRounds
  <2>2. PICK L \in SUBSET Ready : stage' = [t \in Tasks |-> IF t \in L THEN "created" ELSE stage[t]]
    BY <1>1 DEF Poll, StreamPoll
  <2>3. MarkReady /\ running' = running /\ restores' = restores
    BY <1>1 DEF Poll, StreamPoll
  <2>4. RunningListed'
    BY <2>2, <2>3 DEF MarkReady, Ready, DoneInv, RunningListed, Begun
  <2> QED BY <2>1, <2>4, <1>a
<1>2. ASSUME PollDone PROVE DoneInv'
  <2>1. /\ At("created") = {} /\ running = {}
        /\ \A t \in Tasks : status[t] \notin {"pending", "ready"}
        /\ UNCHANGED <<status, stage, running, restores>>
    BY <1>2 DEF PollDone
  <2>2. \A t \in Tasks : stage[t] = "none"
    BY <2>1 DEF At, DoneInv, OrderInv, RunningListed, TypeInv, TypeOK, Begun
  <2>3. \A t \in Tasks : status[t] \in Settled \/ (restores > 0 /\ status[t] = "running")
    BY <2>1 DEF DoneInv, OrderInv, RunningListed, TypeInv, TypeOK, Statuses
  <2> QED
    BY <1>0, <2>1, <2>2, <2>3 DEF DoneInv, RunningListed, NoneLiveWhenDone, DoneMeansSettled
<1>3. ASSUME StreamDone PROVE DoneInv'
  <2>1. /\ Live = {}
        /\ \A t \in Tasks : status[t] \in Settled
        /\ UNCHANGED <<status, stage, running, restores>>
    BY <1>3 DEF StreamDone
  <2>2. \A t \in Tasks : stage[t] = "none"
    BY <2>1 DEF Live, At
  <2> QED
    BY <1>0, <2>1, <2>2 DEF DoneInv, RunningListed, NoneLiveWhenDone, DoneMeansSettled
<1>4. ASSUME PollCancelled \/ StreamCancelled PROVE DoneInv'
  <2>1. main' # "done"
    BY <1>4 DEF PollCancelled, StreamCancelled, Cancelled
  <2>2. RunningListed'
    BY <1>4 DEF PollCancelled, StreamCancelled, DoneInv, RunningListed, Begun
  <2> QED BY <2>1, <2>2, <1>a
<1>5. ASSUME SaveCheckpoint \/ Cancel PROVE DoneInv'
  BY <1>5, <1>b DEF SaveCheckpoint, Cancel
<1>6. ASSUME NEW t \in Tasks, Advance(t) \/ LateEnd(t) PROVE DoneInv'
  BY <1>6, <1>b DEF Advance, LateEnd
<1>7. ASSUME NEW t \in Tasks, Begin(t) PROVE DoneInv'
  <2>1. main' # "done"
    BY <1>7 DEF Begin, DoneInv, NoneLiveWhenDone
  <2>2. RunningListed'
    BY <1>7 DEF Begin, DoneInv, OrderInv, RunningListed, TypeInv, TypeOK, Begun
  <2> QED BY <2>1, <2>2, <1>a
<1>8. ASSUME NEW t \in Tasks, Block(t) PROVE DoneInv'
  <2>1. End(t, "blocked") /\ stage[t] # "none" /\ UNCHANGED <<main, restores>>
    BY <1>8 DEF Block
  <2> QED BY <2>1, EndListed, <1>a DEF Settled
<1>9. ASSUME NEW t \in Tasks, Try(t) PROVE DoneInv'
  <2>1. main' # "done"
    BY <1>9 DEF Try, DoneInv, NoneLiveWhenDone
  <2>2. RunningListed'
    BY <1>9 DEF Try, DoneInv, OrderInv, RunningListed, TypeInv, TypeOK, Begun
  <2> QED BY <2>1, <2>2, <1>a
<1>10. ASSUME NEW t \in Tasks, Complete(t) PROVE DoneInv'
  <2>1. End(t, "completed") /\ stage[t] # "none" /\ UNCHANGED <<main, restores>>
    BY <1>10 DEF Complete
  <2> QED BY <2>1, EndListed, <1>a DEF Settled
<1>11. ASSUME NEW t \in Tasks, Raise(t) \/ TimeOut(t) PROVE DoneInv'
  <2>1. Retry(t) /\ stage[t] = "attempt" /\ UNCHANGED <<main, restores>>
    BY <1>11 DEF Raise, TimeOut
  <2> QED BY <2>1, RetryListed, <1>a
<1>12. ASSUME Restore PROVE DoneInv'
  <2>1. main' # "done" /\ restores' > 0
    BY <1>12 DEF Restore, DoneInv, OrderInv, TypeInv, TypeOK
  <2>2. RunningListed'
    BY <1>12, <2>1 DEF Restore, RunningListed, Begun
  <2> QED BY <2>1, <2>2, <1>a
<1>13. CASE UNCHANGED vars
  BY <1>13, <1>b DEF vars
<1> QED
  BY <1>1, <1>2, <1>3, <1>4, <1>5, <1>6, <1>7, <1>8, <1>9, <1>10, <1>11, <1>12, <1>13
  DEF Next, Loop, RunTask

\* In a new graph nothing runs and nothing is done.
LEMMA DoneInitially == Init => DoneInv
<1> SUFFICES ASSUME Init PROVE DoneInv
  OBVIOUS
<1>1. RunningListed /\ NoneLiveWhenDone /\ DoneMeansSettled
  BY DEF Init, RunningListed, NoneLiveWhenDone, DoneMeansSettled, Begun
<1> QED BY <1>1, OrderInitially DEF DoneInv

\* "All tasks completed" is only said of settled tasks, and of those a restored
\* graph had as RUNNING, for any graph, limits, failures and restores.
THEOREM DoneIsSettled == Spec => []DoneMeansSettled
<1>1. DoneInv => DoneMeansSettled
  BY DEF DoneInv
<1> QED
  BY <1>1, DoneInitially, DonePreserved, PTL DEF Spec

-----------------------------------------------------------------------------
(* The bounds on coroutines and runner threads.  execute counts the tasks  *)
(* in _running_tasks, which are all its coroutines once those it created   *)
(* have begun; streaming counts the generators.                            *)

LiveBounded == Cardinality(Live) <= limit

OneThreadEach ==
  ~timeouts => \A t \in Tasks : threads[t] = IF stage[t] = "attempt" THEN 1 ELSE 0

\* In streaming only the generator that was asked to can be in an attempt.
InTurn == mode = "streaming" => \A t \in Tasks : stage[t] = "attempt" => current = t

BoundInv == DoneInv /\ LiveBounded /\ OneThreadEach /\ InTurn

\* Sets of tasks are finite, and limits are numbers.
LEMMA FiniteTasks ==
  ASSUME NEW S \in SUBSET Tasks
  PROVE  IsFiniteSet(S) /\ Cardinality(S) \in Nat
  BY GraphAssumption, FS_Subset, FS_CardinalityType

LEMMA LimitTyped == TypeInv => limit \in Nat
  BY GraphAssumption DEF TypeInv, TypeOK

\* Coroutines end.
LEMMA LiveShrinks ==
  ASSUME BoundInv, limit' = limit,
         \A t \in Tasks : stage'[t] # "none" => stage[t] # "none"
  PROVE  LiveBounded'
<1>1. Live' \subseteq Live /\ Live \subseteq Tasks /\ Live' \subseteq Tasks
  BY DEF Live, At
<1>2. /\ IsFiniteSet(Live) /\ Cardinality(Live) \in Nat
      /\ Cardinality(Live') \in Nat /\ Cardinality(Live') <= Cardinality(Live)
  BY <1>1, FiniteTasks, FS_Subset
<1>3. limit \in Nat
  BY LimitTyped DEF BoundInv, DoneInv, OrderInv
<1> QED
  BY <1>2, <1>3 DEF BoundInv, LiveBounded

\* Coroutines are made, beside n others at least.
LEMMA LiveGrows ==
  ASSUME BoundInv, limit' = limit,
         NEW L \in SUBSET Ready, Live' = Live \union L,
         NEW n \in Nat, Cardinality(Live) <= n, Launched(n, L)
  PROVE  LiveBounded'
<1>1. Live \subseteq Tasks /\ L \subseteq Tasks /\ Ready \subseteq Tasks
  BY DEF Live, Ready
<1>2. /\ IsFiniteSet(Live) /\ Cardinality(Live) \in Nat
      /\ IsFiniteSet(L) /\ Cardinality(L) \in Nat
      /\ IsFiniteSet(Ready) /\ Cardinality(Ready) \in Nat
  BY <1>1, FiniteTasks
<1>3. limit \in Nat
  BY LimitTyped DEF BoundInv, DoneInv, OrderInv
<1>4. CASE n < limit
  <2>0. Cardinality(L) = IF Cardinality(Ready) <= limit - n THEN Cardinality(Ready) ELSE limit - n
    BY <1>4 DEF Launched
  <2>a. limit - n \in Nat
    BY <1>3, <1>4
  <2>1. Cardinality(L) <= limit - n
    <3>1. CASE Cardinality(Ready) <= limit - n
      <4>1. Cardinality(L) = Cardinality(Ready)
        BY <2>0, <3>1
      <4> QED BY <4>1, <3>1
    <3>2. CASE ~(Cardinality(Ready) <= limit - n)
      <4>1. Cardinality(L) = limit - n
        BY <2>0, <3>2
      <4> QED BY <4>1, <2>a
    <3> QED BY <3>1, <3>2
  <2>2. Live \intersect L \subseteq Tasks
    BY <1>1
  <2>3. Cardinality(Live \intersect L) \in Nat
    BY <2>2, FiniteTasks
  <2>b. Cardinality(Live \union L)
          = Cardinality(Live) + Cardinality(L) - Cardinality(Live \intersect L)
    BY <1>2, FS_Union
  <2>4. Cardinality(Live \union L) <= Cardinality(Live) + Cardinality(L)
    BY <1>2, <2>3, <2>b
  <2>5. Live \union L \subseteq Tasks
    BY <1>1
  <2>6. Cardinality(Live \union L) \in Nat
    BY <2>5, FiniteTasks
  <2>7. Cardinality(L) + n <= limit
    BY <1>2, <1>3, <1>4, <2>1
  <2>8. Cardinality(Live \union L) <= n + Cardinality(L)
    BY <1>2, <2>4, <2>6, <2>3
  <2>9. Cardinality(Live \union L) <= limit
    BY <1>2, <1>3, <2>6, <2>7, <2>8
  <2> QED
    BY <2>9 DEF LiveBounded
<1>5. CASE ~(n < limit)
  <2>1. Cardinality(L) = 0
    BY <1>2, <1>5 DEF Launched
  <2>2. L = {}
    BY <1>2, <2>1, FS_EmptySet
  <2> QED
    BY <2>2 DEF BoundInv, LiveBounded
<1> QED BY <1>4, <1>5

\* A coroutine ends when it has the turn, which it gives up.
LEMMA EndBounded ==
  ASSUME BoundInv, NEW t \in Tasks, stage[t] # "none", Resumed(t),
         NEW s \in Settled, End(t, s),
         limit' = limit, mode' = mode
  PROVE  LiveBounded' /\ InTurn'
<1>1. \A u \in Tasks : stage'[u] # "none" => stage[u] # "none"
  BY DEF End, BoundInv, DoneInv, OrderInv, TypeInv, TypeOK
<1>2. \A u \in Tasks : stage'[u] = "attempt" => stage[u] = "attempt" /\ u # t
  BY DEF End, BoundInv, DoneInv, OrderInv, TypeInv, TypeOK
<1>3. InTurn'
  BY <1>2 DEF BoundInv, InTurn, Resumed
<1> QED
  BY <1>1, <1>3, LiveShrinks

\* So does one whose attempt failed.
LEMMA RetryBounded ==
  ASSUME BoundInv, NEW t \in Tasks, stage[t] = "attempt", Retry(t),
         limit' = limit, mode' = mode
  PROVE  LiveBounded' /\ InTurn'
<1>0. Resumed(t)
  BY DEF Resumed, BoundInv, InTurn
<1>1. CASE attempt[t] < MaxRetries
  <2>1. stage' = [stage EXCEPT ![t] = "backoff"]
    BY <1>1 DEF Retry
  <2>2. \A u \in Tasks : stage'[u] # "none" => stage[u] # "none"
    BY <2>1 DEF BoundInv, DoneInv, OrderInv, TypeInv, TypeOK
  <2>3. \A u \in Tasks : stage'[u] = "attempt" => stage[u] = "attempt" /\ u # t
    BY <2>1 DEF BoundInv, DoneInv, OrderInv, TypeInv, TypeOK
  <2>4. InTurn'
    BY <1>0, <2>3 DEF BoundInv, InTurn, Resumed
  <2> QED BY <2>2, <2>4, LiveShrinks
<1>2. CASE ~(attempt[t] < MaxRetries)
  BY <1>0, <1>2, EndBounded DEF Retry, Settled
<1> QED BY <1>1, <1>2

\* An attempt that ends with its thread leaves one thread for each other.
LEMMA ThreadTakenOff ==
  ASSUME BoundInv, NEW t \in Tasks, stage[t] = "attempt",
         NEW s \in Stages \ {"attempt"}, stage' = [stage EXCEPT ![t] = s],
         threads' = [threads EXCEPT ![t] = @ - 1], timeouts' = timeouts
  PROVE  OneThreadEach'
<1> SUFFICES ASSUME ~timeouts, NEW u \in Tasks
             PROVE  threads'[u] = IF stage'[u] = "attempt" THEN 1 ELSE 0
  BY DEF OneThreadEach
<1>1. threads[u] = IF stage[u] = "attempt" THEN 1 ELSE 0
  BY DEF BoundInv, OneThreadEach
<1>2. CASE u = t
  BY <1>1, <1>2 DEF BoundInv, DoneInv, OrderInv, TypeInv, TypeOK
<1>3. CASE u # t
  BY <1>1, <1>3 DEF BoundInv, DoneInv, OrderInv, TypeInv, TypeOK
<1> QED BY <1>2, <1>3

\* Every step keeps the bounds.
LEMMA BoundPreserved == BoundInv /\ [Next]_vars => BoundInv'
<1> SUFFICES ASSUME BoundInv, [Next]_vars PROVE BoundInv'
  OBVIOUS
<1> USE DEF taskVars, loopVars, saveVars
<1>0. DoneInv'
  BY DonePreserved DEF BoundInv
\* No coroutine and no thread is touched, and the turn is not taken away.
<1>a. ASSUME limit' = limit, mode' = mode, stage' = stage, threads' = threads,
             timeouts' = timeouts, current' = current \/ current = Nil
      PROVE  BoundInv'
  <2>1. LiveBounded'
    BY <1>a, LiveShrinks
  <2>2. OneThreadEach' /\ InTurn'
    BY <1>a, GraphAssumption DEF BoundInv, OneThreadEach, InTurn
  <2> QED BY <1>0, <2>1, <2>2 DEF BoundInv
<1>1. ASSUME Poll \/ StreamPoll PROVE BoundInv'
  <2>1. PICK L \in SUBSET Ready :
          /\ stage' = [t \in Tasks |-> IF t \in L THEN "created" ELSE stage[t]]
          /\ \/ Launched(Cardinality(running), L) /\ At("created") = {}
             \/ Launched(Cardinality(Live), L)
    BY <1>1 DEF Poll, StreamPoll
  <2>2. UNCHANGED <<mode, limit, current, threads, timeouts>>
    BY <1>1 DEF Poll, StreamPoll
  <2>3. \A t \in L : t \in Tasks /\ stage[t] = "none"
    BY DEF Ready, BoundInv, DoneInv, OrderInv, LiveUnsettled
  <2>4. Live' = Live \union L
    BY <2>1, <2>3 DEF Live, At, BoundInv, DoneInv, OrderInv, TypeInv, TypeOK
  <2>5. Live \subseteq Tasks /\ Cardinality(Live) \in Nat
    BY FiniteTasks DEF Live
  <2>6. running \subseteq Tasks /\ IsFiniteSet(running) /\ Cardinality(running) \in Nat
    BY FiniteTasks DEF BoundInv, DoneInv, OrderInv, TypeInv, TypeOK
  <2>7. LiveBounded'
    <3>1. CASE Launched(Cardinality(Live), L)
      BY <2>2, <2>4, <2>5, <3>1, LiveGrows
    <3>2. CASE Launched(Cardinality(running), L) /\ At("created") = {}
      <4>1. Live \subseteq running
        BY <3>2 DEF Live, At, BoundInv, DoneInv, OrderInv, RunningListed, TypeInv, TypeOK, Begun
      <4>2. Cardinality(Live) <= Cardinality(running)
        BY <2>6, <4>1, FS_Subset
      <4> QED BY <2>2, <2>4, <2>6, <3>2, <4>2, LiveGrows
    <3> QED BY <2>1, <3>1, <3>2
  <2>8. OneThreadEach' /\ InTurn'
    BY <2>1, <2>2, <2>3 DEF BoundInv, OneThreadEach, InTurn
  <2> QED BY <1>0, <2>7, <2>8 DEF BoundInv
<1>2. ASSUME PollDone \/ StreamDone \/ PollCancelled PROVE BoundInv'
  BY <1>2, <1>a DEF PollDone, StreamDone, PollCancelled
<1>3. ASSUME StreamCancelled PROVE BoundInv'
  <2>1. UNCHANGED <<mode, limit, current, threads, timeouts>> /\ mode = "streaming" /\ current = Nil
    BY <1>3 DEF StreamCancelled, BetweenRounds
  <2>2. \A t \in Tasks : stage[t] # "attempt" /\ stage'[t] = "none"
    BY <1>3, <2>1, GraphAssumption DEF StreamCancelled, BoundInv, InTurn
  <2>3. LiveBounded'
    BY <2>1, <2>2, LiveShrinks
  <2>4. OneThreadEach' /\ InTurn'
    BY <2>1, <2>2 DEF BoundInv, OneThreadEach, InTurn
  <2> QED BY <1>0, <2>3, <2>4 DEF BoundInv
<1>4. ASSUME SaveCheckpoint \/ Cancel PROVE BoundInv'
  BY <1>4, <1>a DEF SaveCheckpoint, Cancel
<1>5. ASSUME NEW t \in Tasks, Advance(t) PROVE BoundInv'
  BY <1>5, <1>a DEF Advance
<1>6. ASSUME NEW t \in Tasks, Begin(t) PROVE BoundInv'
  <2>1. /\ stage[t] = "created" /\ Resumed(t)
        /\ stage' = [stage EXCEPT ![t] = "begun"]
        /\ UNCHANGED <<mode, limit, threads, timeouts>>
    BY <1>6 DEF Begin
  <2>2. \A u \in Tasks : /\ stage'[u] # "none" => stage[u] # "none"
                         /\ stage'[u] = "attempt" <=> stage[u] = "attempt"
                         /\ stage'[u] = "attempt" => u # t
    BY <2>1 DEF BoundInv, DoneInv, OrderInv, TypeInv, TypeOK
  <2>3. LiveBounded'
    BY <2>1, <2>2, LiveShrinks
  <2>4. OneThreadEach' /\ InTurn'
    BY <2>1, <2>2 DEF BoundInv, OneThreadEach, InTurn, Resumed
  <2> QED BY <1>0, <2>3, <2>4 DEF BoundInv
<1>7. ASSUME NEW t \in Tasks, Block(t) PROVE BoundInv'
  <2>1. /\ End(t, "blocked") /\ Resumed(t) /\ stage[t] # "none"
        /\ (stage[t] # "attempt" /\ UNCHANGED timeouts) \/ timeouts'
        /\ UNCHANGED <<mode, limit, threads>>
    BY <1>7 DEF Block
  <2>2. LiveBounded' /\ InTurn'
    BY <2>1, EndBounded DEF Settled
  <2>3. OneThreadEach'
    BY <2>1 DEF End, BoundInv, OneThreadEach, DoneInv, OrderInv, TypeInv, TypeOK
  <2> QED BY <1>0, <2>2, <2>3 DEF BoundInv
<1>8. ASSUME NEW t \in Tasks, Try(t) PROVE BoundInv'
  <2>1. /\ stage[t] \in {"begun", "backoff"} /\ Resumed(t)
        /\ stage' = [stage EXCEPT ![t] = "attempt"]
        /\ threads' = [threads EXCEPT ![t] = @ + 1]
        /\ UNCHANGED <<mode, limit, current, timeouts>>
    BY <1>8 DEF Try
  <2>2. \A u \in Tasks : stage'[u] # "none" => stage[u] # "none"
    BY <2>1 DEF BoundInv, DoneInv, OrderInv, TypeInv, TypeOK
  <2>3. LiveBounded'
    BY <2>1, <2>2, LiveShrinks
  <2>4. OneThreadEach'
    BY <2>1 DEF BoundInv, OneThreadEach, DoneInv, OrderInv, TypeInv, TypeOK
  <2>5. InTurn'
    BY <2>1 DEF BoundInv, InTurn, Resumed, DoneInv, OrderInv, TypeInv, TypeOK
  <2> QED BY <1>0, <2>3, <2>4, <2>5 DEF BoundInv
<1>9. ASSUME NEW t \in Tasks, Complete(t) PROVE BoundInv'
  <2>1. /\ End(t, "completed") /\ stage[t] = "attempt"
        /\ threads' = [threads EXCEPT ![t] = @ - 1]
        /\ UNCHANGED <<mode, limit, timeouts>>
    BY <1>9 DEF Complete
  <2>2. Resumed(t)
    BY <2>1 DEF Resumed, BoundInv, InTurn
  <2>3. LiveBounded' /\ InTurn'
    BY <2>1, <2>2, EndBounded DEF Settled
  <2>4. OneThreadEach'
    BY <2>1, ThreadTakenOff DEF End, Stages
  <2> QED BY <1>0, <2>3, <2>4 DEF BoundInv
<1>10. ASSUME NEW t \in Tasks, Raise(t) PROVE BoundInv'
  <2>1. /\ Retry(t) /\ stage[t] = "attempt"
        /\ threads' = [threads EXCEPT ![t] = @ - 1]
        /\ UNCHANGED <<mode, limit, timeouts>>
    BY <1>10 DEF Raise
  <2>2. LiveBounded' /\ InTurn'
    BY <2>1, RetryBounded
  <2>3. PICK s \in Stages \ {"attempt"} : stage' = [stage EXCEPT ![t] = s]
    BY <2>1, RetryTyped DEF BoundInv, DoneInv, OrderInv
  <2>4. OneThreadEach'
    BY <2>1, <2>3, ThreadTakenOff
  <2> QED BY <1>0, <2>2, <2>4 DEF BoundInv
<1>11. ASSUME NEW t \in Tasks, TimeOut(t) PROVE BoundInv'
  <2>1. Retry(t) /\ stage[t] = "attempt" /\ timeouts' /\ UNCHANGED <<mode, limit>>
    BY <1>11 DEF TimeOut
  <2>2. LiveBounded' /\ InTurn'
    BY <2>1, RetryBounded
  <2> QED BY <1>0, <2>1, <2>2 DEF BoundInv, OneThreadEach
<1>12. ASSUME NEW t \in Tasks, LateEnd(t) PROVE BoundInv'
  <2>1. /\ threads[t] > IF stage[t] = "attempt" THEN 1 ELSE 0
        /\ UNCHANGED <<mode, limit, stage, current, timeouts>>
    BY <1>12 DEF LateEnd
  <2>2. LiveBounded'
    BY <2>1, LiveShrinks
  <2>3. timeouts
    BY <2>1 DEF BoundInv, OneThreadEach, DoneInv, OrderInv, TypeInv, TypeOK
  <2>4. OneThreadEach' /\ InTurn'
    BY <2>1, <2>3 DEF BoundInv, OneThreadEach, InTurn
  <2> QED BY <1>0, <2>2, <2>4 DEF BoundInv
<1>13. ASSUME Restore PROVE BoundInv'
  <2>1. /\ limit' = DefaultParallel /\ stage' = [t \in Tasks |-> "none"]
        /\ threads' = [t \in Tasks |-> 0]
    BY <1>13 DEF Restore
  <2>2. Live' = {}
    BY <2>1 DEF Live, At
  <2>3. LiveBounded'
    BY <2>1, <2>2, FS_EmptySet, GraphAssumption DEF LiveBounded
  <2>4. OneThreadEach' /\ InTurn'
    BY <2>1 DEF OneThreadEach, InTurn
  <2> QED BY <1>0, <2>3, <2>4 DEF BoundInv
<1>14. CASE UNCHANGED vars
  BY <1>14, <1>a DEF vars
<1> QED
  BY <1>1, <1>2, <1>3, <1>4, <1>5, <1>6, <1>7, <1>8, <1>9, <1>10, <1>11, <1>12, <1>13,
     <1>14 DEF Next, Loop, RunTask

\* A new graph has neither coroutines nor threads.
LEMMA BoundInitially == Init => BoundInv
<1> SUFFICES ASSUME Init PROVE BoundInv
  OBVIOUS
<1>1. Live = {} /\ limit \in Nat
  BY GraphAssumption DEF Init, Live, At
<1>2. LiveBounded
  BY <1>1, FS_EmptySet DEF LiveBounded
<1>3. OneThreadEach /\ InTurn
  BY DEF Init, OneThreadEach, InTurn
<1> QED BY <1>2, <1>3, DoneInitially DEF BoundInv

\* What the invariant says of one attempt at a time.
LEMMA BoundImplies == BoundInv => RunnersBounded
<1> SUFFICES ASSUME BoundInv PROVE RunnersBounded
  OBVIOUS
<1>1. ASSUME mode = "streaming" PROVE Cardinality(At("attempt")) <= 1
  <2>1. At("attempt") \subseteq {current} /\ At("attempt") \subseteq Tasks
    BY <1>1 DEF At, BoundInv, InTurn
  <2>2. IsFiniteSet({current}) /\ Cardinality({current}) = 1
    BY FS_Singleton
  <2>3. Cardinality(At("attempt")) <= Cardinality({current})
    BY <2>1, <2>2, FS_Subset
  <2> QED BY <2>2, <2>3
<1> QED
  BY <1>1 DEF RunnersBounded, BoundInv, LiveBounded, OneThreadEach

\* No more coroutines than max_parallel, one thread per attempt until the first
\* timeout, and in streaming one attempt altogether: for any graph, limits,
\* retries, cancellations and restores.
THEOREM NeverMoreRunners == Spec => []RunnersBounded
  BY BoundInitially, BoundPreserved, BoundImplies, PTL DEF Spec
=============================================================================
