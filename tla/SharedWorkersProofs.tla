------------------------ MODULE SharedWorkersProofs -------------------------
(***************************************************************************)
(* Theorems about the parts of Shared that hand out work: the DAG          *)
(* callbacks, the worktrees and the plan dispatch, for any processes and   *)
(* any values of the bounds; and the types of all parts of Shared.         *)
(***************************************************************************)
EXTENDS SharedCommandsProofs

-----------------------------------------------------------------------------
(* The DAG callbacks.                                                      *)

\* What a call may hold of the state.
CallUses == [state : Dag!States, batch : SUBSET Nodes, ended : SUBSET Nodes]

\* Types of the state file, the calls under way and the history.
CallsTyped ==
  /\ dagFile \in {Nil, Torn, Mangled} \union Dag!States
  /\ using \in [Procs -> {Nil} \union CallUses]
  /\ handed \in [Nodes -> Nat]
  /\ finished \in SUBSET Nodes
  /\ uses \in 0..MaxUses

\* The flags of the history are such.
CallFlags == crossed \in BOOLEAN /\ unsaved \in BOOLEAN /\ overlooked \in BOOLEAN

\* A state that does not know more than what is done: a task that left "pending"
\* has all it needs, and what is complete was reported.
DagSound(tasks, done) == \A t \in Nodes :
  /\ tasks[t].status = "complete" => t \in done
  /\ tasks[t].status # "pending" => Needs[t] \subseteq done

\* The state in the file and in every call is sound, and a task was handed out after
\* what it needs.
CallsSound ==
  /\ dagFile \in Dag!States => DagSound(dagFile, finished)
  /\ \A p \in Procs : using[p] # Nil =>
       /\ DagSound(using[p].state, finished \union using[p].ended)
       /\ \A t \in using[p].batch : Needs[t] \subseteq finished
  /\ \A t \in Nodes : handed[t] > 0 => Needs[t] \subseteq finished

\* The statuses of a task that may still be handed out.
Unfinished == {"absent", "pending", "ready"}

\* While no call overlaps another, fails or overlooks the state: what was handed out is
\* no longer open.
CallsOnceParts ==
  /\ \A p, q \in Procs : using[p] # Nil /\ using[q] # Nil => p = q
  /\ dagFile \notin {Torn, Mangled}
  /\ \A t \in Nodes : handed[t] > 0 =>
       /\ handed[t] = 1
       /\ dagFile \in Dag!States /\ dagFile[t].status \notin Unfinished
       /\ \A p \in Procs : using[p] # Nil => t \notin using[p].batch
            /\ using[p].state[t].status \notin Unfinished
  /\ \A p \in Procs : using[p] # Nil =>
       \A t \in using[p].batch : using[p].state[t].status \notin Unfinished

\* While no two calls overlap and every one reads and saves, each task is handed out once.
CallsOnce == ~crossed /\ ~unsaved /\ ~overlooked => CallsOnceParts

\* The inductive invariant of the callbacks.
CallsInv == CallsTyped /\ CallFlags /\ CallsSound /\ CallsOnce

-----------------------------------------------------------------------------

\* What the names of the model are told from.
LEMMA CallsValues ==
  /\ Nil \notin Dag!States /\ Torn \notin Dag!States /\ Mangled \notin Dag!States
  /\ MaxUses \in Nat /\ MaxTries \in Nat
<1>1. Nil \notin Dag!States /\ Torn \notin Dag!States /\ Mangled \notin Dag!States
  BY ValuesAssumption
<1>2. MaxUses \in Nat /\ MaxTries \in Nat
  BY BoundsAssumption
<1> QED BY <1>1, <1>2

\* MarkReady only opens what has all it needs.
LEMMA MarkReadySound ==
  ASSUME NEW tasks \in Dag!States, NEW done, DagSound(tasks, done)
  PROVE  /\ Dag!MarkReady(tasks) \in Dag!States
         /\ DagSound(Dag!MarkReady(tasks), done)
         /\ \A t \in Nodes : tasks[t].status \notin Unfinished =>
              Dag!MarkReady(tasks)[t].status \notin Unfinished
<1> DEFINE marked == Dag!MarkReady(tasks)
<1>1. \A t \in Nodes : marked[t] = IF tasks[t].status = "pending" /\ Dag!IsReady(t, tasks)
                                   THEN [tasks[t] EXCEPT !.status = "ready"] ELSE tasks[t]
  BY DEF Dag!MarkReady
<1>2. \A t \in Nodes : tasks[t] \in [status : Dag!Statuses, tries : 0..MaxTries]
  BY DEF Dag!States
<1>3. \A t \in Nodes : marked[t] \in [status : Dag!Statuses, tries : 0..MaxTries]
  BY <1>1, <1>2 DEF Dag!Statuses
<1>4. marked \in Dag!States
  BY <1>3 DEF Dag!States, Dag!MarkReady
<1>5. ASSUME NEW t \in Nodes
      PROVE /\ marked[t].status = "complete" => t \in done
            /\ marked[t].status # "pending" => Needs[t] \subseteq done
            /\ tasks[t].status \notin Unfinished => marked[t].status \notin Unfinished
  <2>1. CASE tasks[t].status = "pending" /\ Dag!IsReady(t, tasks)
    <3>1. marked[t].status = "ready"
      BY <2>1, <1>1, <1>2
    <3>2. Needs[t] \subseteq done
      BY <2>1, NeedsAssumption DEF Dag!IsReady, DagSound
    <3> QED BY <3>1, <3>2, <2>1 DEF Unfinished
  <2>2. CASE ~(tasks[t].status = "pending" /\ Dag!IsReady(t, tasks))
    BY <2>2, <1>1 DEF DagSound
  <2> QED BY <2>1, <2>2
<1> QED BY <1>4, <1>5 DEF DagSound

\* Setting the status of tasks that have all they need.
LEMMA SettingSound ==
  ASSUME NEW tasks \in Dag!States, NEW done, NEW more, DagSound(tasks, done),
         NEW ts \in SUBSET Nodes, NEW status \in Dag!Statuses, status \notin Unfinished,
         done \subseteq more, \A t \in ts : Needs[t] \subseteq more,
         status = "complete" => ts \subseteq more
  PROVE  /\ Dag!Setting(tasks, ts, status) \in Dag!States
         /\ DagSound(Dag!Setting(tasks, ts, status), more)
         /\ \A t \in ts : Dag!Setting(tasks, ts, status)[t].status \notin Unfinished
         /\ \A t \in Nodes : tasks[t].status \notin Unfinished =>
              Dag!Setting(tasks, ts, status)[t].status \notin Unfinished
<1> DEFINE set == Dag!Setting(tasks, ts, status)
<1>1. \A t \in Nodes : tasks[t] \in [status : Dag!Statuses, tries : 0..MaxTries]
  BY DEF Dag!States
<1>2. \A t \in Nodes : set[t] = IF t \in ts THEN [tasks[t] EXCEPT !.status = status] ELSE tasks[t]
  BY DEF Dag!Setting
<1>3. \A t \in Nodes : set[t] \in [status : Dag!Statuses, tries : 0..MaxTries]
  BY <1>1, <1>2
<1>4. set \in Dag!States
  BY <1>3 DEF Dag!States, Dag!Setting
<1>5. \A t \in ts : set[t].status = status
  BY <1>1, <1>2
<1>6. \A t \in Nodes \ ts : set[t] = tasks[t]
  BY <1>2
<1> QED BY <1>4, <1>5, <1>6 DEF DagSound

\* A call with a state that is sound keeps the invariant.
LEMMA UseKeeps ==
  ASSUME CallsInv, NEW p \in Procs, NEW newState \in Dag!States,
         NEW batch \in SUBSET Nodes, NEW ended \in SUBSET Nodes,
         DagSound(newState, finished \union ended),
         \A t \in batch : Needs[t] \subseteq finished,
         overlooked' \in BOOLEAN, ~overlooked' => ~overlooked,
         ~crossed /\ ~unsaved /\ ~overlooked' =>
           /\ \A t \in batch : handed[t] = 0 /\ newState[t].status \notin Unfinished
           /\ \A t \in Nodes : handed[t] > 0 => newState[t].status \notin Unfinished,
         Dag!Use(p, newState, batch, ended)
  PROVE  CallsInv'
<1> DEFINE call == [state |-> newState, batch |-> batch, ended |-> ended]
<1> USE DEF CallsInv
<1>1. /\ using' \in [Procs -> {Nil} \union CallUses]
      /\ using'[p] = call
      /\ \A q \in Procs \ {p} : using'[q] = using[q]
      /\ UNCHANGED <<dagFile, handed, finished, unsaved>>
  <2>1. call \in CallUses
    BY DEF CallUses
  <2> QED BY <2>1 DEF Dag!Use, CallsTyped
<1>2. CallsTyped'
  BY <1>1, CallsValues DEF Dag!Use, CallsTyped
<1>3. CallFlags'
  BY DEF Dag!Use, CallFlags
<1>4. CallsSound'
  <2>1. ASSUME NEW q \in Procs, using'[q] # Nil
        PROVE /\ DagSound(using'[q].state, finished' \union using'[q].ended)
              /\ \A t \in using'[q].batch : Needs[t] \subseteq finished'
    <3>1. CASE q = p
      BY <3>1, <1>1
    <3>2. CASE q # p
      BY <3>2, <1>1, <2>1 DEF CallsSound
    <3> QED BY <3>1, <3>2
  <2> QED BY <1>1, <2>1 DEF CallsSound, DagSound
<1>5. CallsOnce'
  <2> SUFFICES ASSUME ~crossed', ~unsaved', ~overlooked' PROVE CallsOnceParts'
    BY DEF CallsOnce
  <2>1. ~crossed /\ ~unsaved /\ CallsOnceParts /\ \A q \in Procs : using[q] = Nil
    <3>1. crossed' = (crossed \/ \E q \in Procs : using[q] # Nil)
      BY DEF Dag!Use
    <3>2. ~crossed /\ \A q \in Procs : using[q] = Nil
      BY <3>1 DEF CallFlags
    <3>3. ~unsaved
      BY <1>1
    <3> QED BY <3>2, <3>3 DEF CallsOnce
  <2>2. \A q, r \in Procs : using'[q] # Nil /\ using'[r] # Nil => q = r
    BY <1>1, <2>1
  <2>3. \A q \in Procs : using'[q] # Nil => q = p
    BY <1>1, <2>1
  <2> QED BY <1>1, <2>1, <2>2, <2>3 DEF CallsOnceParts, CallsTyped
<1> QED BY <1>2, <1>3, <1>4, <1>5

\* The state that a call loads, and the one that get_batch and get_status start from.
LEMMA LoadedSound ==
  ASSUME CallsInv, NEW read \in BOOLEAN, Dag!Read(read)
  PROVE  /\ overlooked' \in BOOLEAN /\ (~overlooked' => ~overlooked)
         /\ Dag!Current(read) \in Dag!States /\ DagSound(Dag!Current(read), finished)
         /\ ~crossed /\ ~unsaved /\ ~overlooked' => \A t \in Nodes : handed[t] > 0 =>
              Dag!Current(read)[t].status \notin Unfinished
<1>1. Dag!Loaded(read) # Nil => Dag!Loaded(read) \in Dag!States /\ Dag!Loaded(read) = dagFile
          /\ DagSound(dagFile, finished)
  BY DEF Dag!Loaded, Dag!Read, Dag!Loads, CallsInv, CallsTyped, CallsSound
<1>0. overlooked' \in BOOLEAN /\ (~overlooked' => ~overlooked)
  BY DEF Dag!Read, CallsInv, CallFlags
<1> DEFINE new == [t \in Nodes |->
                     [status |-> IF t \in Branches THEN "absent" ELSE "pending", tries |-> 0]]
<1>2. new \in Dag!States /\ DagSound(new, finished)
  BY CallsValues, NeedsAssumption DEF Dag!States, Dag!Statuses, DagSound
<1>3. Dag!InitState \in Dag!States /\ DagSound(Dag!InitState, finished)
  BY <1>2, MarkReadySound DEF Dag!InitState
<1>4. Dag!Current(read) \in Dag!States /\ DagSound(Dag!Current(read), finished)
  BY <1>1, <1>3, MarkReadySound DEF Dag!Current
<1>5. ASSUME ~crossed, ~unsaved, ~overlooked', NEW t \in Nodes, handed[t] > 0
      PROVE Dag!Current(read)[t].status \notin Unfinished
  <2>1. dagFile \in Dag!States /\ dagFile[t].status \notin Unfinished
    BY <1>0, <1>5 DEF CallsInv, CallsOnce, CallsOnceParts
  <2>2. Dag!Loaded(read) = dagFile /\ Dag!Loaded(read) # Nil
    BY <1>5, <2>1, CallsValues DEF Dag!Loaded, Dag!Read
  <2>3. DagSound(dagFile, finished)
    BY <1>1, <2>2
  <2> QED BY <2>1, <2>2, <2>3, MarkReadySound DEF Dag!Current
<1> QED BY <1>0, <1>4, <1>5

\* The answer of a call, which hands out its batch.
LEMMA AnswerHands ==
  ASSUME CallsTyped, NEW p \in Procs, using[p] # Nil, Dag!Answer(p)
  PROVE  /\ using' \in [Procs -> {Nil} \union CallUses] /\ using'[p] = Nil
         /\ \A q \in Procs \ {p} : using'[q] = using[q]
         /\ handed' \in [Nodes -> Nat]
         /\ \A t \in Nodes : handed'[t] = IF t \in using[p].batch THEN handed[t] + 1 ELSE handed[t]
  BY DEF Dag!Answer, CallsTyped

\* Every step of the callbacks keeps their invariant.
LEMMA CallsStep == CallsInv /\ [Dag!Next]_(Dag!callVars) => CallsInv'
<1> SUFFICES ASSUME CallsInv, [Dag!Next]_(Dag!callVars) PROVE CallsInv'
  OBVIOUS
<1> USE DEF CallsInv
<1>1. ASSUME NEW p \in Procs, NEW read \in BOOLEAN, Dag!GetBatch(p, read) PROVE CallsInv'
  <2> DEFINE current == Dag!Current(read)
  <2>1. PICK batch \in SUBSET Dag!ReadyTasks(current) :
          Dag!Use(p, Dag!Setting(current, batch, "running"), batch, {})
    BY <1>1 DEF Dag!GetBatch, Dag!kSubset
  <2> DEFINE newState == Dag!Setting(current, batch, "running")
  <2>2. current \in Dag!States /\ DagSound(current, finished)
        /\ overlooked' \in BOOLEAN /\ (~overlooked' => ~overlooked)
        /\ (~crossed /\ ~unsaved /\ ~overlooked' => \A t \in Nodes : handed[t] > 0 =>
             current[t].status \notin Unfinished)
    BY <1>1, LoadedSound DEF Dag!GetBatch
  <2> HIDE DEF current
  <2>3. batch \in SUBSET Nodes /\ \A t \in batch : current[t].status = "ready"
    BY DEF Dag!ReadyTasks
  <2>4. \A t \in batch : Needs[t] \subseteq finished
    BY <2>2, <2>3 DEF DagSound
  <2>5. newState \in Dag!States /\ DagSound(newState, finished)
        /\ (\A t \in batch : newState[t].status \notin Unfinished)
        /\ \A t \in Nodes : current[t].status \notin Unfinished =>
             newState[t].status \notin Unfinished
    <3>1. "running" \in Dag!Statuses /\ "running" \notin Unfinished
      BY DEF Dag!Statuses, Unfinished
    <3> QED BY <2>2, <2>3, <2>4, <3>1, SettingSound
  <2>6. DagSound(newState, finished \union {})
    BY <2>5
  <2>7. ~crossed /\ ~unsaved /\ ~overlooked' =>
           /\ \A t \in batch : handed[t] = 0 /\ newState[t].status \notin Unfinished
           /\ \A t \in Nodes : handed[t] > 0 => newState[t].status \notin Unfinished
    BY <2>2, <2>3, <2>5 DEF CallsTyped, Unfinished
  <2> QED BY <2>1, <2>2, <2>3, <2>4, <2>5, <2>6, <2>7, UseKeeps
<1>2. ASSUME NEW p \in Procs, NEW read \in BOOLEAN, Dag!GetStatus(p, read) PROVE CallsInv'
  <2>1. /\ Dag!Use(p, Dag!Current(read), {}, {})
        /\ overlooked' \in BOOLEAN /\ (~overlooked' => ~overlooked)
        /\ Dag!Current(read) \in Dag!States /\ DagSound(Dag!Current(read), finished \union {})
        /\ ~crossed /\ ~unsaved /\ ~overlooked' => \A t \in Nodes : handed[t] > 0 =>
             Dag!Current(read)[t].status \notin Unfinished
    BY <1>2, LoadedSound DEF Dag!GetStatus
  <2> QED BY <2>1, UseKeeps
<1>3. ASSUME NEW p \in Procs, Dag!Save(p) PROVE CallsInv'
  <2>1. using[p] # Nil /\ using[p] \in CallUses /\ Dag!Answer(p)
        /\ dagFile' = using[p].state /\ finished' = finished \union using[p].ended
        /\ UNCHANGED <<uses, crossed, unsaved, overlooked>>
    BY <1>3 DEF Dag!Save, CallsTyped
  <2>2. /\ using' \in [Procs -> {Nil} \union CallUses] /\ using'[p] = Nil
        /\ \A q \in Procs \ {p} : using'[q] = using[q]
        /\ handed' \in [Nodes -> Nat]
        /\ \A t \in Nodes : handed'[t] = IF t \in using[p].batch THEN handed[t] + 1 ELSE handed[t]
    BY <2>1, AnswerHands
  <2>3. CallsTyped'
    BY <2>1, <2>2 DEF CallsTyped, CallUses
  <2>4. CallsSound'
    BY <2>1, <2>2 DEF CallsSound, DagSound, CallUses, CallsTyped
  <2>5. CallsOnce'
    <3> SUFFICES ASSUME ~crossed, ~unsaved, ~overlooked PROVE CallsOnceParts'
      BY <2>1 DEF CallsOnce
    <3>1. CallsOnceParts
      BY DEF CallsOnce
    <3>2. \A q \in Procs : using'[q] = Nil
      BY <2>1, <2>2, <3>1 DEF CallsOnceParts
    <3>3. dagFile' \in Dag!States /\ dagFile' \notin {Torn, Mangled}
      BY <2>1, CallsValues DEF CallUses
    <3>4. ASSUME NEW t \in Nodes, handed'[t] > 0
          PROVE handed'[t] = 1 /\ dagFile'[t].status \notin Unfinished
      <4>1. CASE t \in using[p].batch
        <5>1. handed[t] = 0
          BY <4>1, <2>1, <3>1 DEF CallsOnceParts, CallsTyped
        <5> QED BY <4>1, <5>1, <2>1, <2>2, <3>1 DEF CallsOnceParts
      <4>2. CASE t \notin using[p].batch
        BY <4>2, <3>4, <2>1, <2>2, <3>1 DEF CallsOnceParts
      <4> QED BY <4>1, <4>2
    <3> QED BY <3>2, <3>3, <3>4 DEF CallsOnceParts
  <2> QED BY <2>1, <2>3, <2>4, <2>5 DEF CallFlags
<1>4. ASSUME NEW p \in Procs, Dag!SaveFails(p) PROVE CallsInv'
  <2>1. using[p] # Nil /\ using[p] \in CallUses /\ Dag!Answer(p)
        /\ dagFile' \in {dagFile, Torn, Mangled} /\ unsaved' = TRUE
        /\ UNCHANGED <<uses, finished, crossed, overlooked>>
    BY <1>4 DEF Dag!SaveFails, CallsTyped
  <2>2. /\ using' \in [Procs -> {Nil} \union CallUses] /\ using'[p] = Nil
        /\ \A q \in Procs \ {p} : using'[q] = using[q]
        /\ handed' \in [Nodes -> Nat]
        /\ \A t \in Nodes : handed'[t] = IF t \in using[p].batch THEN handed[t] + 1 ELSE handed[t]
    BY <2>1, AnswerHands
  <2>3. CallsTyped'
    BY <2>1, <2>2 DEF CallsTyped
  <2>4. CallsSound'
    BY <2>1, <2>2, CallsValues DEF CallsSound, CallsTyped, CallUses
  <2> QED BY <2>1, <2>3, <2>4 DEF CallFlags, CallsOnce
<1>5. ASSUME NEW p \in Procs, Dag!Die(p) PROVE CallsInv'
  <2>1. using[p] # Nil /\ using[p] \in CallUses
        /\ dagFile' \in {dagFile, Torn, Mangled, using[p].state} /\ unsaved' = TRUE
        /\ finished' = (IF dagFile' = using[p].state THEN finished \union using[p].ended
             ELSE finished)
        /\ UNCHANGED <<uses, handed, crossed, overlooked>>
    BY <1>5 DEF Dag!Die, CallsTyped
  <2>2. /\ using' \in [Procs -> {Nil} \union CallUses] /\ using'[p] = Nil
        /\ \A q \in Procs \ {p} : using'[q] = using[q]
    BY <1>5 DEF Dag!Die, CallsTyped
  <2>3. CallsTyped'
    BY <2>1, <2>2 DEF CallsTyped, CallUses
  <2>4. finished \subseteq finished' /\ (dagFile' = using[p].state =>
            finished' = finished \union using[p].ended)
    BY <2>1
  <2>5. dagFile' \in Dag!States => DagSound(dagFile', finished')
    BY <2>1, <2>4, CallsValues DEF CallsSound, DagSound
  <2>6. CallsSound'
    BY <2>1, <2>2, <2>4, <2>5 DEF CallsSound, DagSound, CallsTyped
  <2> QED BY <2>1, <2>3, <2>6 DEF CallFlags, CallsOnce
<1>6. ASSUME NEW p \in Procs, NEW t \in Nodes, Dag!CompleteTask(p, t) PROVE CallsInv'
  <2> DEFINE set == Dag!Setting(dagFile, {t}, "complete")
  <2>1. /\ UNCHANGED overlooked /\ dagFile \in Dag!States /\ DagSound(dagFile, finished)
        /\ handed[t] > 0
        /\ Dag!Use(p, Dag!MarkReady(set), {}, {t})
    BY <1>6 DEF Dag!CompleteTask, Dag!There, CallsTyped, CallsSound
  <2>2. /\ set \in Dag!States /\ DagSound(set, finished \union {t})
        /\ \A u \in Nodes : dagFile[u].status \notin Unfinished => set[u].status \notin Unfinished
    <3>1. Needs[t] \subseteq finished \union {t}
      BY <2>1 DEF CallsSound
    <3> QED BY <2>1, <3>1, SettingSound DEF Dag!Statuses, Unfinished
  <2>3. /\ Dag!MarkReady(set) \in Dag!States /\ DagSound(Dag!MarkReady(set), finished \union {t})
        /\ \A u \in Nodes : set[u].status \notin Unfinished =>
             Dag!MarkReady(set)[u].status \notin Unfinished
    BY <2>2, MarkReadySound
  <2> HIDE DEF set
  <2>4. ~crossed /\ ~unsaved /\ ~overlooked => \A u \in Nodes : handed[u] > 0 =>
            Dag!MarkReady(set)[u].status \notin Unfinished
    BY <2>2, <2>3 DEF CallsOnce, CallsOnceParts
  <2> QED BY <2>1, <2>3, <2>4, UseKeeps DEF CallFlags
<1>7. ASSUME NEW p \in Procs, NEW t \in Nodes, Dag!FailTask(p, t) PROVE CallsInv'
  <2> DEFINE set == Dag!Setting(dagFile, {t}, "failed")
  <2>1. /\ UNCHANGED overlooked /\ dagFile \in Dag!States /\ DagSound(dagFile, finished)
        /\ handed[t] > 0
        /\ Dag!Use(p, set, {}, {})
    BY <1>7 DEF Dag!FailTask, Dag!There, CallsTyped, CallsSound
  <2>2. /\ set \in Dag!States /\ DagSound(set, finished)
        /\ \A u \in Nodes : dagFile[u].status \notin Unfinished => set[u].status \notin Unfinished
    <3>1. Needs[t] \subseteq finished
      BY <2>1 DEF CallsSound
    <3> QED BY <2>1, <3>1, SettingSound DEF Dag!Statuses, Unfinished
  <2>3. DagSound(set, finished \union {})
    BY <2>2
  <2>4. ~crossed /\ ~unsaved /\ ~overlooked => \A u \in Nodes : handed[u] > 0 =>
            set[u].status \notin Unfinished
    BY <2>2 DEF CallsOnce, CallsOnceParts
  <2> HIDE DEF set
  <2> QED BY <2>1, <2>2, <2>3, <2>4, UseKeeps DEF CallFlags
<1>8. ASSUME NEW p \in Procs, NEW t \in Nodes, Dag!HandleFailure(p, t) PROVE CallsInv'
  <2> DEFINE set == [dagFile EXCEPT ![t] =
                       IF dagFile[t].tries < MaxTries
                       THEN [status |-> "retry_pending", tries |-> dagFile[t].tries + 1]
                       ELSE [dagFile[t] EXCEPT !.status = "human_review"]]
  <2>1. /\ UNCHANGED overlooked /\ dagFile \in Dag!States /\ DagSound(dagFile, finished)
        /\ handed[t] > 0
        /\ Dag!Use(p, set, {}, {})
    BY <1>8 DEF Dag!HandleFailure, Dag!There, CallsTyped, CallsSound
  <2>2. /\ set[t].status \in {"retry_pending", "human_review"}
        /\ set[t] \in [status : Dag!Statuses, tries : 0..MaxTries]
        /\ \A u \in Nodes \ {t} : set[u] = dagFile[u]
    BY <2>1, CallsValues DEF Dag!States, Dag!Statuses
  <2>3. set \in Dag!States
    BY <2>1, <2>2 DEF Dag!States
  <2>4. Needs[t] \subseteq finished
    BY <2>1 DEF CallsSound
  <2>5. DagSound(set, finished \union {})
    BY <2>1, <2>2, <2>4 DEF DagSound
  <2>6. ~crossed /\ ~unsaved /\ ~overlooked => \A u \in Nodes : handed[u] > 0 =>
            set[u].status \notin Unfinished
    BY <2>2 DEF CallsOnce, CallsOnceParts, Unfinished
  <2> HIDE DEF set
  <2> QED BY <2>1, <2>3, <2>5, <2>6, UseKeeps DEF CallFlags
<1>9. ASSUME NEW p \in Procs, NEW t \in Nodes, Dag!RetryTask(p, t) PROVE CallsInv'
  <2> DEFINE set == Dag!Setting(dagFile, {t}, "retrying")
  <2>1. /\ UNCHANGED overlooked /\ dagFile \in Dag!States /\ DagSound(dagFile, finished)
             /\ dagFile[t].status = "retry_pending"
        /\ Dag!Use(p, set, {}, {})
    BY <1>9 DEF Dag!RetryTask, Dag!There, CallsTyped, CallsSound
  <2>2. /\ set \in Dag!States /\ DagSound(set, finished)
        /\ \A u \in Nodes : dagFile[u].status \notin Unfinished => set[u].status \notin Unfinished
    <3>1. Needs[t] \subseteq finished
      BY <2>1 DEF DagSound
    <3> QED BY <2>1, <3>1, SettingSound DEF Dag!Statuses, Unfinished
  <2>3. DagSound(set, finished \union {})
    BY <2>2
  <2>4. ~crossed /\ ~unsaved /\ ~overlooked => \A u \in Nodes : handed[u] > 0 =>
            set[u].status \notin Unfinished
    BY <2>2 DEF CallsOnce, CallsOnceParts
  <2> HIDE DEF set
  <2> QED BY <2>1, <2>2, <2>3, <2>4, UseKeeps DEF CallFlags
<1>11. ASSUME NEW p \in Procs, NEW b \in Branches, Dag!BranchTask(p, b) PROVE CallsInv'
  <2> DEFINE set == Dag!Setting(dagFile, {b}, "pending")
  <2>1. /\ UNCHANGED overlooked /\ dagFile \in Dag!States /\ DagSound(dagFile, finished)
        /\ b \in Nodes /\ dagFile[b].status = "absent"
        /\ Dag!Use(p, set, {}, {})
    BY <1>11, NeedsAssumption DEF Dag!BranchTask, Dag!There, CallsTyped, CallsSound
  <2>2. \A t \in Nodes : dagFile[t] \in [status : Dag!Statuses, tries : 0..MaxTries]
    BY <2>1 DEF Dag!States
  <2>3. \A t \in Nodes :
          set[t] = IF t = b THEN [dagFile[t] EXCEPT !.status = "pending"] ELSE dagFile[t]
    BY DEF Dag!Setting
  <2>4. set \in Dag!States
    <3>1. \A t \in Nodes : set[t] \in [status : Dag!Statuses, tries : 0..MaxTries]
      BY <2>2, <2>3 DEF Dag!Statuses
    <3> QED BY <3>1 DEF Dag!States, Dag!Setting
  <2>5. DagSound(set, finished \union {})
    BY <2>1, <2>2, <2>3 DEF DagSound
  <2>6. ~crossed /\ ~unsaved /\ ~overlooked => \A u \in Nodes : handed[u] > 0 =>
            set[u].status \notin Unfinished
    BY <2>1, <2>3 DEF CallsOnce, CallsOnceParts, Unfinished
  <2> HIDE DEF set
  <2> QED BY <2>1, <2>4, <2>5, <2>6, UseKeeps DEF CallFlags
<1>10. CASE UNCHANGED Dag!callVars
  BY <1>10 DEF Dag!callVars, CallsTyped, CallFlags, CallsSound, CallsOnce, CallsOnceParts
<1> QED BY <1>1, <1>2, <1>3, <1>4, <1>5, <1>6, <1>7, <1>8, <1>9, <1>10, <1>11 DEF Dag!Next

\* The callbacks of Shared run as DagCallbacks says.
LEMMA CallsSpec == SharedSpec => Dag!Spec
<1>1. SharedInit => Dag!Init
  BY DEF SharedInit
<1>2. [SharedNext]_sharedVars => [Dag!Next]_(Dag!callVars)
  BY DEF SharedNext, sharedVars, callVars, Dag!callVars
<1> QED BY <1>1, <1>2, PTL DEF SharedSpec, Dag!Spec

\* The invariant of the callbacks holds always.
LEMMA CallsInvariant == SharedSpec => []CallsInv
<1>1. ASSUME Dag!Init PROVE CallsInv
  <2>1. CallsTyped
    BY <1>1, CallsValues DEF Dag!Init, CallsTyped
  <2>2. CallFlags
    BY <1>1 DEF Dag!Init, CallFlags
  <2>3. CallsOnceParts
    BY <1>1, ValuesAssumption DEF Dag!Init, CallsOnceParts
  <2> QED
    BY <1>1, <2>1, <2>2, <2>3, CallsValues DEF Dag!Init, CallsInv, CallsSound, CallsOnce
<1> QED BY CallsSpec, CallsStep, <1>1, PTL DEF Dag!Spec

\* HandedOutInOrder (the callbacks of dag_callbacks.py): a task is handed out after
\* the end of all it needs was reported and saved, and once unless calls overlap, a
\* save fails or a state that is there cannot be read, for any workflow, agents and retries.
THEOREM TasksInOrder == SharedSpec => []HandedOutInOrder
<1>1. CallsInv => HandedOutInOrder
  BY DEF CallsInv, CallsSound, CallsOnce, CallsOnceParts, HandedOutInOrder, Dag!HandedOutInOrder
<1> QED BY CallsInvariant, <1>1, PTL

-----------------------------------------------------------------------------
(* The worktrees.                                                          *)

\* Types of the worktrees, the branches and the state file.
TreesTyped ==
  /\ tree \in [Workers -> {"none", "linked", "prunable"}]
  /\ branch \in [Workers -> (SUBSET Trees!Commits) \union {Nil}]
  /\ main \subseteq Trees!Commits
  /\ merging \in (SUBSET Trees!Commits) \union {Nil}
  /\ worktrees \in [Workers -> Trees!Statuses]
  /\ running \in [Procs -> {Nil} \union Trees!Commands]
  /\ discarded \subseteq Trees!Commits
  /\ commits \in 0..MaxCommits

\* The flags of the history are such.
TreesFlags == strayed \in BOOLEAN /\ concurrent \in BOOLEAN /\ hindered \in BOOLEAN

\* Which places a command of each kind passes through.
TreesShape ==
  \A o \in Procs : running[o] # Nil =>
    /\ running[o].op = "create" => running[o].at \in {"load", "save"}
    /\ running[o].at = "load" => running[o].op = "create"
    /\ running[o].at \in {"merge", "status"} => running[o].op = "merge"

\* A commit that is on the branch of some worker.
OnBranch(c) == \E w \in Workers : branch[w] # Nil /\ c \in branch[w]

\* What a merge is done with is in main.
Merged(o) ==
  running[o] # Nil /\ running[o].op = "merge" /\ running[o].at \in {"tree", "branch"} =>
    branch[running[o].worker] = Nil \/ branch[running[o].worker] \subseteq main

\* A commit is in main, on a branch or was discarded on request; what a merge is done
\* with is in main.
WorkInv == ~strayed =>
  /\ \A c \in 1..commits : c \in main \union discarded \/ OnBranch(c)
  /\ \A o \in Procs : Merged(o)

\* Where the command o is, its worktree and its view of the state file.
InStep(o) ==
  LET w == running[o].worker
      view == running[o].copy IN
  /\ \A v \in Workers \ {w} : view[v] = worktrees[v]
  /\ running[o].at \in {"load", "merge", "status"} => tree[w] = "linked"
  /\ running[o].at = "save" => (tree[w] = "linked" <=> running[o].op = "create")
  /\ running[o].at = "save" /\ running[o].op = "create" => view[w] = "active"
  /\ running[o].at = "status" => view[w] = "merge-conflict"
  /\ running[o].at = "branch" => tree[w] # "linked"

\* A command on worker w is under way.
Used(w) == \E o \in Procs : running[o] # Nil /\ running[o].worker = w

\* What the state file and a command under way have of the worktrees.
TrackedParts ==
  /\ \A o, q \in Procs : running[o] # Nil /\ running[q] # Nil => o = q
  /\ \A o \in Procs : running[o] # Nil => InStep(o)
  /\ \A w \in Workers : Used(w) \/ (tree[w] = "linked" <=> worktrees[w] # "absent")

\* While one command runs at a time and none is hindered, the state file has the
\* worktrees there are.
TrackedInv == ~concurrent /\ ~hindered => TrackedParts

\* The inductive invariant of the worktrees.
TreesInv == TreesTyped /\ TreesFlags /\ TreesShape /\ WorkInv /\ TrackedInv

\* What the names of the model are told from.
LEMMA TreesValues ==
  Nil \notin SUBSET Trees!Commits /\ Nil \notin Trees!Commands /\ MaxCommits \in Nat
<1>1. Nil \notin SUBSET Trees!Commits /\ Nil \notin Trees!Commands
  BY ValuesAssumption
<1>2. MaxCommits \in Nat
  BY BoundsAssumption
<1> QED BY <1>1, <1>2

\* The places of a command that is under way.
Places == {"load", "merge", "tree", "branch", "save", "status"}

\* A command that goes on keeps its worker and what it is.
LEMMA TreesGoesOn ==
  ASSUME TreesTyped, NEW o \in Procs, running[o] # Nil, NEW at \in Places,
         NEW view \in [Workers -> Trees!Statuses], Trees!At(o, at, view)
  PROVE  /\ running' \in [Procs -> {Nil} \union Trees!Commands]
         /\ running'[o] = [op |-> running[o].op, worker |-> running[o].worker,
                           at |-> at, copy |-> view]
         /\ running'[o] # Nil
         /\ \A q \in Procs \ {o} : running'[q] = running[q]
<1>1. running \in [Procs -> {Nil} \union Trees!Commands] /\ running[o] \in Trees!Commands
  BY DEF TreesTyped, TreesFlags, TreesShape
<1>2. running'[o] = [op |-> running[o].op, worker |-> running[o].worker, at |-> at, copy |-> view]
  BY <1>1 DEF Trees!At, Trees!Commands
<1>3. running'[o] \in Trees!Commands
  BY <1>1, <1>2 DEF Trees!Commands, Places
<1>4. \A q \in Procs \ {o} : running'[q] = running[q]
  BY <1>1 DEF Trees!At
<1>5. running' \in [Procs -> {Nil} \union Trees!Commands]
  BY <1>1, <1>3 DEF Trees!At
<1> QED BY <1>2, <1>3, <1>4, <1>5, TreesValues

\* A command that begins has the state file as its view.
LEMMA TreesBegins ==
  ASSUME TreesTyped, NEW o \in Procs, NEW w \in Workers, NEW at \in Places,
         NEW op \in {"create", "merge", "remove", "discard"}, Trees!Begin(o, op, w, at)
  PROVE  /\ running' \in [Procs -> {Nil} \union Trees!Commands]
         /\ running[o] = Nil
         /\ running'[o] = [op |-> op, worker |-> w, at |-> at, copy |-> worktrees]
         /\ running'[o] # Nil
         /\ \A q \in Procs \ {o} : running'[q] = running[q]
         /\ ~concurrent' => ~concurrent /\ \A q \in Procs : running[q] = Nil
         /\ concurrent' \in BOOLEAN
         /\ strayed' \in BOOLEAN
         /\ ~strayed' => ~strayed
<1>1. running \in [Procs -> {Nil} \union Trees!Commands]
          /\ worktrees \in [Workers -> Trees!Statuses]
  BY DEF TreesTyped, TreesFlags, TreesShape
<1>2. running'[o] = [op |-> op, worker |-> w, at |-> at, copy |-> worktrees]
  BY <1>1 DEF Trees!Begin, Trees!Called
<1>3. running'[o] \in Trees!Commands
  BY <1>1, <1>2 DEF Trees!Commands, Places
<1>4. \A q \in Procs \ {o} : running'[q] = running[q]
  BY <1>1 DEF Trees!Begin
<1>5. running' \in [Procs -> {Nil} \union Trees!Commands]
  BY <1>1, <1>3 DEF Trees!Begin
<1>6. /\ concurrent' \in BOOLEAN /\ strayed' \in BOOLEAN
      /\ ~strayed' => ~strayed
      /\ ~concurrent' => ~concurrent /\ \A q \in Procs : running[q] = Nil
  BY DEF Trees!Begin, Trees!Called, TreesTyped, TreesFlags, TreesShape
<1> QED BY <1>2, <1>3, <1>4, <1>5, <1>6, TreesValues DEF Trees!Begin, Trees!Called

\* Every step of the worktrees keeps their invariant.
LEMMA TreesStep == TreesInv /\ [Trees!Next]_(Trees!treeVars) => TreesInv'
<1> SUFFICES ASSUME TreesInv, [Trees!Next]_(Trees!treeVars) PROVE TreesInv'
  OBVIOUS
<1> USE TreesValues DEF TreesInv
<1>1. ASSUME NEW w \in Workers, Trees!Commit(w) PROVE TreesInv'
  <2>2. TreesTyped'
    BY <1>1 DEF Trees!Commit, TreesTyped, Trees!Commits
  <2>3. TreesFlags'
    BY <1>1 DEF Trees!Commit, TreesFlags
  <2>4. TreesShape'
    BY <1>1 DEF Trees!Commit, TreesTyped, TreesShape
  <2>5. WorkInv'
    <3> SUFFICES ASSUME ~strayed' PROVE (\A c \in 1..commits : c \in main \union discarded
                     \/ OnBranch(c))'
                                        /\ \A o \in Procs : Merged(o)'
      BY DEF WorkInv
    <3>0. commits' = commits + 1 /\ ~strayed /\ commits \in Nat /\ branch[w] # Nil
          /\ branch' = [branch EXCEPT ![w] = branch[w] \union {commits'}]
          /\ UNCHANGED <<main, discarded, running>>
      BY <1>1 DEF Trees!Commit, TreesTyped, TreesFlags
    <3>1. branch'[w] = branch[w] \union {commits'} /\ branch'[w] # Nil
          /\ \A v \in Workers \ {w} : branch'[v] = branch[v]
      <4>1. branch'[w] = branch[w] \union {commits'}
                /\ \A v \in Workers \ {w} : branch'[v] = branch[v]
        BY <3>0 DEF TreesTyped
      <4>2. commits' \in Trees!Commits
        BY <1>1, TreesValues DEF Trees!Commit, TreesTyped, Trees!Commits
      <4>3. branch[w] \in SUBSET Trees!Commits
        BY <3>0 DEF TreesTyped
      <4>4. branch'[w] \in SUBSET Trees!Commits
        BY <4>1, <4>2, <4>3
      <4> QED BY <4>1, <4>4, TreesValues
    <3>2. ASSUME NEW c \in 1..commits' PROVE c \in main' \union discarded' \/ OnBranch(c)'
      <4>1. CASE c = commits'
        BY <4>1, <3>1 DEF OnBranch
      <4>2. CASE c # commits'
        <5>1. c \in 1..commits
          BY <4>2, <3>0
        <5>2. c \in main \union discarded \/ OnBranch(c)
          BY <5>1, <3>0 DEF WorkInv
        <5> QED BY <5>2, <3>0, <3>1 DEF OnBranch
      <4> QED BY <4>1, <4>2
    <3>3. ASSUME NEW o \in Procs PROVE Merged(o)'
      <4>1. Merged(o)
        BY <3>0 DEF WorkInv
      <4>2. running[o] # Nil /\ running[o].op = "merge" /\ running[o].at \in {"tree", "branch"} =>
              running[o].worker # w
        BY <1>1 DEF Trees!Commit, TreesFlags
      <4>3. running[o] # Nil => running[o].worker \in Workers
        BY DEF TreesTyped, Trees!Commands
      <4> QED BY <4>1, <4>2, <4>3, <3>0, <3>1 DEF Merged
    <3> QED BY <3>2, <3>3
  <2>6. TrackedInv'
    BY <1>1 DEF Trees!Commit, TreesTyped, TreesShape, TreesFlags, TrackedInv, TrackedParts,
         InStep, Used
  <2> QED BY <2>2, <2>3, <2>4, <2>5, <2>6
<1>2. ASSUME NEW o \in Procs, NEW w \in Workers, Trees!Create(o, w) PROVE TreesInv'
  <2> DEFINE op == "create"
             at == "load"
  <2>0. /\ running' \in [Procs -> {Nil} \union Trees!Commands]
        /\ running[o] = Nil
        /\ running'[o] = [op |-> op, worker |-> w, at |-> at, copy |-> worktrees]
        /\ running'[o] # Nil
        /\ \A q \in Procs \ {o} : running'[q] = running[q]
        /\ ~concurrent' => ~concurrent /\ \A q \in Procs : running[q] = Nil
        /\ concurrent' \in BOOLEAN
        /\ strayed' \in BOOLEAN
        /\ ~strayed' => ~strayed
    BY <1>2, TreesBegins DEF Trees!Create, Places
  <2>00. UNCHANGED <<main, merging, worktrees, commits, discarded, hindered>>
    BY <1>2 DEF Trees!Create, Trees!Begin
  <2>2. TreesTyped'
    BY <1>2, <2>0, <2>00 DEF Trees!Create, TreesTyped, Trees!Commits
  <2>3. TreesFlags'
    BY <1>2, <2>0, <2>00 DEF Trees!Create, TreesFlags
  <2>4. TreesShape'
    BY <1>2, <2>0, <2>00 DEF Trees!Create, TreesTyped, TreesShape
  <2>5. WorkInv'
    BY <1>2, <2>0, <2>00 DEF Trees!Create, TreesTyped, TreesShape, WorkInv, OnBranch, Merged
  <2>6. TrackedInv'
    BY <1>2, <2>0, <2>00 DEF Trees!Create, TreesTyped, TreesShape, TreesFlags, TrackedInv,
         TrackedParts, InStep, Used
  <2> QED BY <2>2, <2>3, <2>4, <2>5, <2>6
<1>3. ASSUME NEW o \in Procs, Trees!RecordState(o) PROVE TreesInv'
  <2>0. /\ running' \in [Procs -> {Nil} \union Trees!Commands]
        /\ running[o] # Nil /\ running[o] \in Trees!Commands
        /\ running'[o] = [op |-> running[o].op, worker |-> running[o].worker,
                          at |-> "save",
                              copy |-> [worktrees EXCEPT ![running[o].worker] = "active"]]
        /\ running'[o] # Nil
        /\ \A q \in Procs \ {o} : running'[q] = running[q]
    <3>1. running[o] # Nil /\ running[o] \in Trees!Commands
      BY <1>3 DEF Trees!RecordState, TreesTyped
    <3>2. [worktrees EXCEPT ![running[o].worker] = "active"] \in [Workers -> Trees!Statuses]
      BY <3>1 DEF Trees!Commands, Trees!Statuses, TreesTyped
    <3>3. Trees!At(o, "save", [worktrees EXCEPT ![running[o].worker] = "active"])
      BY <1>3 DEF Trees!RecordState
    <3> QED BY <3>1, <3>2, <3>3, TreesGoesOn DEF Places
  <2>2. TreesTyped'
    BY <1>3, <2>0 DEF Trees!RecordState, TreesTyped, Trees!Commits
  <2>3. TreesFlags'
    BY <1>3, <2>0 DEF Trees!RecordState, TreesFlags
  <2>4. TreesShape'
    BY <1>3, <2>0 DEF Trees!RecordState, TreesTyped, TreesShape
  <2>5. WorkInv'
    BY <1>3, <2>0 DEF Trees!RecordState, TreesTyped, TreesShape, WorkInv, OnBranch, Merged
  <2>6. TrackedInv'
    <3> DEFINE w == running[o].worker
    <3> SUFFICES ASSUME ~concurrent', ~hindered' PROVE TrackedParts'
      BY DEF TrackedInv
    <3>0. ~concurrent /\ ~hindered /\ w \in Workers /\ TrackedParts
      BY <1>3, <2>0 DEF Trees!RecordState, TreesFlags, TrackedInv, Trees!Commands
    <3>1. \A q, r \in Procs : running'[q] # Nil /\ running'[r] # Nil => q = r
      BY <3>0, <2>0 DEF TrackedParts
    <3>2. InStep(o)'
      BY <3>0, <2>0, <1>3 DEF Trees!RecordState, InStep, TreesTyped, TreesShape, TrackedParts
    <3>3. \A q \in Procs : running'[q] # Nil => InStep(q)'
      BY <3>1, <3>2, <2>0
    <3>4. ASSUME NEW v \in Workers PROVE Used(v)'
                     \/ (tree'[v] = "linked" <=> worktrees'[v] # "absent")
      <4>1. CASE v = w
        BY <4>1, <2>0 DEF Used
      <4>2. CASE v # w
        BY <4>2, <3>0, <2>0, <1>3 DEF Trees!RecordState, Used, TrackedParts, TreesTyped
      <4> QED BY <4>1, <4>2
    <3> QED BY <3>1, <3>3, <3>4 DEF TrackedParts
  <2> QED BY <2>2, <2>3, <2>4, <2>5, <2>6
<1>13. ASSUME NEW o \in Procs, Trees!RecordStateAnew(o) PROVE TreesInv'
  <2> DEFINE view == [Trees!NoWorktrees EXCEPT ![running[o].worker] = "active"]
  <2>1. running[o] # Nil /\ running[o] \in Trees!Commands
    BY <1>13 DEF Trees!RecordStateAnew, TreesTyped
  <2>2. view \in [Workers -> Trees!Statuses] /\ worktrees' \in [Workers -> Trees!Statuses]
    BY <1>13, <2>1 DEF Trees!RecordStateAnew, Trees!NoWorktrees, Trees!Commands, Trees!Statuses,
         TreesTyped
  <2>3. Trees!At(o, "save", view)
    BY <1>13 DEF Trees!RecordStateAnew
  <2> HIDE DEF view
  <2>4. /\ running' \in [Procs -> {Nil} \union Trees!Commands]
        /\ running'[o] = [op |-> running[o].op, worker |-> running[o].worker,
                          at |-> "save", copy |-> view]
        /\ running'[o] # Nil
        /\ \A q \in Procs \ {o} : running'[q] = running[q]
    BY <2>1, <2>2, <2>3, TreesGoesOn DEF Places
  <2>5. /\ UNCHANGED <<tree, branch, main, merging, commits, discarded, strayed, concurrent>>
        /\ hindered' = TRUE /\ running[o].at = "load"
    BY <1>13 DEF Trees!RecordStateAnew
  <2>6. TreesTyped' /\ TreesFlags' /\ TrackedInv'
    BY <2>2, <2>4, <2>5 DEF TreesTyped, TreesFlags, TrackedInv
  <2>7. TreesShape'
    BY <2>4, <2>5 DEF TreesShape
  <2>8. WorkInv'
    BY <2>4, <2>5 DEF TreesShape, WorkInv, OnBranch, Merged
  <2> QED BY <2>6, <2>7, <2>8
<1>14. ASSUME NEW o \in Procs, NEW w \in Workers, Trees!LoadFails(o, w) PROVE TreesInv'
  <2>1. /\ UNCHANGED <<tree, branch, main, merging, running, commits, discarded>>
        /\ hindered' = TRUE /\ concurrent' \in BOOLEAN /\ strayed' \in BOOLEAN
        /\ ~strayed' => ~strayed
        /\ worktrees' \in [Workers -> Trees!Statuses]
    BY <1>14 DEF Trees!LoadFails, Trees!Called, Trees!NoWorktrees, Trees!Statuses, TreesFlags
  <2> QED BY <2>1 DEF TreesTyped, TreesFlags, TreesShape, WorkInv, OnBranch, Merged, TrackedInv
<1>15. ASSUME NEW o \in Procs, NEW w \in Workers, Trees!CreateFails(o, w) PROVE TreesInv'
  <2>1. /\ UNCHANGED <<main, merging, worktrees, running, commits, discarded>>
        /\ hindered' = TRUE /\ concurrent' \in BOOLEAN /\ strayed' \in BOOLEAN
        /\ ~strayed' => ~strayed
    BY <1>15 DEF Trees!CreateFails, Trees!Called, TreesFlags
  <2>2. /\ branch[w] = Nil /\ branch' = [branch EXCEPT ![w] = main]
        /\ tree' \in [Workers -> {"none", "linked", "prunable"}]
    BY <1>15 DEF Trees!CreateFails, TreesTyped
  <2>3. branch' \in [Workers -> (SUBSET Trees!Commits) \union {Nil}]
    BY <2>2 DEF TreesTyped
  <2>4. TreesTyped' /\ TreesFlags' /\ TreesShape' /\ TrackedInv'
    BY <2>1, <2>2, <2>3 DEF TreesTyped, TreesFlags, TreesShape, TrackedInv
  <2>5. WorkInv'
    BY <2>1, <2>2 DEF TreesTyped, WorkInv, OnBranch, Merged
  <2> QED BY <2>4, <2>5
<1>4. ASSUME NEW o \in Procs, NEW w \in Workers, Trees!Merge(o, w) PROVE TreesInv'
  <2> DEFINE op == "merge"
             at == IF tree[w] = "linked" THEN "merge" ELSE "save"
  <2>0. /\ running' \in [Procs -> {Nil} \union Trees!Commands]
        /\ running[o] = Nil
        /\ running'[o] = [op |-> op, worker |-> w, at |-> at, copy |-> worktrees]
        /\ running'[o] # Nil
        /\ \A q \in Procs \ {o} : running'[q] = running[q]
        /\ ~concurrent' => ~concurrent /\ \A q \in Procs : running[q] = Nil
        /\ concurrent' \in BOOLEAN
        /\ strayed' \in BOOLEAN
        /\ ~strayed' => ~strayed
    BY <1>4, TreesBegins DEF Trees!Merge, Places
  <2>00. UNCHANGED <<main, merging, worktrees, commits, discarded, hindered>>
    BY <1>4 DEF Trees!Merge, Trees!Begin
  <2>2. TreesTyped'
    BY <1>4, <2>0, <2>00 DEF Trees!Merge, TreesTyped, Trees!Commits
  <2>3. TreesFlags'
    BY <1>4, <2>0, <2>00 DEF Trees!Merge, TreesFlags
  <2>4. TreesShape'
    BY <1>4, <2>0, <2>00 DEF Trees!Merge, TreesTyped, TreesShape
  <2>5. WorkInv'
    BY <1>4, <2>0, <2>00 DEF Trees!Merge, TreesTyped, TreesShape, WorkInv, OnBranch, Merged
  <2>6. TrackedInv'
    BY <1>4, <2>0, <2>00 DEF Trees!Merge, TreesTyped, TreesShape, TreesFlags, TrackedInv,
         TrackedParts, InStep, Used
  <2> QED BY <2>2, <2>3, <2>4, <2>5, <2>6
<1>5. ASSUME NEW o \in Procs, Trees!MergeBranch(o) PROVE TreesInv'
  <2>1. PICK place \in {"tree", "status"}, view \in [Workers -> Trees!Statuses] :
          /\ Trees!At(o, place, view)
          /\ \A v \in Workers \ {running[o].worker} : view[v] = running[o].copy[v]
          /\ place = "status" => view[running[o].worker] = "merge-conflict"
          /\ place = "tree" => branch[running[o].worker] \subseteq main'
          /\ main' = main \/ /\ branch[running[o].worker] # Nil
                             /\ main' = main \union branch[running[o].worker]
    <3>1. running[o].copy \in [Workers -> Trees!Statuses]
      BY <1>5 DEF Trees!MergeBranch, TreesTyped, Trees!Commands
    <3>2. [running[o].copy EXCEPT ![running[o].worker] = "merge-conflict"]
            \in [Workers -> Trees!Statuses]
      BY <3>1 DEF Trees!Statuses
    <3> QED BY <1>5, <3>1, <3>2 DEF Trees!MergeBranch
  <2>0. /\ running' \in [Procs -> {Nil} \union Trees!Commands]
        /\ running[o] # Nil /\ running[o] \in Trees!Commands
        /\ running'[o] = [op |-> running[o].op, worker |-> running[o].worker,
                          at |-> place, copy |-> view]
        /\ running'[o] # Nil
        /\ \A q \in Procs \ {o} : running'[q] = running[q]
    <3>1. running[o] # Nil /\ running[o] \in Trees!Commands
      BY <1>5 DEF Trees!MergeBranch, TreesTyped
    <3>2. view \in [Workers -> Trees!Statuses]
      BY <3>1 DEF Trees!Commands, Trees!Statuses, TreesTyped
    <3>3. Trees!At(o, place, view)
      BY <2>1 DEF Trees!MergeBranch
    <3> QED BY <3>1, <3>2, <3>3, TreesGoesOn DEF Places
  <2>2. TreesTyped'
    <3>1. running[o].worker \in Workers
      BY <2>0 DEF Trees!Commands
    <3>2. branch[running[o].worker] \in (SUBSET Trees!Commits) \union {Nil}
      BY <3>1 DEF TreesTyped
    <3>3. merging' \in (SUBSET Trees!Commits) \union {Nil}
      BY <1>5, <3>2 DEF Trees!MergeBranch, TreesTyped
    <3>4. main' \subseteq Trees!Commits
      BY <2>1, <3>2 DEF TreesTyped
    <3>5. UNCHANGED <<tree, branch, worktrees, discarded, commits>>
      BY <1>5 DEF Trees!MergeBranch
    <3> QED BY <2>0, <3>3, <3>4, <3>5 DEF TreesTyped
  <2>3. TreesFlags'
    BY <1>5, <2>0, <2>1 DEF Trees!MergeBranch, TreesFlags
  <2>4. TreesShape'
    BY <1>5, <2>0, <2>1 DEF Trees!MergeBranch, TreesTyped, TreesShape
  <2>5. WorkInv'
    BY <1>5, <2>0, <2>1 DEF Trees!MergeBranch, TreesTyped, TreesShape, WorkInv, OnBranch, Merged
  <2>6. TrackedInv'
    BY <1>5, <2>0, <2>1 DEF Trees!MergeBranch, TreesTyped, TreesShape, TreesFlags, TrackedInv,
         TrackedParts, InStep, Used
  <2> QED BY <2>2, <2>3, <2>4, <2>5, <2>6
<1>6. ASSUME NEW o \in Procs, NEW w \in Workers, NEW force \in BOOLEAN,
                 Trees!Remove(o, w, force) PROVE TreesInv'
  <2> DEFINE op == IF force THEN "discard" ELSE "remove"
             at == IF tree[w] = "linked" THEN "tree" ELSE "branch"
  <2>0. /\ running' \in [Procs -> {Nil} \union Trees!Commands]
        /\ running[o] = Nil
        /\ running'[o] = [op |-> op, worker |-> w, at |-> at, copy |-> worktrees]
        /\ running'[o] # Nil
        /\ \A q \in Procs \ {o} : running'[q] = running[q]
        /\ ~concurrent' => ~concurrent /\ \A q \in Procs : running[q] = Nil
        /\ concurrent' \in BOOLEAN
        /\ strayed' \in BOOLEAN
        /\ ~strayed' => ~strayed
    BY <1>6, TreesBegins DEF Trees!Remove, Places
  <2>00. UNCHANGED <<main, merging, worktrees, commits, discarded, hindered>>
    BY <1>6 DEF Trees!Remove, Trees!Begin
  <2>2. TreesTyped'
    BY <1>6, <2>0, <2>00 DEF Trees!Remove, TreesTyped, Trees!Commits
  <2>3. TreesFlags'
    BY <1>6, <2>0, <2>00 DEF Trees!Remove, TreesFlags
  <2>4. TreesShape'
    BY <1>6, <2>0, <2>00 DEF Trees!Remove, TreesTyped, TreesShape
  <2>5. WorkInv'
    BY <1>6, <2>0, <2>00 DEF Trees!Remove, TreesTyped, TreesShape, WorkInv, OnBranch, Merged
  <2>6. TrackedInv'
    BY <1>6, <2>0, <2>00 DEF Trees!Remove, TreesTyped, TreesShape, TreesFlags, TrackedInv,
         TrackedParts, InStep, Used
  <2> QED BY <2>2, <2>3, <2>4, <2>5, <2>6
<1>7. ASSUME NEW o \in Procs, Trees!RemoveTree(o) PROVE TreesInv'
  <2>0. /\ running' \in [Procs -> {Nil} \union Trees!Commands]
        /\ running[o] # Nil /\ running[o] \in Trees!Commands
        /\ running'[o] = [op |-> running[o].op, worker |-> running[o].worker,
                          at |-> "branch", copy |-> running[o].copy]
        /\ running'[o] # Nil
        /\ \A q \in Procs \ {o} : running'[q] = running[q]
    <3>1. running[o] # Nil /\ running[o] \in Trees!Commands
      BY <1>7 DEF Trees!RemoveTree, TreesTyped
    <3>2. running[o].copy \in [Workers -> Trees!Statuses]
      BY <3>1 DEF Trees!Commands, Trees!Statuses, TreesTyped
    <3>3. Trees!At(o, "branch", running[o].copy)
      BY <1>7 DEF Trees!RemoveTree
    <3> QED BY <3>1, <3>2, <3>3, TreesGoesOn DEF Places
  <2>2. TreesTyped'
    BY <1>7, <2>0 DEF Trees!RemoveTree, TreesTyped, Trees!Commits
  <2>3. TreesFlags'
    BY <1>7, <2>0 DEF Trees!RemoveTree, TreesFlags
  <2>4. TreesShape'
    BY <1>7, <2>0 DEF Trees!RemoveTree, TreesTyped, TreesShape
  <2>5. WorkInv'
    BY <1>7, <2>0 DEF Trees!RemoveTree, TreesTyped, TreesShape, WorkInv, OnBranch, Merged
  <2>6. TrackedInv'
    <3> DEFINE w == running[o].worker
    <3> SUFFICES ASSUME ~concurrent', ~hindered' PROVE TrackedParts'
      BY DEF TrackedInv
    <3>0. ~concurrent /\ ~hindered /\ w \in Workers /\ TrackedParts
      BY <1>7, <2>0 DEF Trees!RemoveTree, TreesFlags, TrackedInv, Trees!Commands
    <3>1. \A q, r \in Procs : running'[q] # Nil /\ running'[r] # Nil => q = r
      BY <3>0, <2>0 DEF TrackedParts
    <3>5. tree'[w] # "linked" /\ UNCHANGED worktrees
      BY <3>0, <2>0, <1>7 DEF Trees!RemoveTree, TreesTyped, TreesFlags
    <3>2. InStep(o)'
      BY <3>0, <3>5, <2>0, <1>7 DEF InStep, TrackedParts
    <3>3. \A q \in Procs : running'[q] # Nil => InStep(q)'
      BY <3>1, <3>2, <2>0
    <3>4. ASSUME NEW v \in Workers PROVE Used(v)'
                     \/ (tree'[v] = "linked" <=> worktrees'[v] # "absent")
      <4>1. CASE v = w
        BY <4>1, <2>0 DEF Used
      <4>2. CASE v # w
        BY <4>2, <3>0, <2>0, <1>7 DEF Trees!RemoveTree, Used, TrackedParts, TreesTyped
      <4> QED BY <4>1, <4>2
    <3> QED BY <3>1, <3>3, <3>4 DEF TrackedParts
  <2> QED BY <2>2, <2>3, <2>4, <2>5, <2>6
<1>8. ASSUME NEW o \in Procs, Trees!DeleteBranch(o) PROVE TreesInv'
  <2>0. /\ running' \in [Procs -> {Nil} \union Trees!Commands]
        /\ running[o] # Nil /\ running[o] \in Trees!Commands
        /\ running'[o] = [op |-> running[o].op, worker |-> running[o].worker,
                          at |-> "save", copy |-> running[o].copy]
        /\ running'[o] # Nil
        /\ \A q \in Procs \ {o} : running'[q] = running[q]
    <3>1. running[o] # Nil /\ running[o] \in Trees!Commands
      BY <1>8 DEF Trees!DeleteBranch, TreesTyped
    <3>2. running[o].copy \in [Workers -> Trees!Statuses]
      BY <3>1 DEF Trees!Commands, Trees!Statuses, TreesTyped
    <3>3. Trees!At(o, "save", running[o].copy)
      BY <1>8 DEF Trees!DeleteBranch
    <3> QED BY <3>1, <3>2, <3>3, TreesGoesOn DEF Places
  <2>1. branch' \in [Workers -> (SUBSET Trees!Commits) \union {Nil}]
            /\ discarded' \subseteq Trees!Commits
    <3>1. running[o].worker \in Workers
      BY <2>0 DEF Trees!Commands
    <3> QED BY <1>8, <3>1 DEF Trees!DeleteBranch, Trees!MayDelete, TreesTyped
  <2>2. TreesTyped'
    BY <1>8, <2>0, <2>1 DEF Trees!DeleteBranch, TreesTyped
  <2>3. TreesFlags'
    BY <1>8, <2>0 DEF Trees!DeleteBranch, TreesFlags
  <2>4. TreesShape'
    BY <1>8, <2>0 DEF Trees!DeleteBranch, TreesTyped, TreesShape
  <2>5. WorkInv'
    <3> DEFINE w == running[o].worker
    <3> SUFFICES ASSUME ~strayed PROVE (\A c \in 1..commits : c \in main \union discarded
                     \/ OnBranch(c))'
                                       /\ \A q \in Procs : Merged(q)'
      BY <1>8 DEF Trees!DeleteBranch, WorkInv
    <3>1. w \in Workers /\ Merged(o) /\ running[o].at = "branch"
          /\ running[o].op \in {"merge", "remove", "discard"}
      BY <1>8, <2>0 DEF Trees!DeleteBranch, TreesShape, Trees!Commands, WorkInv
    <3>2. CASE UNCHANGED <<branch, discarded>>
      BY <3>2, <1>8, <2>0 DEF Trees!DeleteBranch, WorkInv, OnBranch, Merged
    <3>3. CASE /\ Trees!MayDelete(running[o].op, w)
               /\ branch' = [branch EXCEPT ![w] = Nil]
               /\ discarded' = IF running[o].op = "discard" THEN discarded \union branch[w]
                    ELSE discarded
      <4>1. branch[w] \subseteq main \union discarded'
        BY <3>1, <3>3, <2>0 DEF Trees!MayDelete, Merged
      <4>2. branch'[w] = Nil /\ \A v \in Workers \ {w} : branch'[v] = branch[v]
        BY <3>1, <3>3 DEF TreesTyped
      <4>3. discarded \subseteq discarded' /\ UNCHANGED <<main, commits>>
        BY <1>8, <3>3 DEF Trees!DeleteBranch
      <4>4. ASSUME NEW c \in 1..commits' PROVE c \in main' \union discarded' \/ OnBranch(c)'
        BY <4>1, <4>2, <4>3 DEF WorkInv, OnBranch
      <4>5. ASSUME NEW q \in Procs PROVE Merged(q)'
        <5>1. Merged(q) /\ (running[q] # Nil => running[q].worker \in Workers)
          BY DEF WorkInv, TreesTyped, Trees!Commands
        <5> QED BY <5>1, <4>2, <4>3, <2>0 DEF Merged
      <4> QED BY <4>4, <4>5
    <3> QED BY <1>8, <3>2, <3>3 DEF Trees!DeleteBranch
  <2>6. TrackedInv'
    BY <1>8, <2>0 DEF Trees!DeleteBranch, TreesTyped, TreesShape, TreesFlags, TrackedInv,
         TrackedParts, InStep, Used
  <2> QED BY <2>2, <2>3, <2>4, <2>5, <2>6
<1>9. ASSUME NEW o \in Procs, Trees!SaveState(o) PROVE TreesInv'
  <2>0. /\ running[o] # Nil /\ running[o] \in Trees!Commands
        /\ running' \in [Procs -> {Nil} \union Trees!Commands]
        /\ running'[o] = Nil
        /\ \A q \in Procs \ {o} : running'[q] = running[q]
        /\ worktrees' \in [Workers -> Trees!Statuses]
    <3>1. running[o] # Nil /\ running[o] \in Trees!Commands
      BY <1>9 DEF Trees!SaveState, TreesTyped
    <3>2. running[o].copy \in [Workers -> Trees!Statuses]
      BY <3>1 DEF Trees!Commands
    <3>3. worktrees' \in [Workers -> Trees!Statuses]
      BY <1>9, <3>2 DEF Trees!SaveState, Trees!Statuses
    <3> QED BY <1>9, <3>1, <3>3 DEF Trees!SaveState, TreesTyped
  <2>2. TreesTyped'
    BY <1>9, <2>0 DEF Trees!SaveState, TreesTyped, Trees!Commits
  <2>3. TreesFlags'
    BY <1>9, <2>0 DEF Trees!SaveState, TreesFlags
  <2>4. TreesShape'
    BY <1>9, <2>0 DEF Trees!SaveState, TreesTyped, TreesShape
  <2>5. WorkInv'
    BY <1>9, <2>0 DEF Trees!SaveState, TreesTyped, TreesShape, WorkInv, OnBranch, Merged
  <2>6. TrackedInv'
    BY <1>9, <2>0 DEF Trees!SaveState, TreesTyped, TreesShape, TreesFlags, TrackedInv,
         TrackedParts, InStep, Used
  <2> QED BY <2>2, <2>3, <2>4, <2>5, <2>6
<1>10. ASSUME NEW o \in Procs, Trees!Stop(o) PROVE TreesInv'
  <2>2. TreesTyped'
    BY <1>10 DEF Trees!Stop, TreesTyped, Trees!Commits
  <2>3. TreesFlags'
    BY <1>10 DEF Trees!Stop, TreesFlags
  <2>4. TreesShape'
    BY <1>10 DEF Trees!Stop, TreesTyped, TreesShape
  <2>5. WorkInv'
    BY <1>10 DEF Trees!Stop, TreesTyped, TreesShape, WorkInv, OnBranch, Merged
  <2>6. TrackedInv'
    BY <1>10 DEF Trees!Stop, TreesTyped, TreesShape, TreesFlags, TrackedInv, TrackedParts, InStep,
         Used
  <2> QED BY <2>2, <2>3, <2>4, <2>5, <2>6
<1>11. ASSUME Trees!Resolve PROVE TreesInv'
  <2>2. TreesTyped'
    BY <1>11 DEF Trees!Resolve, TreesTyped
  <2>3. TreesFlags'
    BY <1>11 DEF Trees!Resolve, TreesFlags
  <2>4. TreesShape'
    BY <1>11 DEF Trees!Resolve, TreesTyped, TreesShape
  <2>5. WorkInv'
    BY <1>11 DEF Trees!Resolve, TreesTyped, TreesShape, WorkInv, OnBranch, Merged
  <2>6. TrackedInv'
    BY <1>11 DEF Trees!Resolve, TreesTyped, TreesShape, TreesFlags, TrackedInv, TrackedParts,
         InStep, Used
  <2> QED BY <2>2, <2>3, <2>4, <2>5, <2>6
<1>12. CASE UNCHANGED Trees!treeVars
  BY <1>12 DEF Trees!treeVars, TreesTyped, TreesFlags, TreesShape, WorkInv, OnBranch, Merged,
       TrackedInv, TrackedParts, InStep, Used
<1> QED BY <1>1, <1>2, <1>3, <1>4, <1>5, <1>6, <1>7, <1>8, <1>9, <1>10, <1>11, <1>12, <1>13, <1>14,
           <1>15 DEF Trees!Next

\* The worktrees of Shared run as Worktree says.
LEMMA TreesSpec == SharedSpec => Trees!Spec
<1>1. SharedInit => Trees!Init
  BY DEF SharedInit
<1>2. [SharedNext]_sharedVars => [Trees!Next]_(Trees!treeVars)
  BY DEF SharedNext, sharedVars, treeVars, Trees!treeVars
<1> QED BY <1>1, <1>2, PTL DEF SharedSpec, Trees!Spec

\* The invariant of the worktrees holds always.
LEMMA TreesInvariant == SharedSpec => []TreesInv
<1>1. ASSUME Trees!Init PROVE TreesInv
  <2>1. TreesTyped
    BY <1>1, TreesValues DEF Trees!Init, TreesTyped, Trees!Statuses
  <2>2. TreesFlags
    BY <1>1 DEF Trees!Init, TreesFlags
  <2> QED
    BY <1>1, <2>1, <2>2 DEF Trees!Init, TreesInv, TreesShape, WorkInv, Merged, TrackedInv,
         TrackedParts
<1> QED BY TreesSpec, TreesStep, <1>1, PTL DEF Trees!Spec

\* WorktreesKept (worktree.py): unless two commands work on one worker or it commits
\* after its merge, no commit is lost but by a discard; and while commands neither
\* overlap, die, fail to read the list nor leave a worktree half made or removed, the
\* state file lists the worktrees there are. For any workers, operators, commands and
\* commits.
THEOREM Worktrees == SharedSpec => []WorktreesKept
<1>1. TreesInv => WorktreesKept
  BY DEF TreesInv, WorkInv, OnBranch, TrackedInv, TrackedParts, Used, WorktreesKept,
       Trees!WorkKept, Trees!Tracked
<1> QED BY TreesInvariant, <1>1, PTL

-----------------------------------------------------------------------------
(* The plan dispatch.                                                      *)

-----------------------------------------------------------------------------
\* The operators of the standard modules, by the names that PlanDispatch has them under.
LEMMA DispatchCardinality == \A S : Dispatch!Cardinality(S) = Cardinality(S)
  BY DEF Dispatch!Cardinality, Cardinality, Dispatch!IsFiniteSet, IsFiniteSet

\* Sets of subtasks are finite.
LEMMA SubtasksFinite ==
  ASSUME NEW S \in SUBSET Subtasks
  PROVE  /\ IsFiniteSet(S) /\ Cardinality(S) \in Nat /\ S \subseteq Nat
         /\ Cardinality(S) <= Cardinality(Subtasks)
<1>1. IsFiniteSet(Subtasks) /\ Cardinality(Subtasks) \in Nat
  BY PlacesAssumption, FS_CardinalityType
<1>2. Subtasks \subseteq Nat
  BY <1>1, PlacesAssumption
<1> QED BY <1>1, <1>2, FS_Subset, FS_CardinalityType

\* The places of subtasks in a list are their numbers.
LEMMA PlacesApart ==
  ASSUME NEW S \in SUBSET Subtasks
  PROVE  /\ \A t \in S : Dispatch!PlaceIn(S, t) \in 1..Cardinality(S)
         /\ \A t, u \in S : Dispatch!PlaceIn(S, t) = Dispatch!PlaceIn(S, u) => t = u
         /\ \A i \in 1..Cardinality(S) : \E t \in S : Dispatch!PlaceIn(S, t) = i
<1> DEFINE upto(t) == {u \in S : u <= t}
<1>1. ASSUME NEW t \in S
      PROVE  /\ IsFiniteSet(upto(t)) /\ Cardinality(upto(t)) \in 1..Cardinality(S)
             /\ Dispatch!PlaceIn(S, t) = Cardinality(upto(t))
  <2>1. upto(t) \in SUBSET S /\ t \in upto(t)
    BY SubtasksFinite
  <2>2. /\ IsFiniteSet(upto(t)) /\ Cardinality(upto(t)) \in Nat
        /\ Cardinality(upto(t)) <= Cardinality(S) /\ Cardinality(S) \in Nat
    BY <2>1, SubtasksFinite, FS_Subset, FS_CardinalityType
  <2>3. Cardinality(upto(t)) # 0
    BY <2>1, <2>2, FS_EmptySet
  <2>4. Dispatch!PlaceIn(S, t) = Cardinality(upto(t))
    BY DispatchCardinality DEF Dispatch!PlaceIn
  <2> HIDE DEF upto
  <2> QED BY <2>2, <2>3, <2>4
<1>2. ASSUME NEW t \in S, NEW u \in S, t < u PROVE Cardinality(upto(t)) # Cardinality(upto(u))
  <2>1. upto(t) \in SUBSET upto(u) /\ u \in upto(u) /\ u \notin upto(t)
    BY <1>2, SubtasksFinite
  <2>2. IsFiniteSet(upto(u))
    BY <1>1
  <2> HIDE DEF upto
  <2> QED BY <2>1, <2>2, FS_Subset
<1>3. ASSUME NEW t \in S, NEW u \in S, Dispatch!PlaceIn(S, t) = Dispatch!PlaceIn(S, u) PROVE t = u
  <2>1. t \in Nat /\ u \in Nat
    BY SubtasksFinite
  <2>2. Cardinality(upto(t)) = Cardinality(upto(u))
    BY <1>1, <1>3
  <2> HIDE DEF upto
  <2> QED BY <1>2, <2>1, <2>2
<1> DEFINE f == [t \in S |-> Dispatch!PlaceIn(S, t)]
<1>4. \A t \in S : Dispatch!PlaceIn(S, t) \in 1..Cardinality(S)
  BY <1>1
<1>5. f \in Injection(S, 1..Cardinality(S))
  BY <1>3, <1>4 DEF Injection, IsInjective
<1>6. IsFiniteSet(1..Cardinality(S)) /\ Cardinality(1..Cardinality(S)) = Cardinality(S)
  <2>1. 1 \in Int /\ Cardinality(S) \in Int /\ Cardinality(S) \in Nat
    BY SubtasksFinite
  <2> QED BY <2>1, FS_Interval
<1>7. f \in Surjection(S, 1..Cardinality(S))
  <2> HIDE DEF f
  <2> QED BY <1>5, <1>6, FS_Injection
<1>8. \A i \in 1..Cardinality(S) : \E t \in S : Dispatch!PlaceIn(S, t) = i
  BY <1>7 DEF Surjection
<1> QED BY <1>3, <1>4, <1>8

\* The list of a set has its elements, each once.
LEMMA InListOf ==
  ASSUME NEW S \in SUBSET Subtasks, NEW l, l = Dispatch!InList(S)
  PROVE  /\ l \in Seq(S) /\ Len(l) = Cardinality(S) /\ Len(l) \in Nat
         /\ \A i, j \in 1..Len(l) : l[i] = l[j] => i = j
         /\ \A t \in S : \E i \in 1..Len(l) : l[i] = t
<1>1. l = [i \in 1..Cardinality(S) |-> CHOOSE t \in S : Dispatch!PlaceIn(S, t) = i]
  BY DispatchCardinality DEF Dispatch!InList
<1>2. \A i \in 1..Cardinality(S) : l[i] \in S /\ Dispatch!PlaceIn(S, l[i]) = i
  BY <1>1, PlacesApart
<1>3. Cardinality(S) \in Nat
  BY SubtasksFinite
<1>4. l \in Seq(S) /\ Len(l) = Cardinality(S)
  BY <1>1, <1>2, <1>3
<1>5. \A t \in S : \E i \in 1..Len(l) : l[i] = t
  BY <1>2, <1>4, PlacesApart
<1> QED BY <1>2, <1>3, <1>4, <1>5

-----------------------------------------------------------------------------
\* The subtasks that t waits for; those in the order, before place i of it, and in the queue.
Awaited(t) == Dispatch!Before(t) \intersect Subtasks
\* The subtasks that are in the order.
Ordered == {order[i] : i \in 1..Len(order)}
\* Those that come before the i-th.
OrderedBefore(i) == {order[j] : j \in 1..(i-1)}
\* The subtasks in the queue.
Queued == {queue[i] : i \in 1..Len(queue)}

\* Types of the dispatch.
DispatchTypes ==
  /\ queue \in Seq(Subtasks) /\ order \in Seq(Subtasks)
  /\ level \in [Subtasks -> Nat \union {Nil}]
  /\ placed \in 0..Cardinality(Subtasks)
  /\ files \in [Subtasks -> SUBSET Paths]

\* What is in the order waits for nothing that is not before it; the queue has exactly
\* the others that wait for nothing outside the order.
Sorted ==
  /\ \A i \in 1..Len(order) : Awaited(order[i]) \subseteq OrderedBefore(i)
  /\ \A t \in Queued : Awaited(t) \subseteq Ordered
  /\ \A t \in Subtasks : Awaited(t) \subseteq Ordered => t \in Ordered \union Queued
  /\ \A i, j \in 1..Len(order) : order[i] = order[j] => i = j
  /\ \A i, j \in 1..Len(queue) : queue[i] = queue[j] => i = j
  /\ Ordered \intersect Queued = {}

\* The first of the order, as many as were placed, have a level: one more than the
\* highest of what they wait for.
Grouped ==
  /\ placed <= Len(order)
  /\ placed > 0 => queue = <<>>
  /\ \A i \in 1..Len(order) : level[order[i]] # Nil <=> i <= placed
  /\ \A t \in Subtasks \ Ordered : level[t] = Nil
  /\ \A i \in 1..placed : level[order[i]] <= i
  /\ \A i \in 1..placed : \A d \in Awaited(order[i]) :
       level[d] # Nil /\ level[d] < level[order[i]]
  /\ \A i \in 1..placed : level[order[i]] > 1 =>
       \E d \in Awaited(order[i]) : level[d] = level[order[i]] - 1

\* The inductive invariant of the dispatch.
DispatchInv == DispatchTypes /\ Sorted /\ Grouped

\* A subtask has no open dependency if all it waits for is done.
LEMMA OpenIs ==
  ASSUME NEW t, NEW D
  PROVE  Dispatch!Open(t, D) = {} <=> Awaited(t) \subseteq D
  BY DEF Dispatch!Open, Awaited

\* What a subtask waits for follows from the input.
LEMMA AwaitedStays ==
  ASSUME UNCHANGED <<deps, files>>
  PROVE  \A t : Dispatch!Before(t)' = Dispatch!Before(t) /\ Awaited(t)' = Awaited(t)
<1>1. \A f : Dispatch!Touching(f)' = Dispatch!Touching(f)
  BY DEF Dispatch!Touching
<1>2. Dispatch!Conflicts' = Dispatch!Conflicts
  BY <1>1 DEF Dispatch!Conflicts
<1>3. \A f : Dispatch!First(f)' = Dispatch!First(f)
  BY <1>1 DEF Dispatch!First
<1>4. \A t : Dispatch!Before(t)' = Dispatch!Before(t)
  BY <1>2, <1>3 DEF Dispatch!Before
<1> QED BY <1>4 DEF Awaited

\* The elements of the second of two joined sequences.
LEMMA SecondPart ==
  ASSUME NEW S, NEW s \in Seq(S), NEW t \in Seq(S), NEW i \in 1..Len(t)
  PROVE  (s \o t)[Len(s) + i] = t[i]
<1>1. Len(s) \in Nat /\ Len(t) \in Nat /\ Len(s) + i \in 1..(Len(s) + Len(t))
  OBVIOUS
<1>2. ~(Len(s) + i <= Len(s)) /\ (Len(s) + i) - Len(s) = i
  BY <1>1
<1> QED BY <1>1, <1>2

\* The queue begins with the subtasks that wait for nothing.
LEMMA DispatchInitially == Dispatch!Init => DispatchInv
<1> SUFFICES ASSUME Dispatch!Init PROVE DispatchInv
  OBVIOUS
<1> DEFINE free == {t \in Subtasks : Dispatch!Open(t, {}) = {}}
<1>1. /\ queue = Dispatch!InList(free) /\ order = <<>> /\ placed = 0
      /\ level = [t \in Subtasks |-> Nil] /\ files \in [Subtasks -> SUBSET Paths]
  BY DEF Dispatch!Init
<1>2. /\ queue \in Seq(free) /\ Len(queue) \in Nat
      /\ \A i, j \in 1..Len(queue) : queue[i] = queue[j] => i = j
      /\ \A t \in free : \E i \in 1..Len(queue) : queue[i] = t
  <2>1. free \in SUBSET Subtasks
    OBVIOUS
  <2> HIDE DEF free
  <2> QED BY <1>1, <2>1, InListOf
<1>3. \A t : t \in free <=> t \in Subtasks /\ Awaited(t) \subseteq {}
  BY OpenIs
<1> HIDE DEF free
<1>4. queue \in Seq(Subtasks) /\ Queued = free /\ Ordered = {}
  BY <1>1, <1>2, <1>3 DEF Queued, Ordered
<1>5. DispatchTypes
  <2>1. Cardinality(Subtasks) \in Nat
    BY SubtasksFinite
  <2> QED BY <1>1, <1>4, <2>1 DEF DispatchTypes
<1>6. Sorted
  BY <1>1, <1>2, <1>3, <1>4 DEF Sorted
<1>7. Grouped
  BY <1>1, <1>4 DEF Grouped
<1> QED BY <1>5, <1>6, <1>7 DEF DispatchInv

\* Asking the sessions changes neither order nor groups.
LEMMA AskKeeps == DispatchInv /\ Dispatch!AskSessions => DispatchInv'
<1> SUFFICES ASSUME DispatchInv, Dispatch!AskSessions PROVE DispatchInv'
  OBVIOUS
<1>1. UNCHANGED <<deps, files, queue, order, level, placed>>
  BY DEF Dispatch!AskSessions
<1>2. \A t : Awaited(t)' = Awaited(t)
  BY <1>1, AwaitedStays
<1>3. Ordered' = Ordered /\ Queued' = Queued /\ \A i : OrderedBefore(i)' = OrderedBefore(i)
  BY <1>1 DEF Ordered, Queued, OrderedBefore
<1>4. DispatchTypes'
  BY <1>1 DEF DispatchInv, DispatchTypes
<1>5. Sorted'
  BY <1>1, <1>2, <1>3 DEF DispatchInv, Sorted
<1>6. Grouped'
  BY <1>1, <1>2, <1>3 DEF DispatchInv, Grouped
<1> QED BY <1>4, <1>5, <1>6 DEF DispatchInv

\* A turn of Kahn's loop: what leaves the queue waits for nothing outside the order, and
\* what it frees enters the queue once.
LEMMA SortKeeps == DispatchInv /\ Dispatch!Sort => DispatchInv'
<1> SUFFICES ASSUME DispatchInv, Dispatch!Sort PROVE DispatchInv'
  OBVIOUS
<1> DEFINE h == Head(queue)
           freed == {t \in Subtasks : h \in Dispatch!Before(t) /\ Dispatch!Open(t, Ordered') = {}}
           n == Len(order)
           m == Len(queue) - 1
           l == Dispatch!InList(freed)
<1>1. /\ queue \in Seq(Subtasks) /\ order \in Seq(Subtasks) /\ queue # <<>>
      /\ n \in Nat /\ m \in Nat /\ Len(queue) = m + 1 /\ n = Len(order)
      /\ h \in Subtasks /\ queue[1] = h
  BY DEF DispatchInv, DispatchTypes, Dispatch!Sort
<1>2. /\ order' = Append(order, h) /\ UNCHANGED <<deps, files, held, told, level, placed>>
  BY <1>1 DEF Dispatch!Sort
<1>3. /\ order' \in Seq(Subtasks) /\ Len(order') = n + 1 /\ order'[n + 1] = h
      /\ \A i \in 1..n : order'[i] = order[i]
  BY <1>1, <1>2
<1>4. DOMAIN order' = 1..Len(order')
  BY <1>3
<1>5. queue' = Tail(queue) \o l
  <2>1. Ordered' = {order'[i] : i \in DOMAIN order'}
    BY <1>4 DEF Ordered
  <2> QED BY <2>1 DEF Dispatch!Sort
<1>6. /\ l \in Seq(freed) /\ Len(l) \in Nat
      /\ \A i, j \in 1..Len(l) : l[i] = l[j] => i = j
      /\ \A t \in freed : \E i \in 1..Len(l) : l[i] = t
  BY InListOf
<1> HIDE DEF n, m, h
<1>7. \A t : t \in freed <=> t \in Subtasks /\ h \in Awaited(t) /\ Awaited(t) \subseteq Ordered'
  BY <1>1, OpenIs DEF Awaited
<1>8. Ordered' = Ordered \union {h}
  <2>1. \A i \in 1..(n + 1) : i \in 1..n \/ i = n + 1
    BY <1>1
  <2>2. 1..Len(order') = 1..(n + 1) /\ n + 1 \in 1..(n + 1) /\ 1..n \subseteq 1..(n + 1)
    BY <1>1, <1>3
  <2>3. Ordered = {order[i] : i \in 1..n}
    BY <1>1 DEF Ordered
  <2>4. Ordered' = {order'[i] : i \in 1..(n + 1)}
    BY <2>2 DEF Ordered
  <2> QED BY <1>3, <2>1, <2>2, <2>3, <2>4
<1>9. h \in Queued /\ h \notin Ordered
  BY <1>1 DEF DispatchInv, Sorted, Queued
<1>10. \A t \in freed : t \notin Ordered /\ t \notin Queued
  <2>1. ASSUME NEW t \in freed, t \in Queued PROVE FALSE
    BY <2>1, <1>7, <1>9 DEF DispatchInv, Sorted
  <2>2. ASSUME NEW t \in freed, t \in Ordered PROVE FALSE
    <3>1. PICK i \in 1..n : order[i] = t
      BY <2>2, <1>1 DEF Ordered
    <3>2. h \in OrderedBefore(i)
      BY <3>1, <1>1, <1>7 DEF DispatchInv, Sorted
    <3>3. h \in Ordered
      BY <3>1, <3>2, <1>1 DEF OrderedBefore, Ordered
    <3> QED BY <3>3, <1>9
  <2> QED BY <2>1, <2>2
<1> HIDE DEF freed, l
<1>11. /\ Len(queue') = m + Len(l) /\ queue' \in Seq(Subtasks)
       /\ \A i \in 1..m : queue'[i] = queue[i + 1]
       /\ \A i \in 1..Len(l) : queue'[m + i] = l[i]
  <2>1. freed \subseteq Subtasks
    BY <1>7
  <2>2. l \in Seq(Subtasks)
    BY <1>6, <2>1
  <2>3. /\ Tail(queue) \in Seq(Subtasks) /\ Len(Tail(queue)) = m
        /\ \A i \in 1..m : Tail(queue)[i] = queue[i + 1]
    BY <1>1
  <2>4. queue' \in Seq(Subtasks) /\ Len(queue') = m + Len(l)
    BY <1>5, <2>2, <2>3
  <2>5. \A i \in 1..m : queue'[i] = Tail(queue)[i]
    BY <1>1, <1>5, <1>6, <2>2, <2>3
  <2>6. \A i \in 1..Len(l) : queue'[m + i] = l[i]
    BY <1>5, <2>2, <2>3, SecondPart
  <2> QED BY <2>3, <2>4, <2>5, <2>6
<1>12. \A i \in 1..Len(queue') : \/ i \in 1..m
                                \/ \E k \in 1..Len(l) : i = m + k
  <2>1. ASSUME NEW i \in 1..Len(queue'), i \notin 1..m PROVE \E k \in 1..Len(l) : i = m + k
    <3>1. i - m \in 1..Len(l) /\ i = m + (i - m)
      BY <2>1, <1>1, <1>6, <1>11
    <3> QED BY <3>1
  <2> QED BY <2>1
<1>13. \A i \in 1..m : i + 1 \in 1..Len(queue) /\ queue[i + 1] # h /\ queue[i + 1] \in Queued
  BY <1>1 DEF DispatchInv, Sorted, Queued
<1>14. \A i \in 1..Len(l) : l[i] \in freed
  BY <1>6
<1>15. Queued' = (Queued \ {h}) \union freed
  <2>1. ASSUME NEW t \in Queued' PROVE t \in (Queued \ {h}) \union freed
    <3>1. PICK i \in 1..Len(queue') : queue'[i] = t
      BY <2>1 DEF Queued
    <3>2. CASE i \in 1..m
      BY <3>1, <3>2, <1>11, <1>13
    <3>3. CASE \E k \in 1..Len(l) : i = m + k
      BY <3>1, <3>3, <1>11, <1>14
    <3> QED BY <3>2, <3>3, <1>12
  <2>2. ASSUME NEW t \in Queued, t # h PROVE t \in Queued'
    <3>1. PICK i \in 1..Len(queue) : queue[i] = t
      BY DEF Queued
    <3>2. i - 1 \in 1..m /\ (i - 1) + 1 = i
      BY <3>1, <2>2, <1>1
    <3>3. queue'[i - 1] = t /\ i - 1 \in 1..Len(queue')
      BY <3>1, <3>2, <1>1, <1>6, <1>11
    <3> QED BY <3>3 DEF Queued
  <2>3. ASSUME NEW t \in freed PROVE t \in Queued'
    <3>1. PICK k \in 1..Len(l) : l[k] = t
      BY <2>3, <1>6
    <3>2. m + k \in 1..(m + Len(l))
      BY <1>1, <1>6
    <3>3. m + k \in 1..Len(queue') /\ queue'[m + k] = t
      BY <3>1, <3>2, <1>11
    <3> QED BY <3>3 DEF Queued
  <2> QED BY <2>1, <2>2, <2>3
<1>16. \A t : Awaited(t)' = Awaited(t)
  BY <1>2, AwaitedStays
<1>17. DispatchTypes'
  BY <1>2, <1>3, <1>11 DEF DispatchInv, DispatchTypes
<1>18. Sorted'
  <2>1. ASSUME NEW i \in 1..Len(order') PROVE Awaited(order'[i]) \subseteq OrderedBefore(i)'
    <3>1. CASE i \in 1..n
      <4>1. OrderedBefore(i)' = OrderedBefore(i)
        <5>1. \A j \in 1..(i-1) : order'[j] = order[j]
          BY <1>1, <1>3, <3>1
        <5> QED BY <5>1 DEF OrderedBefore
      <4> QED BY <3>1, <4>1, <1>1, <1>3 DEF DispatchInv, Sorted
    <3>2. CASE i = n + 1
      <4>1. OrderedBefore(i)' = Ordered
        <5>1. \A j \in 1..(i-1) : order'[j] = order[j] /\ j \in 1..n
          BY <1>1, <1>3, <3>2
        <5>2. \A j \in 1..n : j \in 1..(i-1)
          BY <1>1, <3>2
        <5> QED BY <1>1, <5>1, <5>2 DEF OrderedBefore, Ordered
      <4> QED BY <3>2, <4>1, <1>1, <1>3, <1>9 DEF DispatchInv, Sorted
    <3> QED BY <3>1, <3>2, <1>1, <1>3
  <2>2. \A t \in Queued' : Awaited(t) \subseteq Ordered'
    <3>1. \A t \in Queued : Awaited(t) \subseteq Ordered
      BY DEF DispatchInv, Sorted
    <3> QED BY <3>1, <1>7, <1>8, <1>15
  <2>3. ASSUME NEW t \in Subtasks, Awaited(t) \subseteq Ordered'
        PROVE t \in Ordered' \union Queued'
    <3>1. CASE h \in Awaited(t)
      BY <3>1, <2>3, <1>7, <1>15
    <3>2. CASE h \notin Awaited(t)
      <4>1. Awaited(t) \subseteq Ordered
        BY <3>2, <2>3, <1>8
      <4> QED BY <4>1, <1>8, <1>15 DEF DispatchInv, Sorted
    <3> QED BY <3>1, <3>2
  <2>4. ASSUME NEW i \in 1..Len(order'), NEW j \in 1..Len(order'), order'[i] = order'[j]
        PROVE i = j
    <3>1. \A k \in 1..n : order[k] # h
      BY <1>1, <1>9 DEF Ordered
    <3>2. \A k \in 1..Len(order') : k \in 1..n \/ k = n + 1
      BY <1>1, <1>3
    <3>3. \A k1, k2 \in 1..n : order[k1] = order[k2] => k1 = k2
      BY <1>1 DEF DispatchInv, Sorted
    <3> QED BY <2>4, <3>1, <3>2, <3>3, <1>3
  <2>5. ASSUME NEW i \in 1..Len(queue'), NEW j \in 1..Len(queue'), queue'[i] = queue'[j]
        PROVE i = j
    <3>1. CASE i \in 1..m /\ j \in 1..m
      <4>1. queue[i + 1] = queue[j + 1] /\ i + 1 \in 1..Len(queue) /\ j + 1 \in 1..Len(queue)
        BY <3>1, <2>5, <1>11, <1>13
      <4>2. i + 1 = j + 1
        BY <4>1 DEF DispatchInv, Sorted
      <4> QED BY <4>2
    <3>2. CASE i \in 1..m /\ \E k \in 1..Len(l) : j = m + k
      BY <3>2, <2>5, <1>10, <1>11, <1>13, <1>14
    <3>3. CASE j \in 1..m /\ \E k \in 1..Len(l) : i = m + k
      BY <3>3, <2>5, <1>10, <1>11, <1>13, <1>14
    <3>4. CASE (\E k \in 1..Len(l) : i = m + k) /\ (\E k \in 1..Len(l) : j = m + k)
      BY <3>4, <2>5, <1>6, <1>11
    <3> QED BY <3>1, <3>2, <3>3, <3>4, <1>12
  <2>6. Ordered' \intersect Queued' = {}
    <3>1. Ordered \intersect Queued = {}
      BY DEF DispatchInv, Sorted
    <3>2. h \notin freed
      BY <1>9, <1>10
    <3> QED BY <3>1, <3>2, <1>8, <1>10, <1>15
  <2> QED BY <2>1, <2>2, <2>3, <2>4, <2>5, <2>6, <1>16 DEF Sorted
<1>19. placed = 0
  BY <1>1 DEF DispatchInv, DispatchTypes, Grouped
<1>20. Grouped'
  <2>1. \A t \in Subtasks : level[t] = Nil
    <3>1. ASSUME NEW t \in Subtasks, t \in Ordered PROVE level[t] = Nil
      <4>1. PICK i \in 1..n : order[i] = t
        BY <3>1, <1>1 DEF Ordered
      <4>2. ~(i <= placed)
        BY <1>19
      <4> QED BY <4>1, <4>2, <1>1, <1>3 DEF DispatchInv, Grouped
    <3> QED BY <3>1 DEF DispatchInv, Grouped
  <2>2. placed' = 0 /\ level' = level
    BY <1>2, <1>19
  <2>3. \A i \in 1..Len(order') : level'[order'[i]] = Nil
    BY <2>1, <2>2, <1>3
  <2> QED BY <2>1, <2>2, <2>3, <1>1, <1>3 DEF Grouped
<1> QED BY <1>17, <1>18, <1>20 DEF DispatchInv

\* A set of numbers with a bound has a greatest one, and Max is it.
LEMMA MaxIs ==
  ASSUME NEW n \in Nat, NEW T \in SUBSET (0..n), T # {}
  PROVE  Dispatch!Max(T) \in T /\ \A y \in T : y <= Dispatch!Max(T)
<1> DEFINE U == {b \in Nat : \A y \in T : y <= b}
<1>1. U \in SUBSET Nat /\ n \in U
  OBVIOUS
<1>2. PICK m \in U : \A b \in U : m <= b
  <2> HIDE DEF U
  <2> QED BY <1>1, Least
<1>3. m \in T
  <2>1. CASE m \notin T
    <3>1. PICK z : z \in T
      OBVIOUS
    <3>2. z \in Nat /\ z <= m /\ z # m
      BY <3>1, <2>1
    <3>3. m - 1 \in Nat
      BY <3>2
    <3>4. \A y \in T : y <= m - 1
      BY <2>1
    <3>5. m - 1 \in U
      BY <3>3, <3>4
    <3> QED BY <3>5, <1>2
  <2> QED BY <2>1
<1>4. \E x \in T : \A y \in T : x >= y
  BY <1>3
<1>5. Dispatch!Max(T) \in T /\ \A y \in T : Dispatch!Max(T) >= y
  BY <1>4 DEF Dispatch!Max
<1> QED BY <1>5

\* A turn of the loop over the order: all that a subtask waits for has its group
\* already.
LEMMA GroupKeeps == DispatchInv /\ Dispatch!Group => DispatchInv'
<1> SUFFICES ASSUME DispatchInv, Dispatch!Group PROVE DispatchInv'
  OBVIOUS
<1> DEFINE p == placed + 1
           u == order[p]
           v == Dispatch!Level(u)
           T == {0} \union ({level[d] : d \in Awaited(u)} \ {Nil})
<1>1. /\ queue = <<>> /\ Len(order) = Cardinality(Subtasks) /\ placed < Len(order)
      /\ placed' = p /\ level' = [level EXCEPT ![u] = v]
      /\ UNCHANGED <<deps, files, held, told, queue, order>>
  BY DispatchCardinality DEF Dispatch!Group
<1>2. /\ order \in Seq(Subtasks) /\ placed \in Nat /\ Len(order) \in Nat
      /\ level \in [Subtasks -> Nat \union {Nil}]
  BY DEF DispatchInv, DispatchTypes
<1>3. p \in 1..Len(order) /\ p \in Nat /\ u \in Subtasks /\ ~(p <= placed)
  BY <1>1, <1>2
<1>4. level[u] = Nil
  <2> HIDE DEF p
  <2> QED BY <1>3 DEF DispatchInv, Grouped
<1>5. Nil \notin Nat
  BY ValuesAssumption
<1>6. \A d \in Awaited(u) : \E i \in 1..placed : order[i] = d
  <2>1. Awaited(u) \subseteq OrderedBefore(p)
    <3> HIDE DEF p
    <3> QED BY <1>3 DEF DispatchInv, Sorted
  <2>2. p - 1 = placed
    BY <1>2
  <2> QED BY <2>1, <2>2 DEF OrderedBefore
<1>7. \A i \in 1..placed : i \in 1..Len(order) /\ order[i] \in Subtasks /\ level[order[i]] # Nil
  <2>1. \A i \in 1..placed : i \in 1..Len(order) /\ i <= placed
    BY <1>1, <1>2
  <2> QED BY <2>1, <1>2 DEF DispatchInv, Grouped
<1>8. \A d \in Awaited(u) : d \in Subtasks /\ level[d] \in 0..placed /\ level[d] # Nil
  <2> TAKE d \in Awaited(u)
  <2>1. PICK i \in 1..placed : order[i] = d
    BY <1>6
  <2>2. level[d] \in Nat
    BY <2>1, <1>2, <1>7
  <2>3. level[d] <= i
    BY <2>1 DEF DispatchInv, Grouped
  <2> QED BY <2>1, <2>2, <2>3, <1>2, <1>7
<1>9. T \in SUBSET (0..placed) /\ T # {}
  BY <1>8, <1>2
<1>10. v = IF Dispatch!Before(u) = {} THEN 0 ELSE 1 + Dispatch!Max(T)
  BY DEF Dispatch!Level, Awaited
<1> HIDE DEF T
<1>11. Dispatch!Max(T) \in T /\ \A y \in T : y <= Dispatch!Max(T)
  BY <1>2, <1>9, MaxIs
<1>12. Dispatch!Max(T) \in 0..placed
  BY <1>9, <1>11
<1>13. v \in Nat /\ v <= p
  BY <1>2, <1>10, <1>12
<1>14. \A d \in Awaited(u) : level[d] < v
  <2> TAKE d \in Awaited(u)
  <2>1. level[d] \in T /\ Dispatch!Before(u) # {}
    BY <1>8 DEF T, Awaited
  <2> QED BY <2>1, <1>8, <1>10, <1>11, <1>12
<1>15. v > 1 => \E d \in Awaited(u) : level[d] = v - 1
  <2> SUFFICES ASSUME v > 1 PROVE \E d \in Awaited(u) : level[d] = v - 1
    OBVIOUS
  <2>1. Dispatch!Max(T) = v - 1 /\ Dispatch!Max(T) # 0
    BY <1>10, <1>12
  <2>2. \E d \in Awaited(u) : level[d] = Dispatch!Max(T)
    BY <2>1, <1>11 DEF T
  <2> QED BY <2>1, <2>2
<1> HIDE DEF v, u, p
<1>16. level'[u] = v /\ \A d \in Subtasks : d # u => level'[d] = level[d]
  BY <1>1, <1>2, <1>3
<1>17. \A d \in Awaited(u) : level'[d] = level[d]
  BY <1>4, <1>8, <1>16
<1>18. \A i \in 1..placed : order[i] # u /\ level'[order[i]] = level[order[i]]
  BY <1>4, <1>7, <1>16
<1>19. /\ \A t : Awaited(t)' = Awaited(t)
       /\ Ordered' = Ordered /\ Queued' = Queued /\ \A i : OrderedBefore(i)' = OrderedBefore(i)
  BY <1>1, AwaitedStays DEF Ordered, Queued, OrderedBefore
<1>20. DispatchTypes'
  <2>1. level' \in [Subtasks -> Nat \union {Nil}]
    BY <1>1, <1>2, <1>13
  <2>2. p \in 0..Cardinality(Subtasks)
    BY <1>1, <1>3
  <2> QED BY <2>1, <2>2, <1>1 DEF DispatchInv, DispatchTypes
<1>21. Sorted'
  BY <1>1, <1>19 DEF DispatchInv, Sorted
<1>22. Grouped'
  <2>1. \A i : i \in 1..p <=> i \in 1..placed \/ i = p
    BY <1>2 DEF p
  <2>2. p <= Len(order) /\ order[p] = u
    BY <1>3 DEF u
  <2>3. ASSUME NEW i \in 1..Len(order) PROVE level'[order[i]] # Nil <=> i <= p
    <3>1. CASE i \in 1..placed
      <4>1. i <= p /\ level'[order[i]] # Nil
        BY <3>1, <1>2, <1>7, <1>18 DEF p
      <4> QED BY <4>1
    <3>2. CASE i = p
      BY <3>2, <2>2, <1>3, <1>5, <1>13, <1>16
    <3>3. CASE ~(i <= p)
      <4>1. ~(i <= placed) /\ order[i] \in Subtasks
        BY <3>3, <1>2 DEF p
      <4>2. level[order[i]] = Nil
        BY <4>1 DEF DispatchInv, Grouped
      <4>3. order[i] # u
        BY <2>2, <3>3, <1>3 DEF DispatchInv, Sorted
      <4> QED BY <4>1, <4>2, <4>3, <3>3, <1>16
    <3> QED BY <3>1, <3>2, <3>3, <1>2 DEF p
  <2>4. ASSUME NEW t \in Subtasks, t \notin Ordered PROVE level'[t] = Nil
    <3>1. u \in Ordered
      BY <1>3, <2>2 DEF Ordered
    <3> QED BY <3>1, <2>4, <1>16 DEF DispatchInv, Grouped
  <2>5. ASSUME NEW i \in 1..p PROVE level'[order[i]] <= i
    BY <2>1, <2>2, <1>13, <1>16, <1>18 DEF DispatchInv, Grouped
  <2>6. ASSUME NEW i \in 1..p, NEW d \in Awaited(order[i])
        PROVE level'[d] # Nil /\ level'[d] < level'[order[i]]
    <3>1. CASE i = p
      BY <3>1, <2>2, <1>8, <1>14, <1>16, <1>17
    <3>2. CASE i \in 1..placed
      <4>1. level[d] # Nil /\ level[d] < level[order[i]] /\ d \in Subtasks
        BY <3>2 DEF DispatchInv, Grouped, Awaited
      <4> QED BY <4>1, <3>2, <1>4, <1>16, <1>18
    <3> QED BY <3>1, <3>2, <2>1
  <2>7. ASSUME NEW i \in 1..p, level'[order[i]] > 1
        PROVE \E d \in Awaited(order[i]) : level'[d] = level'[order[i]] - 1
    <3>1. CASE i = p
      BY <3>1, <2>2, <2>7, <1>15, <1>16, <1>17
    <3>2. CASE i \in 1..placed
      <4>1. PICK d \in Awaited(order[i]) : level[d] = level[order[i]] - 1
        BY <3>2, <2>7, <1>18 DEF DispatchInv, Grouped
      <4>2. level[d] # Nil /\ d \in Subtasks
        BY <3>2 DEF DispatchInv, Grouped, Awaited
      <4>3. level'[d] = level[d]
        BY <4>2, <1>4, <1>16
      <4> QED BY <4>1, <4>3, <3>2, <1>18
    <3> QED BY <3>1, <3>2, <2>1
  <2> QED BY <2>2, <2>3, <2>4, <2>5, <2>6, <2>7, <1>1, <1>19 DEF Grouped
<1> QED BY <1>20, <1>21, <1>22 DEF DispatchInv

\* Nothing that happens keeps the invariant.
LEMMA DispatchStays == DispatchInv /\ UNCHANGED dispatchVars => DispatchInv'
<1> SUFFICES ASSUME DispatchInv, UNCHANGED dispatchVars PROVE DispatchInv'
  OBVIOUS
<1>1. UNCHANGED <<deps, files, queue, order, level, placed>>
  BY DEF dispatchVars
<1>2. /\ \A t : Awaited(t)' = Awaited(t)
      /\ Ordered' = Ordered /\ Queued' = Queued /\ \A i : OrderedBefore(i)' = OrderedBefore(i)
  BY <1>1, AwaitedStays DEF Ordered, Queued, OrderedBefore
<1>3. DispatchTypes'
  BY <1>1 DEF DispatchInv, DispatchTypes
<1>4. Sorted'
  BY <1>1, <1>2 DEF DispatchInv, Sorted
<1>5. Grouped'
  BY <1>1, <1>2 DEF DispatchInv, Grouped
<1> QED BY <1>3, <1>4, <1>5 DEF DispatchInv

\* Kahn's order is what it should be.
LEMMA SortedIsSound == DispatchInv => Dispatch!OrderSound
<1> SUFFICES ASSUME DispatchInv PROVE Dispatch!OrderSound
  OBVIOUS
<1>1. order \in Seq(Subtasks) /\ Len(order) \in Nat /\ DOMAIN order = 1..Len(order)
  BY DEF DispatchInv, DispatchTypes
<1>2. ASSUME NEW i \in DOMAIN order, NEW j \in DOMAIN order,
             order[j] \in Dispatch!Before(order[i])
      PROVE j < i
  <2>1. order[j] \in OrderedBefore(i)
    <3>1. order[j] \in Awaited(order[i])
      BY <1>1, <1>2 DEF Awaited
    <3> QED BY <3>1, <1>1 DEF DispatchInv, Sorted
  <2>2. PICK k \in 1..(i-1) : order[k] = order[j]
    BY <2>1 DEF OrderedBefore
  <2>3. k \in 1..Len(order)
    BY <1>1
  <2>4. k = j
    BY <1>1, <2>2, <2>3 DEF DispatchInv, Sorted
  <2> QED BY <2>4, <1>1
<1>3. \A i, j \in DOMAIN order : order[i] = order[j] => i = j
  BY <1>1 DEF DispatchInv, Sorted
<1>4. ASSUME queue = <<>>
      PROVE  /\ Dispatch!CycleNodes = Subtasks \ Ordered
             /\ Dispatch!Stuck = Subtasks \ Ordered
  <2>1. Ordered = {order[i] : i \in DOMAIN order}
    BY <1>1 DEF Ordered
  <2>2. Queued = {}
    BY <1>4 DEF Queued
  <2>3. \A t \in Subtasks : Awaited(t) \subseteq Ordered <=> t \in Ordered
    <3>1. ASSUME NEW t \in Ordered PROVE Awaited(t) \subseteq Ordered
      <4>1. PICK i \in 1..Len(order) : order[i] = t
        BY DEF Ordered
      <4>2. OrderedBefore(i) \subseteq Ordered
        BY <1>1 DEF OrderedBefore, Ordered
      <4> QED BY <4>1, <4>2 DEF DispatchInv, Sorted
    <3> QED BY <3>1, <2>2 DEF DispatchInv, Sorted
  <2>4. Dispatch!CycleNodes = {t \in Subtasks : Dispatch!Open(t, Ordered) # {}}
    BY <2>1 DEF Dispatch!CycleNodes
  <2>5. Dispatch!CycleNodes = Subtasks \ Ordered
    BY <2>3, <2>4, OpenIs
  <2> DEFINE R == Subtasks \ Ordered
  <2>6. \A t \in R : Dispatch!Before(t) \intersect R # {}
    BY <2>3 DEF Awaited
  <2>7. R \subseteq Dispatch!Stuck
    <3> HIDE DEF R
    <3>1. R \in SUBSET Subtasks
      BY DEF R
    <3> QED BY <2>6, <3>1 DEF Dispatch!Stuck
  <2>8. ASSUME NEW S \in SUBSET Subtasks, \A t \in S : Dispatch!Before(t) \intersect S # {}
        PROVE  S \subseteq R
    <3> SUFFICES ASSUME NEW s \in S, s \in Ordered PROVE FALSE
      OBVIOUS
    <3> DEFINE I == {i \in 1..Len(order) : order[i] \in S}
    <3>1. I \in SUBSET Nat /\ I # {}
      BY <1>1 DEF Ordered
    <3>2. PICK i \in I : \A j \in I : i <= j
      <4> HIDE DEF I
      <4> QED BY <3>1, Least
    <3>3. PICK d \in S : d \in Dispatch!Before(order[i])
      BY <3>2, <2>8
    <3>4. d \in Awaited(order[i])
      BY <3>3 DEF Awaited
    <3>5. d \in OrderedBefore(i)
      BY <3>4 DEF DispatchInv, Sorted
    <3>6. PICK j \in 1..(i-1) : order[j] = d
      BY <3>5 DEF OrderedBefore
    <3>7. j \in I /\ j < i
      BY <3>3, <3>6, <1>1
    <3> QED BY <3>2, <3>7
  <2>9. Dispatch!Stuck \subseteq R
    BY <2>8 DEF Dispatch!Stuck
  <2> QED BY <2>5, <2>7, <2>9
<1>5. Ordered = {order[i] : i \in DOMAIN order}
  BY <1>1 DEF Ordered
<1> QED BY <1>2, <1>3, <1>4, <1>5 DEF Dispatch!OrderSound

\* The groups and the owners are what they should be.
LEMMA GroupedIsSound == DispatchInv => Dispatch!GroupsSound
<1> SUFFICES ASSUME DispatchInv, \A t \in Subtasks : level[t] # Nil,
                    NEW t \in Subtasks, NEW u \in Subtasks
    PROVE  /\ t \in Dispatch!Before(u) => level[t] < level[u]
           /\ level[u] > 1 =>
                \E d \in Dispatch!Before(u) \intersect Subtasks : level[d] = level[u] - 1
           /\ \A f \in files[t] \intersect files[u] :
                t # u => \/ f \notin Dispatch!OwnedFiles(t) \/ f \notin Dispatch!OwnedFiles(u)
           /\ \A f \in files[t] \intersect files[u] :
                /\ Dispatch!First(f) = t /\ t # u => level[t] < level[u]
                /\ t # u /\ level[t] = level[u] =>
                     ~Dispatch!ParallelSafe(t) /\ ~Dispatch!ParallelSafe(u)
           /\ files[t] \intersect held # {} => ~Dispatch!ParallelSafe(t)
  BY DEF Dispatch!GroupsSound
<1>1. /\ files \in [Subtasks -> SUBSET Paths] /\ level \in [Subtasks -> Nat \union {Nil}]
      /\ Len(order) \in Nat /\ placed \in Nat /\ placed <= Len(order)
  BY DEF DispatchInv, DispatchTypes, Grouped
<1>2. ASSUME NEW w \in Subtasks
      PROVE \E i \in 1..placed : order[i] = w
  <2>1. w \in Ordered
    BY DEF DispatchInv, Grouped
  <2>2. PICK i \in 1..Len(order) : order[i] = w
    BY <2>1 DEF Ordered
  <2>3. i <= placed
    BY <2>2 DEF DispatchInv, Grouped
  <2> QED BY <2>2, <2>3, <1>1
<1>3. ASSUME NEW w \in Subtasks, NEW x \in Subtasks, w \in Dispatch!Before(x)
      PROVE level[w] < level[x]
  <2>1. PICK i \in 1..placed : order[i] = x
    BY <1>2
  <2> QED BY <2>1, <1>3 DEF DispatchInv, Grouped, Awaited
<1>4. ASSUME level[u] > 1
      PROVE \E d \in Dispatch!Before(u) \intersect Subtasks : level[d] = level[u] - 1
  <2>1. PICK i \in 1..placed : order[i] = u
    BY <1>2
  <2> QED BY <2>1, <1>4 DEF DispatchInv, Grouped, Awaited
<1>5. ASSUME NEW f \in files[t] \intersect files[u], t # u
      PROVE f \in Dispatch!Conflicts
  <2>1. t \in Dispatch!Touching(f) /\ u \in Dispatch!Touching(f)
    BY <1>5 DEF Dispatch!Touching
  <2>2. Dispatch!Touching(f) \in SUBSET Subtasks
    BY DEF Dispatch!Touching
  <2>3. /\ IsFiniteSet(Dispatch!Touching(f)) /\ Cardinality(Dispatch!Touching(f)) \in Nat
    BY <2>2, SubtasksFinite
  <2>4. Cardinality(Dispatch!Touching(f)) > 1
    <3>1. CASE Cardinality(Dispatch!Touching(f)) = 0
      BY <3>1, <2>1, <2>3, FS_EmptySet
    <3>2. CASE Cardinality(Dispatch!Touching(f)) = 1
      <4>1. \E x : Dispatch!Touching(f) = {x}
        BY <3>2, <2>3, FS_Singleton
      <4> QED BY <4>1, <2>1, <1>5
    <3> QED BY <3>1, <3>2, <2>3
  <2>5. f \in Paths
    BY <1>1
  <2> QED BY <2>4, <2>5, DispatchCardinality DEF Dispatch!Conflicts
<1>6. ASSUME NEW f \in files[t] \intersect files[u], t # u
      PROVE  /\ Dispatch!First(f) = t => t \in Dispatch!Before(u)
             /\ Dispatch!First(f) = u => u \in Dispatch!Before(t)
             /\ Dispatch!First(f) # t => f \in Dispatch!SharedFiles(t)
             /\ Dispatch!First(f) # u => f \in Dispatch!SharedFiles(u)
  <2>1. f \in Dispatch!Conflicts
    BY <1>5, <1>6
  <2>2. Dispatch!First(f) = t => t \in Dispatch!Before(u)
    BY <2>1, <1>6 DEF Dispatch!Before
  <2>3. Dispatch!First(f) = u => u \in Dispatch!Before(t)
    BY <2>1, <1>6 DEF Dispatch!Before
  <2> QED BY <2>1, <2>2, <2>3 DEF Dispatch!SharedFiles
<1>7. ASSUME NEW f \in files[t] \intersect files[u], t # u
      PROVE \/ f \notin Dispatch!OwnedFiles(t) \/ f \notin Dispatch!OwnedFiles(u)
  BY <1>6, <1>7 DEF Dispatch!OwnedFiles
<1>8. ASSUME NEW f \in files[t] \intersect files[u], t # u, Dispatch!First(f) = t
      PROVE level[t] < level[u]
  BY <1>3, <1>6, <1>8
<1>9. ASSUME NEW f \in files[t] \intersect files[u], t # u, level[t] = level[u]
      PROVE ~Dispatch!ParallelSafe(t) /\ ~Dispatch!ParallelSafe(u)
  <2>1. level[t] \in Nat /\ level[u] \in Nat
    BY <1>1
  <2>2. Dispatch!First(f) # t /\ Dispatch!First(f) # u
    BY <1>3, <1>6, <1>9, <2>1
  <2> QED BY <2>2, <1>6, <1>9 DEF Dispatch!ParallelSafe
<1>10. files[t] \intersect held # {} => ~Dispatch!ParallelSafe(t)
  BY DEF Dispatch!ParallelSafe
<1> QED BY <1>3, <1>4, <1>7, <1>8, <1>9, <1>10

\* While the dispatch does not run, nothing is said of its variables.
DispatchOK == part = "dispatch" => DispatchInv

\* The invariant of the dispatch holds while it runs.
LEMMA DispatchInvariant == SharedSpec => []DispatchOK
<1>1. SharedInit => DispatchOK
  BY DispatchInitially DEF SharedInit, DispatchOK
<1>2. DispatchOK /\ [SharedNext]_sharedVars => DispatchOK'
  <2> SUFFICES ASSUME DispatchOK, [SharedNext]_sharedVars, part' = "dispatch"
      PROVE DispatchInv'
    BY DEF DispatchOK
  <2>1. part = "dispatch" /\ DispatchInv
    BY DEF DispatchOK, SharedNext, sharedVars
  <2>2. Dispatch!Next \/ UNCHANGED dispatchVars
    BY <2>1 DEF SharedNext, sharedVars, dispatchVars
  <2> QED BY <2>1, <2>2, AskKeeps, SortKeeps, GroupKeeps, DispatchStays DEF Dispatch!Next
<1> QED BY <1>1, <1>2, PTL DEF SharedSpec

\* DispatchSound (plan_dispatch_dag.py analyze): the order has every subtask after
\* what it depends on and leaves out exactly those that are on a cycle or behind
\* one, a group comes after those of what it waits for, and what is said to be
\* safe in parallel is so, for any subtasks, dependencies and files.
THEOREM DispatchKept == SharedSpec => []DispatchSound
<1>1. DispatchOK => DispatchSound
  BY SortedIsSound, GroupedIsSound DEF DispatchOK, DispatchSound, Dispatch!DispatchSound
<1> QED BY <1>1, DispatchInvariant, PTL

-----------------------------------------------------------------------------
(* The types of all parts.                                                 *)

\* There is one part that runs.
PartFixed == part \in AllParts

\* It does not change.
LEMMA PartInvariant == SharedSpec => []PartFixed
<1>1. SharedInit => PartFixed
  BY PartsAssumption DEF SharedInit, PartFixed
<1>2. PartFixed /\ [SharedNext]_sharedVars => PartFixed'
  BY DEF PartFixed, SharedNext, sharedVars
<1> QED BY <1>1, <1>2, PTL DEF SharedSpec

\* The session state files of Shared run as SessionStore says.
LEMMA SessionTypes == SharedSpec => []TypeOK
<1>1. SharedInit => Init
  BY DEF SharedInit
<1>2. [SharedNext]_sharedVars => [Next]_vars
  BY DEF SharedNext, sharedVars, vars
<1> QED BY <1>1, <1>2, StoreTypeCorrect, PTL DEF SharedSpec, Spec

\* The types of the bus are part of its invariant.
LEMMA BusTypes == BusInv => Bus!TypeOK
<1> SUFFICES ASSUME BusInv PROVE Bus!TypeOK
  OBVIOUS
<1>1. {broken, withdrawn} \subseteq BOOLEAN
  BY Zenon DEF BusInv, BusFlags
<1> QED BY <1>1 DEF BusInv, BusTyped, Bus!TypeOK, Messages

\* So are those of the log.
LEMMA LogTypes == LogInv => Log!TypeOK
<1> SUFFICES ASSUME LogInv PROVE Log!TypeOK
  OBVIOUS
<1>1. {forked, halved} \subseteq BOOLEAN
  BY Zenon DEF LogInv, LogFlags
<1>2. \A n \in DOMAIN lines : lines[n].form \in {"entry", "half", "junk"}
  <2>1. lines \in Seq(LogLines)
    BY DEF LogInv, LogTyped
  <2>2. \A n \in DOMAIN lines : lines[n] \in LogLines
    BY <2>1
  <2> QED BY <2>2 DEF LogLines
<1>3. \A p \in Procs : logging[p] = Nil \/ logging[p].form = "entry"
  BY DEF LogInv, LogTyped
<1> QED BY <1>1, <1>2, <1>3 DEF LogInv, LogTyped, Log!TypeOK

\* So are those of the loop memory, and the limit on its registry.
LEMMA LoopTypes == LoopInv => Loop!TypeOK
<1> SUFFICES ASSUME LoopInv PROVE Loop!TypeOK
  OBVIOUS
<1>1. raced \in BOOLEAN
  BY Zenon DEF LoopInv, LoopFlags
<1>2. UNION {silent, notes} \subseteq Sessions
  BY DEF LoopInv, LoopTyped
<1>3. registry = Nil \/ (registry \subseteq Sessions /\ Cardinality(registry) <= MaxActive)
  BY DEF LoopInv, WithinLimit
<1> QED BY <1>1, <1>2, <1>3, LoopCardinality DEF LoopInv, LoopTyped, Loop!TypeOK

\* So are those of the command line.
LEMMA CliTypes == CliInv => Cli!TypeOK
<1> SUFFICES ASSUME CliInv PROVE Cli!TypeOK
  OBVIOUS
<1>1. {overlapped, interrupted} \subseteq BOOLEAN
  BY Zenon DEF CliInv, CliFlags
<1> QED BY <1>1 DEF CliInv, CliTyped, Cli!TypeOK, Cli!Readable

\* So are those of the callbacks.
LEMMA CallsTypes == CallsInv => Dag!TypeOK
<1> SUFFICES ASSUME CallsInv PROVE Dag!TypeOK
  OBVIOUS
<1>1. {crossed, unsaved, overlooked} \subseteq BOOLEAN
  BY Zenon DEF CallsInv, CallFlags
<1> QED BY <1>1 DEF CallsInv, CallsTyped, CallUses, Dag!TypeOK

\* So are those of the gate.
LEMMA GateTypes == GateInv => Gate!TypeOK
<1> SUFFICES ASSUME GateInv PROVE Gate!TypeOK
  OBVIOUS
<1>1. {required, entangled, moved, chopped} \subseteq BOOLEAN
  BY Zenon DEF GateInv, GateTyped
<1>2. \A p \in Procs : review[p] = Nil \/ review[p].step \in {"init", "archive", "save"}
  BY DEF GateInv, GateTyped, Reviews
<1> QED BY <1>1, <1>2 DEF GateInv, GateTyped, Gate!TypeOK

\* So are those of the worktrees.
LEMMA TreesTypes == TreesInv => Trees!TypeOK
<1> SUFFICES ASSUME TreesInv PROVE Trees!TypeOK
  OBVIOUS
<1>1. {strayed, concurrent, hindered} \subseteq BOOLEAN
  BY Zenon DEF TreesInv, TreesFlags
<1> QED BY <1>1 DEF TreesInv, TreesTyped, Trees!TypeOK

\* So are those of the dispatch, while it is the part that runs.
LEMMA DispatchTyped == DispatchOK => (part = "dispatch" => Dispatch!TypeOK)
  BY DispatchCardinality DEF DispatchOK, DispatchInv, DispatchTypes, Dispatch!TypeOK

\* AllTypesOK: the state of every part, and what its calls hold of it, has the
\* types its module gives, within the limits the code keeps to (the registry of
\* the loop memory, the cache of the durable layer), for any values of the constants.
THEOREM SharedTyped == SharedSpec => []AllTypesOK
<1>1. /\ PartFixed /\ TypeOK /\ Board!TypeOK /\ BusInv /\ Durable!TypeOK /\ LogInv /\ LoopInv
      /\ CliInv /\ CallsInv /\ GateInv /\ Idem!TypeOK /\ Registry!TypeOK /\ TreesInv /\ DispatchOK
      => AllTypesOK
  BY BusTypes, LogTypes, LoopTypes, CliTypes, CallsTypes, GateTypes, TreesTypes, DispatchTyped
     DEF PartFixed, AllParts, AllTypesOK
<1> QED BY <1>1, PartInvariant, SessionTypes, BoardTypes, BusInvariant, DurableTypes, LogInvariant,
           LoopInvariant, CliInvariant, CallsInvariant, GateInvariant, IdemTypes, RegistryTypes,
           TreesInvariant, DispatchInvariant, PTL
=============================================================================
