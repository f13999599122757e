----------------------------- MODULE DualWrite -----------------------------
(***************************************************************************)
(* The migration adapters (adapters/): every write goes to a view of the   *)
(* event store and to a legacy JSON file, inside a saga of                 *)
(* migration_coordinator.py and under a lock per session, plan or run.     *)
(*                                                                         *)
(* Items are what shares one lock and one legacy file: the tasks of a run, *)
(* or the one record of a session or plan.  upsert is a FIRST_WRITE        *)
(* without an etag: it raises if the view has a row (see EventStore).      *)
(* The lock is asyncio's, which its own holder waits for as well.          *)
(***************************************************************************)
EXTENDS Naturals, Sequences

CONSTANTS
  Callers,   \* coroutines that call an adapter
  Items,     \* the tasks of a run
  Record,    \* the one item of a session or a plan
  MaxWrites, \* bound of the model: states to write
  Nil,       \* no row, no holder
  Torn       \* a legacy file cut by a crash

VARIABLES
  adapter, \* which of the three adapters.  Chosen once
  view,    \* view[i]: the state in the view, a number, or Nil
  legacy,  \* the legacy file: legacy[i], or Torn
  lock,    \* the holder of the adapter's lock, or Nil
  at,      \* where a caller is suspended
  want,    \* the item and the state of the caller's set
  steps,   \* the statuses of the steps of the caller's saga
  clock,   \* states written so far
  viewed,  \* history: the states that were in the view
  raised,  \* history: the states whose set raised
  parted   \* history: items of which one store may lack what the other has

vars == <<adapter, view, legacy, lock, at, want, steps, clock, viewed, raised, parted>>

States == 1..MaxWrites

Empty == [i \in Items |-> Nil]

Want == [item : Items, state : States]

Init ==
  /\ adapter \in {"session", "plan", "execution"}
  /\ view = Empty
  /\ legacy = Empty
  /\ lock = Nil
  /\ at = [c \in Callers |-> "idle"]
  /\ want = [c \in Callers |-> Nil]
  /\ steps = [c \in Callers |-> <<>>]
  /\ clock = 0
  /\ viewed = {}
  /\ raised = {}
  /\ parted = {}

Move(c, from, to) ==
  /\ at[c] = from
  /\ at' = [at EXCEPT ![c] = to]

\* What get answers: the view, or the legacy file if that has no row or fails.
Known(i) ==
  IF view[i] # Nil THEN view[i] ELSE IF legacy = Torn THEN Nil ELSE legacy[i]

\* The next state for one of the items.
NewState(c, items) ==
  /\ clock < MaxWrites
  /\ clock' = clock + 1
  /\ \E i \in items : want' = [want EXCEPT ![c] = [item |-> i, state |-> clock + 1]]

Call(c, to) ==
  /\ Move(c, "idle", to)
  /\ UNCHANGED <<adapter, view, legacy, lock, steps, viewed, raised, parted>>

\* set of a session or a plan: the one record of the lock.
SetSession(c) == adapter = "session" /\ Call(c, "set") /\ NewState(c, {Record})

SetPlan(c) == adapter = "plan" /\ Call(c, "set") /\ NewState(c, {Record})

\* set_task of one task of a run.
SetTask(c) == adapter = "execution" /\ Call(c, "set") /\ NewState(c, Items)

\* heartbeat, update_*, set_error, increment_iteration; approve, reject,
\* request_changes, update_file_hashes.  A run has no updates.
CallUpdate(c) ==
  /\ adapter # "execution"
  /\ Call(c, "update")
  /\ UNCHANGED <<want, clock>>

Locked(c, from, to) ==
  /\ lock = Nil
  /\ lock' = c
  /\ Move(c, from, to)
  /\ UNCHANGED <<adapter, view, legacy, viewed, raised, parted>>

\* Under the lock.  Without a state there is nothing to do; else the update
\* calls set, which waits for the lock its caller holds.
UpdateSession(c) ==
  /\ adapter = "session"
  /\ \/ Known(Record) = Nil /\ Locked(c, "update", "done") /\ UNCHANGED <<want, clock>>
     \/ Known(Record) # Nil /\ Locked(c, "update", "set") /\ NewState(c, {Record})
  /\ UNCHANGED steps

\* A plan without a state gets a new one: set is always called.
UpdatePlan(c) ==
  /\ adapter = "plan"
  /\ Locked(c, "update", "set")
  /\ NewState(c, {Record})
  /\ UNCHANGED steps

\* set takes the lock and opens its saga.
SetLocked(c) ==
  /\ Locked(c, "set", "primary")
  /\ steps' = [steps EXCEPT ![c] = <<"pending">>]
  /\ UNCHANGED <<want, clock>>

\* Mutant of PrimaryWrite: an upsert that is refused goes unnoticed.
PrimaryWriteIgnored(c) ==
  /\ Move(c, "primary", "secondary")
  /\ steps' = [steps EXCEPT ![c] = Append(@, "pending")]
  /\ UNCHANGED <<adapter, view, legacy, lock, want, clock, viewed, raised, parted>>

\* The upsert, and the second step of the saga.
PrimaryWrite(c) ==
  /\ Move(c, "primary", "secondary")
  /\ view[want[c].item] = Nil
  /\ view' = [view EXCEPT ![want[c].item] = want[c].state]
  /\ viewed' = viewed \union {want[c].state}
  /\ steps' = [steps EXCEPT ![c] = Append(@, "pending")]
  /\ UNCHANGED <<adapter, legacy, lock, want, clock, raised, parted>>

PrimaryRefused(c) ==
  /\ Move(c, "primary", "compensate")
  /\ view[want[c].item] # Nil
  /\ UNCHANGED <<adapter, view, legacy, lock, want, steps, clock, viewed, raised, parted>>

\* What the write of the legacy file starts from: the file of a run as it is read, or
\* nothing if that fails; the one record of a session or a plan is written over.
Bases ==
  {Empty} \union (IF adapter = "execution" /\ legacy # Torn THEN {legacy} ELSE {})

\* The items of the file that go when it is written from base.
Dropped(c, base) == IF base = legacy THEN {} ELSE Items \ {want[c].item}

\* The legacy file, read, changed and written without an await in between.
SecondaryWrite(c) ==
  /\ Move(c, "secondary", "done")
  /\ \E base \in Bases :
       /\ legacy' = [base EXCEPT ![want[c].item] = want[c].state]
       /\ parted' = (parted \ {want[c].item}) \union Dropped(c, base)
  /\ UNCHANGED <<adapter, view, lock, want, steps, clock, viewed, raised>>

\* The write raises: before it has emptied the file, after that, or when it is full.
SecondaryFails(c) ==
  /\ Move(c, "secondary", "compensate")
  /\ \E base \in Bases :
       /\ legacy' \in {legacy, Torn, [base EXCEPT ![want[c].item] = want[c].state]}
       /\ parted' = parted \union {want[c].item} \union Dropped(c, base)
  /\ UNCHANGED <<adapter, view, lock, want, steps, clock, viewed, raised>>

\* _compensate rolls back the steps that are COMPLETED, and nothing makes a step
\* COMPLETED: the exception goes on with the first store as it was left.
Compensate(c) ==
  /\ Move(c, "compensate", "done")
  /\ view' = IF \E n \in DOMAIN steps[c] : steps[c][n] = "completed"
             THEN [view EXCEPT ![want[c].item] = Nil] ELSE view
  /\ raised' = raised \union {want[c].state}
  /\ UNCHANGED <<adapter, legacy, lock, want, steps, clock, viewed, parted>>

\* The saga is dropped, the lock given up; set returns or raises.
Leave(c) ==
  /\ Move(c, "done", "idle")
  /\ lock' = Nil
  /\ want' = [want EXCEPT ![c] = Nil]
  /\ steps' = [steps EXCEPT ![c] = <<>>]
  /\ UNCHANGED <<adapter, view, legacy, clock, viewed, raised, parted>>

\* A row of the view expires, and the get that finds it deletes it.
Expire(i) ==
  /\ view[i] # Nil
  /\ view' = [view EXCEPT ![i] = Nil]
  /\ UNCHANGED <<adapter, legacy, lock, at, want, steps, clock, viewed, raised, parted>>

\* The process dies, perhaps inside the write of the file, and starts again.
Crash ==
  /\ at' = [c \in Callers |-> "idle"]
  /\ legacy' \in {legacy} \union {Torn : c \in {d \in Callers : at[d] = "secondary"}}
  /\ parted' = parted \union {want[c].item : c \in {d \in Callers : at[d] = "secondary"}}
  /\ lock' = Nil
  /\ want' = [c \in Callers |-> Nil]
  /\ steps' = [c \in Callers |-> <<>>]
  /\ UNCHANGED <<adapter, view, clock, viewed, raised>>

Progress(c) ==
  \/ UpdateSession(c) \/ UpdatePlan(c) \/ SetLocked(c) \/ PrimaryWrite(c) \/ PrimaryRefused(c)
  \/ SecondaryWrite(c) \/ SecondaryFails(c) \/ Compensate(c) \/ Leave(c)

Next ==
  \/ \E c \in Callers :
       \/ SetSession(c) \/ SetPlan(c) \/ SetTask(c) \/ CallUpdate(c)
       \/ Progress(c)
  \/ \E i \in Items : Expire(i)
  \/ Crash

Spec == Init /\ [][Next]_vars

\* The event loop runs every coroutine that can go on, and asyncio's lock is
\* fair to its waiters.
FairSpec == Spec /\ \A c \in Callers : SF_vars(Progress(c))

-----------------------------------------------------------------------------
(* Properties.                                                             *)

\* Type invariant.
TypeOK ==
  /\ adapter \in {"session", "plan", "execution"}
  /\ view \in [Items -> States \union {Nil}]
  /\ legacy \in [Items -> States \union {Nil}] \union {Torn}
  /\ lock \in Callers \union {Nil}
  /\ at \in [Callers -> {"idle", "set", "update", "primary", "secondary", "compensate", "done"}]
  /\ want \in [Callers -> Want \union {Nil}]
  /\ \A c \in Callers : steps[c] \in Seq({"pending", "completed"})
  /\ clock \in 0..MaxWrites
  /\ viewed \union raised \subseteq States
  /\ parted \subseteq Items

\* The second store never knows more than the first: a state is in the legacy file only
\* if it was in the view.  And when nobody writes, what the view has is in the file, but
\* for an item whose last write of the file raised or was cut off by a crash, or that
\* was in a file started anew.
LegacyFollowsView ==
  legacy # Torn =>
    /\ \A i \in Items : legacy[i] # Nil => legacy[i] \in viewed
    /\ lock = Nil => \A i \in Items \ parted : view[i] # Nil => legacy[i] = view[i]

\* migration_coordinator.py:55 "Ensures atomicity across heterogeneous stores":
\* a set that raised leaves its state in neither of them.
RaisedIsUndone == \A i \in Items : view[i] \notin raised

\* plan_state_adapter.py:213 "Approve plan (dual-write)", and session_state_adapter.py:178
\* "Update session heartbeat (dual-write)": an update that is called returns.
UpdatesReturn == \A c \in Callers : at[c] = "update" ~> at[c] = "idle"
=============================================================================
