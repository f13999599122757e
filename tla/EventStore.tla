----------------------------- MODULE EventStore -----------------------------
(***************************************************************************)
(* The event store (state_machine_v2/event_store.py): append with its hash *)
(* chain, pointer and materialized views, initialize after a restart,      *)
(* replay, and the PNCounter kept beside it.                               *)
(*                                                                         *)
(* One process runs the coroutines Tasks.  A call is split where it awaits *)
(* the state store, whose get and set are one step each here (StateStore   *)
(* has what is inside them).  The hash of an event stands for the event:   *)
(* the number of the append that made it, 0 being the hash before the      *)
(* first.  One session and one plan stand for all keys of their views.     *)
(***************************************************************************)
EXTENDS Naturals, FiniteSets

CONSTANTS
  Tasks,      \* the coroutines that append or count
  MaxAppends, \* bound of the model: appends begun
  MaxCount,   \* bound of the model: increments begun
  Nil         \* nothing stored, no event in hand

Types == {"session.started", "session.heartbeat", "plan.approved"}

Ids == 1..MaxAppends

\* The event with hash id.
Event == [id : Ids, seq : Nat, prev : Ids \union {0}, type : Types]

ASSUME EventAssumption ==
  /\ MaxAppends \in Nat
  /\ MaxCount \in Nat
  /\ Nil \notin Nat \union Event

VARIABLES
  event,    \* event[n]: the row "__eventstore:event:<n>", or Nil
  last,     \* the row "__eventstore:last", or Nil
  session,  \* the row of a session in its view: the event it shows, or Nil
  expired,  \* has the ttl of that row run out?
  plan,     \* the row of a plan in its view
  counter,  \* the row of the positive half of a PNCounter
  seq, prev,\* self._seq and self._prev_hash
  pc, mine, \* where a coroutine is suspended; the event it appends
  read,     \* the value an increment has read
  made,     \* history: appends begun
  acked,    \* history: the events whose append returned
  counts,   \* history: increments <<begun, returned>>
  overlap,  \* history: has a call of the store begun during another?
  failed    \* history: has an append raised with its number taken and no pointer to it?

storeVars == <<event, last, session, expired, plan, counter>>
taskVars == <<seq, prev, pc, mine, read>>
history == <<made, acked, counts, overlap, failed>>
vars == <<storeVars, taskVars, history>>

Init ==
  /\ event = [n \in Ids |-> Nil]
  /\ last = Nil
  /\ session = Nil
  /\ expired = FALSE
  /\ plan = Nil
  /\ counter = 0
  /\ seq = 0
  /\ prev = 0
  /\ pc = [t \in Tasks |-> "idle"]
  /\ mine = [t \in Tasks |-> Nil]
  /\ read = [t \in Tasks |-> 0]
  /\ made = 0
  /\ acked = {}
  /\ counts = <<0, 0>>
  /\ overlap = FALSE
  /\ failed = FALSE

Busy == \E t \in Tasks : pc[t] # "idle"

Goto(t, to) == pc' = [pc EXCEPT ![t] = to]

At(t, at) == pc[t] = at

-----------------------------------------------------------------------------
(* append.                                                                 *)

\* Everything before the first await: the sequence number is taken and the hash
\* of the last event to be persisted by now goes into the event.
Append(t) ==
  /\ At(t, "idle")
  /\ made < MaxAppends
  /\ made' = made + 1
  /\ seq' = seq + 1
  /\ \E type \in Types :
       mine' = [mine EXCEPT ![t] =
         [id |-> made + 1, seq |-> seq + 1, prev |-> prev, type |-> type]]
  /\ Goto(t, "event")
  /\ overlap' = (overlap \/ Busy)
  /\ UNCHANGED <<storeVars, prev, read, acked, counts, failed>>

\* The row of the event, and after the await its hash as the next _prev_hash.
PersistEvent(t) ==
  /\ At(t, "event")
  /\ event' = [event EXCEPT ![mine[t].seq] = mine[t]]
  /\ prev' = mine[t].id
  /\ Goto(t, "pointer")
  /\ UNCHANGED <<last, session, expired, plan, counter, seq, mine, read,
                 made, acked, counts, overlap, failed>>

\* The event cannot be hashed or signed, or the store raises (a locked database), and
\* append with it: the number is used up, and the event is in the log if it was the
\* pointer that failed.
StoreFails(t) ==
  /\ pc[t] \in {"event", "pointer"}
  /\ failed' = TRUE
  /\ Goto(t, "idle")
  /\ mine' = [mine EXCEPT ![t] = Nil]
  /\ UNCHANGED <<storeVars, seq, prev, read, made, acked, counts, overlap>>

\* Mutant of PersistPointer: it is not written.
PersistPointerSeldom(t) ==
  /\ At(t, "pointer")
  /\ Goto(t, IF mine[t].type = "session.heartbeat" THEN "heartbeat" ELSE "view")
  /\ UNCHANGED <<storeVars, seq, prev, mine, read, history>>

\* _update_views: a heartbeat and an approval read the row of their view first.
PersistPointer(t) ==
  /\ At(t, "pointer")
  /\ last' = mine[t]
  /\ Goto(t, IF mine[t].type = "session.heartbeat" THEN "heartbeat" ELSE "view")
  /\ UNCHANGED <<event, session, expired, plan, counter, seq, prev, mine, read, history>>

\* SessionView.get deletes a row whose ttl has run out.
ReadSession(t) ==
  /\ At(t, "heartbeat")
  /\ session' = IF expired THEN Nil ELSE session
  /\ expired' = FALSE
  /\ Goto(t, "view")
  /\ UNCHANGED <<event, last, plan, counter, seq, prev, mine, read, history>>

\* upsert is a FIRST_WRITE without an etag: it raises if there is a row, and
\* append with it, the event being in the log.  approve is a LAST_WRITE.
UpdateView(t) ==
  /\ At(t, "view")
  /\ LET e == mine[t]
         refused == e.type # "plan.approved" /\ session # Nil
     IN
     /\ session' = IF e.type # "plan.approved" /\ ~refused THEN e ELSE session
     /\ plan' = IF e.type = "plan.approved" THEN e ELSE plan
     /\ acked' = IF refused THEN acked ELSE acked \union {e}
  /\ mine' = [mine EXCEPT ![t] = Nil]
  /\ Goto(t, "idle")
  /\ UNCHANGED <<event, last, expired, counter, seq, prev, read,
                 made, counts, overlap, failed>>

Expire ==
  /\ session # Nil
  /\ ~expired
  /\ expired' = TRUE
  /\ UNCHANGED <<event, last, session, plan, counter, taskVars, history>>

-----------------------------------------------------------------------------
(* PNCounter._inc: the transaction reads outside the lock it commits under. *)

Increment(t) ==
  /\ At(t, "idle")
  /\ counts[1] < MaxCount
  /\ read' = [read EXCEPT ![t] = counter]
  /\ counts' = [counts EXCEPT ![1] = @ + 1]
  /\ Goto(t, "commit")
  /\ overlap' = (overlap \/ Busy)
  /\ UNCHANGED <<storeVars, seq, prev, mine, made, acked, failed>>

CommitIncrement(t) ==
  /\ At(t, "commit")
  /\ counter' = read[t] + 1
  /\ counts' = [counts EXCEPT ![2] = @ + 1]
  /\ Goto(t, "idle")
  /\ UNCHANGED <<event, last, session, expired, plan, seq, prev, mine, read,
                 made, acked, overlap, failed>>

-----------------------------------------------------------------------------
(* The process dies and another starts: initialize takes the sequence      *)
(* number and the hash from the pointer.                                   *)

\* Mutant of Restart: the hash is not restored.
RestartUnlinked ==
  /\ seq' = IF last = Nil THEN 0 ELSE last.seq
  /\ prev' = 0
  /\ pc' = [t \in Tasks |-> "idle"]
  /\ mine' = [t \in Tasks |-> Nil]
  /\ UNCHANGED <<storeVars, read, history>>

Restart ==
  /\ seq' = IF last = Nil THEN 0 ELSE last.seq
  /\ prev' = IF last = Nil THEN 0 ELSE last.id
  /\ pc' = [t \in Tasks |-> "idle"]
  /\ mine' = [t \in Tasks |-> Nil]
  /\ UNCHANGED <<storeVars, read, history>>

Task(t) ==
  \/ Append(t) \/ PersistEvent(t) \/ StoreFails(t) \/ PersistPointer(t)
  \/ ReadSession(t) \/ UpdateView(t) \/ Increment(t) \/ CommitIncrement(t)

Next ==
  \/ \E t \in Tasks : Task(t)
  \/ Expire
  \/ Restart

Spec == Init /\ [][Next]_vars

-----------------------------------------------------------------------------
(* Properties.                                                             *)

\* Mutant of Replayed: the range stops before self._seq.
ReplayedShort ==
  {event[n] : n \in {m \in 1..seq : m < seq /\ \A l \in 1..m : event[l] # Nil}}

\* replay: the events up to self._seq, until the first that is missing.
Replayed == {event[n] : n \in {m \in 1..seq : \A l \in 1..m : event[l] # Nil}}

\* Type invariant.
TypeOK ==
  /\ event \in [Ids -> Event \union {Nil}]
  /\ {last, session, plan} \subseteq Event \union {Nil}
  /\ expired \in BOOLEAN
  /\ counter \in 0..MaxCount
  /\ seq \in 0..MaxAppends
  /\ prev \in Ids \union {0}
  /\ pc \in [Tasks -> {"idle", "event", "pointer", "heartbeat", "view", "commit"}]
  /\ mine \in [Tasks -> Event \union {Nil}]
  /\ read \in [Tasks -> 0..MaxCount]
  /\ made \in 0..MaxAppends
  /\ acked \subseteq Event
  /\ counts \in (0..MaxCount) \X (0..MaxCount)
  /\ {overlap, failed} \subseteq BOOLEAN

\* While no two calls overlap, the events whose append returned are on one hash
\* chain: each carries the hash of an event that is still stored before it, and
\* that is no older than any other such event: through restarts, failed writes
\* and events that a crash left without the pointer.
ChainLinked ==
  ~overlap =>
    \A e \in acked :
      /\ e.prev = 0 \/ \E n \in 1..(e.seq - 1) : event[n] # Nil /\ event[n].id = e.prev
      /\ \A f \in acked : f.seq < e.seq => f.id <= e.prev

\* While no two calls overlap, an event whose append returned keeps its row: a
\* number is only used again for an event that no pointer was written for.  An
\* increment is not lost, and one that a crash cut off counts at most once.  And
\* what a view shows was appended, no later than the last event: no view runs
\* ahead of the log.
AckedKept ==
  ~overlap =>
    /\ \A e \in acked : event[e.seq] = e
    /\ counter \in counts[2]..counts[1]
    /\ \A v \in {session, plan} \ {Nil} :
         event[v.seq] = v /\ last # Nil /\ v.seq <= last.seq

\* While no two calls overlap and no append raises between its number and its pointer,
\* replay returns every event whose append returned.
Replayable == ~overlap /\ ~failed /\ ~Busy => acked \subseteq Replayed
=============================================================================
