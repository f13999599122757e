----------------------------- MODULE LoopMemory -----------------------------
(***************************************************************************)
(* The loop registry (loop_memory_registry.py): regenerate, which marks    *)
(* stale sessions, sets the status of one, queues what is beyond the limit *)
(* of active sessions, writes the registry and archives what is complete.  *)
(*                                                                         *)
(* The processes Keepers regenerate while sessions start and beat.  The    *)
(* session files are read one after the other without a lock: one step     *)
(* here.  An update of a file is one step (SessionStore has what is inside *)
(* it); one that cannot read the file leaves only what it writes.  A       *)
(* status that a regenerate sets is written over the whole file.           *)
(***************************************************************************)
EXTENDS Naturals, FiniteSets

CONSTANTS
  Sessions,
  Keepers,          \* processes that regenerate the registry
  MaxActive,        \* MAX_ACTIVE_SESSIONS
  MaxRecent,        \* MAX_REGISTRY_COMPLETED
  MaxRegenerations, \* bound of the model
  MaxBeats,         \* bound of the model: writes of a session's own
  MaxMisses,        \* bound of the model: session files that cannot be read
  Nil               \* no file, no regenerate, no registry

VARIABLES
  state,      \* state[s]: the session file: its status and when it was written
  silent,     \* sessions without a heartbeat for 30 minutes
  registry,   \* the active sessions in loop_state.md
  notes,      \* sessions that have a loop_state/<s>.md
  round,      \* round[k]: the regenerate k is in, or Nil
  beats,      \* writes of sessions so far
  unread,     \* how often a session file could not be read
  rounds,     \* history: regenerates begun
  decision,   \* history: the status last set by a regenerate or a start
  raced       \* history: has a regenerate begun during another, or did a session write in one?

loopVars == <<state, silent, registry, notes, round, beats, unread, rounds, decision, raced>>

ActiveStatuses == {"in_progress", "crashed", "suspected_crashed"}

Statuses == ActiveStatuses \union {"queued", "completed", "unset"}

\* A session file, with its session_id or without, the files of all sessions as they
\* were read, and a regenerate.
SessionFiles == [status : Statuses, time : Nat, id : Sessions \union {Nil}]
Views == [Sessions -> SessionFiles \union {Nil}]
Regenerates ==
  [at : {"build", "mark", "status", "rebuild", "remark", "queue"}, session : Sessions \union {Nil},
   status : {"in_progress", "completed", "crashed", Nil}, files : Views \union {Nil},
   todo : SUBSET Sessions]

Init ==
  /\ state = [s \in Sessions |-> Nil]
  /\ silent = {}
  /\ registry = Nil
  /\ notes = {}
  /\ round = [k \in Keepers |-> Nil]
  /\ beats = 0
  /\ unread = 0
  /\ rounds = 0
  /\ decision = [s \in Sessions |-> Nil]
  /\ raced = FALSE

WithStatus(files, s) == {t \in Sessions : files[t] # Nil /\ files[t].status \in s}

\* The n newest of a set of sessions.
Newest(files, of, n) ==
  {t \in of : Cardinality({u \in of : files[u].time > files[t].time}) < n}

-----------------------------------------------------------------------------
(* The sessions.                                                           *)

\* n session files cannot be read.
Misread(n) ==
  /\ unread + n <= MaxMisses
  /\ unread' = unread + n

\* A file of which an update has left one field.
Remnant(status) == [status |-> status, time |-> 0, id |-> Nil]

\* A session starts, or goes on: its hook writes its file, the agent its notes.
Start(s) ==
  /\ beats < MaxBeats
  /\ beats' = beats + 1
  /\ state' = [state EXCEPT ![s] =
       [status |-> "in_progress", time |-> beats + 1, id |-> s]]
  /\ silent' = silent \ {s}
  /\ decision' = [decision EXCEPT ![s] = "in_progress"]
  /\ notes' = notes \union {s}
  /\ raced' = (raced \/ \E k \in Keepers : round[k] # Nil)
  /\ UNCHANGED <<registry, round, unread, rounds>>

\* A heartbeat, or another field of the session: the rest of the file stays, but for
\* one that cannot be read.
Beat(s) ==
  /\ state[s] # Nil
  /\ silent' = silent \ {s}
  /\ \/ UNCHANGED <<state, unread, raced>>
     \/ /\ Misread(1)
        /\ state' = [state EXCEPT ![s] = Remnant("unset")]
        /\ raced' = (raced \/ \E k \in Keepers : round[k] # Nil)
  /\ UNCHANGED <<registry, notes, round, beats, rounds, decision>>

FallSilent(s) ==
  /\ state[s] # Nil
  /\ silent' = silent \union {s}
  /\ UNCHANGED <<state, registry, notes, round, beats, unread, rounds, decision, raced>>

-----------------------------------------------------------------------------
(* regenerate.                                                             *)

At(k, at) == round[k] # Nil /\ round[k].at = at

\* _build_registry: the files as they are, but for those that cannot be read or do
\* not have their session_id, and who is to be marked stale.
Built(k, at) ==
  \E missing \in SUBSET {s \in Sessions : state[s] # Nil /\ state[s].id = s} :
    LET found == [s \in Sessions |->
          IF state[s] # Nil /\ state[s].id = s /\ s \notin missing THEN state[s] ELSE Nil] IN
    /\ Misread(Cardinality(missing))
    /\ round' = [round EXCEPT ![k] = [@ EXCEPT !.at = at, !.files = found,
      !.todo = WithStatus(found, {"in_progress"}) \intersect silent]]

Regenerate(k) ==
  /\ round[k] = Nil
  /\ rounds < MaxRegenerations
  /\ rounds' = rounds + 1
  /\ \E s \in Sessions, status \in {"in_progress", "completed", "crashed", Nil} :
       round' = [round EXCEPT ![k] =
         [at |-> "build", session |-> IF status = Nil THEN Nil ELSE s, status |-> status,
          files |-> Nil, todo |-> {}]]
  /\ raced' = (raced \/ \E j \in Keepers : round[j] # Nil)
  /\ UNCHANGED <<state, silent, registry, notes, beats, unread, decision>>

Build(k) ==
  /\ At(k, "build")
  /\ Built(k, "mark")
  /\ UNCHANGED <<state, silent, registry, notes, beats, rounds, decision, raced>>

\* update_session_state for one of the sessions to do: in its file as it is now,
\* or alone where that cannot be read, and in the list that was read before.
Update(k, status) ==
  \E s \in round[k].todo :
    /\ \/ state' = [state EXCEPT ![s].status = status] /\ UNCHANGED unread
       \/ state' = [state EXCEPT ![s] = Remnant(status)] /\ Misread(1)
    /\ round' = [round EXCEPT ![k].files[s].status = status, ![k].todo = @ \ {s}]

\* Mutant of MarkStale: completed sessions go stale as well.
MarkStaleAll(k) ==
  /\ At(k, "mark") \/ At(k, "remark")
  /\ \E s \in silent : state[s] # Nil /\ state' = [state EXCEPT ![s].status = "suspected_crashed"]
  /\ UNCHANGED <<silent, registry, notes, round, beats, unread, rounds, decision, raced>>

MarkStale(k) ==
  /\ At(k, "mark") \/ At(k, "remark")
  /\ Update(k, "suspected_crashed")
  /\ UNCHANGED <<silent, registry, notes, beats, rounds, decision, raced>>

\* read_session_state, for the status that the caller asked for.
ReadStatus(k) ==
  /\ At(k, "mark")
  /\ round[k].todo = {}
  /\ round[k].status # Nil
  /\ state[round[k].session] # Nil
  /\ round' = [round EXCEPT ![k].at = "status", ![k].files = state]
  /\ UNCHANGED <<state, silent, registry, notes, beats, unread, rounds, decision, raced>>

\* write_session_state without merging, and the second build.
WriteStatus(k) ==
  /\ At(k, "status")
  /\ LET r == round[k] IN
     /\ state' = [state EXCEPT ![r.session] =
          [r.files[r.session] EXCEPT !.status = r.status,
             !.time = IF r.status = "completed" THEN beats + 1 ELSE @]]
     /\ decision' = [decision EXCEPT ![r.session] = r.status]
     /\ beats' = IF r.status = "completed" THEN beats + 1 ELSE beats
     /\ round' = [round EXCEPT ![k] = [@ EXCEPT !.at = "rebuild", !.files = Nil]]
  /\ UNCHANGED <<silent, registry, notes, unread, rounds, raced>>

Rebuild(k) ==
  /\ At(k, "rebuild")
  /\ Built(k, "remark")
  /\ UNCHANGED <<state, silent, registry, notes, beats, rounds, decision, raced>>

\* _enforce_active_session_limit: the oldest active sessions of the list; at once where
\* the file whose status is to change is missing or could not be read.
Enforce(k) ==
  /\ round[k] # Nil
  /\ round[k].todo = {}
  /\ At(k, "mark") \/ At(k, "remark")
  /\ LET active == WithStatus(round[k].files, ActiveStatuses) IN
     round' = [round EXCEPT ![k].at = "queue",
                            ![k].todo = active \ Newest(round[k].files, active, MaxActive)]
  /\ UNCHANGED <<state, silent, registry, notes, beats, unread, rounds, decision, raced>>

Queue(k) ==
  /\ At(k, "queue")
  /\ Update(k, "queued")
  /\ UNCHANGED <<silent, registry, notes, beats, rounds, decision, raced>>

Recent(k) ==
  Newest(round[k].files, WithStatus(round[k].files, {"completed"}), MaxRecent)

\* The registry, under the lock of the repository; then notes that say that their
\* session is completed, and that it is not a recent one, are moved to the archive.  The
\* status in the notes comes before that of the list, which has no other completed
\* sessions.
WriteRegistry(k) ==
  /\ At(k, "queue")
  /\ round[k].todo = {}
  /\ registry' = WithStatus(round[k].files, ActiveStatuses)
  /\ \E done \in SUBSET (notes \ Recent(k)) : notes' = notes \ done
  /\ round' = [round EXCEPT ![k] = Nil]
  /\ UNCHANGED <<state, silent, beats, unread, rounds, decision, raced>>

\* The lock is not to be had, a file cannot be written, or the process dies: the
\* updates so far stay.
GiveUp(k) ==
  /\ round[k] # Nil
  /\ round' = [round EXCEPT ![k] = Nil]
  /\ UNCHANGED <<state, silent, registry, notes, beats, unread, rounds, decision, raced>>

Next ==
  \/ \E s \in Sessions : Start(s) \/ Beat(s) \/ FallSilent(s)
  \/ \E k \in Keepers :
       \/ Regenerate(k) \/ Build(k) \/ MarkStale(k) \/ ReadStatus(k) \/ WriteStatus(k)
       \/ Rebuild(k) \/ Enforce(k) \/ Queue(k) \/ WriteRegistry(k) \/ GiveUp(k)

Spec == Init /\ [][Next]_loopVars

-----------------------------------------------------------------------------
(* Properties.                                                             *)

\* Type invariant.
TypeOK ==
  /\ state \in Views
  /\ UNION {silent, notes} \subseteq Sessions
  /\ registry = Nil \/ (registry \subseteq Sessions /\ Cardinality(registry) <= MaxActive)
  /\ round \in [Keepers -> Regenerates \union {Nil}]
  /\ raced \in BOOLEAN

\* While no two regenerates overlap, nor one with a session that writes its file anew,
\* what was decided about a session stays in its file, as long as that has a status:
\* one that was set completed is for ever, one that runs or crashed is active or was
\* queued; also where a regenerate gave up in the middle, and where it could not read
\* a file it updates.  And the registry a regenerate writes has, of the sessions whose
\* files it could read, those that are active in their files by then.
StatusKept ==
  [][~raced' =>
       /\ \A s \in Sessions : state'[s] # Nil /\ state'[s].status # "unset" =>
            IF decision'[s] = "completed" THEN state'[s].status = "completed"
            ELSE state'[s].status \in ActiveStatuses \union {"queued"}
       /\ \A k \in Keepers :
            WriteRegistry(k) =>
              registry' = {s \in WithStatus(state, ActiveStatuses) :
                             round[k].files[s] # Nil}]_loopVars
=============================================================================
