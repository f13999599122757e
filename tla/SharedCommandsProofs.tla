------------------------ MODULE SharedCommandsProofs ------------------------
(***************************************************************************)
(* Theorems about the parts of Shared in which commands read a state,      *)
(* decide and write it back: the loop memory, the plan command line, the   *)
(* approval gate, the ledger and the agent registry, for any processes and *)
(* any values of the bounds.                                               *)
(***************************************************************************)
EXTENDS SharedFilesProofs

-----------------------------------------------------------------------------
(* The loop memory.                                                        *)

\* Where a regenerate has read the session files.
Reads == {"mark", "status", "remark", "queue"}

\* Types of the session files, the regenerates and the history.
LoopTyped ==
  /\ state \in Loop!Views
  /\ silent \subseteq Sessions /\ notes \subseteq Sessions
  /\ round \in [Procs -> Loop!Regenerates \union {Nil}]
  /\ decision \in [Sessions -> Loop!Statuses \union {Nil}]
  /\ beats \in Nat

\* What a regenerate works on it has read, and it is still there; the sessions of its
\* list have their session_id.
Well(r) ==
  /\ r.at \in Reads => r.files \in Loop!Views
  /\ r.at \in Reads => \A s \in Sessions : r.files[s] # Nil => state[s] # Nil
  /\ r.at \in Reads => \A s \in r.todo : r.files[s] # Nil
  /\ r.at \in {"mark", "remark", "queue"} =>
       \A s \in Sessions : r.files[s] # Nil => r.files[s].id = s
  /\ r.at \notin {"mark", "remark", "queue"} => r.todo = {}
  /\ r.status # Nil => r.session \in Sessions
  /\ r.at = "status" => r.status # Nil /\ r.files[r.session] # Nil

\* The regenerates under way are well formed.
Reading == \A k \in Procs : round[k] # Nil => Well(round[k])

\* Who wrote a whole session file when, as the files and the regenerates have it.
Stamp(s, n) ==
  \/ state[s] # Nil /\ state[s].id = s /\ state[s].time = n
  \/ \E k \in Procs :
       /\ round[k] # Nil /\ round[k].at \in Reads
       /\ round[k].files[s] # Nil /\ round[k].files[s].id = s /\ round[k].files[s].time = n

\* No two sessions are written at once.
StampsApart ==
  /\ \A s \in Sessions : \A n \in Nat : Stamp(s, n) => n <= beats
  /\ \A s, t \in Sessions : \A n \in Nat : Stamp(s, n) /\ Stamp(t, n) => s = t

\* What a regenerate leaves active is within the limit.
Few(r) == Cardinality(Loop!WithStatus(r.files, Loop!ActiveStatuses) \ r.todo) <= MaxActive

\* The registry is within the limit on active sessions, and a regenerate is about to
\* leave no more.
WithinLimit ==
  /\ registry = Nil \/ (registry \subseteq Sessions /\ Cardinality(registry) <= MaxActive)
  /\ \A k \in Procs : round[k] # Nil /\ round[k].at = "queue" => Few(round[k])

\* The flag of the history is such.
LoopFlags == raced \in BOOLEAN

\* What was decided about s.
Right(f, d) == f.status # "unset" =>
  IF d = "completed" THEN f.status = "completed"
  ELSE f.status \in Loop!ActiveStatuses \union {"queued"}

\* A regenerate that has the status of the sessions it read as it is in their files,
\* with active sessions to change.
UpToDate(r) ==
  /\ \A s \in Sessions : r.files[s] # Nil => r.files[s].status = state[s].status
  /\ \A s \in r.todo : state[s].status \in Loop!ActiveStatuses

\* While no two regenerates overlap, one has the statuses as they are, and changes
\* those of active sessions.
DecidedKept == ~raced =>
  /\ \A j, k \in Procs : round[j] # Nil /\ round[k] # Nil => j = k
  /\ \A k \in Procs : round[k] # Nil /\ round[k].at \in Reads => UpToDate(round[k])
  /\ \A s \in Sessions : state[s] # Nil => Right(state[s], decision[s])

\* The inductive invariant of the loop memory.
LoopInv == LoopTyped /\ Reading /\ StampsApart /\ WithinLimit /\ LoopFlags /\ DecidedKept
-----------------------------------------------------------------------------

\* What the names of the model are told from.
LEMMA LoopValues ==
  /\ Nil \notin Sessions /\ Nil \notin Loop!SessionFiles /\ Nil \notin Loop!Regenerates
  /\ MaxActive \in Nat /\ IsFiniteSet(Sessions)
<1>1. Nil \notin Sessions /\ Nil \notin Loop!SessionFiles /\ Nil \notin Loop!Regenerates
  BY ValuesAssumption
<1>2. MaxActive \in Nat
  BY BoundsAssumption
<1> QED BY <1>1, <1>2, SessionsAssumption

\* The operator of the standard module, by the name that LoopMemory has it under.
LEMMA LoopCardinality == \A S : Loop!Cardinality(S) = Cardinality(S)
  BY DEF Loop!Cardinality, Cardinality, Loop!IsFiniteSet, IsFiniteSet

\* At most n are newer than all but n - 1, if no two are of the same time.
LEMMA NewestFew ==
  ASSUME NEW view \in Loop!Views, NEW of \in SUBSET Sessions, NEW n \in Nat,
         \A t \in of : view[t] \in Loop!SessionFiles,
         \A s, t \in of : view[s].time = view[t].time => s = t
  PROVE  IsFiniteSet(Loop!Newest(view, of, n)) /\ Cardinality(Loop!Newest(view, of, n)) <= n
<1> DEFINE After(t) == {u \in of : view[u].time > view[t].time}
           N == Loop!Newest(view, of, n)
           rank == [t \in N |-> Cardinality(After(t))]
<1>1. IsFiniteSet(of)
  BY LoopValues, FS_Subset
<1>2. \A t \in of : IsFiniteSet(After(t)) /\ Cardinality(After(t)) \in Nat
  <2>1. ASSUME NEW t \in of PROVE IsFiniteSet(After(t)) /\ Cardinality(After(t)) \in Nat
    <3> DEFINE A == After(t)
    <3>1. A \in SUBSET of
      OBVIOUS
    <3> HIDE DEF A
    <3>2. IsFiniteSet(A)
      BY <1>1, <3>1, FS_Subset
    <3>3. Cardinality(A) \in Nat
      BY <3>2, FS_CardinalityType
    <3> QED BY <3>2, <3>3 DEF A
  <2> QED BY <2>1
<1>3. \A t : t \in N <=> t \in of /\ Cardinality({u \in of : view[u].time > view[t].time}) < n
  BY LoopCardinality DEF Loop!Newest
<1>4. \A t \in N : t \in of /\ Cardinality(After(t)) < n
  BY <1>3
<1>5. \A t \in of : view[t].time \in Nat
  BY DEF Loop!SessionFiles
<1>6. ASSUME NEW s \in of, NEW t \in of, view[s].time < view[t].time
      PROVE  Cardinality(After(s)) # Cardinality(After(t))
  <2> DEFINE A == After(s)
             B == After(t)
  <2>1. B \in SUBSET A /\ t \in A /\ t \notin B
    BY <1>5, <1>6
  <2>2. IsFiniteSet(A)
    BY <1>2
  <2> HIDE DEF A, B
  <2>3. Cardinality(A) = Cardinality(B) => A = B
    BY <2>1, <2>2, FS_Subset
  <2> QED BY <2>1, <2>3 DEF A, B
<1> HIDE DEF After, N
<1>7. rank \in [N -> 0..(n - 1)]
  BY <1>2, <1>4
<1>8. ASSUME NEW s \in N, NEW t \in N, rank[s] = rank[t] PROVE s = t
  <2>1. s \in of /\ t \in of /\ Cardinality(After(s)) = Cardinality(After(t))
    BY <1>4, <1>8
  <2>2. ~(view[s].time < view[t].time) /\ ~(view[t].time < view[s].time)
    BY <2>1, <1>6
  <2>3. view[s].time = view[t].time
    BY <2>1, <2>2, <1>5
  <2> QED BY <2>1, <2>3
<1>9. rank \in Injection(N, 0..(n - 1))
  <2> HIDE DEF rank
  <2> QED BY <1>7, <1>8 DEF Injection, IsInjective
<1>10. IsFiniteSet(0..(n - 1)) /\ Cardinality(0..(n - 1)) = n
  <2>1. IsFiniteSet(0..(n - 1)) /\ Cardinality(0..(n - 1)) = IF 0 > n - 1 THEN 0
            ELSE (n - 1) - 0 + 1
    BY FS_Interval
  <2> QED BY <2>1
<1>11. IsFiniteSet(N) /\ Cardinality(N) <= Cardinality(0..(n - 1))
  <2> HIDE DEF rank
  <2> QED BY <1>9, <1>10, FS_Injection
<1> QED BY <1>10, <1>11 DEF N

\* What is read of the files, field by field.
LEMMA LoopFields ==
  /\ \A r \in Loop!Regenerates :
       /\ r.at \in {"build", "mark", "status", "rebuild", "remark", "queue"}
       /\ r.session \in Sessions \union {Nil}
       /\ r.status \in {"in_progress", "completed", "crashed", Nil}
       /\ r.files \in Loop!Views \union {Nil} /\ r.todo \in SUBSET Sessions
  /\ \A f \in Loop!SessionFiles :
       f.status \in Loop!Statuses /\ f.time \in Nat /\ f.id \in Sessions \union {Nil}
  /\ \A a \in Loop!Statuses : \A n \in Nat :
       \A i \in Sessions \union {Nil} :
         [status |-> a, time |-> n, id |-> i] \in Loop!SessionFiles
  /\ \A v \in Loop!Views : \A s \in Sessions : v[s] # Nil => v[s] \in Loop!SessionFiles
  BY DEF Loop!Regenerates, Loop!SessionFiles, Loop!Views

\* A session file with another status and another time.
LEMMA LoopWritten ==
  ASSUME NEW f \in Loop!SessionFiles, NEW a \in Loop!Statuses, NEW n \in Nat
  PROVE  /\ [f EXCEPT !.status = a, !.time = n] = [status |-> a, time |-> n, id |-> f.id]
         /\ [status |-> a, time |-> n, id |-> f.id] \in Loop!SessionFiles
<1> DEFINE g == [f EXCEPT !.status = a]
<1>1. g = [status |-> a, time |-> f.time, id |-> f.id]
  BY DEF Loop!SessionFiles
<1> HIDE DEF g
<1>2. [g EXCEPT !.time = n] = [status |-> a, time |-> n, id |-> f.id]
  BY <1>1
<1>3. [status |-> a, time |-> n, id |-> f.id] \in Loop!SessionFiles
  BY DEF Loop!SessionFiles
<1> QED BY <1>2, <1>3 DEF g

\* A step that makes no stamp, but for one session that writes now.
LEMMA StampsStep ==
  ASSUME LoopTyped, StampsApart, beats' \in Nat, beats <= beats', NEW w \in Sessions,
         \A s \in Sessions : \A n \in Nat : Stamp(s, n)' =>
           Stamp(s, n) \/ (s = w /\ n = beats + 1 /\ beats' = beats + 1)
  PROVE  StampsApart'
<1>1. beats \in Nat
  BY DEF LoopTyped
<1>2. ASSUME NEW s \in Sessions, NEW n \in Nat, Stamp(s, n)' PROVE n <= beats'
  <2>1. CASE Stamp(s, n)
    BY <2>1, <1>1 DEF StampsApart
  <2>2. CASE ~Stamp(s, n)
    BY <2>2, <1>1, <1>2
  <2> QED BY <2>1, <2>2
<1>3. ASSUME NEW s \in Sessions, NEW t \in Sessions, NEW n \in Nat, Stamp(s, n)', Stamp(t, n)'
      PROVE s = t
  <2>1. CASE Stamp(s, n) /\ Stamp(t, n)
    BY <2>1 DEF StampsApart
  <2>2. CASE Stamp(s, n) /\ ~Stamp(t, n)
    BY <2>2, <1>1, <1>3 DEF StampsApart
  <2>3. CASE ~Stamp(s, n) /\ Stamp(t, n)
    BY <2>3, <1>1, <1>3 DEF StampsApart
  <2>4. CASE ~Stamp(s, n) /\ ~Stamp(t, n)
    BY <2>4, <1>3
  <2> QED BY <2>1, <2>2, <2>3, <2>4
<1> QED BY <1>2, <1>3 DEF StampsApart

\* A step that leaves the files and what was read of them alone.
LEMMA StampsSame ==
  ASSUME LoopTyped, StampsApart, UNCHANGED <<state, beats>>,
         \A k \in Procs : round'[k] # Nil /\ round'[k].at \in Reads =>
           \/ round[k] # Nil /\ round[k].at \in Reads /\ round'[k].files = round[k].files
           \/ \A s \in Sessions : round'[k].files[s] # Nil => round'[k].files[s] = state[s]
  PROVE  StampsApart'
<1>1. ASSUME NEW s \in Sessions, NEW n \in Nat, Stamp(s, n)' PROVE Stamp(s, n)
  BY <1>1 DEF Stamp
<1> QED BY <1>1 DEF StampsApart

\* The files of a step that changes the regenerate of k only.
LEMMA RoundChanges ==
  ASSUME LoopInv, NEW k \in Procs, NEW r \in Loop!Regenerates \union {Nil},
         round' = [round EXCEPT ![k] = r]
  PROVE  /\ round' \in [Procs -> Loop!Regenerates \union {Nil}] /\ round'[k] = r
         /\ \A j \in Procs \ {k} : round'[j] = round[j]
  BY DEF LoopInv, LoopTyped

\* A step that changes the regenerate of k only: what it needs to keep the invariant.
LEMMA RoundStep ==
  ASSUME LoopInv, NEW k \in Procs, NEW r \in Loop!Regenerates \union {Nil},
         round' = [round EXCEPT ![k] = r], UNCHANGED <<state, silent, beats, decision>>,
         notes' \subseteq Sessions,
         r # Nil => Well(r),
         r # Nil /\ r.at \in Reads =>
           \/ round[k] # Nil /\ round[k].at \in Reads /\ r.files = round[k].files
           \/ \A s \in Sessions : r.files[s] # Nil => r.files[s] = state[s],
         registry' = Nil \/ (registry' \subseteq Sessions /\ Cardinality(registry') <= MaxActive),
         r # Nil /\ r.at = "queue" => Few(r),
         raced' \in BOOLEAN, ~raced' => ~raced,
         ~raced' /\ r # Nil => \A j \in Procs \ {k} : round[j] = Nil,
         ~raced' /\ r # Nil /\ r.at \in Reads => UpToDate(r)
  PROVE  LoopInv'
<1>1. /\ round' \in [Procs -> Loop!Regenerates \union {Nil}] /\ round'[k] = r
      /\ \A j \in Procs \ {k} : round'[j] = round[j]
  BY RoundChanges
<1>2. LoopTyped'
  BY <1>1 DEF LoopInv, LoopTyped
<1>3. Reading'
  BY <1>1 DEF LoopInv, Reading, Well
<1>4. StampsApart'
  <2>1. \A j \in Procs : round'[j] # Nil /\ round'[j].at \in Reads =>
           \/ round[j] # Nil /\ round[j].at \in Reads /\ round'[j].files = round[j].files
           \/ \A s \in Sessions : round'[j].files[s] # Nil => round'[j].files[s] = state[s]
    BY <1>1
  <2> QED BY <2>1, StampsSame DEF LoopInv
<1>5. WithinLimit'
  BY <1>1 DEF LoopInv, WithinLimit, Few, Loop!WithStatus
<1>6. DecidedKept'
  BY <1>1 DEF LoopInv, DecidedKept, UpToDate, Right
<1> QED BY <1>2, <1>3, <1>4, <1>5, <1>6 DEF LoopInv, LoopFlags

\* A step that sets the status of a session to be done: the file, and what was read of it.
LEMMA UpdateStep ==
  ASSUME LoopInv, NEW k \in Procs, NEW a \in {"suspected_crashed", "queued"},
         Loop!Update(k, a), round[k] # Nil, round[k].at \in {"mark", "remark", "queue"},
         round[k].at = "queue" => a = "queued",
         UNCHANGED <<silent, registry, notes, beats, decision, raced>>
  PROVE  LoopInv'
<1> PICK s \in round[k].todo :
      /\ \/ state' = [state EXCEPT ![s].status = a]
         \/ state' = [state EXCEPT ![s] = Loop!Remnant(a)]
      /\ round' = [round EXCEPT ![k].files[s].status = a, ![k].todo = @ \ {s}]
  BY DEF Loop!Update
<1> DEFINE r == round[k]
           q == round'[k]
           f == state'[s]
<1>0. /\ LoopTyped /\ Reading /\ StampsApart /\ WithinLimit /\ LoopFlags /\ DecidedKept
      /\ a \in Loop!Statuses
  BY DEF LoopInv, Loop!Statuses, Loop!ActiveStatuses
<1>1. r \in Loop!Regenerates /\ r.at \in Reads /\ s \in Sessions /\ Well(r)
  BY <1>0, LoopFields DEF LoopTyped, Reading, Reads
<1>2. r.files \in Loop!Views /\ r.files[s] # Nil /\ state[s] # Nil
  BY <1>1 DEF Well
<1>3. /\ state \in Loop!Views /\ state[s] \in Loop!SessionFiles
      /\ r.files[s] \in Loop!SessionFiles
  BY <1>0, <1>1, <1>2, LoopFields DEF LoopTyped
<1>4. /\ f \in Loop!SessionFiles /\ f.status = a
      /\ f.id = s => state[s].id = s /\ f.time = state[s].time
      /\ state' \in Loop!Views /\ \A t \in Sessions \ {s} : state'[t] = state[t]
  <2>1. /\ f = [state[s] EXCEPT !.status = a] \/ f = Loop!Remnant(a)
        /\ state' = [state EXCEPT ![s] = f]
    BY <1>1, <1>3 DEF Loop!Views
  <2>2. [state[s] EXCEPT !.status = a]
          = [status |-> a, time |-> state[s].time, id |-> state[s].id]
    BY <1>3 DEF Loop!SessionFiles
  <2>3. \/ f = [status |-> a, time |-> state[s].time, id |-> state[s].id]
        \/ f = [status |-> a, time |-> 0, id |-> Nil]
    BY <2>1, <2>2 DEF Loop!Remnant
  <2>4. f \in Loop!SessionFiles
    <3>1. 0 \in Nat
      OBVIOUS
    <3>2. CASE f = [status |-> a, time |-> state[s].time, id |-> state[s].id]
      <4>1. state[s].time \in Nat /\ state[s].id \in Sessions \union {Nil}
        BY <1>3, LoopFields
      <4> QED BY <3>2, <4>1, <1>0, LoopFields
    <3>3. CASE f = [status |-> a, time |-> 0, id |-> Nil]
      BY <3>1, <3>3, <1>0, LoopFields
    <3> QED BY <2>3, <3>2, <3>3
  <2> HIDE DEF f
  <2>5. f.status = a /\ (f.id = s => state[s].id = s /\ f.time = state[s].time)
    BY <1>1, <2>3, LoopValues
  <2>6. state' \in Loop!Views /\ \A t \in Sessions \ {s} : state'[t] = state[t]
    BY <1>1, <1>3, <2>1, <2>4 DEF Loop!Views
  <2> QED BY <2>4, <2>5, <2>6
<1>5. /\ q = [r EXCEPT !.files = [r.files EXCEPT ![s] = [@ EXCEPT !.status = a]],
           !.todo = r.todo \ {s}]
      /\ DOMAIN round' = Procs /\ \A j \in Procs \ {k} : round'[j] = round[j]
  BY <1>0, <1>1 DEF LoopTyped, Loop!Regenerates
<1>6. /\ q.at = r.at /\ q.session = r.session /\ q.status = r.status /\ q.todo = r.todo \ {s}
      /\ q.files = [r.files EXCEPT ![s] = [@ EXCEPT !.status = a]]
      /\ q = [at |-> q.at, session |-> q.session, status |-> q.status, files |-> q.files,
              todo |-> q.todo]
  BY <1>1, <1>5 DEF Loop!Regenerates
<1>7. /\ q.files[s] = [status |-> a, time |-> r.files[s].time, id |-> r.files[s].id]
      /\ q.files \in Loop!Views
      /\ \A t \in Sessions \ {s} : q.files[t] = r.files[t]
  <2>1. /\ q.files[s] = [r.files[s] EXCEPT !.status = a] /\ DOMAIN q.files = Sessions
        /\ \A t \in Sessions \ {s} : q.files[t] = r.files[t]
    BY <1>1, <1>2, <1>6 DEF Loop!Views
  <2>2. [r.files[s] EXCEPT !.status = a]
          = [status |-> a, time |-> r.files[s].time, id |-> r.files[s].id]
    BY <1>3 DEF Loop!SessionFiles
  <2>3. [status |-> a, time |-> r.files[s].time, id |-> r.files[s].id]
          \in Loop!SessionFiles
    BY <1>0, <1>3, LoopWritten, LoopFields
  <2>4. q.files = [t \in Sessions |-> q.files[t]]
    BY <1>1, <1>2, <1>6 DEF Loop!Views
  <2>5. \A t \in Sessions \ {s} : q.files[t] \in Loop!SessionFiles \union {Nil}
    BY <1>2, <2>1 DEF Loop!Views
  <2> HIDE DEF q
  <2>6. q.files \in [Sessions -> Loop!SessionFiles \union {Nil}]
    BY <2>1, <2>2, <2>3, <2>4, <2>5
  <2> QED BY <2>1, <2>2, <2>6 DEF Loop!Views
<1>8. q \in Loop!Regenerates /\ q # Nil
  <2>1. q \in Loop!Regenerates
    BY <1>1, <1>6, <1>7 DEF Loop!Regenerates
  <2> QED BY <2>1, LoopValues
<1>9. round' \in [Procs -> Loop!Regenerates \union {Nil}]
  BY <1>0, <1>5, <1>8 DEF LoopTyped
<1> HIDE DEF q, f
<1>10. f = state'[s] /\ f # Nil /\ q.files[s] # Nil
  <2>1. f = state'[s]
    BY DEF f
  <2>2. f # Nil
    BY <1>4, LoopValues
  <2>3. q.files[s] \in Loop!SessionFiles
    <3>1. r.files[s].time \in Nat /\ r.files[s].id \in Sessions \union {Nil}
      BY <1>3, LoopFields
    <3> HIDE DEF r
    <3> QED BY <3>1, <1>0, <1>7, LoopFields
  <2> QED BY <2>1, <2>2, <2>3, LoopValues
<1>11. LoopTyped'
  BY <1>0, <1>4, <1>9 DEF LoopTyped
<1>12. Reading'
  <2>1. Well(r)
    BY <1>1
  <2>2. Well(round[k])'
    <3>1. q = round'[k]
      BY DEF q
    <3>2. \A t \in Sessions : q.files[t] # Nil => state'[t] # Nil
      BY <1>1, <1>4, <1>7, <1>10, <2>1 DEF Well
    <3>3. \A t \in q.todo : t \in Sessions /\ q.files[t] # Nil
      BY <1>1, <1>6, <1>7, <2>1, LoopFields DEF Well
    <3>4. q.at \in {"mark", "remark", "queue"} /\ (q.status # Nil => q.session \in Sessions)
      BY <1>6, <2>1 DEF Well
    <3>5. \A t \in Sessions : q.files[t] # Nil => q.files[t].id = t
      BY <1>1, <1>2, <1>7, <2>1, <3>4, <1>6 DEF Well
    <3> QED BY <3>1, <3>2, <3>3, <3>4, <3>5, <1>7 DEF Well
  <2>3. ASSUME NEW j \in Procs \ {k}, round'[j] # Nil PROVE Well(round[j])'
    <3>1. round'[j] = round[j] /\ Well(round[j])
      BY <1>0, <1>5, <2>3 DEF Reading
    <3> QED BY <3>1, <1>4, <1>10 DEF Well
  <2> QED BY <2>2, <2>3 DEF Reading
<1>13. StampsApart'
  <2>1. ASSUME NEW t \in Sessions, NEW n \in Nat, Stamp(t, n)' PROVE Stamp(t, n)
    <3>1. CASE state'[t] # Nil /\ state'[t].id = t /\ state'[t].time = n
      BY <3>1, <1>2, <1>4, <1>10 DEF Stamp
    <3>2. CASE \E j \in Procs :
                 /\ round'[j] # Nil /\ round'[j].at \in Reads
                 /\ round'[j].files[t] # Nil /\ round'[j].files[t].id = t
                 /\ round'[j].files[t].time = n
      <4> PICK j \in Procs :
                 /\ round'[j] # Nil /\ round'[j].at \in Reads
                 /\ round'[j].files[t] # Nil /\ round'[j].files[t].id = t
                 /\ round'[j].files[t].time = n
        BY <3>2
      <4>1. CASE j # k
        BY <4>1, <1>5 DEF Stamp
      <4>2. CASE j = k
        <5>1. q.files[t] # Nil /\ q.files[t].id = t /\ q.files[t].time = n
          BY <4>2 DEF q
        <5>2. r.files[t] # Nil /\ r.files[t].id = t /\ r.files[t].time = n
          BY <5>1, <1>2, <1>7
        <5> QED BY <5>2, <1>1 DEF Stamp
      <4> QED BY <4>1, <4>2
    <3> QED BY <2>1, <3>1, <3>2 DEF Stamp
  <2>2. beats' \in Nat /\ beats <= beats'
    BY <1>0 DEF LoopTyped
  <2> QED BY <1>0, <1>1, <2>1, <2>2, StampsStep
<1>14. WithinLimit'
  <2>1. ASSUME r.at = "queue" PROVE Few(q)
    <3>1. /\ Loop!WithStatus(q.files, Loop!ActiveStatuses) \ q.todo
             = Loop!WithStatus(r.files, Loop!ActiveStatuses) \ r.todo
      BY <2>1, <1>1, <1>6, <1>7 DEF Loop!WithStatus, Loop!ActiveStatuses
    <3>2. Few(r)
      BY <1>0, <2>1 DEF WithinLimit
    <3> QED BY <3>1, <3>2 DEF Few
  <2>2. \A j \in Procs \ {k} : round[j] # Nil /\ round[j].at = "queue" => Few(round[j])
    BY <1>0 DEF WithinLimit
  <2>3. \A j \in Procs : round'[j] # Nil /\ round'[j].at = "queue" => Few(round'[j])
    BY <1>5, <1>6, <2>1, <2>2 DEF q
  <2> QED BY <1>0, <2>3 DEF WithinLimit, Few, Loop!WithStatus
<1>15. DecidedKept'
  <2> SUFFICES ASSUME ~raced
               PROVE  /\ \A i, j \in Procs : round'[i] # Nil /\ round'[j] # Nil => i = j
                      /\ \A j \in Procs : round'[j] # Nil /\ round'[j].at \in Reads =>
                           UpToDate(round[j])'
                      /\ \A t \in Sessions : state'[t] # Nil => Right(state'[t], decision[t])
    BY DEF DecidedKept
  <2>1. \A j \in Procs : round[j] # Nil => j = k
    BY <1>0 DEF DecidedKept
  <2>2. \A j \in Procs : round'[j] # Nil => j = k
    BY <1>5, <2>1
  <2>3. UpToDate(r) /\ state[s].status \in Loop!ActiveStatuses
    BY <1>0, <1>1 DEF DecidedKept, UpToDate
  <2>4. \A t \in Sessions : q.files[t] # Nil => q.files[t].status = state'[t].status
    BY <1>4, <1>7, <1>10, <2>3 DEF UpToDate
  <2>5. \A t \in r.todo \ {s} : state'[t].status \in Loop!ActiveStatuses
    BY <1>1, <1>4, <2>3, LoopFields DEF UpToDate
  <2>6. UpToDate(round[k])'
    <3>1. q = round'[k]
      BY DEF q
    <3> QED BY <3>1, <1>6, <2>4, <2>5 DEF UpToDate
  <2>7. decision[s] # "completed"
    BY <1>0, <1>1, <1>2, <2>3 DEF DecidedKept, Right, Loop!ActiveStatuses
  <2>8. Right(state'[s], decision[s])
    BY <1>4, <1>10, <2>7 DEF Right, Loop!ActiveStatuses
  <2>9. \A t \in Sessions \ {s} : state'[t] # Nil => Right(state'[t], decision[t])
    BY <1>0, <1>4 DEF DecidedKept
  <2> QED BY <2>2, <2>6, <2>8, <2>9
<1> QED BY <1>0, <1>11, <1>12, <1>13, <1>14, <1>15 DEF LoopInv, LoopFlags

\* A session that starts keeps the invariant.
LEMMA LoopStart ==
  ASSUME LoopInv, NEW s \in Sessions, Loop!Start(s)
  PROVE  LoopInv'
<1> DEFINE f == [status |-> "in_progress", time |-> beats + 1, id |-> s]
<1>0. /\ LoopTyped /\ Reading /\ StampsApart /\ WithinLimit /\ LoopFlags /\ DecidedKept
      /\ beats \in Nat /\ raced \in BOOLEAN
  BY DEF LoopInv, LoopTyped, LoopFlags
<1>1. /\ beats' = beats + 1 /\ state' = [state EXCEPT ![s] = f]
      /\ decision' = [decision EXCEPT ![s] = "in_progress"]
      /\ notes' = notes \union {s} /\ silent' = silent \ {s}
      /\ UNCHANGED <<registry, round>>
  BY DEF Loop!Start
<1>2. raced' = (raced \/ \E k \in Procs : round[k] # Nil)
  BY DEF Loop!Start
<1>3. f \in Loop!SessionFiles /\ f # Nil
  <2>1. "in_progress" \in Loop!Statuses
    BY DEF Loop!Statuses, Loop!ActiveStatuses
  <2>2. f \in Loop!SessionFiles
    <3>1. beats + 1 \in Nat
      BY <1>0
    <3> QED BY <2>1, <3>1, LoopFields
  <2> QED BY <2>2, LoopValues
<1>4. f.status = "in_progress" /\ f.time = beats + 1
  OBVIOUS
<1> HIDE DEF f
<1>5. state' \in Loop!Views /\ state'[s] = f /\ \A t \in Sessions \ {s} : state'[t] = state[t]
  BY <1>0, <1>1, <1>3 DEF LoopTyped, Loop!Views
<1>6. /\ decision' \in [Sessions -> Loop!Statuses \union {Nil}] /\ decision'[s] = "in_progress"
      /\ \A t \in Sessions \ {s} : decision'[t] = decision[t]
  BY <1>0, <1>1 DEF LoopTyped, Loop!Statuses, Loop!ActiveStatuses
<1>7. LoopTyped'
  BY <1>0, <1>1, <1>5, <1>6 DEF LoopTyped
<1>8. Reading'
  BY <1>0, <1>1, <1>3, <1>5 DEF Reading, Well
<1>9. StampsApart'
  <2>1. ASSUME NEW t \in Sessions, NEW n \in Nat, Stamp(t, n)'
        PROVE  Stamp(t, n) \/ (t = s /\ n = beats + 1 /\ beats' = beats + 1)
    BY <2>1, <1>1, <1>4, <1>5 DEF Stamp
  <2>2. beats' \in Nat /\ beats <= beats'
    BY <1>0, <1>1
  <2> QED BY <1>0, <2>1, <2>2, StampsStep
<1>10. WithinLimit'
  BY <1>0, <1>1 DEF WithinLimit, Few, Loop!WithStatus
<1>11. LoopFlags'
  BY <1>2, Zenon DEF LoopFlags
<1>12. DecidedKept'
  <2> SUFFICES ASSUME ~raced' PROVE DecidedKept'
    BY DEF DecidedKept
  <2>1. ~raced /\ \A k \in Procs : round[k] = Nil
    BY <1>2
  <2>2. \A t \in Sessions : state'[t] # Nil => Right(state'[t], decision'[t])
    <3>1. Right(f, "in_progress")
      BY <1>4 DEF Right, Loop!ActiveStatuses
    <3> QED BY <2>1, <3>1, <1>0, <1>5, <1>6 DEF DecidedKept
  <2> QED BY <1>1, <2>1, <2>2 DEF DecidedKept
<1> QED BY <1>7, <1>8, <1>9, <1>10, <1>11, <1>12 DEF LoopInv

\* A regenerate that builds its view keeps the invariant.
LEMMA LoopBuild ==
  ASSUME LoopInv, NEW k \in Procs, NEW at \in {"mark", "remark"}, Loop!Built(k, at), round[k] # Nil,
         UNCHANGED <<state, silent, registry, notes, beats, decision, raced>>
  PROVE  LoopInv'
<1> PICK missing \in SUBSET {s \in Sessions : state[s] # Nil /\ state[s].id = s} :
      LET found == [s \in Sessions |->
            IF state[s] # Nil /\ state[s].id = s /\ s \notin missing THEN state[s] ELSE Nil] IN
      round' = [round EXCEPT ![k] = [@ EXCEPT !.at = at, !.files = found,
        !.todo = Loop!WithStatus(found, {"in_progress"}) \intersect silent]]
  BY DEF Loop!Built
<1> DEFINE found == [s \in Sessions |->
             IF state[s] # Nil /\ state[s].id = s /\ s \notin missing THEN state[s] ELSE Nil]
           todo == Loop!WithStatus(found, {"in_progress"}) \intersect silent
           r == [round[k] EXCEPT !.at = at, !.files = found, !.todo = todo]
<1>1. round[k] \in Loop!Regenerates /\ Well(round[k]) /\ state \in Loop!Views
  BY DEF LoopInv, LoopTyped, Reading
<1>2. /\ found \in Loop!Views
      /\ \A s \in Sessions : found[s] # Nil => found[s] = state[s] /\ found[s].id = s
  BY <1>1 DEF Loop!Views
<1>3. todo \subseteq Sessions /\ \A s \in todo : found[s] # Nil /\ found[s].status = "in_progress"
  BY DEF Loop!WithStatus
<1>4. round' = [round EXCEPT ![k] = r]
  BY <1>1 DEF LoopInv, LoopTyped
<1> HIDE DEF found, todo
<1>5. r \in Loop!Regenerates
  BY <1>1, <1>2, <1>3 DEF Loop!Regenerates
<1>6. /\ r.at = at /\ r.files = found /\ r.session = round[k].session
      /\ r.status = round[k].status /\ r.todo = todo
  BY <1>1 DEF Loop!Regenerates
<1> HIDE DEF r
<1>7. Well(r) /\ UpToDate(r) /\ r.at # "queue"
  BY <1>1, <1>2, <1>3, <1>6 DEF Well, UpToDate, Loop!ActiveStatuses
<1>8. \A s \in Sessions : r.files[s] # Nil => r.files[s] = state[s]
  BY <1>2, <1>6
<1>9. raced' \in BOOLEAN /\ notes' \subseteq Sessions
  BY DEF LoopInv, LoopFlags, LoopTyped
<1>10. ~raced' => \A j \in Procs \ {k} : round[j] = Nil
  BY DEF LoopInv, DecidedKept
<1>11. registry' = Nil \/ (registry' \subseteq Sessions /\ Cardinality(registry') <= MaxActive)
  BY DEF LoopInv, WithinLimit
<1> QED BY <1>4, <1>5, <1>7, <1>8, <1>9, <1>10, <1>11, RoundStep

\* A regenerate that begins keeps the invariant.
LEMMA LoopRegenerate ==
  ASSUME LoopInv, NEW k \in Procs, Loop!Regenerate(k)
  PROVE  LoopInv'
<1> PICK s \in Sessions, a \in {"in_progress", "completed", "crashed", Nil} :
       round' = [round EXCEPT ![k] =
         [at |-> "build", session |-> IF a = Nil THEN Nil ELSE s, status |-> a,
          files |-> Nil, todo |-> {}]]
  BY DEF Loop!Regenerate
<1> DEFINE r == [at |-> "build", session |-> IF a = Nil THEN Nil ELSE s, status |-> a,
                 files |-> Nil, todo |-> {}]
<1>1. r \in Loop!Regenerates /\ r.at = "build" /\ Well(r)
  BY DEF Loop!Regenerates, Well, Reads
<1>2. round' = [round EXCEPT ![k] = r]
  OBVIOUS
<1> HIDE DEF r
<1>3. UNCHANGED <<state, silent, registry, notes, beats, decision>> /\ round[k] = Nil
  BY DEF Loop!Regenerate
<1>4. raced' = (raced \/ \E j \in Procs : round[j] # Nil)
  BY DEF Loop!Regenerate
<1>5. raced' \in BOOLEAN /\ (~raced' => ~raced)
          /\ (~raced' => \A j \in Procs \ {k} : round[j] = Nil)
  BY <1>4, Zenon DEF LoopInv, LoopFlags
<1>6. notes' \subseteq Sessions
  BY <1>3 DEF LoopInv, LoopTyped
<1>7. registry' = Nil \/ (registry' \subseteq Sessions /\ Cardinality(registry') <= MaxActive)
  BY <1>3 DEF LoopInv, WithinLimit
<1> QED BY <1>1, <1>2, <1>3, <1>5, <1>6, <1>7, RoundStep DEF Reads

\* Reading the file whose status is to change keeps the invariant.
LEMMA LoopReadStatus ==
  ASSUME LoopInv, NEW k \in Procs, Loop!ReadStatus(k)
  PROVE  LoopInv'
<1> DEFINE r == [round[k] EXCEPT !.at = "status", !.files = state]
<1>1. /\ round[k] \in Loop!Regenerates /\ state \in Loop!Views /\ Well(round[k])
      /\ round[k].at = "mark" /\ round[k].todo = {} /\ round[k].status # Nil
      /\ state[round[k].session] # Nil /\ round[k] # Nil
  BY DEF LoopInv, LoopTyped, Reading, Loop!ReadStatus, Loop!At
<1>2. r \in Loop!Regenerates
  BY <1>1 DEF Loop!Regenerates
<1>3. round' = [round EXCEPT ![k] = r] /\ UNCHANGED <<state, silent, registry, notes, beats,
          decision, raced>>
  BY <1>1 DEF Loop!ReadStatus, LoopInv, LoopTyped
<1>4. /\ r.at = "status" /\ r.files = state /\ r.todo = {} /\ r.session = round[k].session
      /\ r.status = round[k].status
  BY <1>1 DEF Loop!Regenerates
<1> HIDE DEF r
<1>5. Well(r) /\ UpToDate(r)
  BY <1>1, <1>4 DEF Well, UpToDate
<1>6. raced' \in BOOLEAN /\ notes' \subseteq Sessions
  BY <1>3 DEF LoopInv, LoopFlags, LoopTyped
<1>7. ~raced' => \A j \in Procs \ {k} : round[j] = Nil
  BY <1>1, <1>3 DEF LoopInv, DecidedKept
<1>8. registry' = Nil \/ (registry' \subseteq Sessions /\ Cardinality(registry') <= MaxActive)
  BY <1>3 DEF LoopInv, WithinLimit
<1> QED BY <1>2, <1>3, <1>4, <1>5, <1>6, <1>7, <1>8, RoundStep

\* A regenerate that ends, having written the registry or not.
LEMMA LoopEnds ==
  ASSUME LoopInv, NEW k \in Procs, Loop!WriteRegistry(k) \/ Loop!GiveUp(k)
  PROVE  LoopInv'
<1>1. /\ round' = [round EXCEPT ![k] = Nil] /\ UNCHANGED <<state, silent, beats, decision, raced>>
      /\ notes' \subseteq Sessions
  BY DEF LoopInv, LoopTyped, Loop!WriteRegistry, Loop!GiveUp
<1>2. registry' = Nil \/ (registry' \subseteq Sessions /\ Cardinality(registry') <= MaxActive)
  <2>1. CASE Loop!GiveUp(k)
    BY <2>1 DEF LoopInv, WithinLimit, Loop!GiveUp
  <2>2. CASE Loop!WriteRegistry(k)
    <3>1. round[k] # Nil /\ round[k].at = "queue" /\ round[k].todo = {}
          /\ registry' = Loop!WithStatus(round[k].files, Loop!ActiveStatuses)
      BY <2>2 DEF Loop!WriteRegistry, Loop!At
    <3>2. Few(round[k])
      BY <3>1 DEF LoopInv, WithinLimit
    <3>3. registry' = Loop!WithStatus(round[k].files, Loop!ActiveStatuses) \ round[k].todo
      BY <3>1
    <3>4. registry' \subseteq Sessions
      BY <3>1 DEF Loop!WithStatus
    <3> QED BY <3>2, <3>3, <3>4 DEF Few
  <2> QED BY <2>1, <2>2
<1>3. raced' \in BOOLEAN
  BY <1>1 DEF LoopInv, LoopFlags
<1> QED BY <1>1, <1>2, <1>3, RoundStep

\* Choosing the sessions to queue keeps the invariant.
LEMMA LoopEnforce ==
  ASSUME LoopInv, NEW k \in Procs, Loop!Enforce(k)
  PROVE  LoopInv'
<1> DEFINE view == round[k].files
           active == Loop!WithStatus(view, Loop!ActiveStatuses)
           newest == Loop!Newest(view, active, MaxActive)
           r == [round[k] EXCEPT !.at = "queue", !.todo = active \ newest]
<1>1. /\ round[k] \in Loop!Regenerates /\ Well(round[k]) /\ round[k] # Nil
      /\ round[k].at \in {"mark", "remark"} /\ StampsApart
  BY DEF LoopInv, LoopTyped, Reading, Loop!Enforce, Loop!At
<1>2. view \in Loop!Views
  BY <1>1 DEF Well, Reads
<1>3. active \subseteq Sessions /\ \A s \in active : view[s] # Nil
          /\ view[s].status \in Loop!ActiveStatuses
  BY DEF Loop!WithStatus
<1>4. r \in Loop!Regenerates
  BY <1>1, <1>3 DEF Loop!Regenerates
<1>5. round' = [round EXCEPT ![k] = r] /\ UNCHANGED <<state, silent, registry, notes, beats,
          decision, raced>>
  BY <1>1 DEF Loop!Enforce, LoopInv, LoopTyped
<1>6. /\ r.at = "queue" /\ r.files = view /\ r.todo = active \ newest
           /\ r.session = round[k].session
      /\ r.status = round[k].status
  BY <1>1 DEF Loop!Regenerates
<1> HIDE DEF r
<1>7. IsFiniteSet(newest) /\ Cardinality(newest) <= MaxActive /\ newest \subseteq active
  <2>1. \A t \in active : view[t] \in Loop!SessionFiles
    BY <1>2, <1>3, LoopFields
  <2>2. ASSUME NEW s \in active, NEW t \in active, view[s].time = view[t].time PROVE s = t
    <3>1. view[s].time \in Nat
      BY <2>1, LoopFields
    <3>2. Stamp(s, view[s].time) /\ Stamp(t, view[s].time)
      BY <1>1, <1>3, <2>2 DEF Stamp, Reads, Well
    <3> QED BY <1>1, <1>3, <3>1, <3>2 DEF StampsApart
  <2>3. newest \subseteq active
    BY DEF Loop!Newest
  <2> HIDE DEF view, active, newest
  <2> QED BY <1>2, <1>3, <2>1, <2>2, <2>3, LoopValues, NewestFew DEF newest
<1>8. Few(r)
  <2>1. Loop!WithStatus(r.files, Loop!ActiveStatuses) \ r.todo = newest
    BY <1>6, <1>7
  <2> QED BY <2>1, <1>7 DEF Few
<1>9. Well(r)
  BY <1>1, <1>2, <1>3, <1>6 DEF Well, Reads
<1>10. ~raced' => /\ \A j \in Procs \ {k} : round[j] = Nil
                  /\ UpToDate(r)
  <2> SUFFICES ASSUME ~raced PROVE (\A j \in Procs \ {k} : round[j] = Nil) /\ UpToDate(r)
    BY <1>5
  <2>1. (\A j \in Procs \ {k} : round[j] = Nil) /\ UpToDate(round[k])
    BY <1>1 DEF LoopInv, DecidedKept, Reads
  <2> QED BY <2>1, <1>3, <1>6 DEF UpToDate
<1>11. raced' \in BOOLEAN /\ notes' \subseteq Sessions
  BY <1>5 DEF LoopInv, LoopFlags, LoopTyped
<1>12. registry' = Nil \/ (registry' \subseteq Sessions /\ Cardinality(registry') <= MaxActive)
  BY <1>5 DEF LoopInv, WithinLimit
<1>13. round[k].at \in Reads /\ r.files = round[k].files
  BY <1>1, <1>6 DEF Reads
<1> HIDE DEF view, active, newest
<1> QED BY <1>1, <1>4, <1>5, <1>8, <1>9, <1>10, <1>11, <1>12, <1>13, RoundStep

\* Writing the status that was asked for keeps the invariant.
LEMMA LoopWriteStatus ==
  ASSUME LoopInv, NEW k \in Procs, Loop!WriteStatus(k)
  PROVE  LoopInv'
<1> DEFINE r == round[k]
           s == r.session
           done == r.status = "completed"
           n == IF done THEN beats + 1 ELSE r.files[s].time
           f == [status |-> r.status, time |-> n, id |-> r.files[s].id]
           q == [r EXCEPT !.at = "rebuild", !.files = Nil]
<1>0. /\ LoopTyped /\ Reading /\ StampsApart /\ WithinLimit /\ LoopFlags /\ DecidedKept
      /\ beats \in Nat /\ raced \in BOOLEAN
  BY DEF LoopInv, LoopTyped, LoopFlags
<1>1. /\ r # Nil /\ r.at = "status" /\ state' = [state EXCEPT ![s] = f]
      /\ decision' = [decision EXCEPT ![s] = r.status]
      /\ beats' = IF done THEN beats + 1 ELSE beats
      /\ round' = [round EXCEPT ![k] = q]
      /\ UNCHANGED <<silent, registry, notes, raced>>
  <2>1. /\ r # Nil /\ r.at = "status"
        /\ state' = [state EXCEPT ![s] = [r.files[s] EXCEPT !.status = r.status,
              !.time = IF done THEN beats + 1 ELSE @]]
        /\ decision' = [decision EXCEPT ![s] = r.status]
        /\ beats' = IF done THEN beats + 1 ELSE beats
        /\ round' = [round EXCEPT ![k] = q]
        /\ UNCHANGED <<silent, registry, notes, raced>>
    BY <1>0 DEF Loop!WriteStatus, Loop!At, LoopTyped
  <2>2. r.files[s] \in Loop!SessionFiles
    BY <1>0, <2>1, LoopFields DEF LoopTyped, Reading, Well, Reads
  <2>3. [r.files[s] EXCEPT !.status = r.status, !.time = n]
          = [status |-> r.status, time |-> n, id |-> r.files[s].id]
    <3>1. r.status \in Loop!Statuses /\ n \in Nat
      BY <1>0, <2>1, <2>2, LoopFields DEF LoopTyped, Reading, Well, Loop!Statuses, Loop!ActiveStatuses
    <3> QED BY <2>2, <3>1, LoopWritten
  <2>4. [r.files[s] EXCEPT !.status = r.status, !.time = n] = f
    BY <2>3
  <2> QED BY <2>1, <2>4
<1>2. /\ r \in Loop!Regenerates /\ Well(r) /\ r.status # Nil /\ s \in Sessions /\ r.todo = {}
      /\ r.files \in Loop!Views /\ r.files[s] # Nil
  BY <1>0, <1>1 DEF LoopTyped, Reading, Well, Reads
<1>3. /\ r.status \in {"in_progress", "completed", "crashed"} /\ r.status \in Loop!Statuses
      /\ r.files[s].time \in Nat /\ r.files[s] \in Loop!SessionFiles
  BY <1>2, LoopFields DEF Loop!Statuses, Loop!ActiveStatuses
<1>4. q \in Loop!Regenerates /\ q.at = "rebuild" /\ q.status = r.status /\ q.session = s
          /\ q.todo = {}
  BY <1>2 DEF Loop!Regenerates
<1>5. n \in Nat
  BY <1>0, <1>3
<1>6. /\ f \in Loop!SessionFiles /\ f # Nil /\ f.status = r.status /\ f.time = n
      /\ f.id = r.files[s].id
  <2>1. f \in Loop!SessionFiles
    BY <1>3, <1>5, LoopWritten
  <2> QED BY <2>1, LoopValues
<1>7. (n = beats + 1 /\ done) \/ n = r.files[s].time
  OBVIOUS
<1> HIDE DEF f, q, n
<1>8. state' \in Loop!Views /\ state'[s] = f /\ \A t \in Sessions \ {s} : state'[t] = state[t]
  BY <1>0, <1>1, <1>2, <1>6 DEF LoopTyped, Loop!Views
<1>9. /\ decision' \in [Sessions -> Loop!Statuses \union {Nil}] /\ decision'[s] = r.status
      /\ \A t \in Sessions \ {s} : decision'[t] = decision[t]
  BY <1>0, <1>1, <1>2, <1>3 DEF LoopTyped
<1>10. /\ round' \in [Procs -> Loop!Regenerates \union {Nil}] /\ round'[k] = q
       /\ \A j \in Procs \ {k} : round'[j] = round[j]
  BY <1>1, <1>4, RoundChanges
<1>11. beats' \in Nat /\ beats <= beats' /\ (done => beats' = beats + 1)
  BY <1>0, <1>1
<1>12. LoopTyped'
  BY <1>0, <1>1, <1>8, <1>9, <1>10, <1>11 DEF LoopTyped
<1>13. Reading'
  <2>1. Well(round[k])'
    BY <1>2, <1>4, <1>10 DEF Well, Reads
  <2>2. ASSUME NEW j \in Procs \ {k}, round'[j] # Nil PROVE Well(round[j])'
    <3>1. round'[j] = round[j] /\ Well(round[j])
      BY <1>0, <1>10, <2>2 DEF Reading
    <3> QED BY <3>1, <1>6, <1>8 DEF Well
  <2> QED BY <2>1, <2>2 DEF Reading
<1>14. StampsApart'
  <2>1. ASSUME NEW t \in Sessions, NEW m \in Nat, Stamp(t, m)'
        PROVE  Stamp(t, m) \/ (t = s /\ m = beats + 1 /\ beats' = beats + 1)
    <3>1. CASE state'[t] # Nil /\ state'[t].id = t /\ state'[t].time = m
      <4>1. CASE t # s
        BY <3>1, <4>1, <1>8 DEF Stamp
      <4>2. CASE t = s
        <5>1. m = n /\ r.files[s].id = s
          BY <3>1, <4>2, <1>6, <1>8
        <5>2. CASE n = beats + 1 /\ done
          BY <5>1, <5>2, <4>2, <1>11
        <5>3. CASE n = r.files[s].time
          BY <5>1, <5>3, <4>2, <1>1, <1>2 DEF Stamp, Reads
        <5> QED BY <5>2, <5>3, <1>7
      <4> QED BY <4>1, <4>2
    <3>2. CASE \E j \in Procs :
                 /\ round'[j] # Nil /\ round'[j].at \in Reads
                 /\ round'[j].files[t] # Nil /\ round'[j].files[t].id = t
                 /\ round'[j].files[t].time = m
      BY <3>2, <1>4, <1>10 DEF Stamp, Reads
    <3> QED BY <2>1, <3>1, <3>2 DEF Stamp
  <2> HIDE DEF done, s
  <2> QED BY <1>0, <1>2, <1>11, <2>1, StampsStep
<1>15. WithinLimit'
  BY <1>0, <1>1, <1>4, <1>10 DEF WithinLimit, Few, Loop!WithStatus
<1>16. DecidedKept'
  <2> SUFFICES ASSUME ~raced
               PROVE  /\ \A i, j \in Procs : round'[i] # Nil /\ round'[j] # Nil => i = j
                      /\ \A j \in Procs : round'[j] # Nil /\ round'[j].at \in Reads =>
                           UpToDate(round[j])'
                      /\ \A t \in Sessions : state'[t] # Nil => Right(state'[t], decision'[t])
    BY <1>1 DEF DecidedKept
  <2>1. \A j \in Procs : round'[j] # Nil => j = k
    BY <1>0, <1>1, <1>10 DEF DecidedKept
  <2>2. round'[k].at \notin Reads
    BY <1>4, <1>10 DEF Reads
  <2>3. Right(f, r.status)
    BY <1>3, <1>6 DEF Right, Loop!ActiveStatuses
  <2>4. \A t \in Sessions \ {s} : state'[t] # Nil => Right(state'[t], decision'[t])
    BY <1>0, <1>8, <1>9 DEF DecidedKept
  <2> QED BY <2>1, <2>2, <2>3, <2>4, <1>8, <1>9
<1> QED BY <1>0, <1>1, <1>12, <1>13, <1>14, <1>15, <1>16 DEF LoopInv, LoopFlags

\* A heartbeat keeps the invariant.
LEMMA LoopBeat ==
  ASSUME LoopInv, NEW s \in Sessions, Loop!Beat(s)
  PROVE  LoopInv'
<1> DEFINE f == [status |-> "unset", time |-> 0, id |-> Nil]
<1>0. /\ LoopTyped /\ Reading /\ StampsApart /\ WithinLimit /\ LoopFlags /\ DecidedKept
  BY DEF LoopInv
<1>1. /\ state[s] # Nil /\ silent' = silent \ {s}
      /\ UNCHANGED <<registry, notes, round, beats, decision>>
      /\ \/ UNCHANGED <<state, raced>>
         \/ /\ state' = [state EXCEPT ![s] = f]
            /\ raced' = (raced \/ \E k \in Procs : round[k] # Nil)
  BY DEF Loop!Beat, Loop!Remnant
<1>2. CASE UNCHANGED <<state, raced>>
  <2>1. LoopTyped' /\ LoopFlags'
    BY <1>0, <1>1, <1>2 DEF LoopTyped, LoopFlags
  <2>2. Reading' /\ StampsApart'
    BY <1>0, <1>1, <1>2 DEF Reading, Well, StampsApart, Stamp
  <2>3. WithinLimit' /\ DecidedKept'
    BY <1>0, <1>1, <1>2 DEF WithinLimit, Few, Loop!WithStatus, DecidedKept, UpToDate, Right
  <2> QED BY <2>1, <2>2, <2>3 DEF LoopInv
<1>3. CASE /\ state' = [state EXCEPT ![s] = f]
           /\ raced' = (raced \/ \E k \in Procs : round[k] # Nil)
  <2>1. f \in Loop!SessionFiles /\ f # Nil
    <3>1. "unset" \in Loop!Statuses
      BY DEF Loop!Statuses
    <3>2. f \in Loop!SessionFiles
      BY <3>1, LoopFields
    <3> QED BY <3>2, LoopValues
  <2>2. f.status = "unset" /\ f.id = Nil
    OBVIOUS
  <2> HIDE DEF f
  <2>3. state' \in Loop!Views /\ state'[s] = f /\ \A t \in Sessions \ {s} : state'[t] = state[t]
    BY <1>0, <1>3, <2>1 DEF LoopTyped, Loop!Views
  <2>4. LoopTyped'
    BY <1>0, <1>1, <2>3 DEF LoopTyped
  <2>5. Reading'
    BY <1>0, <1>1, <2>1, <2>3 DEF Reading, Well
  <2>6. StampsApart'
    <3>1. ASSUME NEW t \in Sessions, NEW n \in Nat, Stamp(t, n)' PROVE Stamp(t, n)
      BY <3>1, <1>1, <2>2, <2>3, LoopValues DEF Stamp
    <3> QED BY <3>1, <1>0, <1>1 DEF StampsApart
  <2>7. WithinLimit'
    BY <1>0, <1>1 DEF WithinLimit, Few, Loop!WithStatus
  <2>8. LoopFlags'
    BY <1>3, Zenon DEF LoopFlags
  <2>9. DecidedKept'
    <3> SUFFICES ASSUME ~raced' PROVE DecidedKept'
      BY DEF DecidedKept
    <3>1. ~raced /\ \A k \in Procs : round[k] = Nil
      BY <1>3
    <3>2. \A t \in Sessions : state'[t] # Nil => Right(state'[t], decision'[t])
      <4>1. \A d : Right(f, d)
        BY <2>2 DEF Right
      <4> QED BY <4>1, <3>1, <1>0, <1>1, <2>3 DEF DecidedKept
    <3> QED BY <1>1, <3>1, <3>2 DEF DecidedKept
  <2> QED BY <2>4, <2>5, <2>6, <2>7, <2>8, <2>9 DEF LoopInv
<1> QED BY <1>1, <1>2, <1>3

\* A session that stops its heartbeat keeps the invariant.
LEMMA LoopFallSilent ==
  ASSUME LoopInv, NEW s \in Sessions, Loop!FallSilent(s)
  PROVE  LoopInv'
<1>1. UNCHANGED <<state, registry, notes, round, beats, decision, raced>>
          /\ silent' = silent \union {s}
  BY DEF Loop!FallSilent
<1>2. LoopTyped' /\ LoopFlags'
  BY <1>1 DEF LoopInv, LoopTyped, LoopFlags
<1>3. Reading' /\ StampsApart'
  BY <1>1 DEF LoopInv, Reading, Well, StampsApart, Stamp
<1>4. WithinLimit' /\ DecidedKept'
  BY <1>1 DEF LoopInv, WithinLimit, Few, Loop!WithStatus, DecidedKept, UpToDate, Right
<1> QED BY <1>2, <1>3, <1>4 DEF LoopInv

\* Nothing that happens keeps the invariant.
LEMMA LoopSame ==
  ASSUME LoopInv, UNCHANGED Loop!loopVars PROVE LoopInv'
<1>1. UNCHANGED <<state, silent, registry, notes, round, beats, decision, raced>>
  BY DEF Loop!loopVars
<1>2. LoopTyped' /\ LoopFlags'
  BY <1>1 DEF LoopInv, LoopTyped, LoopFlags
<1>3. Reading' /\ StampsApart'
  BY <1>1 DEF LoopInv, Reading, Well, StampsApart, Stamp
<1>4. WithinLimit' /\ DecidedKept'
  BY <1>1 DEF LoopInv, WithinLimit, Few, Loop!WithStatus, DecidedKept, UpToDate, Right
<1> QED BY <1>2, <1>3, <1>4 DEF LoopInv

\* Every step of the loop memory keeps its invariant.
LEMMA LoopStep ==
  ASSUME LoopInv, Loop!Next PROVE LoopInv'
<1>1. ASSUME NEW s \in Sessions, Loop!Start(s) \/ Loop!Beat(s) \/ Loop!FallSilent(s)
      PROVE  LoopInv'
  BY <1>1, LoopStart, LoopBeat, LoopFallSilent
<1>2. ASSUME NEW k \in Procs,
             \/ Loop!Regenerate(k) \/ Loop!Build(k) \/ Loop!MarkStale(k) \/ Loop!ReadStatus(k)
             \/ Loop!WriteStatus(k) \/ Loop!Rebuild(k) \/ Loop!Enforce(k) \/ Loop!Queue(k)
             \/ Loop!WriteRegistry(k) \/ Loop!GiveUp(k)
      PROVE  LoopInv'
  <2>1. CASE Loop!Regenerate(k)
    BY <2>1, LoopRegenerate
  <2>2. CASE Loop!Build(k)
    BY <2>2, LoopBuild DEF Loop!Build, Loop!At
  <2>3. CASE Loop!MarkStale(k)
    BY <2>3, UpdateStep DEF Loop!MarkStale, Loop!At
  <2>4. CASE Loop!ReadStatus(k)
    BY <2>4, LoopReadStatus
  <2>5. CASE Loop!WriteStatus(k)
    BY <2>5, LoopWriteStatus
  <2>6. CASE Loop!Rebuild(k)
    BY <2>6, LoopBuild DEF Loop!Rebuild, Loop!At
  <2>7. CASE Loop!Enforce(k)
    BY <2>7, LoopEnforce
  <2>8. CASE Loop!Queue(k)
    BY <2>8, UpdateStep DEF Loop!Queue, Loop!At
  <2>9. CASE Loop!WriteRegistry(k) \/ Loop!GiveUp(k)
    BY <2>9, LoopEnds
  <2> QED BY <1>2, <2>1, <2>2, <2>3, <2>4, <2>5, <2>6, <2>7, <2>8, <2>9
<1> QED BY <1>1, <1>2 DEF Loop!Next

\* The invariant of the loop memory holds initially.
LEMMA LoopStarts ==
  ASSUME Loop!Init PROVE LoopInv
<1>1. /\ state = [s \in Sessions |-> Nil] /\ silent = {} /\ notes = {} /\ registry = Nil
      /\ round = [k \in Procs |-> Nil] /\ beats = 0 /\ decision = [s \in Sessions |-> Nil]
      /\ raced = FALSE
  BY DEF Loop!Init
<1>2. LoopTyped
  BY <1>1 DEF LoopTyped, Loop!Views
<1>3. Reading /\ StampsApart
  BY <1>1 DEF Reading, StampsApart, Stamp
<1>4. WithinLimit /\ DecidedKept /\ LoopFlags
  BY <1>1 DEF WithinLimit, DecidedKept, LoopFlags
<1> QED BY <1>2, <1>3, <1>4 DEF LoopInv

\* The loop memory of Shared runs as LoopMemory says.
LEMMA LoopSpec == SharedSpec => Loop!Init /\ [][Loop!Next]_(Loop!loopVars)
<1>1. SharedInit => Loop!Init
  BY DEF SharedInit
<1>2. [SharedNext]_sharedVars => [Loop!Next]_(Loop!loopVars)
  BY DEF SharedNext, sharedVars, loopVars, Loop!loopVars
<1> QED BY <1>1, <1>2, PTL DEF SharedSpec

\* The invariant of the loop memory holds always.
LEMMA LoopInvariant == SharedSpec => []LoopInv
<1>1. Loop!Init => LoopInv
  BY LoopStarts
<1>2. LoopInv /\ [Loop!Next]_(Loop!loopVars) => LoopInv'
  BY LoopStep, LoopSame
<1> QED BY <1>1, <1>2, LoopSpec, PTL

\* StatusKept, of one step.
LEMMA DecisionsStay ==
  ASSUME LoopInv, LoopInv', Loop!Next, ~raced'
  PROVE  /\ \A s \in Sessions : state'[s] # Nil /\ state'[s].status # "unset" =>
              IF decision'[s] = "completed" THEN state'[s].status = "completed"
              ELSE state'[s].status \in Loop!ActiveStatuses \union {"queued"}
         /\ \A k \in Procs : Loop!WriteRegistry(k) =>
              registry' = {s \in Loop!WithStatus(state, Loop!ActiveStatuses) :
                             round[k].files[s] # Nil}
<1>1. \A s \in Sessions : state'[s] # Nil => Right(state'[s], decision'[s])
  BY DEF LoopInv, DecidedKept
<1>2. ASSUME NEW k \in Procs, Loop!WriteRegistry(k)
      PROVE  registry' = {s \in Loop!WithStatus(state, Loop!ActiveStatuses) :
                            round[k].files[s] # Nil}
  <2>1. /\ round[k] # Nil /\ round[k].at = "queue" /\ raced' = raced
        /\ registry' = Loop!WithStatus(round[k].files, Loop!ActiveStatuses)
    BY <1>2 DEF Loop!WriteRegistry, Loop!At
  <2>2. \A s \in Sessions : round[k].files[s] # Nil =>
          state[s] # Nil /\ round[k].files[s].status = state[s].status
    BY <2>1 DEF LoopInv, Reading, Well, DecidedKept, UpToDate, Reads
  <2> QED BY <2>1, <2>2 DEF Loop!WithStatus
<1> QED BY <1>1, <1>2 DEF Right

\* StatusKept (regenerate of loop_memory_registry.py): while no regenerates overlap, a
\* session has the status that was decided for it, and the registry that is written is,
\* of the sessions whose files could be read, those active then, for any sessions, keepers
\* and limits.
THEOREM StatusStays == SharedSpec => StatusKept
<1>1. LoopInv /\ LoopInv' /\ [Loop!Next]_(Loop!loopVars) =>
        [~raced' =>
          /\ \A s \in Sessions : state'[s] # Nil /\ state'[s].status # "unset" =>
              IF decision'[s] = "completed" THEN state'[s].status = "completed"
              ELSE state'[s].status \in Loop!ActiveStatuses \union {"queued"}
          /\ \A k \in Procs : Loop!WriteRegistry(k) =>
              registry' = {s \in Loop!WithStatus(state, Loop!ActiveStatuses) :
                             round[k].files[s] # Nil}]_(Loop!loopVars)
  BY DecisionsStay
<1> QED BY <1>1, LoopInvariant, LoopSpec, PTL DEF StatusKept, Loop!StatusKept

-----------------------------------------------------------------------------
(* The plan command line.                                                  *)

\* The theorems about PlanFSM, for the plan in the state file.
Plans == INSTANCE PlanFSMProofs WITH plan <- planFile.plan, evidence <- {}

\* A plan within its limits, of no phase that next_action passes through.
Within(s) ==
  /\ s.revision_round <= MaxRevisionRounds
  /\ s.qc_round <= MaxQcRounds
  /\ s.enhance_round <= MaxEnhanceRounds
  /\ s.approval_round <= MaxApprovalRounds
  /\ s.approval_round = MaxApprovalRounds => s.state = "ESCALATE"
  /\ s.state # "CLASSIFY"

\* A plan t that is further on than s.
Further(s, t) ==
  \/ Cli!FSM!Rounds(t) > Cli!FSM!Rounds(s)
  \/ /\ Cli!FSM!Rounds(t) = Cli!FSM!Rounds(s)
     /\ Cli!FSM!Position[t.state] > Cli!FSM!Position[s.state]

\* Types of the state file, the commands under way and the history.
CliTyped ==
  /\ Cli!Readable => planFile \in Cli!StateFiles /\ Within(planFile.plan) /\ planFile.of <= inits
  /\ command \in [Procs -> Cli!Commands \union {Nil}]
  /\ \A p \in Procs : command[p] # Nil =>
       /\ Within(command[p].state.plan) /\ command[p].state.of <= inits
       /\ command[p].step # "step" => command[p].state.plan = Cli!FSM!InitialState
  /\ inits \in 0..MaxInits

\* While no two commands overlap, one has the file as it is, or is about to replace it.
Alone == ~overlapped =>
  /\ \A p, q \in Procs : command[p] # Nil /\ command[q] # Nil => p = q
  /\ \A p \in Procs : command[p] # Nil =>
       IF command[p].step = "create"
       THEN command[p].state.of = inits /\ (Cli!Readable => planFile.of < inits)
       ELSE command[p].state = planFile

\* A plan that is not classified has its --init under way.
Classifying ==
  ~overlapped /\ ~interrupted /\ Cli!Readable /\ planFile.plan.state = "INIT" =>
    \E p \in Procs : command[p] # Nil /\ command[p].step = "classify"

\* No file is cut off but by an interrupted save.
PlanWhole == ~interrupted => planFile # Torn

\* The flags of the history are such.
CliFlags == overlapped \in BOOLEAN /\ interrupted \in BOOLEAN

\* The inductive invariant of the command line.
CliInv == CliTyped /\ Alone /\ Classifying /\ PlanWhole /\ CliFlags

-----------------------------------------------------------------------------

\* The limits of a plan are numbers.
LEMMA PlanLimits ==
  /\ MaxRevisionRounds \in Nat \ {0} /\ MaxQcRounds \in Nat \ {0} /\ MaxEnhanceRounds \in Nat \ {0}
  /\ MaxApprovalRounds \in Nat \ {0} /\ MaxBlocking \in Nat \ {0} /\ MaxInits \in Nat
  BY RoundsAssumption, BoundsAssumption

\* They are as PlanFSMProofs assumes them.
LEMMA PlanLimitsHold == Plans!LimitsAssumption
  BY PlanLimits DEF Plans!LimitsAssumption

\* The plan of a command line is that of PlanFSMProofs.
LEMMA PlanNames ==
  /\ Cli!FSM!PlanState = Plans!PlanState /\ Cli!FSM!Decisions = Plans!Decisions
  /\ Cli!FSM!Tiers = Plans!Tiers
  /\ \A s, a : Cli!FSM!Goto(s, a) = Plans!Goto(s, a)
  /\ \A s, n : Cli!FSM!HandleReview(s, n) = Plans!HandleReview(s, n)
  /\ \A s, d : Cli!FSM!HandleSddApproval(s, d) = Plans!HandleSddApproval(s, d)
  /\ \A s : Cli!FSM!HandlePlan(s) = Plans!HandlePlan(s)
  /\ \A s, ok : Cli!FSM!HandleQc(s, ok) = Plans!HandleQc(s, ok)
  /\ \A s, b : Cli!FSM!HandlePlanEnhance(s, b) = Plans!HandlePlanEnhance(s, b)
  /\ \A s, d, t : Cli!FSM!HandlePlanApproval(s, d, t) = Plans!HandlePlanApproval(s, d, t)
  /\ \A s, tier : Cli!FSM!HandleInit(s, tier) = Plans!HandleInit(s, tier)
<1>1. Cli!FSM!PlanState = Plans!PlanState /\ Cli!FSM!Decisions = Plans!Decisions
          /\ Cli!FSM!Tiers = Plans!Tiers
  BY DEF Cli!FSM!PlanState, Plans!PlanState, Cli!FSM!Decisions, Plans!Decisions, Cli!FSM!Tiers,
     Plans!Tiers, Cli!FSM!Phases, Plans!Phases, Cli!FSM!Reasons, Plans!Reasons
<1>2. \A s, a : Cli!FSM!Goto(s, a) = Plans!Goto(s, a)
  BY DEF Cli!FSM!Goto, Plans!Goto
<1>3. \A s, n : Cli!FSM!HandleReview(s, n) = Plans!HandleReview(s, n)
  BY DEF Cli!FSM!HandleReview, Plans!HandleReview, Cli!FSM!StartRevision, Plans!StartRevision,
     Cli!FSM!Escalate, Plans!Escalate
<1>4. \A s, d : Cli!FSM!HandleSddApproval(s, d) = Plans!HandleSddApproval(s, d)
  BY DEF Cli!FSM!HandleSddApproval, Plans!HandleSddApproval, Cli!FSM!Reject, Plans!Reject,
     Cli!FSM!RequestChanges, Plans!RequestChanges, Cli!FSM!Escalate, Plans!Escalate,
     Cli!FSM!Goto, Plans!Goto
<1>5. \A s : Cli!FSM!HandlePlan(s) = Plans!HandlePlan(s)
  BY DEF Cli!FSM!HandlePlan, Plans!HandlePlan, Cli!FSM!AtLeastOne, Plans!AtLeastOne
<1>6. \A s, ok : Cli!FSM!HandleQc(s, ok) = Plans!HandleQc(s, ok)
  BY DEF Cli!FSM!HandleQc, Plans!HandleQc, Cli!FSM!Escalate, Plans!Escalate,
     Cli!FSM!AtLeastOne, Plans!AtLeastOne
<1>7. \A s, b : Cli!FSM!HandlePlanEnhance(s, b) = Plans!HandlePlanEnhance(s, b)
  BY DEF Cli!FSM!HandlePlanEnhance, Plans!HandlePlanEnhance, Cli!FSM!Escalate, Plans!Escalate,
     Cli!FSM!Goto, Plans!Goto
<1>8. \A s, d, t : Cli!FSM!HandlePlanApproval(s, d, t) = Plans!HandlePlanApproval(s, d, t)
  BY DEF Cli!FSM!HandlePlanApproval, Plans!HandlePlanApproval, Cli!FSM!Reject, Plans!Reject,
     Cli!FSM!RequestChanges, Plans!RequestChanges, Cli!FSM!Escalate, Plans!Escalate,
     Cli!FSM!Goto, Plans!Goto
<1>9. \A s, tier : Cli!FSM!HandleInit(s, tier) = Plans!HandleInit(s, tier)
  BY DEF Cli!FSM!HandleInit, Plans!HandleInit
<1> QED BY <1>1, <1>2, <1>3, <1>4, <1>5, <1>6, <1>7, <1>8, <1>9

\* The fields of a plan that the limits are about.
LEMMA PlanFields ==
  ASSUME NEW s \in Plans!PlanState
  PROVE  /\ s.revision_round \in Nat /\ s.qc_round \in Nat /\ s.enhance_round \in Nat
         /\ s.approval_round \in Nat /\ s.state \in Plans!Phases
         /\ \A a : LET t == Plans!Goto(s, a) IN
              /\ t.state = a /\ t.revision_round = s.revision_round /\ t.qc_round = s.qc_round
              /\ t.enhance_round = s.enhance_round /\ t.approval_round = s.approval_round
  BY DEF Plans!PlanState, Plans!Goto

\* What PlanFSMProofs proves of the handlers.
LEMMA Handlers ==
  ASSUME NEW s \in Plans!PlanState
  PROVE  /\ \A phase \in Plans!Phases : Plans!Goto(s, phase) \in Plans!PlanState
         /\ \A n \in Nat : Plans!HandleReview(s, n) \in Plans!PlanState
         /\ \A d \in Plans!Decisions : Plans!HandleSddApproval(s, d) \in Plans!PlanState
         /\ Plans!HandlePlan(s) \in Plans!PlanState
         /\ \A ok \in BOOLEAN : Plans!HandleQc(s, ok) \in Plans!PlanState
         /\ \A b \in BOOLEAN : Plans!HandlePlanEnhance(s, b) \in Plans!PlanState
         /\ \A d \in Plans!Decisions, t \in {"sdd", "plan"} :
              Plans!HandlePlanApproval(s, d, t) \in Plans!PlanState
         /\ \A tier \in Plans!Tiers : Plans!HandleInit(s, tier) \in Plans!PlanState
  BY PlanLimitsHold, Plans!HandlersTyped

\* Each result that process_step accepts leaves a plan within the limits, and further on.
LEMMA AcceptedFurther ==
  ASSUME NEW s \in Cli!FSM!PlanState, Within(s), NEW t \in Cli!Accepted(s)
  PROVE  t \in Cli!FSM!PlanState /\ Within(t) /\ Further(s, t) /\ t.state # "INIT"
<1> USE PlanLimits DEF Within, Further, Cli!FSM!Rounds, Cli!FSM!Position
<1>0. /\ s \in Plans!PlanState /\ Cli!FSM!PlanState = Plans!PlanState
      /\ {"ANALYZE", "DESIGN", "REVIEW", "QC", "DONE"} \subseteq Plans!Phases
  BY PlanNames DEF Plans!Phases
<1>1. /\ s.revision_round \in Nat /\ s.qc_round \in Nat /\ s.enhance_round \in Nat
      /\ s.approval_round \in Nat /\ s.state \in Plans!Phases
  BY <1>0, PlanFields
<1>2. ASSUME NEW a \in {"ANALYZE", "DESIGN", "REVIEW", "QC", "DONE"}, t = Cli!FSM!Goto(s, a),
             Cli!FSM!Position[a] > Cli!FSM!Position[s.state], s.state # "ESCALATE"
      PROVE  t \in Cli!FSM!PlanState /\ Within(t) /\ Further(s, t) /\ t.state # "INIT"
  <2>1. t = Plans!Goto(s, a)
    BY <1>2, PlanNames
  <2>2. t \in Plans!PlanState
    BY <1>0, <2>1, Handlers
  <2>3. /\ t.state = a /\ t.revision_round = s.revision_round /\ t.qc_round = s.qc_round
        /\ t.enhance_round = s.enhance_round /\ t.approval_round = s.approval_round
    BY <1>0, <2>1, PlanFields
  <2> QED BY <1>0, <1>1, <1>2, <2>2, <2>3
<1>3. CASE s.state \in {"BRAINSTORM", "ANALYZE", "DESIGN", "REVISION", "GAP_SCAN", "WRITE_STATE"}
  <2>1. \/ s.state = "BRAINSTORM" /\ t = Cli!FSM!Goto(s, "ANALYZE")
        \/ s.state = "ANALYZE" /\ t = Cli!FSM!Goto(s, "DESIGN")
        \/ s.state \in {"DESIGN", "REVISION"} /\ t = Cli!FSM!Goto(s, "REVIEW")
        \/ s.state = "GAP_SCAN" /\ t = Cli!FSM!Goto(s, "QC")
        \/ s.state = "WRITE_STATE" /\ t = Cli!FSM!Goto(s, "DONE")
    BY <1>3 DEF Cli!Accepted
  <2> QED BY <1>2, <2>1
<1>4. CASE s.state = "REVIEW"
  <2>1. PICK n \in 0..MaxBlocking : t = Plans!HandleReview(s, n)
    BY <1>4, PlanNames DEF Cli!Accepted
  <2>2. n \in Nat
    OBVIOUS
  <2>3. t \in Plans!PlanState
    BY <1>0, <2>1, <2>2, Handlers
  <2>4. /\ t.qc_round = s.qc_round /\ t.enhance_round = s.enhance_round
        /\ t.approval_round = s.approval_round
        /\ \/ /\ t.state = "REVISION" /\ s.revision_round < MaxRevisionRounds
              /\ t.revision_round = s.revision_round + 1
           \/ t.state \in {"ESCALATE", "SDD_APPROVAL"} /\ t.revision_round = s.revision_round
    BY <1>0, <2>1, <2>2, PlanLimitsHold, Plans!ReviewLeads
  <2> QED BY <1>0, <1>1, <1>4, <2>3, <2>4
<1>5. CASE s.state = "SDD_APPROVAL"
  <2>1. PICK d \in Plans!Decisions : t = Plans!HandleSddApproval(s, d)
    BY <1>5, PlanNames DEF Cli!Accepted
  <2>2. t \in Plans!PlanState
    BY <1>0, <2>1, Handlers
  <2>3. /\ t.qc_round = s.qc_round /\ t.enhance_round = s.enhance_round
        /\ t.revision_round = s.revision_round
        /\ \/ t.state \in {"PLAN", "REJECTED"} /\ t.approval_round = s.approval_round
           \/ /\ t.approval_round = s.approval_round + 1
              /\ \/ t.state = "ESCALATE"
                 \/ t.state = "DESIGN" /\ t.approval_round < MaxApprovalRounds
    BY <1>0, <2>1, PlanLimitsHold, Plans!SddApprovalLeads
  <2> QED BY <1>0, <1>1, <1>5, <2>2, <2>3
<1>6. CASE s.state = "PLAN"
  <2>1. t = Plans!HandlePlan(s)
    BY <1>6, PlanNames DEF Cli!Accepted
  <2>2. t \in Plans!PlanState
    BY <1>0, <2>1, Handlers
  <2>3. /\ t.state = "GAP_SCAN" /\ t.enhance_round = s.enhance_round
        /\ t.revision_round = s.revision_round /\ t.approval_round = s.approval_round
        /\ t.qc_round = IF s.qc_round >= 1 THEN s.qc_round ELSE 1
    BY <1>0, <2>1 DEF Plans!HandlePlan, Plans!AtLeastOne, Plans!PlanState
  <2> QED BY <1>0, <1>1, <1>6, <2>2, <2>3
<1>7. CASE s.state = "QC"
  <2>1. PICK ok \in BOOLEAN : t = Plans!HandleQc(s, ok)
    BY <1>7, PlanNames DEF Cli!Accepted
  <2>2. t \in Plans!PlanState
    BY <1>0, <2>1, Handlers
  <2>3. /\ t.revision_round = s.revision_round /\ t.approval_round = s.approval_round
        /\ \/ /\ t.state = "PLAN_ENHANCE" /\ t.qc_round = s.qc_round
              /\ t.enhance_round = IF s.enhance_round >= 1 THEN s.enhance_round ELSE 1
           \/ /\ t.state = "PLAN" /\ s.qc_round < MaxQcRounds
              /\ t.qc_round = s.qc_round + 1 /\ t.enhance_round = s.enhance_round
           \/ /\ t.state = "ESCALATE" /\ t.qc_round = s.qc_round
              /\ t.enhance_round = s.enhance_round
    BY <1>0, <2>1, PlanLimitsHold, Plans!QcLeads DEF Plans!AtLeastOne
  <2> QED BY <1>0, <1>1, <1>7, <2>2, <2>3
<1>8. CASE s.state = "PLAN_ENHANCE"
  <2>1. PICK b \in BOOLEAN : t = Plans!HandlePlanEnhance(s, b)
    BY <1>8, PlanNames DEF Cli!Accepted
  <2>2. t \in Plans!PlanState
    BY <1>0, <2>1, Handlers
  <2>3. /\ t.revision_round = s.revision_round /\ t.approval_round = s.approval_round
        /\ t.qc_round = s.qc_round
        /\ \/ /\ t.state = "PLAN" /\ s.enhance_round < MaxEnhanceRounds
              /\ t.enhance_round = s.enhance_round + 1
           \/ t.state \in {"ESCALATE", "PLAN_APPROVAL"} /\ t.enhance_round = s.enhance_round
    BY <1>0, <2>1, PlanLimitsHold, Plans!EnhanceLeads
  <2> QED BY <1>0, <1>1, <1>8, <2>2, <2>3
<1>9. CASE s.state = "PLAN_APPROVAL"
  <2>1. PICK d \in Plans!Decisions, w \in {"sdd", "plan"} : t = Plans!HandlePlanApproval(s, d, w)
    BY <1>9, PlanNames DEF Cli!Accepted
  <2>2. t \in Plans!PlanState
    BY <1>0, <2>1, Handlers
  <2>3. /\ t.qc_round = s.qc_round /\ t.enhance_round = s.enhance_round
        /\ t.revision_round = s.revision_round
        /\ \/ t.state \in {"WRITE_STATE", "REJECTED"} /\ t.approval_round = s.approval_round
           \/ /\ t.approval_round = s.approval_round + 1
              /\ \/ t.state = "ESCALATE"
                 \/ t.state \in {"DESIGN", "PLAN"} /\ t.approval_round < MaxApprovalRounds
    BY <1>0, <2>1, PlanLimitsHold, Plans!PlanApprovalLeads
  <2> QED BY <1>0, <1>1, <1>9, <2>2, <2>3
<1>10. s.state \in {"BRAINSTORM", "ANALYZE", "DESIGN", "REVISION", "GAP_SCAN", "WRITE_STATE",
           "REVIEW",
                    "SDD_APPROVAL", "PLAN", "QC", "PLAN_ENHANCE", "PLAN_APPROVAL"}
  BY DEF Cli!Accepted
<1> QED BY <1>3, <1>4, <1>5, <1>6, <1>7, <1>8, <1>9, <1>10

\* next_action on a new plan.
LEMMA InitFurther ==
  ASSUME NEW tier \in Cli!FSM!Tiers
  PROVE  LET s == Cli!FSM!InitialState
             t == Cli!FSM!HandleInit(s, tier)
         IN /\ s \in Cli!FSM!PlanState /\ Within(s)
            /\ t \in Cli!FSM!PlanState /\ Within(t) /\ Further(s, t) /\ t.state # "INIT"
<1> DEFINE s == Cli!FSM!InitialState
           t == Cli!FSM!HandleInit(s, tier)
<1>1. s \in Cli!FSM!PlanState
  BY DEF Cli!FSM!InitialState, Cli!FSM!PlanState, Cli!FSM!Phases, Cli!FSM!Tiers, Cli!FSM!Reasons
<1>2. Within(s)
  BY PlanLimits DEF Cli!FSM!InitialState, Within
<1>3. t \in Cli!FSM!PlanState
  BY <1>1, PlanNames, Handlers
<1>4. /\ t.revision_round = 0 /\ t.qc_round = 0 /\ t.enhance_round = 0 /\ t.approval_round = 0
      /\ t.state \in {"DONE", "BRAINSTORM"}
  BY DEF Cli!FSM!InitialState, Cli!FSM!HandleInit
<1>5. /\ s.revision_round = 0 /\ s.qc_round = 0 /\ s.enhance_round = 0 /\ s.approval_round = 0
      /\ s.state = "INIT"
  BY DEF Cli!FSM!InitialState
<1>6. Within(t) /\ Further(s, t) /\ t.state # "INIT"
  BY <1>4, <1>5, PlanLimits DEF Within, Further, Cli!FSM!Rounds, Cli!FSM!Position
<1> QED BY <1>1, <1>2, <1>3, <1>6

\* Every other plan has ended or has a result that is accepted.
LEMMA StepHelps ==
  ASSUME NEW s \in Cli!FSM!PlanState, Within(s), s.state # "INIT"
  PROVE  s.state \in Cli!FSM!Terminal \/ Cli!Accepted(s) # {}
<1>1. s.state \in Cli!FSM!Phases
  BY DEF Cli!FSM!PlanState
<1>2. /\ 0 \in 0..MaxBlocking /\ "approved" \in Cli!FSM!Decisions /\ TRUE \in BOOLEAN
      /\ "sdd" \in {"sdd", "plan"}
  BY PlanLimits DEF Cli!FSM!Decisions
<1>3. CASE s.state \in {"BRAINSTORM", "ANALYZE", "DESIGN", "REVISION", "GAP_SCAN", "WRITE_STATE",
               "PLAN"}
  BY <1>3 DEF Cli!Accepted
<1>4. CASE s.state = "REVIEW"
  <2>1. Cli!FSM!HandleReview(s, 0) \in Cli!Accepted(s)
    BY <1>2, <1>4 DEF Cli!Accepted
  <2> QED BY <2>1
<1>5. CASE s.state = "SDD_APPROVAL"
  <2>1. Cli!FSM!HandleSddApproval(s, "approved") \in Cli!Accepted(s)
    BY <1>2, <1>5 DEF Cli!Accepted
  <2> QED BY <2>1
<1>6. CASE s.state = "QC"
  <2>1. Cli!Accepted(s) = {Cli!FSM!HandleQc(s, ok) : ok \in BOOLEAN}
    BY <1>6 DEF Cli!Accepted
  <2>2. Cli!FSM!HandleQc(s, TRUE) \in {Cli!FSM!HandleQc(s, ok) : ok \in BOOLEAN}
    BY Zenon
  <2> QED BY <2>1, <2>2
<1>7. CASE s.state = "PLAN_ENHANCE"
  <2>1. Cli!Accepted(s) = {Cli!FSM!HandlePlanEnhance(s, b) : b \in BOOLEAN}
    BY <1>7 DEF Cli!Accepted
  <2>2. Cli!FSM!HandlePlanEnhance(s, TRUE) \in {Cli!FSM!HandlePlanEnhance(s, b) : b \in BOOLEAN}
    BY Zenon
  <2> QED BY <2>1, <2>2
<1>8. CASE s.state = "PLAN_APPROVAL"
  <2>1. Cli!FSM!HandlePlanApproval(s, "approved", "sdd") \in Cli!Accepted(s)
    BY <1>2, <1>8 DEF Cli!Accepted
  <2> QED BY <2>1
<1> QED BY <1>1, <1>3, <1>4, <1>5, <1>6, <1>7, <1>8 DEF Within, Cli!FSM!Phases, Cli!FSM!Terminal
-----------------------------------------------------------------------------

\* What a command has, field by field.
LEMMA CommandFields ==
  /\ \A c \in Cli!Commands : c.step \in {"create", "classify", "step"} /\ c.state \in Cli!StateFiles
  /\ \A f \in Cli!StateFiles : f.plan \in Cli!FSM!PlanState /\ f.of \in 1..MaxInits
  /\ \A f \in Cli!StateFiles : \A s \in Cli!FSM!PlanState :
       LET g == [f EXCEPT !.plan = s] IN g \in Cli!StateFiles /\ g.plan = s /\ g.of = f.of
  /\ \A f \in Cli!StateFiles : [f EXCEPT !.plan = f.plan] = f
  /\ \A a \in {"create", "classify", "step"} : \A f \in Cli!StateFiles :
       LET c == [step |-> a, state |-> f] IN c \in Cli!Commands /\ c.step = a /\ c.state = f
  /\ Nil \notin Cli!Commands
<1>1. Nil \notin Cli!Commands
  BY ValuesAssumption
<1> QED BY <1>1 DEF Cli!Commands, Cli!StateFiles

\* A call that begins.
LEMMA CallStarts ==
  ASSUME CliInv, NEW p \in Procs, NEW a \in {"create", "step"}, NEW f \in Cli!StateFiles,
         Within(f.plan), f.of <= inits', a = "create" => f.plan = Cli!FSM!InitialState,
         Cli!Call(p, a, f), inits' \in 0..MaxInits, inits <= inits', UNCHANGED <<planFile,
             interrupted>>,
         a = "create" => f.of = inits' /\ inits' > inits,
         a = "step" => f = planFile
  PROVE  CliInv'
<1> DEFINE c == [step |-> a, state |-> f]
<1>0. CliTyped /\ Alone /\ Classifying /\ PlanWhole /\ CliFlags /\ inits \in Nat
  BY DEF CliInv, CliTyped
<1>1. c \in Cli!Commands /\ c # Nil /\ c.step = a /\ c.state = f
  BY CommandFields
<1>2. command' = [command EXCEPT ![p] = c] /\ command[p] = Nil
  BY DEF Cli!Call
<1> HIDE DEF c
<1>3. /\ command' \in [Procs -> Cli!Commands \union {Nil}] /\ command'[p] = c
      /\ \A q \in Procs \ {p} : command'[q] = command[q]
  BY <1>0, <1>1, <1>2 DEF CliTyped
<1>4. overlapped' = (overlapped \/ \E q \in Procs : command[q] # Nil)
  BY DEF Cli!Call
<1>5. CliFlags' /\ PlanWhole'
  <2>1. CliFlags'
    BY <1>0, <1>4, Zenon DEF CliFlags
  <2>2. PlanWhole'
    BY <1>0 DEF PlanWhole
  <2> QED BY <2>1, <2>2
<1>6. CliTyped'
  <2>1. inits' \in Nat
    BY PlanLimits
  <2>2. Cli!Readable' <=> Cli!Readable
    BY DEF Cli!Readable
  <2>3. Cli!Readable' => planFile' \in Cli!StateFiles /\ Within(planFile.plan)'
            /\ planFile'.of <= inits'
    <3>1. Cli!Readable => planFile \in Cli!StateFiles /\ planFile.of \in Nat
      BY <1>0, CommandFields DEF CliTyped
    <3> QED BY <1>0, <2>1, <2>2, <3>1 DEF CliTyped, Within
  <2>4. \A q \in Procs : command'[q] # Nil =>
       /\ Within(command'[q].state.plan) /\ command'[q].state.of <= inits'
       /\ command'[q].step # "step" => command'[q].state.plan = Cli!FSM!InitialState
    <3>1. \A q \in Procs : command[q] # Nil => command[q].state.of \in Nat
      BY <1>0, CommandFields DEF CliTyped
    <3> QED BY <1>0, <1>1, <1>3, <2>1, <3>1 DEF CliTyped
  <2> QED BY <1>3, <2>3, <2>4 DEF CliTyped, Within
<1>7. ASSUME ~overlapped' PROVE ~overlapped /\ \A q \in Procs : command[q] = Nil
  BY <1>4, <1>7
<1>8. Alone'
  <2> SUFFICES ASSUME ~overlapped' PROVE Alone'
    BY DEF Alone
  <2>1. \A q \in Procs : command'[q] # Nil => q = p
    BY <1>3, <1>7
  <2>2. IF command'[p].step = "create"
        THEN command'[p].state.of = inits' /\ (Cli!Readable' => planFile'.of < inits')
        ELSE command'[p].state = planFile'
    <3>1. Cli!Readable => planFile.of \in Nat /\ planFile.of <= inits
      BY <1>0, CommandFields DEF CliTyped
    <3> QED BY <1>0, <1>1, <1>3, <3>1 DEF Cli!Readable
  <2> QED BY <2>1, <2>2 DEF Alone
<1>9. Classifying'
  BY <1>0, <1>7 DEF Classifying, Cli!Readable
<1> QED BY <1>5, <1>6, <1>8, <1>9 DEF CliInv

\* A call that saves f, and ends or goes on to be classified.
LEMMA CallSaves ==
  ASSUME CliInv, NEW p \in Procs, command[p] # Nil,
         NEW c \in Cli!Commands \union {Nil}, command' = [command EXCEPT ![p] = c],
         c # Nil => /\ c.step = "classify" /\ c.state = command[p].state
                    /\ command[p].step = "create" /\ c.state = planFile',
         planFile' \notin {Nil, Torn} =>
           /\ planFile' \in Cli!StateFiles /\ Within(planFile'.plan) /\ planFile'.of <= inits
           /\ ~overlapped /\ ~interrupted' /\ planFile'.plan.state = "INIT" => c # Nil,
         ~interrupted' => ~interrupted /\ planFile' # Torn,
         interrupted' \in BOOLEAN, UNCHANGED <<inits, overlapped>>
  PROVE  CliInv'
<1>0. CliTyped /\ Alone /\ Classifying /\ CliFlags /\ inits \in Nat
  BY DEF CliInv, CliTyped
<1>1. /\ command' \in [Procs -> Cli!Commands \union {Nil}] /\ command'[p] = c
      /\ \A q \in Procs \ {p} : command'[q] = command[q]
  BY <1>0 DEF CliTyped
<1>2. CliTyped'
  BY <1>0, <1>1 DEF CliTyped, Cli!Readable, Within
<1>3. Alone'
  <2> SUFFICES ASSUME ~overlapped PROVE Alone'
    BY DEF Alone
  <2>1. \A q \in Procs : command'[q] # Nil => q = p
    BY <1>0, <1>1 DEF Alone
  <2>2. c # Nil => c.step # "create" /\ c.state = planFile'
    OBVIOUS
  <2> QED BY <1>1, <2>1, <2>2 DEF Alone
<1>4. Classifying'
  BY <1>1 DEF Classifying, Cli!Readable
<1>5. PlanWhole' /\ CliFlags'
  BY <1>0 DEF PlanWhole, CliFlags
<1> QED BY <1>2, <1>3, <1>4, <1>5 DEF CliInv

\* What happens to the plan in the file while no two commands overlap.
Moves ==
  Cli!Readable /\ Cli!Readable' /\ ~overlapped' =>
    planFile' = planFile \/ planFile'.of # planFile.of \/ Further(planFile.plan, planFile'.plan)

\* A command that begins keeps the invariant, and the plan.
LEMMA CallsStart ==
  ASSUME CliInv, NEW p \in Procs, Cli!CmdInit(p) \/ Cli!CmdStep(p)
  PROVE  CliInv' /\ Moves
<1>0. inits \in 0..MaxInits /\ MaxInits \in Nat
  BY PlanLimits DEF CliInv, CliTyped
<1>1. CASE Cli!CmdInit(p)
  <2> DEFINE f == [plan |-> Cli!FSM!InitialState, of |-> inits + 1]
  <2>1. /\ inits < MaxInits /\ inits' = inits + 1 /\ Cli!Call(p, "create", f)
        /\ UNCHANGED <<planFile, interrupted>>
    BY <1>1 DEF Cli!CmdInit
  <2>2. inits' \in 0..MaxInits /\ inits <= inits' /\ inits' > inits /\ inits + 1 \in 1..MaxInits
    BY <1>0, <2>1
  <2>3. Cli!FSM!InitialState \in Cli!FSM!PlanState /\ Within(Cli!FSM!InitialState)
    BY InitFurther DEF Cli!FSM!Tiers
  <2>4. /\ f \in Cli!StateFiles /\ f.plan = Cli!FSM!InitialState /\ f.of = inits'
        /\ Within(f.plan)
    BY <2>1, <2>2, <2>3 DEF Cli!StateFiles
  <2> HIDE DEF f
  <2>5. CliInv'
    BY <2>1, <2>2, <2>4, CallStarts
  <2> QED BY <2>1, <2>5 DEF Moves
<1>2. CASE Cli!CmdStep(p)
  <2>1. /\ Cli!Readable /\ Cli!Call(p, "step", planFile) /\ UNCHANGED <<planFile, inits,
             interrupted>>
    BY <1>2 DEF Cli!CmdStep
  <2>2. planFile \in Cli!StateFiles /\ Within(planFile.plan) /\ planFile.of <= inits'
    BY <2>1 DEF CliInv, CliTyped
  <2>3. inits' \in 0..MaxInits /\ inits <= inits'
    BY <1>0, <2>1
  <2>4. CliInv'
    BY <2>1, <2>2, <2>3, CallStarts
  <2> QED BY <2>1, <2>4 DEF Moves
<1> QED BY <1>1, <1>2

\* The initial plan replaces one of an earlier --init.
LEMMA InitSaves ==
  ASSUME CliInv, NEW p \in Procs, Cli!SaveInitial(p)
  PROVE  CliInv' /\ Moves
<1> DEFINE c == [command[p] EXCEPT !.step = "classify"]
           f == command[p].state
<1>0. CliTyped /\ Alone
  BY DEF CliInv
<1>1. /\ command[p] # Nil /\ command[p].step = "create" /\ planFile' = f
      /\ command' = [command EXCEPT ![p] = c] /\ UNCHANGED <<inits, overlapped, interrupted>>
  BY <1>0 DEF Cli!SaveInitial, Cli!In, CliTyped
<1>2. command[p] \in Cli!Commands /\ Within(f.plan) /\ f.plan = Cli!FSM!InitialState
  BY <1>0, <1>1 DEF CliTyped
<1>3. c \in Cli!Commands /\ c.step = "classify" /\ c.state = f /\ c # Nil
  <2>1. c \in Cli!Commands /\ c.step = "classify" /\ c.state = f
    BY <1>2 DEF Cli!Commands
  <2> QED BY <2>1, CommandFields
<1>4. f \in Cli!StateFiles /\ f.of \in 1..MaxInits
  BY <1>2, CommandFields
<1> HIDE DEF c
<1>5. f.of <= inits
  BY <1>0, <1>1 DEF CliTyped
<1>6. interrupted' \in BOOLEAN
  BY <1>1 DEF CliInv, CliFlags
<1>7. CliInv'
  <2>1. planFile' # Torn
    BY <1>1, <1>4, ValuesAssumption
  <2> QED BY <1>1, <1>2, <1>3, <1>4, <1>5, <1>6, <2>1, CallSaves
<1>8. Moves
  <2> SUFFICES ASSUME Cli!Readable, ~overlapped PROVE planFile'.of # planFile.of
    BY <1>1 DEF Moves
  <2>1. planFile.of < inits /\ f.of = inits /\ planFile.of \in Nat /\ inits \in Nat
    BY <1>0, <1>1, CommandFields, PlanLimits DEF Alone, CliTyped
  <2> QED BY <2>1, <1>1
<1> QED BY <1>7, <1>8

\* Classifying takes the plan a phase on.
LEMMA ClassifiedSaves ==
  ASSUME CliInv, NEW p \in Procs, Cli!SaveClassified(p)
  PROVE  CliInv' /\ Moves
<1> DEFINE f == command[p].state
<1>0. CliTyped /\ Alone
  BY DEF CliInv
<1>1. /\ command[p] # Nil /\ command[p].step = "classify"
      /\ command' = [command EXCEPT ![p] = Nil] /\ UNCHANGED <<inits, overlapped, interrupted>>
  BY DEF Cli!SaveClassified, Cli!In
<1>2. /\ command[p] \in Cli!Commands /\ f.plan = Cli!FSM!InitialState /\ f \in Cli!StateFiles
      /\ f.of <= inits
  BY <1>0, <1>1, CommandFields DEF CliTyped
<1>3. PICK tier \in Cli!FSM!Tiers : planFile' = [f EXCEPT !.plan = Cli!FSM!HandleInit(f.plan, tier)]
  BY DEF Cli!SaveClassified
<1> DEFINE t == Cli!FSM!HandleInit(f.plan, tier)
<1>4. t \in Cli!FSM!PlanState /\ Within(t) /\ Further(f.plan, t) /\ t.state # "INIT"
  BY <1>2, InitFurther
<1> HIDE DEF t
<1>5. planFile' \in Cli!StateFiles /\ planFile'.plan = t /\ planFile'.of = f.of
  BY <1>2, <1>3, <1>4, CommandFields DEF t
<1>6. interrupted' \in BOOLEAN
  BY <1>1 DEF CliInv, CliFlags
<1>7. CliInv'
  <2>1. planFile' # Torn
    BY <1>5, ValuesAssumption
  <2> QED BY <1>1, <1>2, <1>4, <1>5, <1>6, <2>1, CallSaves
<1>8. Moves
  <2>1. ~overlapped => planFile = f
    BY <1>0, <1>1 DEF Alone
  <2> QED BY <1>1, <1>4, <1>5, <2>1 DEF Moves
<1> QED BY <1>7, <1>8

\* A step saves a plan that is further on.
LEMMA StepSaves ==
  ASSUME CliInv, NEW p \in Procs, Cli!SaveStep(p)
  PROVE  CliInv' /\ Moves
<1> DEFINE f == command[p].state
<1>0. CliTyped /\ Alone /\ Classifying
  BY DEF CliInv
<1>1. /\ command[p] # Nil /\ command[p].step = "step" /\ planFile' \in Cli!Processed(f)
      /\ command' = [command EXCEPT ![p] = Nil] /\ UNCHANGED <<inits, overlapped, interrupted>>
  BY DEF Cli!SaveStep, Cli!In
<1>2. /\ command[p] \in Cli!Commands /\ f \in Cli!StateFiles /\ Within(f.plan) /\ f.of <= inits
      /\ f.plan \in Cli!FSM!PlanState
  BY <1>0, <1>1, CommandFields DEF CliTyped
<1>3. PICK t \in Cli!Accepted(f.plan) \union {f.plan} : planFile' = [f EXCEPT !.plan = t]
  BY <1>1 DEF Cli!Processed
<1>4. /\ t \in Cli!FSM!PlanState /\ Within(t)
      /\ t = f.plan \/ (Further(f.plan, t) /\ t.state # "INIT")
  <2>1. CASE t = f.plan
    BY <1>2, <2>1
  <2>2. CASE t \in Cli!Accepted(f.plan)
    BY <1>2, <2>2, AcceptedFurther
  <2> QED BY <1>3, <2>1, <2>2
<1>5. planFile' \in Cli!StateFiles /\ planFile'.plan = t /\ planFile'.of = f.of
  BY <1>2, <1>3, <1>4, CommandFields
<1>6. interrupted' \in BOOLEAN
  BY <1>1 DEF CliInv, CliFlags
<1>7. ~overlapped /\ Cli!Readable => planFile = f
  BY <1>0, <1>1 DEF Alone
<1>8. ASSUME planFile' \notin {Nil, Torn}, ~overlapped,
                 ~interrupted' PROVE planFile'.plan.state # "INIT"
  <2>1. CASE t = f.plan
    <3>1. planFile' = f
      BY <1>2, <1>3, <2>1, CommandFields
    <3>2. planFile = f
      BY <1>0, <1>1, <1>8 DEF Alone
    <3>3. ASSUME NEW q \in Procs, command[q] # Nil, command[q].step = "classify" PROVE FALSE
      <4>1. q = p
        BY <1>0, <1>1, <1>8, <3>3 DEF Alone
      <4> QED BY <4>1, <1>1, <3>3
    <3> QED BY <1>0, <1>1, <1>8, <3>1, <3>2, <3>3 DEF Classifying, Cli!Readable
  <2>2. CASE t # f.plan
    BY <2>2, <1>4, <1>5
  <2> QED BY <2>1, <2>2
<1>9. CliInv'
  <2>1. planFile' # Torn
    BY <1>5, ValuesAssumption
  <2> QED BY <1>1, <1>2, <1>4, <1>5, <1>6, <1>8, <2>1, CallSaves
<1>10. Moves
  <2> SUFFICES ASSUME Cli!Readable, ~overlapped
               PROVE  planFile' = planFile \/ Further(planFile.plan, planFile'.plan)
    BY <1>1 DEF Moves
  <2>1. t = f.plan => planFile' = f
    BY <1>2, <1>3, CommandFields
  <2> QED BY <2>1, <1>4, <1>5, <1>7
<1> QED BY <1>9, <1>10

\* A command that fails leaves the plan, or a file that is cut off.
LEMMA CallFails ==
  ASSUME CliInv, NEW p \in Procs, Cli!CommandFails(p)
  PROVE  CliInv' /\ Moves
<1>0. CliTyped /\ Alone /\ Classifying /\ CliFlags
  BY DEF CliInv
<1>1. /\ command[p] # Nil /\ planFile' \in {planFile, Torn}
      /\ command' = [command EXCEPT ![p] = Nil] /\ UNCHANGED <<inits, overlapped>>
  BY DEF Cli!CommandFails
<1>2. interrupted' =
        (interrupted \/ ~(command[p] # Nil /\ command[p].step = "step") \/ planFile' = Torn)
  BY DEF Cli!CommandFails, Cli!In
<1>3. /\ interrupted' \in BOOLEAN /\ (~interrupted' => ~interrupted /\ planFile' # Torn)
      /\ (~interrupted' => command[p].step = "step")
  BY <1>0, <1>2, Zenon DEF CliFlags
<1>4. planFile' \notin {Nil, Torn} =>
           /\ planFile' \in Cli!StateFiles /\ Within(planFile'.plan) /\ planFile'.of <= inits
           /\ planFile' = planFile
  BY <1>0, <1>1 DEF CliTyped, Cli!Readable
<1>5. ASSUME planFile' \notin {Nil, Torn}, ~overlapped,
                 ~interrupted' PROVE planFile'.plan.state # "INIT"
  <2>1. ASSUME NEW q \in Procs, command[q] # Nil, command[q].step = "classify" PROVE FALSE
    <3>1. q = p
      BY <1>0, <1>1, <1>5, <2>1 DEF Alone
    <3> QED BY <3>1, <1>3, <1>5, <2>1
  <2> QED BY <2>1, <1>0, <1>3, <1>4, <1>5 DEF Classifying, Cli!Readable
<1>6. CliInv'
  BY <1>1, <1>3, <1>4, <1>5, CallSaves
<1>7. Moves
  BY <1>4 DEF Moves, Cli!Readable
<1> QED BY <1>6, <1>7

\* Every step of the command line keeps the invariant, and takes the plan forward.
LEMMA CliStep ==
  ASSUME CliInv, Cli!Next PROVE CliInv' /\ Moves
<1> PICK p \in Procs :
    \/ Cli!CmdInit(p) \/ Cli!SaveInitial(p) \/ Cli!SaveClassified(p)
    \/ Cli!CmdStep(p) \/ Cli!SaveStep(p) \/ Cli!CommandFails(p)
  BY DEF Cli!Next
<1> QED BY CallsStart, InitSaves, ClassifiedSaves, StepSaves, CallFails

\* Nothing that happens keeps the invariant.
LEMMA CliSame ==
  ASSUME CliInv, UNCHANGED Cli!cliVars PROVE CliInv'
<1>1. UNCHANGED <<planFile, command, inits, overlapped, interrupted>>
  BY DEF Cli!cliVars
<1> QED BY <1>1 DEF CliInv, CliTyped, Alone, Classifying, PlanWhole, CliFlags, Cli!Readable, Within

\* The invariant of the command line holds initially.
LEMMA CliStarts ==
  ASSUME Cli!Init PROVE CliInv
<1>1. /\ planFile = Nil /\ command = [p \in Procs |-> Nil] /\ inits = 0 /\ overlapped = FALSE
      /\ interrupted = FALSE
  BY DEF Cli!Init
<1>2. CliTyped
  BY <1>1, PlanLimits DEF CliTyped, Cli!Readable
<1>3. Alone /\ Classifying /\ CliFlags
  BY <1>1 DEF Alone, Classifying, CliFlags, Cli!Readable
<1>4. PlanWhole
  BY <1>1, ValuesAssumption DEF PlanWhole
<1> QED BY <1>2, <1>3, <1>4 DEF CliInv

\* The command line of Shared runs as PlanCli says.
LEMMA CliSpec == SharedSpec => Cli!Init /\ [][Cli!Next]_(Cli!cliVars)
<1>1. SharedInit => Cli!Init
  BY DEF SharedInit
<1>2. [SharedNext]_sharedVars => [Cli!Next]_(Cli!cliVars)
  BY DEF SharedNext, sharedVars, cliVars, Cli!cliVars
<1> QED BY <1>1, <1>2, PTL DEF SharedSpec

\* The invariant of the command line holds always.
LEMMA CliInvariant == SharedSpec => []CliInv
<1>1. Cli!Init => CliInv
  BY CliStarts
<1>2. CliInv /\ [Cli!Next]_(Cli!cliVars) => CliInv'
  BY CliStep, CliSame
<1> QED BY <1>1, <1>2, CliSpec, PTL

\* PlanOnlyForward, of one step.
LEMMA PlanMoves ==
  ASSUME CliInv, CliInv', Cli!Next
  PROVE  /\ Cli!Readable' => Cli!FSM!RoundsBounded'
         /\ Cli!Readable /\ Cli!Readable' /\ ~overlapped' =>
              planFile' = planFile \/ planFile'.of # planFile.of \/ Cli!FSM!Forward
         /\ planFile' # Nil /\ Cli!Quiet' /\ ~overlapped' /\ ~interrupted' =>
              /\ Cli!Readable'
              /\ planFile'.plan.state \in Cli!FSM!Terminal \/ Cli!Accepted(planFile'.plan) # {}
<1>1. Cli!Readable' => Cli!FSM!RoundsBounded'
  BY DEF CliInv, CliTyped, Within, Cli!FSM!RoundsBounded, Cli!FSM!At
<1>2. Cli!Readable /\ Cli!Readable' /\ ~overlapped' =>
         planFile' = planFile \/ planFile'.of # planFile.of \/ Cli!FSM!Forward
  BY CliStep DEF Moves, Further, Cli!FSM!Forward
<1>3. ASSUME planFile' # Nil, Cli!Quiet', ~overlapped', ~interrupted'
      PROVE  /\ Cli!Readable'
             /\ planFile'.plan.state \in Cli!FSM!Terminal \/ Cli!Accepted(planFile'.plan) # {}
  <2>1. Cli!Readable'
    BY <1>3 DEF CliInv, PlanWhole, Cli!Readable
  <2>2. planFile' \in Cli!StateFiles /\ Within(planFile'.plan)
    BY <2>1 DEF CliInv, CliTyped, Within
  <2>3. planFile'.plan.state # "INIT"
    BY <1>3, <2>1 DEF CliInv, Classifying, Cli!Quiet
  <2>4. planFile'.plan \in Cli!FSM!PlanState
    BY <2>2, CommandFields
  <2> QED BY <2>1, <2>2, <2>3, <2>4, StepHelps
<1> QED BY <1>1, <1>2, <1>3

\* PlanOnlyForward (plan_fsm/cli.py over the plan state machine): the plan in the
\* state file keeps to its limits always; it goes forward unless calls overlap or
\* --init replaces it; and the file can be read and some command helps, or the plan has
\* ended, unless calls overlapped, an --init was interrupted or a save was cut off. For
\* any callers, limits and plans.
THEOREM PlanForward == SharedSpec => PlanOnlyForward
<1>1. CliInv /\ CliInv' /\ [Cli!Next]_(Cli!cliVars) =>
       [/\ Cli!Readable' => Cli!FSM!RoundsBounded'
        /\ Cli!Readable /\ Cli!Readable' /\ ~overlapped' =>
             planFile' = planFile \/ planFile'.of # planFile.of \/ Cli!FSM!Forward
        /\ planFile' # Nil /\ Cli!Quiet' /\ ~overlapped' /\ ~interrupted' =>
             /\ Cli!Readable'
             /\ planFile'.plan.state \in Cli!FSM!Terminal
                 \/ Cli!Accepted(planFile'.plan) # {}]_(Cli!cliVars)
  BY PlanMoves
<1> QED BY <1>1, CliInvariant, CliSpec, PTL DEF PlanOnlyForward, Cli!PlanOnlyForward

-----------------------------------------------------------------------------
(* The approval gate.                                                      *)

\* What a command may be in.
Reviews ==
  {Nil} \union [step : {"init"}, state : {Gate!Pending}]
        \union [step : {"archive", "save"}, state : Gate!GateState]

\* Types of the gate, of what a command holds of it, and of the history.
GateTyped ==
  /\ document \in Documents
  /\ gate \in {Nil, Torn, Gate!Pending} \/ gate \in Gate!GateState
  /\ archive \in [Documents -> Documents \union {Nil, Torn}]
  /\ review \in [Procs -> Reviews]
  /\ begun \in 0..MaxDecisions
  /\ edits \in 0..MaxEdits
  /\ required \in BOOLEAN /\ entangled \in BOOLEAN /\ moved \in BOOLEAN /\ chopped \in BOOLEAN

\* A state that a command decided, saved or about to be.
Decided(s) == s \in Gate!GateState
    /\ (gate = s \/ \E p \in Procs : review[p] # Nil /\ review[p].state = s)

\* An approval that was required and checked carries the hash of its document, and what
\* says it is archived is.
Signed == \A s \in Gate!GateState : Decided(s) =>
  /\ s.status = "approved" /\ required /\ s.checked => s.signature = s.hash
  /\ s.archived => archive[s.hash] # Nil

\* While no two commands overlap, the verdict is in the file, and no --init is about to
\* replace it.
VerdictStays == ~entangled =>
  /\ \A p, q \in Procs : review[p] # Nil /\ review[q] # Nil => p = q
  /\ verdict \notin {Nil, Torn} => gate = verdict
  /\ \A p \in Procs : Gate!At(p, "init") => verdict \in {Nil, Torn}

\* While the document does not move, a command holds its hash, and an archive has its
\* document.
ArchiveTrue ==
  /\ ~moved => \A p \in Procs : review[p] # Nil /\ review[p].step # "init" =>
       review[p].state.hash = document
  /\ ~moved /\ ~chopped => \A h \in Documents : archive[h] \in {h, Nil}

\* The inductive invariant of the gate.
GateInv == GateTyped /\ Signed /\ VerdictStays /\ ArchiveTrue

\* Every step of the gate keeps its invariant.
LEMMA GateStep == GateInv /\ [Gate!Next]_(Gate!gateVars) => GateInv'
<1> SUFFICES ASSUME GateInv, [Gate!Next]_(Gate!gateVars) PROVE GateInv'
  OBVIOUS
<1> USE BoundsAssumption, ValuesAssumption DEF GateInv
<1>1. ASSUME Gate!Edit PROVE GateInv'
  <2>1. GateTyped'
    BY <1>1 DEF Gate!Edit, GateTyped, Reviews, Gate!GateState, Gate!Pending
  <2>2. Signed'
    BY <1>1 DEF Gate!Edit, GateTyped, Signed, Decided, Reviews, Gate!GateState, Gate!Pending,
         Gate!Verdicts
  <2>3. VerdictStays'
    BY <1>1 DEF Gate!Edit, GateTyped, VerdictStays, Reviews, Gate!At, Gate!Pending
  <2>4. ArchiveTrue'
    BY <1>1 DEF Gate!Edit, GateTyped, ArchiveTrue, Reviews, Gate!GateState, Gate!Pending
  <2> QED BY <2>1, <2>2, <2>3, <2>4
<1>2. ASSUME NEW p \in Procs, Gate!Status(p) PROVE GateInv'
  <2>1. GateTyped'
    BY <1>2 DEF Gate!Status, Gate!Begin, GateTyped, Reviews, Gate!GateState, Gate!Pending
  <2>2. Signed'
    BY <1>2 DEF Gate!Status, Gate!Begin, GateTyped, Signed, Decided, Reviews, Gate!GateState,
         Gate!Pending, Gate!Verdicts
  <2>3. VerdictStays'
    BY <1>2 DEF Gate!Status, Gate!Begin, GateTyped, VerdictStays, Reviews, Gate!At, Gate!Pending
  <2>4. ArchiveTrue'
    BY <1>2 DEF Gate!Status, Gate!Begin, GateTyped, ArchiveTrue, Reviews, Gate!GateState,
         Gate!Pending
  <2> QED BY <2>1, <2>2, <2>3, <2>4
<1>3. ASSUME NEW p \in Procs, Gate!SavePending(p) PROVE GateInv'
  <2>1. GateTyped'
    BY <1>3 DEF Gate!SavePending, Gate!At, GateTyped, Reviews, Gate!GateState, Gate!Pending
  <2>2. Signed'
    BY <1>3 DEF Gate!SavePending, Gate!At, GateTyped, Signed, Decided, Reviews, Gate!GateState,
         Gate!Pending, Gate!Verdicts
  <2>3. VerdictStays'
    BY <1>3 DEF Gate!SavePending, Gate!At, GateTyped, VerdictStays, Reviews, Gate!At, Gate!Pending
  <2>4. ArchiveTrue'
    BY <1>3 DEF Gate!SavePending, Gate!At, GateTyped, ArchiveTrue, Reviews, Gate!GateState,
         Gate!Pending
  <2> QED BY <2>1, <2>2, <2>3, <2>4
<1>4. ASSUME NEW p \in Procs, NEW status \in Gate!Verdicts,
                NEW signature \in Documents \union {Nil}, NEW checked \in BOOLEAN,
                    Gate!Decide(p, status, signature, checked) PROVE GateInv'
  <2>1. GateTyped'
    BY <1>4 DEF Gate!Decide, Gate!Begin, Gate!Verdicts, GateTyped, Reviews, Gate!GateState,
         Gate!Pending
  <2>2. Signed'
    BY <1>4 DEF Gate!Decide, Gate!Begin, Gate!Verdicts, GateTyped, Signed, Decided, Reviews,
         Gate!GateState, Gate!Pending, Gate!Verdicts
  <2>3. VerdictStays'
    BY <1>4 DEF Gate!Decide, Gate!Begin, Gate!Verdicts, GateTyped, VerdictStays, Reviews, Gate!At,
         Gate!Pending
  <2>4. ArchiveTrue'
    BY <1>4 DEF Gate!Decide, Gate!Begin, Gate!Verdicts, GateTyped, ArchiveTrue, Reviews,
         Gate!GateState, Gate!Pending
  <2> QED BY <2>1, <2>2, <2>3, <2>4
<1>5. ASSUME NEW p \in Procs, Gate!Archive(p) PROVE GateInv'
  <2>0. review' \in [Procs -> Reviews]
    <3>1. PICK s \in Gate!GateState : review[p] = [step |-> "archive", state |-> s]
      BY <1>5 DEF Gate!Archive, Gate!At, GateTyped, Reviews
    <3>4. review'[p] = [step |-> "save", state |-> [s EXCEPT !.archived = TRUE]]
      BY <1>5, <3>1 DEF Gate!Archive, Gate!Archived, GateTyped
    <3>5. [s EXCEPT !.archived = TRUE] \in Gate!GateState
      BY DEF Gate!GateState
    <3>3. review'[p] \in Reviews
      BY <3>4, <3>5 DEF Reviews
    <3> QED
      BY <1>5, <3>3 DEF Gate!Archive, Gate!Archived, GateTyped
  <2>1. GateTyped'
    BY <1>5, <2>0 DEF Gate!Archive, Gate!At, GateTyped, Reviews, Gate!GateState
  <2>2. Signed'
    BY <1>5 DEF Gate!Archive, Gate!At, Gate!Archived, GateTyped, Signed, Decided, Reviews,
         Gate!GateState, Gate!Pending, Gate!Verdicts
  <2>3. VerdictStays'
    BY <1>5 DEF Gate!Archive, Gate!At, Gate!Archived, GateTyped, VerdictStays, Reviews, Gate!At,
         Gate!Pending
  <2>4. ArchiveTrue'
    BY <1>5 DEF Gate!Archive, Gate!At, Gate!Archived, GateTyped, ArchiveTrue, Reviews,
         Gate!GateState, Gate!Pending
  <2> QED BY <2>1, <2>2, <2>3, <2>4
<1>6. ASSUME NEW p \in Procs, Gate!ArchiveFails(p) PROVE GateInv'
  <2>1. GateTyped'
    BY <1>6 DEF Gate!ArchiveFails, Gate!At, GateTyped, Reviews, Gate!GateState, Gate!Pending
  <2>2. Signed'
    BY <1>6 DEF Gate!ArchiveFails, Gate!At, GateTyped, Signed, Decided, Reviews, Gate!GateState,
         Gate!Pending, Gate!Verdicts
  <2>3. VerdictStays'
    BY <1>6 DEF Gate!ArchiveFails, Gate!At, GateTyped, VerdictStays, Reviews, Gate!At, Gate!Pending
  <2>4. ArchiveTrue'
    <3>1. review[p].state \in Gate!GateState /\ review[p].step = "archive"
      BY <1>6 DEF Gate!ArchiveFails, Gate!At, GateTyped, Reviews
    <3>2. \A q \in Procs : review'[q] # Nil =>
            review[q] # Nil /\ review'[q].state = review[q].state
            /\ (review'[q].step # "init" => review[q].step # "init")
      <4>1. review'[p] = [review[p] EXCEPT !.step = "save"]
        BY <1>6 DEF Gate!ArchiveFails, GateTyped
      <4>2. review[p] # Nil
        BY <1>6 DEF Gate!ArchiveFails, Gate!At
      <4>3. review'[p].state = review[p].state
        BY <3>1, <4>1, <4>2 DEF GateTyped, Reviews
      <4>4. \A q \in Procs \ {p} : review'[q] = review[q]
        BY <1>6 DEF Gate!ArchiveFails, GateTyped
      <4> QED BY <3>1, <4>2, <4>3, <4>4
    <3>3. ~moved' => \A q \in Procs :
            review'[q] # Nil /\ review'[q].step # "init" => review'[q].state.hash = document'
      BY <1>6, <3>2 DEF Gate!ArchiveFails, ArchiveTrue
    <3>4. ~moved' /\ ~chopped' => \A h \in Documents : archive'[h] \in {h, Nil}
      BY <1>6, <3>1 DEF Gate!ArchiveFails, GateTyped, ArchiveTrue, Gate!GateState
    <3> QED BY <3>3, <3>4 DEF ArchiveTrue
  <2> QED BY <2>1, <2>2, <2>3, <2>4
<1>7. ASSUME NEW p \in Procs, Gate!SaveState(p) PROVE GateInv'
  <2>1. GateTyped'
    BY <1>7 DEF Gate!SaveState, Gate!At, GateTyped, Reviews, Gate!GateState, Gate!Pending
  <2>2. Signed'
    BY <1>7 DEF Gate!SaveState, Gate!At, GateTyped, Signed, Decided, Reviews, Gate!GateState,
         Gate!Pending, Gate!Verdicts
  <2>3. VerdictStays'
    BY <1>7 DEF Gate!SaveState, Gate!At, GateTyped, VerdictStays, Reviews, Gate!At, Gate!Pending
  <2>4. ArchiveTrue'
    BY <1>7 DEF Gate!SaveState, Gate!At, GateTyped, ArchiveTrue, Reviews, Gate!GateState,
         Gate!Pending
  <2> QED BY <2>1, <2>2, <2>3, <2>4
<1>8. ASSUME NEW p \in Procs, Gate!CommandFails(p) PROVE GateInv'
  <2>1. GateTyped'
    BY <1>8 DEF Gate!CommandFails, Gate!At, GateTyped, Reviews, Gate!GateState, Gate!Pending
  <2>2. Signed'
    BY <1>8 DEF Gate!CommandFails, Gate!At, GateTyped, Signed, Decided, Reviews, Gate!GateState,
         Gate!Pending, Gate!Verdicts
  <2>3. VerdictStays'
    BY <1>8 DEF Gate!CommandFails, Gate!At, GateTyped, VerdictStays, Reviews, Gate!At, Gate!Pending
  <2>4. ArchiveTrue'
    BY <1>8 DEF Gate!CommandFails, Gate!At, GateTyped, ArchiveTrue, Reviews, Gate!GateState,
         Gate!Pending
  <2> QED BY <2>1, <2>2, <2>3, <2>4
<1>9. CASE UNCHANGED Gate!gateVars
  BY <1>9 DEF Gate!gateVars, GateTyped, Signed, Decided, VerdictStays, ArchiveTrue, Gate!At
<1> QED BY <1>1, <1>2, <1>3, <1>4, <1>5, <1>6, <1>7, <1>8, <1>9 DEF Gate!Next

\* The gate of Shared runs as ApprovalGate says.
LEMMA GateSpec == SharedSpec => Gate!Spec
<1>1. SharedInit => Gate!Init
  BY DEF SharedInit
<1>2. [SharedNext]_sharedVars => [Gate!Next]_(Gate!gateVars)
  BY DEF SharedNext, sharedVars, gateVars, Gate!gateVars
<1> QED BY <1>1, <1>2, PTL DEF SharedSpec, Gate!Spec

\* The invariant of the gate holds always.
LEMMA GateInvariant == SharedSpec => []GateInv
<1>1. ASSUME Gate!Init PROVE GateInv
  <2>1. GateTyped
    <3>1. review \in [Procs -> Reviews]
      BY <1>1 DEF Gate!Init, Reviews
    <3>2. MaxDecisions \in Nat /\ MaxEdits \in Nat
      BY BoundsAssumption
    <3>3. begun \in 0..MaxDecisions /\ edits \in 0..MaxEdits
      BY <1>1, <3>2 DEF Gate!Init
    <3>4. archive \in [Documents -> Documents \union {Nil, Torn}]
      BY <1>1 DEF Gate!Init
    <3>5. required \in BOOLEAN /\ entangled \in BOOLEAN /\ moved \in BOOLEAN /\ chopped \in BOOLEAN
      BY <1>1 DEF Gate!Init
    <3> QED BY <1>1, <3>1, <3>3, <3>4, <3>5 DEF Gate!Init, GateTyped
  <2>2. \A s \in Gate!GateState : ~Decided(s)
    BY <1>1, ValuesAssumption DEF Gate!Init, Decided
  <2> QED
    BY <1>1, <2>1, <2>2 DEF Gate!Init, GateInv, Signed, VerdictStays, ArchiveTrue, Gate!At
<1> QED BY GateSpec, GateStep, <1>1, PTL DEF Gate!Spec

\* ApprovalKept (approval_gate_commands.py): an approval that lets the plan through
\* is signed for the hash it has, if signatures are required and the configuration that
\* says so could be read; the last verdict stays unless commands overlap or status
\* fails to read it; and the archive is of the approved document unless that was edited
\* during a command or the archive was cut off. For any documents, reviewers, decisions
\* and edits.
THEOREM Approved == SharedSpec => []ApprovalKept
<1>1. GateInv => ApprovalKept
  BY DEF GateInv, GateTyped, Signed, Decided, VerdictStays, ArchiveTrue, ApprovalKept,
         Gate!ApprovalKept, Gate!Allowed, Gate!GateState, Gate!Pending
<1> QED BY GateInvariant, <1>1, PTL

-----------------------------------------------------------------------------
(* The idempotency ledger.                                                 *)

\* The stages of a call of register.
IdemStages == {"idle", "redis", "file", "lookup", "op", "record", "release"}

\* The calls that may still begin the operation.
Awaiting == {c \in Procs : stage[c] \in {"redis", "file", "lookup"}}

\* Types of the locks, the calls and the ledger.
IdemTyped ==
  /\ lease \in Procs \union {Nil} /\ keyFile \in Procs \union {Nil}
  /\ stage \in [Procs -> IdemStages]
  /\ handle \in [Procs -> {"redis", "file", Nil}]
  /\ result \in [Procs -> 1..MaxRegisters \union {Nil}]
  /\ recorded \in Seq(1..MaxRegisters)
  /\ executed \in Nat /\ registers \in 0..MaxRegisters

\* An operation belongs to a call, and has a result.
IdemCounted ==
  /\ IsFiniteSet(Awaiting) /\ executed + Cardinality(Awaiting) <= registers
  /\ \A c \in Procs : stage[c] \in {"op", "record"} => result[c] # Nil

\* The inductive invariant of the ledger.
IdemInv == IdemTyped /\ distributed \in BOOLEAN /\ IdemCounted

\* A call that goes on joins those that may begin the operation, leaves them, or neither.
LEMMA AwaitingStep ==
  ASSUME IdemInv, NEW c \in Procs, NEW from, NEW to \in IdemStages, Idem!Goes(c, from, to)
  PROVE  /\ stage[c] = from /\ stage' \in [Procs -> IdemStages]
         /\ stage'[c] = to /\ \A d \in Procs \ {c} : stage'[d] = stage[d]
         /\ IsFiniteSet(Awaiting') /\ Cardinality(Awaiting') \in Nat
         /\ Cardinality(Awaiting) \in Nat
         /\ LET D == {"redis", "file", "lookup"} IN
            Cardinality(Awaiting') =
              IF from \in D /\ to \notin D THEN Cardinality(Awaiting) - 1
              ELSE IF from \notin D /\ to \in D THEN Cardinality(Awaiting) + 1
              ELSE Cardinality(Awaiting)
<1> DEFINE D == {"redis", "file", "lookup"}
<1>1. /\ stage[c] = from /\ stage' \in [Procs -> IdemStages]
      /\ stage'[c] = to /\ \A d \in Procs \ {c} : stage'[d] = stage[d]
  BY DEF Idem!Goes, IdemInv, IdemTyped
<1>2. IsFiniteSet(Awaiting) /\ Cardinality(Awaiting) \in Nat
  BY FS_CardinalityType DEF IdemInv, IdemCounted
<1>3. CASE from \in D /\ to \notin D
  <2>1. Awaiting' = Awaiting \ {c} /\ c \in Awaiting
    BY <1>1, <1>3 DEF Awaiting
  <2>2. IsFiniteSet(Awaiting') /\ Cardinality(Awaiting') = Cardinality(Awaiting) - 1
    BY <2>1, <1>2, FS_RemoveElement
  <2> QED BY <2>2, <1>1, <1>2, <1>3, FS_CardinalityType
<1>4. CASE from \notin D /\ to \in D
  <2>1. Awaiting' = Awaiting \union {c} /\ c \notin Awaiting
    BY <1>1, <1>4 DEF Awaiting
  <2>2. IsFiniteSet(Awaiting') /\ Cardinality(Awaiting') = Cardinality(Awaiting) + 1
    BY <2>1, <1>2, FS_AddElement
  <2> QED BY <2>2, <1>1, <1>2, <1>4
<1>5. CASE from \in D <=> to \in D
  <2>1. Awaiting' = Awaiting
    BY <1>1, <1>5 DEF Awaiting
  <2> QED BY <2>1, <1>1, <1>2, <1>5
<1> QED BY <1>3, <1>4, <1>5

\* Every step of register keeps its invariant.
LEMMA IdemStep == IdemInv /\ [Idem!Next]_(Idem!idemVars) => IdemInv'
<1> SUFFICES ASSUME IdemInv, [Idem!Next]_(Idem!idemVars) PROVE IdemInv'
  OBVIOUS
<1>1. /\ lease \in Procs \union {Nil} /\ keyFile \in Procs \union {Nil}
      /\ handle \in [Procs -> {"redis", "file", Nil}]
      /\ result \in [Procs -> 1..MaxRegisters \union {Nil}]
      /\ recorded \in Seq(1..MaxRegisters)
      /\ executed \in Nat /\ registers \in 0..MaxRegisters /\ MaxRegisters \in Nat
      /\ Nil \notin Nat /\ Nil \notin Procs
  BY BoundsAssumption, ValuesAssumption DEF IdemInv, IdemTyped
<1>2. /\ executed + Cardinality(Awaiting) <= registers
      /\ \A c \in Procs : stage[c] \in {"op", "record"} => result[c] # Nil
  BY DEF IdemInv, IdemCounted
<1>3. distributed \in BOOLEAN /\ distributed' = distributed => distributed' \in BOOLEAN
  BY Zenon
<1>4. distributed' = distributed
  BY DEF Idem!Next, Idem!idemVars, Idem!Register, Idem!TakeLease, Idem!LeaseRefused,
     Idem!TakeFile, Idem!Refused, Idem!Lookup, Idem!Return, Idem!Raise, Idem!Record,
     Idem!Release, Idem!Die, Idem!Expire
<1>5. distributed' \in BOOLEAN
  BY Zenon, <1>3, <1>4 DEF IdemInv
<1>6. ASSUME NEW c \in Procs, Idem!Register(c) PROVE IdemInv'
  <2> DEFINE to == IF distributed THEN "redis" ELSE "file"
  <2>1. /\ to \in {"redis", "file"} /\ Idem!Goes(c, "idle", to) /\ registers < MaxRegisters
        /\ registers' = registers + 1 /\ result' = [result EXCEPT ![c] = Nil]
        /\ UNCHANGED <<lease, keyFile, handle, recorded, executed>>
    BY <1>6 DEF Idem!Register
  <2> HIDE DEF to
  <2>2. /\ stage' \in [Procs -> IdemStages] /\ stage'[c] = to
        /\ \A d \in Procs \ {c} : stage'[d] = stage[d]
        /\ IsFiniteSet(Awaiting') /\ Cardinality(Awaiting') = Cardinality(Awaiting) + 1
        /\ Cardinality(Awaiting) \in Nat
    BY <2>1, AwaitingStep DEF IdemStages
  <2>3. executed' + Cardinality(Awaiting') <= registers' /\ registers' \in 0..MaxRegisters
    BY <1>1, <1>2, <2>1, <2>2
  <2>4. result' \in [Procs -> 1..MaxRegisters \union {Nil}]
        /\ \A d \in Procs \ {c} : result'[d] = result[d]
    BY <1>1, <2>1
  <2>5. IdemTyped'
    BY <1>1, <2>1, <2>2, <2>3, <2>4 DEF IdemTyped
  <2>6. IdemCounted'
    BY <1>2, <2>1, <2>2, <2>3, <2>4 DEF IdemCounted
  <2> QED BY <1>5, <2>5, <2>6 DEF IdemInv
<1>7. ASSUME NEW c \in Procs,
             Idem!TakeLease(c) \/ Idem!LeaseRefused(c) \/ Idem!TakeFile(c) \/ Idem!Refused(c)
      PROVE  IdemInv'
  <2>1. /\ \E from \in {"redis", "file"}, to \in {"lookup", "file", "idle"} : Idem!Goes(c, from, to)
        /\ lease' \in {lease, c} /\ keyFile' \in {keyFile, c}
        /\ handle' = handle \/ \E x \in {"redis", "file"} : handle' = [handle EXCEPT ![c] = x]
        /\ UNCHANGED <<result, recorded, executed, registers>>
    BY <1>7 DEF Idem!TakeLease, Idem!LeaseRefused, Idem!TakeFile, Idem!Refused
  <2>2. PICK from \in {"redis", "file"}, to \in {"lookup", "file", "idle"} : Idem!Goes(c, from, to)
    BY <2>1
  <2>3. /\ stage' \in [Procs -> IdemStages] /\ stage'[c] = to
        /\ \A d \in Procs \ {c} : stage'[d] = stage[d]
        /\ IsFiniteSet(Awaiting') /\ Cardinality(Awaiting') \in Nat /\ Cardinality(Awaiting) \in Nat
        /\ Cardinality(Awaiting') <= Cardinality(Awaiting)
    <3>1. to \in IdemStages
      BY DEF IdemStages
    <3> QED BY <2>2, <3>1, AwaitingStep
  <2>4. executed' + Cardinality(Awaiting') <= registers'
    BY <1>1, <1>2, <2>1, <2>3
  <2>5. handle' \in [Procs -> {"redis", "file", Nil}]
    BY <1>1, <2>1
  <2>6. IdemTyped'
    BY <1>1, <2>1, <2>3, <2>5 DEF IdemTyped
  <2>7. IdemCounted'
    BY <1>2, <2>1, <2>2, <2>3, <2>4 DEF IdemCounted
  <2> QED BY <1>5, <2>6, <2>7 DEF IdemInv
<1>8. ASSUME NEW c \in Procs, Idem!Lookup(c) PROVE IdemInv'
  <2>0. recorded # <<>> => recorded[Len(recorded)] \in 1..MaxRegisters
    BY <1>1
  <2>1. /\ UNCHANGED <<lease, keyFile, handle, recorded, registers>>
        /\ \/ /\ Idem!Goes(c, "lookup", "op") /\ executed' = executed + 1
              /\ result' = [result EXCEPT ![c] = executed']
           \/ /\ Idem!Goes(c, "lookup", "release") /\ executed' = executed
              /\ \E x \in 1..MaxRegisters : result' = [result EXCEPT ![c] = x]
    BY <1>8, <2>0 DEF Idem!Lookup
  <2>2. PICK to \in {"op", "release"} : Idem!Goes(c, "lookup", to)
    BY <2>1
  <2>3. /\ stage' \in [Procs -> IdemStages] /\ stage'[c] = to
        /\ \A d \in Procs \ {c} : stage'[d] = stage[d]
        /\ IsFiniteSet(Awaiting') /\ Cardinality(Awaiting') \in Nat /\ Cardinality(Awaiting) \in Nat
        /\ Cardinality(Awaiting') = Cardinality(Awaiting) - 1
    <3>1. to \in IdemStages
      BY DEF IdemStages
    <3> QED BY <2>2, <3>1, AwaitingStep
  <2>4. executed' \in Nat /\ executed' <= executed + 1
            /\ executed' + Cardinality(Awaiting') <= registers'
    BY <1>1, <1>2, <2>1, <2>3
  <2>5. PICK x \in 1..MaxRegisters : result' = [result EXCEPT ![c] = x]
    <3>1. executed + 1 \in 1..MaxRegisters
      BY <1>1, <1>2, <2>3
    <3> QED BY <2>1, <3>1
  <2>6. /\ result' \in [Procs -> 1..MaxRegisters \union {Nil}] /\ result'[c] # Nil
        /\ \A d \in Procs \ {c} : result'[d] = result[d]
    BY <1>1, <2>5
  <2>7. IdemTyped'
    BY <1>1, <2>1, <2>3, <2>4, <2>6 DEF IdemTyped
  <2>8. IdemCounted'
    BY <1>2, <2>3, <2>4, <2>6 DEF IdemCounted
  <2> QED BY <1>5, <2>7, <2>8 DEF IdemInv
<1>9. ASSUME NEW c \in Procs, Idem!Return(c) \/ Idem!Record(c) PROVE IdemInv'
  <2>1. /\ \E from \in {"op", "record"}, to \in {"record", "release"} :
             Idem!Goes(c, from, to)
        /\ recorded' = recorded \/ (stage[c] = "record" /\ recorded' = Append(recorded, result[c]))
        /\ UNCHANGED <<lease, keyFile, handle, result, executed, registers>>
    BY <1>9 DEF Idem!Return, Idem!Record, Idem!Goes
  <2>2. PICK from \in {"op", "record"}, to \in {"record", "release"} : Idem!Goes(c, from, to)
    BY <2>1
  <2>3. /\ stage[c] = from /\ stage' \in [Procs -> IdemStages] /\ stage'[c] = to
        /\ \A d \in Procs \ {c} : stage'[d] = stage[d]
        /\ IsFiniteSet(Awaiting') /\ Cardinality(Awaiting') = Cardinality(Awaiting)
    <3>1. to \in IdemStages
      BY DEF IdemStages
    <3> QED BY <2>2, <3>1, AwaitingStep
  <2>4. result[c] \in 1..MaxRegisters /\ result[c] # Nil
    BY <1>1, <1>2, <2>3
  <2>5. recorded' \in Seq(1..MaxRegisters)
    <3>1. recorded \in Seq(1..MaxRegisters)
      BY <1>1
    <3>2. Append(recorded, result[c]) \in Seq(1..MaxRegisters)
      BY <3>1, <2>4
    <3> QED BY <2>1, <3>1, <3>2
  <2>6. IdemTyped'
    BY <1>1, <2>1, <2>3, <2>5 DEF IdemTyped
  <2>7. IdemCounted'
    BY <1>2, <2>1, <2>3, <2>4 DEF IdemCounted
  <2> QED BY <1>5, <2>6, <2>7 DEF IdemInv
<1>10. ASSUME NEW c \in Procs, Idem!Raise(c) \/ Idem!Release(c) \/ Idem!Die(c) PROVE IdemInv'
  <2>1. /\ \E to \in {"release", "idle"} : Idem!Goes(c, stage[c], to)
        /\ lease' \in {lease, Nil} /\ keyFile' \in {keyFile, Nil}
        /\ handle' = handle \/ handle' = [handle EXCEPT ![c] = Nil]
        /\ result' = result \/ result' = [result EXCEPT ![c] = Nil]
        /\ UNCHANGED <<recorded, executed, registers>>
    BY <1>10 DEF Idem!Raise, Idem!Release, Idem!Die, Idem!Goes
  <2>2. PICK to \in {"release", "idle"} : Idem!Goes(c, stage[c], to)
    BY <2>1
  <2>3. /\ stage' \in [Procs -> IdemStages] /\ stage'[c] = to
        /\ \A d \in Procs \ {c} : stage'[d] = stage[d]
        /\ IsFiniteSet(Awaiting') /\ Cardinality(Awaiting') \in Nat /\ Cardinality(Awaiting) \in Nat
        /\ Cardinality(Awaiting') <= Cardinality(Awaiting)
    <3>1. to \in IdemStages
      BY DEF IdemStages
    <3> QED BY <2>2, <3>1, AwaitingStep
  <2>4. executed' + Cardinality(Awaiting') <= registers'
    BY <1>1, <1>2, <2>1, <2>3
  <2>5. handle' \in [Procs -> {"redis", "file", Nil}]
        /\ result' \in [Procs -> 1..MaxRegisters \union {Nil}]
        /\ \A d \in Procs \ {c} : result'[d] = result[d]
    BY <1>1, <2>1
  <2>6. IdemTyped'
    BY <1>1, <2>1, <2>3, <2>5 DEF IdemTyped
  <2>7. IdemCounted'
    BY <1>2, <2>3, <2>4, <2>5 DEF IdemCounted
  <2> QED BY <1>5, <2>6, <2>7 DEF IdemInv
<1>11. ASSUME Idem!Expire \/ UNCHANGED Idem!idemVars PROVE IdemInv'
  <2>1. lease' \in {lease, Nil}
        /\ UNCHANGED <<keyFile, stage, handle, result, recorded, executed, registers>>
    BY <1>11 DEF Idem!Expire, Idem!idemVars
  <2>2. IdemTyped'
    BY <1>1, <2>1 DEF IdemInv, IdemTyped
  <2>3. IdemCounted'
    BY <2>1 DEF IdemInv, IdemCounted, Awaiting
  <2> QED BY <1>5, <2>2, <2>3 DEF IdemInv
<1> QED BY <1>6, <1>7, <1>8, <1>9, <1>10, <1>11 DEF Idem!Next

\* Type correctness of the ledger: no more operations are begun than calls of register,
\* and every result is that of an operation.
LEMMA IdemTypes == SharedSpec => []Idem!TypeOK
<1>1. SharedInit => Idem!Init
  BY DEF SharedInit
<1>2. [SharedNext]_sharedVars => [Idem!Next]_(Idem!idemVars)
  BY DEF SharedNext, sharedVars, idemVars, Idem!idemVars
<1>3. Idem!Init => IdemInv
  <2> SUFFICES ASSUME Idem!Init PROVE IdemInv
    OBVIOUS
  <2>1. distributed \in BOOLEAN
    BY Zenon DEF Idem!Init
  <2>2. Awaiting = {}
    BY DEF Idem!Init, Awaiting
  <2>3. IsFiniteSet({}) /\ Cardinality({}) = 0
    BY FS_EmptySet
  <2>4. IdemTyped
    BY BoundsAssumption DEF Idem!Init, IdemTyped, IdemStages
  <2>5. IdemCounted
    BY <2>2, <2>3 DEF Idem!Init, IdemCounted
  <2> QED BY <2>1, <2>4, <2>5 DEF IdemInv
<1>4. IdemInv => Idem!TypeOK
  <2> SUFFICES ASSUME IdemInv PROVE Idem!TypeOK
    OBVIOUS
  <2>1. Cardinality(Awaiting) \in Nat
    BY FS_CardinalityType DEF IdemInv, IdemCounted
  <2>2. executed \in 0..MaxRegisters
    <3>1. executed \in Nat /\ registers \in 0..MaxRegisters
      BY DEF IdemInv, IdemTyped
    <3>2. executed + Cardinality(Awaiting) <= registers
      BY DEF IdemInv, IdemCounted
    <3>3. MaxRegisters \in Nat
      BY BoundsAssumption
    <3> QED BY <3>1, <3>2, <3>3, <2>1
  <2>3. distributed \in BOOLEAN
    BY Zenon DEF IdemInv
  <2>4. {lease, keyFile} \subseteq Procs \union {Nil}
    BY DEF IdemInv, IdemTyped
  <2> QED BY Zenon, <2>2, <2>3, <2>4 DEF IdemInv, IdemTyped, IdemStages, Idem!TypeOK
<1> QED BY <1>1, <1>2, <1>3, <1>4, IdemStep, PTL DEF SharedSpec

-----------------------------------------------------------------------------
(* The agent registry.                                                     *)

\* The persisted revocations, and the agents as a process has loaded them.
Revoked == [Agents -> Registry!Off \union {"none"}]
\* What a registry knows of the agents.
Loaded == [Agents -> Registry!Off \union {"active"}]

\* Types of the registries and of the file of revocations.
RegistryTyped ==
  /\ revocationFile = Torn \/ revocationFile \in Revoked
  /\ agents \in [Procs -> Loaded \union {Nil}]
  /\ revocations \in [Procs -> Revoked] /\ decisions \in Loaded
  /\ decided \in 0..MaxDecisions /\ loads \in 0..MaxLoads

\* The inductive invariant of the registry.
RegistryInv == RegistryTyped /\ spoilt \in BOOLEAN

\* Every step of a registry keeps its types.
LEMMA RegistryStep == RegistryInv /\ [Registry!Next]_(Registry!registryVars) => RegistryInv'
<1> SUFFICES ASSUME RegistryInv, [Registry!Next]_(Registry!registryVars) PROVE RegistryInv'
  OBVIOUS
<1>1. RegistryTyped /\ MaxDecisions \in Nat /\ MaxLoads \in Nat
  BY BoundsAssumption DEF RegistryInv
<1>2. spoilt' = spoilt \/ spoilt' = TRUE
  BY DEF Registry!Next, Registry!registryVars, Registry!Load, Registry!Decide, Registry!Revoke,
     Registry!Decommission, Registry!RestoreAgent, Registry!SaveRevocations, Registry!Quit
<1>3. spoilt' \in BOOLEAN
  BY Zenon, <1>2 DEF RegistryInv
<1>4. Registry!NoRevocations \in Revoked
  BY DEF Registry!NoRevocations, Revoked
<1>5. Registry!Persisted \in Revoked
  BY <1>1, <1>4 DEF Registry!Persisted, RegistryTyped
<1>6. ASSUME NEW p \in Procs, Registry!Load(p) PROVE RegistryTyped'
  <2>1. [a \in Agents |-> IF Registry!Persisted[a] \in Registry!Off
                          THEN Registry!Persisted[a] ELSE "active"] \in Loaded
    BY <1>5 DEF Revoked, Loaded
  <2>2. agents' \in [Procs -> Loaded \union {Nil}]
    BY <1>1, <1>6, <2>1 DEF Registry!Load, RegistryTyped
  <2>3. revocations' \in [Procs -> Revoked]
    BY <1>1, <1>4, <1>6 DEF Registry!Load, RegistryTyped
  <2> QED BY <1>1, <1>6, <2>2, <2>3 DEF Registry!Load, RegistryTyped
<1>7. ASSUME NEW p \in Procs, NEW a \in Agents, NEW status \in Registry!Off \union {"active"},
             Registry!Decide(p, a, status)
      PROVE  RegistryTyped'
  <2> DEFINE s == IF status = "active" THEN "none" ELSE status
  <2>1. /\ agents[p] # Nil /\ decided < MaxDecisions /\ decided' = decided + 1
        /\ decisions' = [decisions EXCEPT ![a] = status]
        /\ agents' = [agents EXCEPT ![p] = [agents[p] EXCEPT ![a] = status]]
        /\ revocations' = [revocations EXCEPT ![p] = [revocations[p] EXCEPT ![a] = s]]
        /\ Registry!SaveRevocations(p) /\ loads' = loads
    BY <1>7 DEF Registry!Decide
  <2>2. agents[p] \in Loaded /\ revocations[p] \in Revoked /\ s \in Registry!Off \union {"none"}
    BY <1>1, <2>1 DEF RegistryTyped, Registry!Off
  <2> HIDE DEF s
  <2>3. /\ decisions' \in Loaded /\ [agents[p] EXCEPT ![a] = status] \in Loaded
        /\ [revocations[p] EXCEPT ![a] = s] \in Revoked
    BY <1>1, <2>1, <2>2 DEF RegistryTyped, Loaded, Revoked
  <2>4. agents' \in [Procs -> Loaded \union {Nil}] /\ revocations' \in [Procs -> Revoked]
    BY <1>1, <2>1, <2>3 DEF RegistryTyped
  <2>5. revocationFile' = Torn \/ revocationFile' \in Revoked
    BY <1>1, <2>1, <2>4 DEF RegistryTyped, Registry!SaveRevocations
  <2> QED BY <1>1, <2>1, <2>3, <2>4, <2>5 DEF RegistryTyped
<1>8. ASSUME NEW p \in Procs, NEW a \in Agents,
             Registry!Revoke(p, a) \/ Registry!Decommission(p, a) \/ Registry!RestoreAgent(p, a)
      PROVE  RegistryTyped'
  <2>1. \E status \in Registry!Off \union {"active"} : Registry!Decide(p, a, status)
    BY <1>8 DEF Registry!Revoke, Registry!Decommission, Registry!RestoreAgent, Registry!Off
  <2> QED BY <2>1, <1>7
<1>9. ASSUME NEW p \in Procs, Registry!Quit(p) PROVE RegistryTyped'
  BY <1>1, <1>4, <1>9 DEF Registry!Quit, RegistryTyped
<1>10. ASSUME UNCHANGED Registry!registryVars PROVE RegistryTyped'
  BY <1>1, <1>10 DEF Registry!registryVars, RegistryTyped
<1> QED BY <1>3, <1>6, <1>8, <1>9, <1>10 DEF RegistryInv, Registry!Next

\* Type correctness of the agent registry.
LEMMA RegistryTypes == SharedSpec => []Registry!TypeOK
<1>1. SharedInit => Registry!Init
  BY DEF SharedInit
<1>2. [SharedNext]_sharedVars => [Registry!Next]_(Registry!registryVars)
  BY DEF SharedNext, sharedVars, registryVars, Registry!registryVars
<1>3. Registry!Init => RegistryInv
  <2> SUFFICES ASSUME Registry!Init PROVE RegistryInv
    OBVIOUS
  <2>1. spoilt \in BOOLEAN
    BY DEF Registry!Init
  <2>2. Registry!NoRevocations \in Revoked /\ [a \in Agents |-> "active"] \in Loaded
    BY DEF Registry!NoRevocations, Revoked, Loaded
  <2>3. RegistryTyped
    BY <2>2, BoundsAssumption DEF Registry!Init, RegistryTyped
  <2> QED BY <2>1, <2>3 DEF RegistryInv
<1>4. RegistryInv => Registry!TypeOK
  <2> SUFFICES ASSUME RegistryInv PROVE Registry!TypeOK
    OBVIOUS
  <2>1. spoilt \in BOOLEAN
    BY Zenon DEF RegistryInv
  <2>2. /\ revocationFile = Torn \/ revocationFile \in [Agents -> Registry!Off \union {"none"}]
        /\ \A p \in Procs : agents[p] = Nil
             \/ agents[p] \in [Agents -> Registry!Off \union {"active"}]
        /\ revocations \in [Procs -> [Agents -> Registry!Off \union {"none"}]]
        /\ decisions \in [Agents -> Registry!Off \union {"active"}]
        /\ decided \in 0..MaxDecisions
        /\ loads \in 0..MaxLoads
    BY DEF RegistryInv, RegistryTyped, Revoked, Loaded
  <2> QED BY Zenon, <2>1, <2>2 DEF Registry!TypeOK
<1> QED BY <1>1, <1>2, <1>3, <1>4, RegistryStep, PTL DEF SharedSpec
=============================================================================
