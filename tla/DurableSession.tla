--------------------------- MODULE DurableSession ---------------------------
(***************************************************************************)
(* The durable layer of one session (ahd_session_durable.py): its          *)
(* checkpoint and the LLM call cache, each replaced as a whole through a   *)
(* temporary file whose name all processes share, and the receipts, a      *)
(* file that is appended to.  There is no lock around any of them.         *)
(*                                                                         *)
(* The hooks are processes.  A file is what was written under the inode it *)
(* names: a process that opened the temporary file goes on writing it when *)
(* another one has renamed it.                                             *)
(***************************************************************************)
EXTENDS Naturals, Sequences, FiniteSets, SequencesExt

CONSTANTS
  Hooks,      \* processes
  Tools,      \* tool calls, one for each idempotency key
  Prompts,    \* LLM calls, one for each call hash
  MaxEntries, \* LLM_CALL_CACHE_MAX_ENTRIES
  MaxCalls,   \* bound of the model: calls that change a file or the cache
  Nil,        \* no file, no call
  Empty,      \* a file truncated and not written yet
  Torn,       \* a file or the end of a line that is no JSON
  Junk        \* a line that is no JSON

VARIABLES
  disk,       \* disk[f]: checkpoint.json and llm_cache.json
  temp,       \* temp[f]: checkpoint.tmp and llm_cache.tmp
  job,        \* job[h]: the save h is in, or Nil
  receiptLog, \* the lines of receipts.jsonl
  llm,        \* llm[h][c]: when h cached call c, or 0
  calls,      \* history: calls begun
  known,      \* history: what the calls that returned True recorded
  contested,  \* history: has a call begun during the save of another?
  receipted,  \* history: receipts written before an append was cut off
  mixed       \* history: was the cache ever loaded over entries in memory?

durableVars == <<disk, temp, job, receiptLog, llm, calls, known, contested, receipted, mixed>>

Files == {"checkpoint", "llm"}

\* A checkpoint: the call that set its phase, and the calls that recorded a step.
Checkpoints == [phase : 0..MaxCalls, steps : SUBSET (1..MaxCalls)]

\* What a save writes into a file: a checkpoint, or the cache.
Caches == [entries : [Prompts -> 0..MaxCalls]]
Saved(f) == IF f = "checkpoint" THEN Checkpoints ELSE Caches

\* A file that is there, and a save that is under way.
Content(f) == [by : SUBSET Hooks, data : Saved(f) \union {Empty, Torn}]
Saves(f) == [file : {f}, at : {"open", "write", "replace"}, data : Saved(f), done : Checkpoints]

\* Who has the file open for writing, and what a reader finds in it.
File(by, data) == [by |-> by, data |-> data]

NoEntries == [c \in Prompts |-> 0]

Boot == [phase |-> 0, steps |-> {}]

Init ==
  /\ disk = [f \in Files |-> Nil]
  /\ temp = [f \in Files |-> Nil]
  /\ job = [h \in Hooks |-> Nil]
  /\ receiptLog = <<>>
  /\ llm = [h \in Hooks |-> NoEntries]
  /\ calls = 0
  /\ known = Boot
  /\ contested = FALSE
  /\ receipted = {}
  /\ mixed = FALSE

Readable(f) == disk[f] # Nil /\ disk[f].data \notin {Empty, Torn}

\* load_checkpoint: none if the file is missing or is no JSON.
Checkpoint == IF Readable("checkpoint") THEN disk["checkpoint"].data ELSE Nil

-----------------------------------------------------------------------------
(* A save, of the checkpoint or the cache, in three steps.                 *)

\* data is what to write, done what is known once the call returns True.
StartSave(h, f, data, done) ==
  /\ job[h] = Nil
  /\ calls < MaxCalls
  /\ calls' = calls + 1
  /\ job' = [job EXCEPT ![h] = [file |-> f, at |-> "open", data |-> data, done |-> done]]
  /\ contested' = (contested \/ \E g \in Hooks : job[g] # Nil)
  /\ UNCHANGED <<disk, temp, receiptLog, llm, known, receipted, mixed>>

InSave(h, at) == job[h] # Nil /\ job[h].at = at

\* Mutant of OpenTemp: the file itself is written, not a temporary one.
OpenTempDirect(h) ==
  /\ InSave(h, "open")
  /\ LET f == job[h].file IN
     /\ disk' = [disk EXCEPT ![f] = File({}, Empty)]
     /\ temp' = [temp EXCEPT ![f] = File({h}, Empty)]
  /\ job' = [job EXCEPT ![h].at = "write"]
  /\ UNCHANGED <<receiptLog, llm, calls, known, contested, receipted, mixed>>

\* write_text truncates the temporary file if there is one.
OpenTemp(h) ==
  /\ InSave(h, "open")
  /\ LET f == job[h].file IN
     temp' = [temp EXCEPT ![f] = File(IF @ = Nil THEN {h} ELSE @.by \union {h}, Empty)]
  /\ job' = [job EXCEPT ![h].at = "write"]
  /\ UNCHANGED <<disk, receiptLog, llm, calls, known, contested, receipted, mixed>>

\* The content goes into the file that h opened, whatever its name is by now; on
\* top of what another process wrote, the longer one's end remains.
Written(h, files, contents) ==
  LET f == job[h].file IN
  IF files[f] # Nil /\ h \in files[f].by
  THEN {[files EXCEPT ![f] = File(@.by \ {h}, d)] :
          d \in IF files[f].data = Empty THEN {contents} ELSE {contents, Torn}}
  ELSE {files}

WriteTemp(h) ==
  /\ InSave(h, "write")
  /\ temp' \in Written(h, temp, job[h].data)
  /\ disk' \in Written(h, disk, job[h].data)
  /\ job' = [job EXCEPT ![h].at = "replace"]
  /\ UNCHANGED <<receiptLog, llm, calls, known, contested, receipted, mixed>>

\* tmp.replace: the call returns True.
Replace(h) ==
  /\ InSave(h, "replace")
  /\ LET f == job[h].file IN
     /\ temp[f] # Nil
     /\ disk' = [disk EXCEPT ![f] = temp[f]]
     /\ temp' = [temp EXCEPT ![f] = Nil]
  /\ known' = job[h].done
  /\ job' = [job EXCEPT ![h] = Nil]
  /\ UNCHANGED <<receiptLog, llm, calls, contested, receipted, mixed>>

\* Another process has renamed it: the call ends with an exception.
ReplaceMissing(h) ==
  /\ InSave(h, "replace")
  /\ temp[job[h].file] = Nil
  /\ job' = [job EXCEPT ![h] = Nil]
  /\ UNCHANGED <<disk, temp, receiptLog, llm, calls, known, contested, receipted, mixed>>

\* A write fails, or the process dies: half of the content is in the file.
Abandoned(h) ==
  IF InSave(h, "write")
  THEN /\ temp' \in Written(h, temp, Torn)
       /\ disk' \in Written(h, disk, Torn)
  ELSE UNCHANGED <<disk, temp>>

SaveFails(h) ==
  /\ job[h] # Nil
  /\ Abandoned(h)
  /\ job' = [job EXCEPT ![h] = Nil]
  /\ UNCHANGED <<receiptLog, llm, calls, known, contested, receipted, mixed>>

Exit(h) ==
  /\ Abandoned(h)
  /\ job' = [job EXCEPT ![h] = Nil]
  /\ llm' = [llm EXCEPT ![h] = NoEntries]
  /\ UNCHANGED <<receiptLog, calls, known, contested, receipted, mixed>>

-----------------------------------------------------------------------------
(* The calls.                                                              *)

CreateInitial(h) == StartSave(h, "checkpoint", Boot, Boot)

InPhase(c, n) == [c EXCEPT !.phase = n]

WithStep(c, n) == [c EXCEPT !.steps = @ \union {n}]

\* Each call that changes the checkpoint writes all of it as it has loaded it.
AdvancePhase(h) ==
  /\ Checkpoint # Nil
  /\ StartSave(h, "checkpoint", InPhase(Checkpoint, calls + 1), InPhase(known, calls + 1))

RecordStep(h) ==
  /\ Checkpoint # Nil
  /\ StartSave(h, "checkpoint", WithStep(Checkpoint, calls + 1), WithStep(known, calls + 1))

\* emit_tool_receipt: the line, or its beginning.  It also loads the checkpoint
\* to add the receipt, but from a directory ".devin" inside ".devin", where there
\* never is one.
Emit(h, t) ==
  /\ job[h] = Nil
  /\ calls < MaxCalls
  /\ calls' = calls + 1
  /\ \E line \in {t, Torn} :
       /\ receiptLog' = IF receiptLog # <<>> /\ Last(receiptLog) = Torn
                        THEN Append(Front(receiptLog), IF line = Torn THEN Torn ELSE Junk)
                        ELSE Append(receiptLog, line)
       /\ receipted' = IF line = Torn \/ \E n \in DOMAIN receiptLog : receiptLog[n] \in {Torn, Junk}
                       THEN receipted ELSE receipted \union {t}
  /\ UNCHANGED <<disk, temp, job, llm, known, contested, mixed>>

\* check_idempotent: the tool calls with a receipt before the first line that is
\* no JSON.
Found ==
  {receiptLog[n] : n \in {m \in DOMAIN receiptLog :
                            \A l \in 1..m : receiptLog[l] \notin {Torn, Junk}}}

Size(h) == {c \in Prompts : llm[h][c] # 0}

\* Mutant of Oldest: nothing makes room for a new entry.
OldestNone(h) == {}

\* The entry that llm_cache_put removes first if the cache is full.
Oldest(h) == {c \in Size(h) : \A d \in Size(h) : llm[h][c] <= llm[h][d]}

Put(h, c) ==
  /\ job[h] = Nil
  /\ calls < MaxCalls
  /\ calls' = calls + 1
  /\ LET old == IF Cardinality(Size(h)) >= MaxEntries THEN Oldest(h) ELSE {} IN
     llm' = [llm EXCEPT ![h] = [d \in Prompts |->
               IF d = c THEN calls + 1 ELSE IF d \in old THEN 0 ELSE @[d]]]
  /\ UNCHANGED <<disk, temp, job, receiptLog, known, contested, receipted, mixed>>

Persist(h) == StartSave(h, "llm", [entries |-> llm[h]], known)

\* resume_session: with a checkpoint, the persisted entries over those in memory.
Resume(h) ==
  /\ job[h] = Nil
  /\ Checkpoint # Nil
  /\ Readable("llm")
  /\ LET saved == disk["llm"].data.entries IN
     /\ llm' = [llm EXCEPT ![h] = [c \in Prompts |-> IF saved[c] # 0 THEN saved[c] ELSE @[c]]]
     /\ mixed' = (mixed \/ Size(h) # {})
  /\ UNCHANGED <<disk, temp, job, receiptLog, calls, known, contested, receipted>>

Next ==
  \E h \in Hooks :
    \/ CreateInitial(h) \/ AdvancePhase(h) \/ RecordStep(h) \/ Persist(h) \/ Resume(h)
    \/ OpenTemp(h) \/ WriteTemp(h) \/ Replace(h) \/ ReplaceMissing(h)
    \/ SaveFails(h) \/ Exit(h)
    \/ \E t \in Tools : Emit(h, t)
    \/ \E c \in Prompts : Put(h, c)

Spec == Init /\ [][Next]_durableVars

-----------------------------------------------------------------------------
(* Properties.                                                             *)

\* Type invariant.  The cache keeps to its limit, also across processes, unless
\* one was loaded over entries in memory.
TypeOK ==
  /\ \A f \in Files : {disk[f], temp[f]} \subseteq Content(f) \union {Nil}
  /\ \A h \in Hooks : \E f \in Files : job[h] \in Saves(f) \union {Nil}
  /\ receiptLog \in Seq(Tools \union {Torn, Junk})
  /\ llm \in [Hooks -> [Prompts -> 0..MaxCalls]]
  /\ calls \in 0..MaxCalls
  /\ known \in Checkpoints
  /\ receipted \subseteq Tools
  /\ {contested, mixed} \subseteq BOOLEAN
  /\ mixed \/ \A h \in Hooks : Cardinality(Size(h)) <= MaxEntries

\* As long as no two calls overlap, the checkpoint is exactly what the calls that
\* returned True made of it, whichever process made them and wherever another one
\* failed or died in its save: it always loads, with every step and the phase.
CheckpointKept ==
  ~contested /\ disk["checkpoint"] # Nil => Checkpoint = known

\* A tool call whose receipt was written before an append was cut off is found by
\* check_idempotent for ever, whatever is appended to the cut line.
ReceiptsFound == receipted \subseteq Found
=============================================================================
