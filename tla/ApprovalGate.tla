---------------------------- MODULE ApprovalGate ----------------------------
(***************************************************************************)
(* The approval gate of one document (approval_gate_commands.py, _state,   *)
(* _archive): approve, reject, request_changes and status, while the       *)
(* document is edited, and what plan_enforce.py makes of the result.       *)
(*                                                                         *)
(* A document and its hash are the same value.  A signature is the hash it *)
(* was made for; keys, names and times are not modelled, nor is the audit  *)
(* log: nothing reads it, and a failing write of it is ignored.            *)
(***************************************************************************)
EXTENDS Naturals, FiniteSets

CONSTANTS
  Reviewers,    \* processes that run a command
  Documents,    \* the contents the document takes
  MaxDecisions, \* bound of the model: commands begun
  MaxEdits,     \* bound of the model: edits
  Nil,          \* no file, no signature, no command
  Torn          \* a file cut off by a failed or killed write

VARIABLES
  required,   \* signature_required, when the reviewer configuration can be read
  document,   \* the plan file
  gate,       \* its approval state file
  archive,    \* archive[h]: what lies under the hash h in .devin/artifacts
  review,     \* review[p]: the command p is in
  begun, edits,
  verdict,    \* history: the last verdict saved; Torn if it was cut off, Nil if status
              \* could not read it
  entangled,  \* history: has a command begun during another?
  moved,      \* history: was the document edited during an approval?
  chopped     \* history: has a write of the archive been cut off?

gateVars == <<required, document, gate, archive, review, begun, edits,
              verdict, entangled, moved, chopped>>

Verdicts == {"approved", "rejected", "changes_requested"}

\* A state that was decided; `checked` is history: could the configuration be read?
GateState == [status : Verdicts, hash : Documents, signature : Documents \union {Nil},
              archived : BOOLEAN, checked : BOOLEAN]

Pending == [status |-> "pending"]

Init ==
  /\ required \in BOOLEAN
  /\ document \in Documents
  /\ gate = Nil
  /\ archive = [h \in Documents |-> Nil]
  /\ review = [p \in Reviewers |-> Nil]
  /\ begun = 0
  /\ edits = 0
  /\ verdict = Nil
  /\ entangled = FALSE
  /\ moved = FALSE
  /\ chopped = FALSE

\* An agent rewrites the document.
Edit ==
  /\ edits < MaxEdits
  /\ edits' = edits + 1
  /\ document' \in Documents \ {document}
  /\ moved' = (moved \/ \E p \in Reviewers : review[p] # Nil)
  /\ UNCHANGED <<required, gate, archive, review, begun, verdict, entangled, chopped>>

Begin(p, command) ==
  /\ review[p] = Nil
  /\ begun < MaxDecisions
  /\ begun' = begun + 1
  /\ review' = [review EXCEPT ![p] = command]
  /\ entangled' = (entangled \/ \E q \in Reviewers : review[q] # Nil)

At(p, step) == review[p] # Nil /\ review[p].step = step

\* status: a state that is missing, cut off or cannot be read is pending, and is
\* saved as it names no document yet.  The read may fail whatever the file is.
Status(p) ==
  /\ Begin(p, [step |-> "init", state |-> Pending])
  /\ verdict' = IF gate \in {Nil, Torn} THEN verdict ELSE Nil
  /\ UNCHANGED <<required, document, gate, archive, edits, moved, chopped>>

SavePending(p) ==
  /\ At(p, "init")
  /\ gate' = Pending
  /\ review' = [review EXCEPT ![p] = Nil]
  /\ UNCHANGED <<required, document, archive, begun, edits, verdict, entangled, moved, chopped>>

\* _write_approval_state: the hash of the document as it is, and the check of the
\* signature that the reviewer gave for one: without it the call ends here.  A
\* configuration that cannot be read requires none.
Decide(p, status, signature, checked) ==
  /\ ~checked => required /\ status = "approved"
  /\ IF status = "approved" THEN required /\ checked => signature = document
                            ELSE signature = Nil
  /\ Begin(p, [step |-> IF status = "approved" THEN "archive" ELSE "save",
               state |-> [status |-> status, hash |-> document,
                          signature |-> signature, archived |-> FALSE,
                          checked |-> checked]])
  /\ UNCHANGED <<required, document, gate, archive, edits, verdict, moved, chopped>>

Archived(p) ==
  review' = [review EXCEPT ![p] = [step |-> "save", state |-> [@.state EXCEPT !.archived = TRUE]]]

\* _archive_approved_plan: the document as it is now, under the hash of before,
\* unless there is a file already.
Archive(p) ==
  /\ At(p, "archive")
  /\ LET h == review[p].state.hash IN
     archive' = IF archive[h] = Nil THEN [archive EXCEPT ![h] = document] ELSE archive
  /\ Archived(p)
  /\ UNCHANGED <<required, document, gate, begun, edits, verdict, entangled, moved, chopped>>

\* An OSError, which does not keep the approval back.
ArchiveFails(p) ==
  /\ At(p, "archive")
  /\ LET h == review[p].state.hash IN
     /\ archive[h] = Nil
     /\ archive' \in {archive, [archive EXCEPT ![h] = Torn]}
     /\ chopped' = (chopped \/ archive'[h] = Torn)
  /\ review' = [review EXCEPT ![p].step = "save"]
  /\ UNCHANGED <<required, document, gate, begun, edits, verdict, entangled, moved>>

\* Mutant of SaveState: the hash is taken again when the state is saved.
SaveStateRehashed(p) ==
  /\ At(p, "save")
  /\ gate' = [review[p].state EXCEPT !.hash = document]
  /\ verdict' = [review[p].state EXCEPT !.hash = document]
  /\ review' = [review EXCEPT ![p] = Nil]
  /\ UNCHANGED <<required, document, archive, begun, edits, entangled, moved, chopped>>

SaveState(p) ==
  /\ At(p, "save")
  /\ gate' = review[p].state
  /\ verdict' = review[p].state
  /\ review' = [review EXCEPT ![p] = Nil]
  /\ UNCHANGED <<required, document, archive, begun, edits, entangled, moved, chopped>>

\* The state file cannot be written, or the process dies: a write is cut off.
CommandFails(p) ==
  /\ review[p] # Nil
  /\ \/ /\ At(p, "init") \/ At(p, "save")
        /\ gate' = Torn
        /\ verdict' = IF At(p, "save") THEN Torn ELSE verdict
        /\ UNCHANGED <<archive, chopped>>
     \/ /\ At(p, "archive")
        /\ archive[review[p].state.hash] = Nil
        /\ archive' = [archive EXCEPT ![review[p].state.hash] = Torn]
        /\ chopped' = TRUE
        /\ UNCHANGED <<gate, verdict>>
     \/ UNCHANGED <<gate, archive, verdict, chopped>>
  /\ review' = [review EXCEPT ![p] = Nil]
  /\ UNCHANGED <<required, document, begun, edits, entangled, moved>>

Next ==
  \/ Edit
  \/ \E p \in Reviewers :
       \/ Status(p) \/ SavePending(p)
       \/ \E status \in Verdicts, signature \in Documents \union {Nil}, checked \in BOOLEAN :
            Decide(p, status, signature, checked)
       \/ Archive(p) \/ ArchiveFails(p) \/ SaveState(p) \/ CommandFails(p)

Spec == Init /\ [][Next]_gateVars

\* plan_enforce: the orchestrator's plan is done and approved, its gate as well.
Allowed == gate \notin {Nil, Torn} /\ gate.status = "approved"

-----------------------------------------------------------------------------
(* Properties.                                                             *)

\* Type invariant.
TypeOK ==
  /\ document \in Documents
  /\ gate \in {Nil, Torn, Pending} \/ gate \in GateState
  /\ archive \in [Documents -> Documents \union {Nil, Torn}]
  /\ \A p \in Reviewers :
       review[p] = Nil \/ review[p].step \in {"init", "archive", "save"}
  /\ begun \in 0..MaxDecisions
  /\ edits \in 0..MaxEdits
  /\ {required, entangled, moved, chopped} \subseteq BOOLEAN

\* Whatever is edited or decided at the same time: the hash that an approval is
\* saved with is one its signature is for, if signatures are required and that could
\* be read when it was given.  While no two commands overlap, the last verdict
\* stays: status puts it back to pending only if it fails to read it.  And unless the
\* document was edited during a command or an archive was cut off, the archive under
\* the hash of a document that plan_enforce lets through holds that very document,
\* or none as it could not be written.
ApprovalKept ==
  /\ Allowed /\ required /\ gate.checked => gate.signature = gate.hash
  /\ ~entangled /\ verdict \notin {Nil, Torn} => gate = verdict
  /\ Allowed /\ ~moved /\ ~chopped =>
       archive[gate.hash] \in {gate.hash} \union (IF gate.archived THEN {} ELSE {Nil})
=============================================================================
