---------------------------- MODULE SessionStore ----------------------------
(***************************************************************************)
(* Updating a shared JSON file: _locked_json_update of                     *)
(* HLK/hooks/ahd_session_state.py, which write_session_state and           *)
(* write_context_flags go through, over the lock of FileLock.              *)
(*                                                                         *)
(* The file is abstracted to one counter per caller, the field that caller *)
(* owns: an update merges a new value of its own field into what it read   *)
(* (post_tool_use writes last_heartbeat, loop-memory current_subtask).  A  *)
(* file that is no JSON is taken for the default by whoever reads it, and  *)
(* is Empty here like one that is not there.  Writing the temporary file   *)
(* is one step: that two holders of the lock could also interleave inside  *)
(* it is left out.                                                         *)
(*                                                                         *)
(* No caller of _locked_json_update has a lock file that is kept.  A kept  *)
(* one is held for the body of another module, which is not here.          *)
(***************************************************************************)
EXTENDS FileLock, Integers

CONSTANT MaxUpdates  \* bound of the model: how far a field may count

ASSUME StoreAssumption == MaxUpdates \in Nat

VARIABLES
  file,   \* the JSON file: the last value of each caller's field, 0 if absent
  tmp,    \* the file path + ".tmp", the same for every caller, or None
  step,   \* step[p]: how far p is in the body of _locked_json_update
  copy,   \* copy[p]: the data p read and merged into
  acked,  \* history: the updates of p that returned without an exception
  doubts, \* history: why p might undo the others: it did not hold the lock
          \* alone, or it could not read the file
  lossy   \* history: the doubts of those who have replaced the file

storeVars == <<file, tmp, step, copy, acked, doubts, lossy>>

vars == <<lockVars, storeVars>>

Data == [Callers -> Nat]

Empty == [p \in Callers |-> 0]

Doubts == {"together", "blind"}

Init ==
  /\ InitLock
  /\ file = Empty
  /\ tmp = None
  /\ step = [p \in Callers |-> "read"]
  /\ copy = [p \in Callers |-> Empty]
  /\ acked = Empty
  /\ doubts = [p \in Callers |-> {}]
  /\ lossy = {}

\* {**existing, **data}: only the caller's own field changes.
Merge(data, p) == [data EXCEPT ![p] = @ + 1]

To(p, from, to) ==
  /\ lock[p] = "held"
  /\ ~persistent
  /\ step[p] = from
  /\ step' = [step EXCEPT ![p] = to]
  /\ UNCHANGED lockVars

\* _acquire_lock, whatever it takes, until it returns or raises.
Enter(p) ==
  /\ \/ acked[p] < MaxUpdates /\ Request(p)
     \/ Open(p) \/ Busy(p)
  /\ UNCHANGED storeVars

\* The lock is taken, perhaps beside others who hold it.
Obtain(p) ==
  /\ Lock(p)
  /\ doubts' = [q \in Callers |->
       IF lock'[q] = "held" /\ \E o \in Callers : lock[o] = "held"
         THEN doubts[q] \union {"together"}
         ELSE doubts[q]]
  /\ UNCHANGED <<file, tmp, step, copy, acked, lossy>>

Read(p) ==
  /\ To(p, "read", "write")
  /\ copy' = [copy EXCEPT ![p] = file]
  /\ UNCHANGED <<file, tmp, acked, doubts, lossy>>

\* An OSError while reading a file that is there: the default is taken.
Misread(p) ==
  /\ To(p, "read", "write")
  /\ copy' = [copy EXCEPT ![p] = Empty]
  /\ doubts' = [doubts EXCEPT ![p] = @ \union {"blind"}]
  /\ UNCHANGED <<file, tmp, acked, lossy>>

\* Mutant of WriteTmp: the update starts over from the default.
WriteTmpFresh(p) ==
  /\ copy[p][p] < MaxUpdates
  /\ To(p, "write", "replace")
  /\ tmp' = Merge([Empty EXCEPT ![p] = copy[p][p]], p)
  /\ UNCHANGED <<file, copy, acked, doubts, lossy>>

WriteTmp(p) ==
  /\ copy[p][p] < MaxUpdates
  /\ To(p, "write", "replace")
  /\ tmp' = Merge(copy[p], p)
  /\ UNCHANGED <<file, copy, acked, doubts, lossy>>

\* The temporary file cannot be opened, or is cut off.
WriteFails(p) ==
  /\ To(p, "write", "failed")
  /\ tmp' \in {tmp, Empty}
  /\ UNCHANGED <<file, copy, acked, doubts, lossy>>

Replace(p) ==
  /\ To(p, "replace", "done")
  /\ tmp # None
  /\ file' = tmp
  /\ tmp' = None
  /\ lossy' = lossy \union doubts[p]
  /\ UNCHANGED <<copy, acked, doubts>>

\* Somebody else has renamed the temporary file, or it cannot be renamed.
ReplaceFails(p) ==
  /\ To(p, "replace", "failed")
  /\ UNCHANGED <<file, tmp, copy, acked, doubts, lossy>>

\* The update of p is over.
Forget(p) ==
  /\ step' = [step EXCEPT ![p] = "read"]
  /\ copy' = [copy EXCEPT ![p] = Empty]
  /\ doubts' = [doubts EXCEPT ![p] = {}]

\* The finally clause, and the return or the exception after it.
Leave(p) ==
  \/ /\ persistent \/ step[p] \in {"done", "failed"}
     /\ Release(p)
     /\ Forget(p)
     /\ acked' = IF step[p] = "done" THEN [acked EXCEPT ![p] = @ + 1] ELSE acked
     /\ UNCHANGED <<file, tmp, lossy>>
  \/ Unlink(p) /\ UNCHANGED storeVars

\* The process dies, perhaps inside the write of the temporary file.
Crash(p) ==
  /\ Die(p)
  /\ Forget(p)
  /\ tmp' \in IF step[p] = "write" THEN {tmp, Empty} ELSE {tmp}
  /\ UNCHANGED <<file, acked, lossy>>

Next ==
  \E p \in Callers :
    \/ Enter(p) \/ Obtain(p) \/ Read(p) \/ Misread(p)
    \/ WriteTmp(p) \/ WriteFails(p) \/ Replace(p) \/ ReplaceFails(p)
    \/ Leave(p) \/ Crash(p)

Spec == Init /\ [][Next]_vars

-----------------------------------------------------------------------------
(* Properties.                                                             *)

\* Type invariant.
TypeOK ==
  /\ LockTypeOK
  /\ file \in Data
  /\ tmp \in Data \union {None}
  /\ step \in [Callers -> {"read", "write", "replace", "done", "failed"}]
  /\ copy \in [Callers -> Data]
  /\ acked \in Data
  /\ doubts \in [Callers -> SUBSET Doubts]
  /\ lossy \subseteq Doubts

UpdatesKept == \A p \in Callers : file[p] >= acked[p]

\* An update whose call returned is undone by nobody who held the lock alone and
\* could read the file, through timeouts, failures and deaths of any caller: none
\* is lost before somebody else has replaced the file.
NoLostUpdate == lossy = {} => UpdatesKept

\* ahd_session_state.py:157 "prevents lost updates under concurrent writes",
\* said of the session lock, whose file is not kept; updates after one that could
\* not read the file aside.
SessionUpdatesKept == ~persistent /\ "blind" \notin lossy => UpdatesKept
=============================================================================
