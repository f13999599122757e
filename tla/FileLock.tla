------------------------------ MODULE FileLock ------------------------------
(***************************************************************************)
(* The inter-process lock of HLK/hooks/ahd_session_lock.py: _acquire_lock  *)
(* and _release_lock over the filelock library, which opens the lock file  *)
(* and then tries flock on it without waiting.                             *)
(*                                                                         *)
(* flock locks an inode, not a name.  _release_lock removes the name after *)
(* unlocking, unless the lock file lives in a directory called ".locks".   *)
(*                                                                         *)
(* A caller is one call of _acquire_lock at a time, in a process or thread *)
(* of its own: filelock opens the file anew for each.  The fallbacks for a *)
(* missing filelock, a hard dependency of the harness, are not modelled.   *)
(***************************************************************************)
CONSTANTS
  Callers,    \* the processes and threads that use one lock path
  Inodes,     \* lock files that can exist at a time, named or only open
  None        \* no inode, no caller

ASSUME LockAssumption ==
  /\ None \notin Callers
  /\ None \notin Inodes

VARIABLES
  persistent, \* does the lock file live in ".locks"?  Chosen once
  path,       \* the inode the lock path names, or None
  fd,         \* fd[p]: the inode p has open, or None
  owner,      \* owner[i]: the caller that holds the flock of inode i, or None
  lock        \* lock[p]: how far p is in _acquire_lock or _release_lock

lockVars == <<persistent, path, fd, owner, lock>>

LockStates == {"idle", "trying", "opened", "held", "unlinking"}

InitLock ==
  /\ persistent \in BOOLEAN
  /\ path = None
  /\ fd = [p \in Callers |-> None]
  /\ owner = [i \in Inodes |-> None]
  /\ lock = [p \in Callers |-> "idle"]

\* Inodes that no name and no open file keeps alive: a new file takes one.
Unused == {i \in Inodes : path # i /\ \A p \in Callers : fd[p] # i}

Move(p, from, to) ==
  /\ lock[p] = from
  /\ lock' = [lock EXCEPT ![p] = to]

\* _acquire_lock is called.
Request(p) ==
  /\ Move(p, "idle", "trying")
  /\ UNCHANGED <<persistent, path, fd, owner>>

\* os.open(..., O_CREAT | O_TRUNC): what the path names now, or a new file.
Open(p) ==
  /\ Move(p, "trying", "opened")
  /\ \E i \in Inodes :
       /\ IF path = None THEN i \in Unused ELSE i = path
       /\ path' = i
       /\ fd' = [fd EXCEPT ![p] = i]
  /\ UNCHANGED <<persistent, owner>>

\* flock(LOCK_EX | LOCK_NB) succeeds: filelock takes the lock for acquired.
Lock(p) ==
  /\ Move(p, "opened", "held")
  /\ owner[fd[p]] = None
  /\ owner' = [owner EXCEPT ![fd[p]] = p]
  /\ UNCHANGED <<persistent, path, fd>>

\* Mutant of Busy: a busy lock is reported as taken.
BusyTaken(p) ==
  /\ Move(p, "opened", "held")
  /\ owner[fd[p]] # None
  /\ UNCHANGED <<persistent, path, fd, owner>>

\* flock fails: the file is closed and the attempt repeated after a pause, or
\* the timeout is over and LockAcquireError leaves _acquire_lock.
Busy(p) ==
  /\ \E to \in {"trying", "idle"} : Move(p, "opened", to)
  /\ owner[fd[p]] # None
  /\ fd' = [fd EXCEPT ![p] = None]
  /\ UNCHANGED <<persistent, path, owner>>

\* Mutant of Drop: the file is left open and locked.
DropNothing(p) == UNCHANGED <<fd, owner>>

Drop(p) ==
  /\ owner' = [i \in Inodes |-> IF owner[i] = p THEN None ELSE owner[i]]
  /\ fd' = [fd EXCEPT ![p] = None]

\* handle.release(): unlock and close.  The unlink is still to come.
Release(p) ==
  /\ Move(p, "held", IF persistent THEN "idle" ELSE "unlinking")
  /\ Drop(p)
  /\ UNCHANGED <<persistent, path>>

\* Path(lock_file).unlink(): whatever file the path names by now.
Unlink(p) ==
  /\ Move(p, "unlinking", "idle")
  /\ path' = None
  /\ UNCHANGED <<persistent, fd, owner>>

\* The process dies: the kernel closes its files, which unlocks them.
Die(p) ==
  /\ lock[p] # "idle"
  /\ lock' = [lock EXCEPT ![p] = "idle"]
  /\ Drop(p)
  /\ UNCHANGED <<persistent, path>>

-----------------------------------------------------------------------------
(* Properties.                                                             *)

\* Type invariant.
LockTypeOK ==
  /\ persistent \in BOOLEAN
  /\ path \in Inodes \union {None}
  /\ fd \in [Callers -> Inodes \union {None}]
  /\ owner \in [Inodes -> Callers \union {None}]
  /\ lock \in [Callers -> LockStates]

HeldByOne ==
  \A p, q \in Callers : lock[p] = "held" /\ lock[q] = "held" => p = q

\* A lock whose file is kept excludes: no two callers are between the return of
\* _acquire_lock and _release_lock, through timeouts and deaths of the others.
MutualExclusion == persistent => HeldByOne

\* A lock is never left behind by a caller that timed out or died: an inode is
\* locked exactly while its owner is between acquire and release.
NoOrphanLock ==
  \A i \in Inodes, p \in Callers : owner[i] = p <=> lock[p] = "held" /\ fd[p] = i
=============================================================================
