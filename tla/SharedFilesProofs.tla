------------------------- MODULE SharedFilesProofs --------------------------
(***************************************************************************)
(* Theorems about the parts of Shared that keep files for others to read:  *)
(* the session state files under their locks, the blackboard, the event    *)
(* bus, the durable sessions and the state log, for any processes and any  *)
(* values of the bounds. Every part has an inductive invariant, which a    *)
(* step of the part keeps; while another part runs its variables stay as   *)
(* they are.                                                               *)
(***************************************************************************)
EXTENDS Shared, FiniteSetTheorems, SequenceTheorems, WellFoundedInduction, TLAPS

-----------------------------------------------------------------------------
(* What every step of _acquire_lock and _release_lock preserves, for any   *)
(* number of callers and inodes.                                           *)

\* One step of one call, or a step of the program that leaves its locks alone.
LockStep(p) ==
  \/ Request(p) \/ Open(p) \/ Lock(p) \/ Busy(p)
  \/ Release(p) \/ Unlink(p) \/ Die(p)

\* A step of the program, as the locks see it.
LockNext == (\E p \in Callers : LockStep(p)) \/ UNCHANGED lockVars

\* A caller has the file open exactly while it tries or holds the lock.
OpenWhileUsed ==
  \A p \in Callers : fd[p] # None <=> lock[p] \in {"opened", "held"}

\* A lock file that is kept is never unlinked, so all who have it open have the
\* same inode open.
OneInode ==
  persistent => \A p \in Callers : /\ fd[p] # None => fd[p] = path
                                   /\ lock[p] # "unlinking"

\* The inductive invariant of the lock.
LockInv == LockTypeOK /\ OpenWhileUsed /\ NoOrphanLock /\ OneInode

-----------------------------------------------------------------------------

\* Nobody has or holds a lock before the first call.
LEMMA LockInitially == InitLock => LockInv
  BY LockAssumption
  DEF InitLock, LockInv, LockTypeOK, LockStates, OpenWhileUsed, NoOrphanLock, OneInode

\* Every step of the lock keeps its types.
LEMMA LockTyped ==
  ASSUME LockInv, NEW p \in Callers, LockStep(p)
  PROVE  LockTypeOK'
<1> USE DEF LockInv, LockTypeOK, LockStates, Move
<1>1. CASE Request(p)
  BY <1>1 DEF Request
<1>2. CASE Open(p)
  BY <1>2 DEF Open
<1>3. CASE Lock(p)
  BY <1>3 DEF Lock
<1>4. CASE Busy(p)
  BY <1>4 DEF Busy
<1>5. CASE Release(p)
  BY <1>5 DEF Release, Drop
<1>6. CASE Unlink(p)
  BY <1>6 DEF Unlink
<1>7. CASE Die(p)
  BY <1>7 DEF Die, Drop
<1>8. QED
  BY <1>1, <1>2, <1>3, <1>4, <1>5, <1>6, <1>7 DEF LockStep

\* Opening, closing and dying keep the open files in step with the call.
LEMMA OpenTracked ==
  ASSUME LockInv, NEW p \in Callers, LockStep(p)
  PROVE  OpenWhileUsed'
<1> USE LockAssumption DEF LockInv, LockTypeOK, LockStates, OpenWhileUsed, Move
<1>1. CASE Request(p)
  BY <1>1 DEF Request
<1>2. CASE Open(p)
  BY <1>2 DEF Open
<1>3. CASE Lock(p)
  BY <1>3 DEF Lock
<1>4. CASE Busy(p)
  BY <1>4 DEF Busy
<1>5. CASE Release(p)
  BY <1>5 DEF Release, Drop
<1>6. CASE Unlink(p)
  BY <1>6 DEF Unlink
<1>7. CASE Die(p)
  BY <1>7 DEF Die, Drop
<1>8. QED
  BY <1>1, <1>2, <1>3, <1>4, <1>5, <1>6, <1>7 DEF LockStep

\* An inode changes its owner only when the owner comes or goes.
LEMMA OwnersTracked ==
  ASSUME LockInv, NEW p \in Callers, LockStep(p)
  PROVE  NoOrphanLock'
<1> USE LockAssumption
    DEF LockInv, LockTypeOK, LockStates, NoOrphanLock, OpenWhileUsed, Move
<1>1. CASE Request(p)
  BY <1>1 DEF Request
<1>2. CASE Open(p)
  BY <1>2 DEF Open
<1>3. CASE Lock(p)
  BY <1>3 DEF Lock
<1>4. CASE Busy(p)
  BY <1>4 DEF Busy
<1>5. CASE Release(p)
  BY <1>5 DEF Release, Drop
<1>6. CASE Unlink(p)
  BY <1>6 DEF Unlink
<1>7. CASE Die(p)
  BY <1>7 DEF Die, Drop
<1>8. QED
  BY <1>1, <1>2, <1>3, <1>4, <1>5, <1>6, <1>7 DEF LockStep

\* Only Unlink takes the name away, and a lock that is kept never gets there.
LEMMA InodeKept ==
  ASSUME LockInv, NEW p \in Callers, LockStep(p)
  PROVE  OneInode'
<1> USE LockAssumption DEF LockInv, LockTypeOK, LockStates, OneInode, Move
<1>1. CASE Request(p)
  BY <1>1 DEF Request
<1>2. CASE Open(p)
  <2>1. PICK i \in Inodes : /\ IF path = None THEN i \in Unused ELSE i = path
                            /\ path' = i
                            /\ fd' = [fd EXCEPT ![p] = i]
    BY <1>2 DEF Open
  <2>2. ASSUME persistent, NEW q \in Callers, fd[q] # None
        PROVE  path' = path
    BY <2>1, <2>2
  <2>3. QED
    BY <1>2, <2>1, <2>2 DEF Open
<1>3. CASE Lock(p)
  BY <1>3 DEF Lock
<1>4. CASE Busy(p)
  BY <1>4 DEF Busy
<1>5. CASE Release(p)
  BY <1>5 DEF Release, Drop
<1>6. CASE Unlink(p)
  BY <1>6 DEF Unlink
<1>7. CASE Die(p)
  BY <1>7 DEF Die, Drop
<1>8. QED
  BY <1>1, <1>2, <1>3, <1>4, <1>5, <1>6, <1>7 DEF LockStep

\* The invariant of the lock is inductive.
LEMMA LockPreserved == LockInv /\ LockNext => LockInv'
<1> SUFFICES ASSUME LockInv, LockNext PROVE LockInv'
  OBVIOUS
<1>1. CASE \E p \in Callers : LockStep(p)
  BY <1>1, LockTyped, OpenTracked, OwnersTracked, InodeKept DEF LockInv
<1>2. CASE UNCHANGED lockVars
  BY <1>2 DEF lockVars, LockInv, LockTypeOK, OpenWhileUsed, NoOrphanLock, OneInode
<1>3. QED
  BY <1>1, <1>2 DEF LockNext

\* Two holders of a lock whose file is kept own the same inode: they are one.
LEMMA LockExcludes == LockInv => MutualExclusion
<1> SUFFICES ASSUME LockInv, persistent,
                    NEW p \in Callers, NEW q \in Callers,
                    lock[p] = "held", lock[q] = "held"
             PROVE  p = q
  BY DEF MutualExclusion, HeldByOne
<1>1. fd[p] = path /\ fd[q] = path /\ path \in Inodes
  BY DEF LockInv, LockTypeOK, OpenWhileUsed, OneInode
<1>2. owner[path] = p /\ owner[path] = q
  BY <1>1 DEF LockInv, NoOrphanLock
<1>3. QED
  BY <1>2

-----------------------------------------------------------------------------
(* The session state files: the update under the lock.                     *)

\* Merging a data record counts one field up.
LEMMA MergeTyped ==
  ASSUME NEW d \in Data, NEW p \in Callers
  PROVE  /\ Merge(d, p) \in Data
         /\ Merge(d, p)[p] = d[p] + 1
         /\ \A q \in Callers : q # p => Merge(d, p)[q] = d[q]
  BY DEF Merge, Data

\* The body of _locked_json_update only runs between acquire and release, and only
\* those who hold the lock have doubts.
InsideLock ==
  \A p \in Callers : step[p] # "read" \/ doubts[p] # {} => lock[p] = "held"

\* Whoever holds the lock beside somebody else has doubts.
AloneOrNot ==
  \A p, q \in Callers :
    lock[p] = "held" /\ lock[q] = "held" /\ p # q => doubts[p] # {}

\* While nobody with doubts has replaced the file: who has none still has what the
\* file holds and will rename that with one update, and the file is ahead of the
\* updates that returned.
BodyInv ==
  \A p \in Callers :
    /\ doubts[p] = {} /\ step[p] \in {"write", "replace"} => copy[p] = file
    /\ doubts[p] = {} /\ step[p] = "replace" => tmp = Merge(file, p)
    /\ acked[p] <= file[p]
    /\ step[p] = "done" => acked[p] < file[p]

\* The inductive invariant of the update.
Inv == TypeOK /\ LockInv /\ InsideLock /\ AloneOrNot /\ (lossy = {} => BodyInv)

-----------------------------------------------------------------------------
(* The lock under the store.                                               *)

\* The steps of the body, which leave the lock alone.
Body(p) ==
  Read(p) \/ Misread(p) \/ WriteTmp(p) \/ WriteFails(p) \/ Replace(p) \/ ReplaceFails(p)

\* What the program does to its locks are steps of the lock.
LEMMA StoreUsesLock == [Next]_vars => LockNext
<1> SUFFICES ASSUME [Next]_vars PROVE LockNext
  OBVIOUS
<1>1. CASE UNCHANGED vars
  BY <1>1 DEF vars, LockNext
<1>2. ASSUME NEW p \in Callers, Body(p) PROVE UNCHANGED lockVars
  BY <1>2 DEF Body, Read, Misread, WriteTmp, WriteFails, Replace, ReplaceFails, To
<1>3. ASSUME NEW p \in Callers, Enter(p) \/ Obtain(p) \/ Leave(p) \/ Crash(p)
      PROVE  LockStep(p)
  BY <1>3 DEF Enter, Obtain, Leave, Crash, LockStep
<1>4. QED
  BY <1>1, <1>2, <1>3 DEF Next, Body, LockNext

\* The lock's invariant holds of the store.
LEMMA LockSafe == Spec => []LockInv
<1>1. Init => LockInv
  BY LockInitially DEF Init
<1>2. LockInv /\ [Next]_vars => LockInv'
  BY LockPreserved, StoreUsesLock
<1>3. QED
  BY <1>1, <1>2, PTL DEF Spec

-----------------------------------------------------------------------------
(* Types.                                                                  *)

\* The file and its copies stay maps from the callers to numbers.
LEMMA StoreTyped ==
  ASSUME TypeOK, LockTypeOK', [Next]_vars
  PROVE  TypeOK'
<1> USE DEF TypeOK, To
<1>e. Empty \in Data
  BY DEF Empty, Data
<1>1. CASE UNCHANGED vars
  BY <1>1 DEF vars, storeVars
<1>2. ASSUME NEW p \in Callers, Enter(p) PROVE TypeOK'
  BY <1>2 DEF Enter, storeVars
<1>3. ASSUME NEW p \in Callers, Obtain(p) PROVE TypeOK'
  <2>1. doubts' \in [Callers -> SUBSET Doubts]
    BY <1>3 DEF Obtain, Doubts
  <2>2. QED
    BY <1>3, <2>1 DEF Obtain
<1>4. ASSUME NEW p \in Callers, Read(p) \/ Misread(p) PROVE TypeOK'
  <2>1. doubts' \in [Callers -> SUBSET Doubts]
    BY <1>4 DEF Read, Misread, Doubts
  <2>2. QED
    BY <1>4, <1>e, <2>1 DEF Read, Misread
<1>5. ASSUME NEW p \in Callers, WriteTmp(p) PROVE TypeOK'
  <2>1. Merge(copy[p], p) \in Data
    BY MergeTyped
  <2>2. QED
    BY <1>5, <2>1 DEF WriteTmp
<1>6. ASSUME NEW p \in Callers, WriteFails(p) \/ Replace(p) \/ ReplaceFails(p) PROVE TypeOK'
  BY <1>6, <1>e DEF WriteFails, Replace, ReplaceFails
<1>7. ASSUME NEW p \in Callers, Leave(p) PROVE TypeOK'
  <2>1. acked' \in Data
    BY <1>7 DEF Leave, storeVars, Data
  <2>2. QED
    BY <1>7, <1>e, <2>1 DEF Leave, Forget, storeVars
<1>8. ASSUME NEW p \in Callers, Crash(p) PROVE TypeOK'
  BY <1>8, <1>e DEF Crash, Forget
<1>9. QED
  BY <1>1, <1>2, <1>3, <1>4, <1>5, <1>6, <1>7, <1>8 DEF Next

\* Type correctness, whatever kind of lock is used.
THEOREM StoreTypeCorrect == Spec => []TypeOK
<1>1. Init => TypeOK
  BY LockInitially DEF Init, TypeOK, LockInv, Empty, Data
<1>2. TypeOK /\ LockInv' /\ [Next]_vars => TypeOK'
  BY StoreTyped DEF LockInv
<1>3. QED
  BY <1>1, <1>2, LockSafe, PTL DEF Spec

-----------------------------------------------------------------------------
(* The body of an update.                                                  *)

\* No step leaves the body of an update running without its lock.
LEMMA InsidePreserved ==
  ASSUME TypeOK, InsideLock, [Next]_vars
  PROVE  InsideLock'
<1> USE DEF TypeOK, LockTypeOK, InsideLock, To
<1>1. CASE UNCHANGED vars
  BY <1>1 DEF vars, lockVars, storeVars
<1>2. ASSUME NEW p \in Callers, Enter(p) PROVE InsideLock'
  BY <1>2 DEF Enter, storeVars, Request, Open, Busy, Move
<1>3. ASSUME NEW p \in Callers, Obtain(p) PROVE InsideLock'
  BY <1>3 DEF Obtain, Lock, Move
<1>4. ASSUME NEW p \in Callers, Body(p) PROVE InsideLock'
  BY <1>4 DEF Body, Read, Misread, WriteTmp, WriteFails, Replace, ReplaceFails, lockVars
<1>5. ASSUME NEW p \in Callers, Leave(p) PROVE InsideLock'
  BY <1>5 DEF Leave, Forget, storeVars, Release, Unlink, Move
<1>6. ASSUME NEW p \in Callers, Crash(p) PROVE InsideLock'
  BY <1>6 DEF Crash, Forget, Die
<1>7. QED
  BY <1>1, <1>2, <1>3, <1>4, <1>5, <1>6 DEF Next, Body

\* Taking a lock that others hold gives doubts to all of them.
LEMMA DoubtsPreserved ==
  ASSUME TypeOK, InsideLock, AloneOrNot, [Next]_vars
  PROVE  AloneOrNot'
<1> USE DEF TypeOK, LockTypeOK, AloneOrNot, To
<1>1. CASE UNCHANGED vars
  BY <1>1 DEF vars, lockVars, storeVars
<1>2. ASSUME NEW p \in Callers, Enter(p) PROVE AloneOrNot'
  BY <1>2 DEF Enter, storeVars, Request, Open, Busy, Move
<1>3. ASSUME NEW p \in Callers, Obtain(p) PROVE AloneOrNot'
  <2> SUFFICES ASSUME NEW q \in Callers, NEW r \in Callers,
                      lock'[q] = "held", lock'[r] = "held", q # r
               PROVE  doubts'[q] # {}
    OBVIOUS
  <2>1. \E o \in Callers : lock[o] = "held"
    BY <1>3 DEF Obtain, Lock, Move
  <2>2. doubts'[q] = doubts[q] \union {"together"}
    BY <1>3, <2>1 DEF Obtain
  <2>3. QED
    BY <2>2
<1>4. ASSUME NEW p \in Callers, Body(p) PROVE AloneOrNot'
  BY <1>4 DEF Body, Read, Misread, WriteTmp, WriteFails, Replace, ReplaceFails, lockVars
<1>5. ASSUME NEW p \in Callers, Leave(p) PROVE AloneOrNot'
  BY <1>5 DEF Leave, Forget, storeVars, Release, Unlink, Move
<1>6. ASSUME NEW p \in Callers, Crash(p) PROVE AloneOrNot'
  BY <1>6 DEF Crash, Forget, Die
<1>7. QED
  BY <1>1, <1>2, <1>3, <1>4, <1>5, <1>6 DEF Next, Body

\* A caller without doubts is the only one inside: the others' clauses of BodyInv
\* are vacuous while it changes the temporary file or the file.
LEMMA AloneInside ==
  ASSUME InsideLock, AloneOrNot,
         NEW p \in Callers, lock[p] = "held", doubts[p] = {}, NEW q \in Callers, q # p
  PROVE  step[q] = "read"
  BY DEF AloneOrNot, InsideLock

\* Each step of an update keeps the copy, the temporary file and the file in
\* step with one another.
LEMMA BodyPreserved ==
  ASSUME TypeOK, InsideLock, AloneOrNot, BodyInv, [Next]_vars, lossy' = {}
  PROVE  BodyInv'
<1> USE DEF TypeOK, BodyInv
<1>1. CASE UNCHANGED vars
  BY <1>1 DEF vars, storeVars
<1>2. ASSUME NEW p \in Callers, Enter(p) PROVE BodyInv'
  BY <1>2 DEF Enter, storeVars
<1>3. ASSUME NEW p \in Callers, Obtain(p) PROVE BodyInv'
  <2>1. \A q \in Callers : doubts'[q] = {} => doubts[q] = {}
    BY <1>3 DEF Obtain
  <2>2. QED
    BY <1>3, <2>1 DEF Obtain
<1>4. ASSUME NEW p \in Callers, Read(p) \/ Misread(p) PROVE BodyInv'
  BY <1>4 DEF Read, Misread, To
<1>5. ASSUME NEW p \in Callers, WriteTmp(p) PROVE BodyInv'
  <2>1. \A q \in Callers : q # p /\ doubts[q] = {} => step[q] # "replace"
    BY <1>5, AloneInside DEF WriteTmp, To, InsideLock, AloneOrNot
  <2>2. QED
    BY <1>5, <2>1 DEF WriteTmp, To
<1>6. ASSUME NEW p \in Callers, WriteFails(p) PROVE BodyInv'
  <2>1. \A q \in Callers : q # p /\ doubts[q] = {} => step[q] # "replace"
    BY <1>6 DEF WriteFails, To, InsideLock, AloneOrNot
  <2>2. QED
    BY <1>6, <2>1 DEF WriteFails, To
<1>7. ASSUME NEW p \in Callers, Replace(p) PROVE BodyInv'
  <2>1. doubts[p] = {} /\ lock[p] = "held" /\ step[p] = "replace"
    BY <1>7 DEF Replace, To
  <2>2. \A q \in Callers : q # p => step[q] = "read"
    BY <2>1, AloneInside
  <2>3. file' = Merge(file, p) /\ acked' = acked
    BY <1>7, <2>1 DEF Replace, To
  <2>4. \A q \in Callers : acked[q] <= file[q] /\ file[q] \in Nat /\ acked[q] \in Nat
    BY DEF Data
  <2>5. file'[p] = file[p] + 1 /\ (\A q \in Callers : q # p => file'[q] = file[q])
    BY <2>3, MergeTyped
  <2>6. acked'[p] < file'[p] /\ (\A q \in Callers : acked'[q] <= file'[q])
    BY <2>3, <2>4, <2>5
  <2>7. step'[p] = "done" /\ (\A q \in Callers : q # p => step'[q] = "read")
    BY <1>7, <2>2 DEF Replace, To
  <2>8. QED
    BY <2>6, <2>7
<1>8. ASSUME NEW p \in Callers, ReplaceFails(p) PROVE BodyInv'
  BY <1>8 DEF ReplaceFails, To
<1>9. ASSUME NEW p \in Callers, Leave(p) PROVE BodyInv'
  <2>1. CASE Unlink(p) /\ UNCHANGED storeVars
    BY <2>1 DEF storeVars
  <2>2. CASE /\ Forget(p)
             /\ acked' = IF step[p] = "done" THEN [acked EXCEPT ![p] = @ + 1] ELSE acked
             /\ UNCHANGED <<file, tmp, lossy>>
    <3>1. \A q \in Callers : /\ acked'[q] <= file[q]
                             /\ q # p => acked'[q] = acked[q]
      BY <2>2 DEF Data
    <3>2. \A q \in Callers : IF q = p THEN step'[q] = "read"
                             ELSE /\ step'[q] = step[q] /\ copy'[q] = copy[q]
                                  /\ doubts'[q] = doubts[q]
      BY <2>2 DEF Forget
    <3>3. QED
      BY <2>2, <3>1, <3>2
  <2>3. QED
    BY <1>9, <2>1, <2>2 DEF Leave
<1>10. ASSUME NEW p \in Callers, Crash(p) PROVE BodyInv'
  <2>1. tmp' = tmp \/ (\A q \in Callers : q # p /\ doubts[q] = {} => step[q] # "replace")
    BY <1>10 DEF Crash, InsideLock, AloneOrNot
  <2>2. QED
    BY <1>10, <2>1 DEF Crash, Forget
<1>11. QED
  BY <1>1, <1>2, <1>3, <1>4, <1>5, <1>6, <1>7, <1>8, <1>9, <1>10 DEF Next

\* Who has replaced the file has done so for ever.
LEMMA LossyStays == [Next]_vars /\ lossy' = {} => lossy = {}
  BY DEF Next, vars, storeVars, Enter, Obtain, Read, Misread, WriteTmp, WriteFails, Replace,
         ReplaceFails, Leave, Crash

\* The inductive invariant of the store.
LEMMA StoreInvariant == Spec => []Inv
<1>1. Init => InsideLock /\ AloneOrNot /\ (lossy = {} => BodyInv)
  BY DEF Init, InitLock, InsideLock, AloneOrNot, BodyInv, Empty
<1>2. /\ TypeOK /\ InsideLock /\ AloneOrNot /\ (lossy = {} => BodyInv) /\ [Next]_vars
      => InsideLock' /\ AloneOrNot' /\ (lossy = {} => BodyInv)'
  BY InsidePreserved, DoubtsPreserved, BodyPreserved, LossyStays
<1>3. QED
  BY <1>1, <1>2, StoreTypeCorrect, LockSafe, PTL DEF Spec, Inv

-----------------------------------------------------------------------------
(* What the users of a lock rely on.                                       *)

\* A lock whose file is kept excludes, for any number of callers, through their
\* timeouts and deaths.
THEOREM LockIsExclusive == Spec => []MutualExclusion
  BY LockSafe, LockExcludes, PTL

\* No call leaves a lock behind, whichever kind it is, also when the update
\* raises or its process dies.
THEOREM LockIsReleased == Spec => []NoOrphanLock
<1>1. LockInv => NoOrphanLock
  BY DEF LockInv
<1>2. QED
  BY <1>1, LockSafe, PTL

\* No update that returned is lost before somebody has replaced the file who did
\* not hold the lock alone or could not read the file.
THEOREM UpdatesLast == Spec => []NoLostUpdate
<1>1. Inv => NoLostUpdate
  BY DEF Inv, TypeOK, Data, BodyInv, NoLostUpdate, UpdatesKept
<1>2. QED
  BY <1>1, StoreInvariant, PTL

-----------------------------------------------------------------------------
(* The least of a finite set of numbers.                                   *)

\* A set of finite sets has a smallest one.
LEMMA SmallestSet ==
  ASSUME NEW S, NEW T, \A X \in T : X \subseteq S /\ IsFiniteSet(X), T # {}
  PROVE  \E X \in T : \A Y \in T : Y \subseteq X => Y = X
<1> DEFINE R == StrictSubsetOrdering(S)
           F == FiniteSubsetsOf(S)
<1>1. IsWellFoundedOn(R, F)
  BY FS_StrictSubsetOrderingWellFounded
<1>2. R = {ss \in (SUBSET S) \X (SUBSET S) : ss[1] \subseteq ss[2] /\ ss[1] # ss[2]}
  BY DEF StrictSubsetOrdering
<1>3. T \subseteq F
  BY DEF FiniteSubsetsOf
<1> HIDE DEF R, F
<1>4. PICK X \in T : \A Y \in T : ~ (<<Y, X>> \in R)
  BY <1>1, <1>3, WFMin
<1>5. ASSUME NEW Y \in T, Y \subseteq X PROVE Y = X
  <2>1. <<Y, X>> \notin R /\ Y \in SUBSET S /\ X \in SUBSET S
    BY <1>4
  <2> QED BY <2>1, <1>2, <1>5
<1> QED BY <1>5

\* A set of numbers has a smallest one.
LEMMA Least ==
  ASSUME NEW T \in SUBSET Nat, T # {}
  PROVE \E m \in T : \A n \in T : m <= n
<1> DEFINE I == {0..m : m \in T}
<1>1. \A X \in I : X \subseteq Nat /\ IsFiniteSet(X)
  <2>1. ASSUME NEW m \in T PROVE 0..m \subseteq Nat /\ IsFiniteSet(0..m)
    <3>1. 0 \in Int /\ m \in Int
      OBVIOUS
    <3> QED BY <3>1, FS_Interval
  <2> QED BY <2>1
<1>2. I # {}
  OBVIOUS
<1>3. PICK X \in I : \A Y \in I : Y \subseteq X => Y = X
  <2> HIDE DEF I
  <2> QED BY <1>1, <1>2, SmallestSet
<1>4. PICK m \in T : X = 0..m
  OBVIOUS
<1>5. ASSUME NEW n \in T PROVE m <= n
  <2>1. CASE n < m
    <3>1. 0..n \in I /\ 0..n \subseteq 0..m
      BY <2>1
    <3>2. 0..n = 0..m
      BY <3>1, <1>3, <1>4
    <3>3. m \in 0..n
      BY <3>2
    <3> QED BY <3>3, <2>1
  <2> QED BY <2>1
<1> QED BY <1>5

-----------------------------------------------------------------------------
(* The blackboard: what BlackboardProofs proves of Blackboard holds here.  *)

\* The theorems about Blackboard, for the processes of Shared.
BoardP == INSTANCE BlackboardProofs WITH Writers <- Procs

\* The blackboard of Shared is that of BlackboardProofs.
LEMMA BoardNext == Board!Next => BoardP!Next
  BY DEF Board!Next, BoardP!Next, Board!Post, BoardP!Post, Board!LockRegion,
         BoardP!LockRegion, Board!Misread, BoardP!Misread, Board!Load, BoardP!Load,
         Board!Owed, BoardP!Owed, Board!GiveUp, BoardP!GiveUp, Board!LogWrite, BoardP!LogWrite,
         Board!SaveRegion, BoardP!SaveRegion, Board!SaveFails, BoardP!SaveFails,
         Board!Die, BoardP!Die, Board!Goto, BoardP!Goto, Board!Step, BoardP!Step,
         Board!Finish, BoardP!Finish, Board!Loaded, BoardP!Loaded,
         Board!Resolve, BoardP!Resolve, Board!Empty, BoardP!Empty,
         Board!Plain, BoardP!Plain, Board!AppendOnly, BoardP!AppendOnly,
         Board!SingleWriter, BoardP!SingleWriter, Board!CrdtUnion, BoardP!CrdtUnion,
         Board!Versioned, BoardP!Versioned

\* The blackboard of Shared runs as Blackboard says.
LEMMA BoardSpec == SharedSpec => BoardP!Spec
<1>1. SharedInit => BoardP!Init
  BY DEF SharedInit, Board!Init, BoardP!Init, Board!Rules, BoardP!Rules, Board!Empty, BoardP!Empty
<1>2. [SharedNext]_sharedVars => [BoardP!Next]_(BoardP!boardVars)
  BY BoardNext DEF SharedNext, sharedVars, boardVars, BoardP!boardVars
<1> QED BY <1>1, <1>2, PTL DEF SharedSpec, BoardP!Spec

\* The values of Shared are as BlackboardProofs assumes them.
LEMMA BoardAssumed == BoardP!BoardAssumption
  BY ValuesAssumption DEF BoardP!BoardAssumption, BoardP!Values, BoardP!Boards, BoardP!Entry,
     Board!Values, Board!Boards, Board!Entry

\* Type correctness of the blackboard.
LEMMA BoardTypes == SharedSpec => []Board!TypeOK
<1>1. MaxPosts \in Nat
  BY BoundsAssumption
<1>2. BoardP!Spec => []BoardP!TypeOK
  BY <1>1, BoardAssumed, BoardP!BoardTypes
<1>3. Board!TypeOK <=> BoardP!TypeOK
  BY DEF Board!TypeOK, BoardP!TypeOK, Board!Rules, BoardP!Rules, Board!Boards, BoardP!Boards,
         Board!Entry, BoardP!Entry, Board!Values, BoardP!Values
<1> QED BY <1>2, <1>3, BoardSpec, PTL

\* NoLostWrite (write_value of blackboard_core.py): until a save is cut off or is of a
\* writer that could not read the region, no accepted write is lost but by the rule of
\* its region, for any writers, keys, contents and number of writes.
THEOREM BoardKept == SharedSpec => []NoLostWrite
<1>1. BoardP!Spec => []BoardP!NoLostWrite
  BY BoardAssumed, BoardP!WritesKept
<1>2. NoLostWrite <=> BoardP!NoLostWrite
  BY DEF NoLostWrite, Board!NoLostWrite, BoardP!NoLostWrite, Board!ReadValue, BoardP!ReadValue,
         Board!Loaded, BoardP!Loaded, Board!Empty, BoardP!Empty
<1> QED BY <1>1, <1>2, BoardSpec, PTL

-----------------------------------------------------------------------------
(* The event bus.                                                          *)

\* The messages, by when they were sent.
Messages == 1..MaxMessages

\* Types of the topic, its publishers and subscribers, and the history.
BusTyped ==
  /\ topic \in Seq(Messages)
  /\ tail \in {"whole", "cut", "open", "mangled"}
  /\ inLock \in Procs \union {Nil}
  /\ publishing \in [Procs -> 0..MaxMessages]
  /\ offset \in [Subscribers -> Nat]
  /\ got \in [Subscribers -> Seq(Messages)]
  /\ sent \in 0..MaxMessages
  /\ published \in Seq(Messages)
  /\ missed \in [Subscribers -> 0..MaxMisses]

\* The flags of the history are such.
BusFlags == broken \in BOOLEAN /\ withdrawn \in BOOLEAN

\* Subscriber s got message m.
Has(s, m) == \E k \in DOMAIN got[s] : got[s][k] = m

\* Messages are made once, and written once.
Fresh ==
  /\ inLock # Nil => publishing[inLock] # 0
  /\ \A n \in DOMAIN topic : topic[n] <= sent
  /\ \A s \in Subscribers : \A k \in DOMAIN got[s] : got[s][k] <= sent
  /\ \A p \in Procs : publishing[p] <= sent
  /\ \A p, q \in Procs : publishing[p] # 0 /\ publishing[p] = publishing[q] => p = q
  /\ \A p \in Procs : publishing[p] # 0 =>
       /\ \A n \in DOMAIN topic : topic[n] # publishing[p]
       /\ \A s \in Subscribers : ~Has(s, publishing[p])
  /\ \A m, n \in DOMAIN topic : topic[m] = topic[n] => m = n
  /\ tail = "open" => Len(topic) # 0

\* Nobody who could always read has what is behind the offset.
Once == \A s \in Subscribers : missed[s] = 0 =>
  /\ \A k, l \in DOMAIN got[s] : got[s][k] = got[s][l] => k = l
  /\ \A n \in DOMAIN topic : n > offset[s] => ~Has(s, topic[n])

\* What a subscriber has of the topic is its beginning.
Begins(s) ==
  /\ offset[s] <= Len(topic)
  /\ missed[s] = 0 => Len(got[s]) = offset[s] /\ \A n \in 1..offset[s] : got[s][n] = topic[n]
  /\ \E h \in 0..Len(topic) :
       /\ offset[s] <= h
       /\ \A n \in DOMAIN topic : Has(s, topic[n]) <=> n <= h

\* While no message is withdrawn, every subscriber has a beginning of the topic.
Beginning == ~withdrawn => \A s \in Subscribers : Begins(s)

\* The messages that publish answered for are in the topic, in the order of the answers.
Answered == \A j \in DOMAIN published : \E m \in DOMAIN topic :
  /\ topic[m] = published[j]
  /\ \A i \in 1..(j - 1) : \E n \in 1..(m - 1) : topic[n] = published[i]

\* While no publish was cut off, the topic is whole, and has all that was answered for.
Kept == ~broken => tail = "whole" /\ ~withdrawn /\ Answered

\* The inductive invariant of the bus.
BusInv == BusTyped /\ BusFlags /\ Fresh /\ Once /\ Beginning /\ Kept

-----------------------------------------------------------------------------

\* What the names of the model are told from.
LEMMA BusValues ==
  Nil \notin Procs /\ MaxMessages \in Nat /\ MaxMisses \in Nat
<1>1. Nil \notin Procs
  BY ValuesAssumption
<1>2. MaxMessages \in Nat /\ MaxMisses \in Nat
  BY BoundsAssumption
<1> QED BY <1>1, <1>2

\* The rest of a sequence after its first o elements.
LEMMA RestOfSequence ==
  ASSUME NEW S, NEW t \in Seq(S), NEW o \in Nat,
         NEW u, u = SubSeq(t, o + 1, Len(t))
  PROVE  /\ u \in Seq(S)
         /\ Len(u) \in Nat /\ Len(u) = IF o < Len(t) THEN Len(t) - o ELSE 0
         /\ DOMAIN u = 1..Len(u)
         /\ \A n \in 1..Len(u) : u[n] = t[o + n] /\ o + n \in DOMAIN t
<1>1. /\ o + 1 \in Int /\ Len(t) \in Int /\ Len(t) \in Nat /\ DOMAIN t = 1..Len(t)
      /\ \A i \in (o + 1)..Len(t) : t[i] \in S
  OBVIOUS
<1> DEFINE l == Len(t)
<1>2. l \in Int /\ o + 1 \in Int /\ \A i \in (o + 1)..l : t[i] \in S
  BY <1>1
<1>3. u = SubSeq(t, o + 1, l)
  OBVIOUS
<1> HIDE DEF l
<1> DEFINE f == o + 1
<1>4. f \in Int /\ \A i \in f..l : t[i] \in S
  BY <1>2
<1>5. f = o + 1
  OBVIOUS
<1> HIDE DEF f
<1>6. /\ SubSeq(t, f, l) \in Seq(S)
      /\ Len(SubSeq(t, f, l)) = IF f <= l THEN l - f + 1 ELSE 0
      /\ \A i \in 1..(l - f + 1) : SubSeq(t, f, l)[i] = t[f + i - 1]
  BY <1>2, <1>4, SubSeqProperties
<1>7. u = SubSeq(t, f, l)
  BY <1>3, <1>5
<1>8. /\ u \in Seq(S)
      /\ Len(u) = IF f <= l THEN l - f + 1 ELSE 0
      /\ \A i \in 1..(l - f + 1) : u[i] = t[f + i - 1]
  BY <1>6, <1>7
<1>9. Len(u) \in Nat /\ DOMAIN u = 1..Len(u)
  BY <1>8
<1>10. l \in Nat /\ DOMAIN t = 1..l /\ Len(t) = l
  BY <1>1 DEF l
<1>11. Len(u) = IF o < l THEN l - o ELSE 0
  BY <1>5, <1>8, <1>10
<1>12. ASSUME NEW n \in 1..Len(u) PROVE u[n] = t[o + n] /\ o + n \in DOMAIN t
  <2>1. o < l /\ Len(u) = l - o /\ n \in 1..(l - f + 1)
    BY <1>5, <1>10, <1>11
  <2>2. f + n - 1 = o + n
    BY <1>5
  <2> QED BY <2>1, <2>2, <1>8, <1>10
<1> QED BY <1>8, <1>9, <1>10, <1>11, <1>12

\* A sequence followed by another.
LEMMA JoinedSequence ==
  ASSUME NEW S, NEW a \in Seq(S), NEW b \in Seq(S), NEW c, c = a \o b
  PROVE  /\ c \in Seq(S)
         /\ Len(c) = Len(a) + Len(b) /\ DOMAIN c = 1..(Len(a) + Len(b))
         /\ Len(a) \in Nat /\ Len(b) \in Nat
         /\ \A k \in 1..Len(a) : c[k] = a[k]
         /\ \A k \in 1..Len(b) : c[Len(a) + k] = b[k]
<1>1. /\ c \in Seq(S) /\ Len(c) = Len(a) + Len(b)
      /\ \A i \in 1..(Len(a) + Len(b)) : c[i] = IF i <= Len(a) THEN a[i] ELSE b[i - Len(a)]
  BY ConcatProperties
<1>2. Len(a) \in Nat /\ Len(b) \in Nat /\ DOMAIN c = 1..Len(c)
  BY <1>1
<1>3. \A k \in 1..Len(a) : c[k] = a[k]
  BY <1>1, <1>2
<1>4. ASSUME NEW k \in 1..Len(b) PROVE c[Len(a) + k] = b[k]
  <2>1. Len(a) + k \in 1..(Len(a) + Len(b)) /\ ~(Len(a) + k <= Len(a)) /\ (Len(a) + k) - Len(a) = k
    BY <1>2
  <2> QED BY <2>1, <1>1
<1> QED BY <1>1, <1>2, <1>3, <1>4
\* A write adds its message at the end, leaves the messages as they are, or takes
\* the last one away.
LEMMA WrittenTopic ==
  ASSUME BusTyped, BusFlags, Fresh, NEW m \in Messages,
         NEW end \in {"whole", "cut", "open", "mangled"}, Bus!Written(m, end)
  PROVE  /\ topic' \in Seq(Messages) /\ tail' \in {"whole", "cut", "open", "mangled"}
         /\ broken' \in BOOLEAN /\ withdrawn' \in BOOLEAN
         /\ ~withdrawn' => ~withdrawn /\ Len(topic') \in {Len(topic), Len(topic) + 1}
         /\ ~broken' => ~broken /\ end = "whole"
         /\ Len(topic') \in Nat /\ Len(topic') <= Len(topic) + 1
         /\ \A n \in DOMAIN topic' : n \in DOMAIN topic => topic'[n] = topic[n]
         /\ \A n \in DOMAIN topic' : n \notin DOMAIN topic => n = Len(topic) + 1 /\ topic'[n] = m
         /\ tail' = "open" => Len(topic') # 0
         /\ tail = "whole" /\ end = "whole" => topic' = Append(topic, m) /\ tail' = "whole"
              /\ withdrawn' = withdrawn
<1>1. Len(topic) \in Nat /\ DOMAIN topic = 1..Len(topic)
  BY DEF BusTyped
<1>2. CASE tail = "whole" /\ end \in {"whole", "open"}
  <2>1. topic' = Append(topic, m) /\ tail' = end /\ withdrawn' = withdrawn
    BY <1>2 DEF Bus!Written, BusFlags
  <2>2. broken' = (broken \/ end # "whole")
    BY DEF Bus!Written
  <2>3. topic' \in Seq(Messages) /\ Len(topic') = Len(topic) + 1
            /\ DOMAIN topic' = 1..(Len(topic) + 1)
        /\ topic'[Len(topic) + 1] = m /\ \A n \in DOMAIN topic : topic'[n] = topic[n]
    BY <1>1, <2>1 DEF BusTyped
  <2>4. broken' \in BOOLEAN /\ (~broken' => ~broken /\ end = "whole")
    BY <2>2 DEF BusFlags
  <2> QED BY <1>1, <1>2, <2>1, <2>3, <2>4 DEF BusFlags
<1>3. CASE tail = "open"
  <2>1. topic' = SubSeq(topic, 1, Len(topic) - 1) /\ tail' \in {"whole", "cut", "mangled"}
            /\ withdrawn' = TRUE
    BY <1>3 DEF Bus!Written, Bus!Front
  <2>2. broken' = (broken \/ end # "whole")
    BY DEF Bus!Written
  <2>3. Len(topic) # 0
    BY <1>3 DEF Fresh
  <2>4. Len(topic) - 1 \in Int /\ \A n \in 1..(Len(topic) - 1) : topic[n] \in Messages
    BY <1>1 DEF BusTyped
  <2>5. topic' \in Seq(Messages) /\ Len(topic') = Len(topic) - 1
        /\ \A n \in 1..(Len(topic) - 1) : topic'[n] = topic[n]
    BY <1>1, <2>1, <2>3, <2>4, SubSeqProperties
  <2>6. broken' \in BOOLEAN /\ (~broken' => ~broken /\ end = "whole")
    BY <2>2 DEF BusFlags
  <2> QED BY <1>1, <1>3, <2>1, <2>3, <2>5, <2>6
<1>4. CASE ~(tail = "whole" /\ end \in {"whole", "open"}) /\ tail # "open"
  <2>1. topic' = topic /\ tail' \in {"whole", "cut", "mangled"} /\ withdrawn' = withdrawn
    BY <1>4 DEF Bus!Written, BusTyped, BusFlags
  <2>2. broken' = (broken \/ end # "whole")
    BY DEF Bus!Written
  <2>3. broken' \in BOOLEAN /\ (~broken' => ~broken /\ end = "whole")
    BY <2>2 DEF BusFlags
  <2>4. ~(tail = "whole" /\ end = "whole") /\ withdrawn' \in BOOLEAN /\ (~withdrawn' => ~withdrawn)
    BY <1>4, <2>1 DEF BusFlags
  <2>5. DOMAIN topic' = DOMAIN topic /\ Len(topic') = Len(topic) /\ topic' \in Seq(Messages)
        /\ \A n \in DOMAIN topic' : topic'[n] = topic[n]
    BY <2>1 DEF BusTyped
  <2>6. tail' # "open" /\ tail' \in {"whole", "cut", "open", "mangled"}
    BY <2>1
  <2>7. Len(topic') \in {Len(topic), Len(topic) + 1} /\ Len(topic') \in Nat
            /\ Len(topic') <= Len(topic) + 1
    BY <1>1, <2>5
  <2> QED BY <2>3, <2>4, <2>5, <2>6, <2>7
<1> QED BY <1>2, <1>3, <1>4

\* The end of a publish of p that wrote its message, or some of it.
LEMMA BusWrites ==
  ASSUME BusInv, NEW p \in Procs, inLock = p,
         NEW end \in {"whole", "cut", "open", "mangled"}, Bus!Written(publishing[p], end),
         Bus!Done(p), UNCHANGED <<offset, got, sent, missed>>
  PROVE  /\ topic' \in Seq(Messages) /\ tail' \in {"whole", "cut", "open", "mangled"}
         /\ inLock' \in Procs \union {Nil} /\ publishing' \in [Procs -> 0..MaxMessages]
         /\ BusFlags' /\ Fresh' /\ Once' /\ Beginning'
         /\ ~broken' => ~broken /\ end = "whole"
         /\ tail = "whole" /\ end = "whole" =>
              topic' = Append(topic, publishing[p]) /\ tail' = "whole" /\ withdrawn' = withdrawn
<1> USE DEF BusInv
<1> DEFINE m == publishing[p]
<1>1. m \in Messages
  BY BusValues DEF BusTyped, Fresh, Messages
<1>2. Len(topic) \in Nat /\ DOMAIN topic = 1..Len(topic)
  BY DEF BusTyped
<1>3. /\ topic' \in Seq(Messages) /\ tail' \in {"whole", "cut", "open", "mangled"}
      /\ broken' \in BOOLEAN /\ withdrawn' \in BOOLEAN
      /\ ~withdrawn' => ~withdrawn /\ Len(topic') \in {Len(topic), Len(topic) + 1}
      /\ ~broken' => ~broken /\ end = "whole"
      /\ Len(topic') \in Nat /\ Len(topic') <= Len(topic) + 1
      /\ \A n \in DOMAIN topic' : n \in DOMAIN topic => topic'[n] = topic[n]
      /\ \A n \in DOMAIN topic' : n \notin DOMAIN topic => n = Len(topic) + 1 /\ topic'[n] = m
      /\ tail' = "open" => Len(topic') # 0
      /\ tail = "whole" /\ end = "whole" => topic' = Append(topic, m) /\ tail' = "whole"
           /\ withdrawn' = withdrawn
  BY <1>1, WrittenTopic
<1>4. /\ publishing' \in [Procs -> 0..MaxMessages] /\ publishing'[p] = 0
      /\ \A q \in Procs \ {p} : publishing'[q] = publishing[q]
      /\ inLock' = Nil
  BY BusValues DEF Bus!Done, BusTyped
<1>5. m # 0 /\ m <= sent /\ (\A n \in DOMAIN topic : topic[n] # m)
          /\ \A s \in Subscribers : ~Has(s, m)
  BY <1>1 DEF Fresh, Messages
<1>6. DOMAIN topic' = 1..Len(topic') /\ \A s \in Subscribers :
        /\ \A n \in DOMAIN topic' : Has(s, topic[n])' <=> Has(s, topic'[n])
        /\ \A q \in Procs : Has(s, publishing[q])' <=> Has(s, publishing'[q])
  BY <1>3 DEF Has
<1>7. Fresh'
  <2>1. \A n \in DOMAIN topic' : topic'[n] <= sent'
    BY <1>3, <1>5 DEF Fresh
  <2>2. \A q \in Procs : publishing'[q] # 0 =>
          /\ \A n \in DOMAIN topic' : topic'[n] # publishing'[q]
          /\ \A s \in Subscribers : ~Has(s, publishing[q])'
    <3>1. ASSUME NEW q \in Procs, publishing'[q] # 0
          PROVE  /\ \A n \in DOMAIN topic' : topic'[n] # publishing'[q]
                 /\ \A s \in Subscribers : ~Has(s, publishing[q])'
      <4>1. q # p /\ publishing'[q] = publishing[q]
        BY <3>1, <1>4
      <4>2. publishing[q] # m /\ (\A n \in DOMAIN topic : topic[n] # publishing[q])
            /\ \A s \in Subscribers : ~Has(s, publishing[q])
        BY <3>1, <4>1 DEF Fresh
      <4>3. ASSUME NEW n \in DOMAIN topic' PROVE topic'[n] # publishing'[q]
        BY <4>1, <4>2, <4>3, <1>3
      <4>4. ASSUME NEW s \in Subscribers PROVE ~Has(s, publishing[q])'
        <5>1. Has(s, publishing[q])' <=> Has(s, publishing'[q])
          BY <1>6
        <5> QED BY <5>1, <4>1, <4>2
      <4> QED BY <4>3, <4>4
    <3> QED BY <3>1
  <2>3. \A k, n \in DOMAIN topic' : topic'[k] = topic'[n] => k = n
    BY <1>3, <1>5 DEF Fresh
  <2>4. \A q \in Procs : publishing'[q] <= sent'
    BY <1>4 DEF Fresh, BusTyped
  <2>5. \A q, r \in Procs : publishing'[q] # 0 /\ publishing'[q] = publishing'[r] => q = r
    BY <1>4 DEF Fresh
  <2> QED BY <1>3, <1>4, <2>1, <2>2, <2>3, <2>4, <2>5 DEF Fresh
<1>8. Once'
  <2>1. ASSUME NEW s \in Subscribers, missed'[s] = 0, NEW n \in DOMAIN topic', n > offset'[s]
        PROVE ~Has(s, topic[n])'
    BY <1>3, <1>5, <1>6, <2>1 DEF Once
  <2> QED BY <2>1 DEF Once
<1>9. Beginning'
  <2> SUFFICES ASSUME ~withdrawn', NEW s \in Subscribers PROVE Begins(s)'
    BY DEF Beginning
  <2>1. Begins(s) /\ Len(topic') >= Len(topic)
    BY <1>2, <1>3 DEF Beginning
  <2>2. offset[s] \in Nat /\ offset'[s] = offset[s] /\ got'[s] = got[s] /\ missed'[s] = missed[s]
    BY DEF BusTyped
  <2>3. PICK h \in 0..Len(topic) : offset[s] <= h /\ \A n \in DOMAIN topic : Has(s, topic[n]) <=>
            n <= h
    BY <2>1 DEF Begins
  <2>4. h \in 0..Len(topic') /\ \A n \in DOMAIN topic' : Has(s, topic[n])' <=> n <= h
    <3>1. ASSUME NEW n \in DOMAIN topic' PROVE Has(s, topic[n])' <=> n <= h
      <4>1. CASE n \in DOMAIN topic
        BY <4>1, <2>3, <1>3, <1>6
      <4>2. CASE n \notin DOMAIN topic
        <5>1. n = Len(topic) + 1 /\ topic'[n] = m
          BY <4>2, <1>3
        <5>2. ~Has(s, topic[n])'
          <6>1. Has(s, topic[n])' <=> Has(s, topic'[n])
            BY <1>6
          <6> QED BY <6>1, <5>1, <1>5
        <5> QED BY <5>1, <5>2, <1>2
      <4> QED BY <4>1, <4>2
    <3> QED BY <3>1, <2>1, <1>2, <1>3
  <2>5. \A n \in 1..offset[s] : topic'[n] = topic[n]
    <3>1. offset[s] <= Len(topic)
      BY <2>1 DEF Begins
    <3>2. \A n \in 1..offset[s] : n \in DOMAIN topic /\ n \in DOMAIN topic'
      <4>1. Len(topic) \in Nat /\ Len(topic') \in Nat /\ Len(topic) <= Len(topic')
                /\ offset[s] \in Nat
        BY <2>1, <2>2, <1>2, <1>3
      <4> QED BY <4>1, <3>1, <1>2, <1>6
    <3> QED BY <3>2, <1>3
  <2>6. offset'[s] <= Len(topic') /\ (missed'[s] = 0 =>
           Len(got'[s]) = offset'[s] /\ \A n \in 1..offset'[s] : got'[s][n] = topic'[n])
    BY <2>1, <2>2, <2>5, <1>2, <1>3 DEF Begins
  <2>7. h \in 0..Len(topic') /\ offset'[s] <= h
    BY <2>2, <2>3, <2>4
  <2> QED BY <2>4, <2>6, <2>7 DEF Begins
<1> QED BY <1>3, <1>4, <1>7, <1>8, <1>9 DEF BusFlags

\* What a subscription answers: everything behind the offset.
LEMMA BusAnswers ==
  ASSUME BusInv, NEW s \in Subscribers, Bus!Subscribe(s)
  PROVE  BusInv'
<1> USE DEF BusInv
<1>1. Len(topic) \in Nat /\ DOMAIN topic = 1..Len(topic) /\ offset[s] \in Nat
          /\ got[s] \in Seq(Messages)
      /\ \A n \in DOMAIN topic : topic[n] \in Messages
  BY DEF BusTyped
<1>2. Len(got[s]) \in Nat /\ DOMAIN got[s] = 1..Len(got[s])
  BY <1>1
<1>3. /\ offset' = [offset EXCEPT ![s] = Len(topic)]
      /\ got' = [got EXCEPT ![s] = @ \o SubSeq(topic, offset[s] + 1, Len(topic))]
      /\ UNCHANGED <<topic, tail, inLock, publishing, sent, published, missed, broken, withdrawn>>
  BY DEF Bus!Subscribe
<1> DEFINE u == SubSeq(topic, offset[s] + 1, Len(topic))
<1>4. /\ u \in Seq(Messages)
      /\ Len(u) \in Nat /\ Len(u) = IF offset[s] < Len(topic) THEN Len(topic) - offset[s] ELSE 0
      /\ DOMAIN u = 1..Len(u)
      /\ \A n \in 1..Len(u) : u[n] = topic[offset[s] + n] /\ offset[s] + n \in DOMAIN topic
  <2>1. topic \in Seq(Messages) /\ offset[s] \in Nat
    BY DEF BusTyped
  <2> QED BY <2>1, RestOfSequence
<1>5. /\ got'[s] \in Seq(Messages) /\ Len(got'[s]) = Len(got[s]) + Len(u)
      /\ DOMAIN got'[s] = 1..(Len(got[s]) + Len(u))
      /\ \A k \in 1..Len(got[s]) : got'[s][k] = got[s][k]
      /\ \A k \in 1..Len(u) : got'[s][Len(got[s]) + k] = u[k]
  <2>1. got'[s] = got[s] \o u
    BY <1>3 DEF BusTyped
  <2> HIDE DEF u
  <2>2. got[s] \in Seq(Messages) /\ u \in Seq(Messages)
    BY <1>1, <1>4
  <2> QED BY <2>1, <2>2, JoinedSequence
<1> HIDE DEF u
<1>6. /\ offset' \in [Subscribers -> Nat] /\ offset'[s] = Len(topic)
           /\ got' \in [Subscribers -> Seq(Messages)]
      /\ \A r \in Subscribers \ {s} : got'[r] = got[r] /\ offset'[r] = offset[r]
  BY <1>1, <1>3, <1>5 DEF BusTyped
<1>7. BusTyped' /\ BusFlags'
  BY <1>3, <1>6 DEF BusTyped, BusFlags
<1>8. DOMAIN got'[s] = 1..(Len(got[s]) + Len(u)) /\ DOMAIN u = 1..Len(u) /\ Len(u) \in Nat
  BY <1>4, <1>5
\* It has what it had and what it was answered.
<1>9. ASSUME NEW x PROVE (\E k \in DOMAIN got'[s] : got'[s][k] = x) <=>
                          Has(s, x) \/ \E n \in DOMAIN topic : n > offset[s] /\ topic[n] = x
  <2>1. ASSUME NEW k \in DOMAIN got'[s] PROVE
          \/ k \in DOMAIN got[s] /\ got'[s][k] = got[s][k]
          \/ \E n \in DOMAIN topic : n > offset[s] /\ got'[s][k] = topic[n]
    <3>1. CASE k <= Len(got[s])
      BY <3>1, <1>2, <1>5, <1>8
    <3>2. CASE k > Len(got[s])
      <4>1. k - Len(got[s]) \in 1..Len(u) /\ k = Len(got[s]) + (k - Len(got[s]))
        BY <3>2, <1>2, <1>8
      <4>2. got'[s][k] = u[k - Len(got[s])]
        BY <4>1, <1>5
      <4>3. u[k - Len(got[s])] = topic[offset[s] + (k - Len(got[s]))]
            /\ offset[s] + (k - Len(got[s])) \in DOMAIN topic
        BY <4>1, <1>4
      <4>4. offset[s] + (k - Len(got[s])) > offset[s]
        BY <4>1, <1>1, <1>8
      <4> QED BY <4>2, <4>3, <4>4
    <3> QED BY <3>1, <3>2, <1>2, <1>8
  <2>2. ASSUME NEW k \in DOMAIN got[s] PROVE k \in DOMAIN got'[s] /\ got'[s][k] = got[s][k]
    BY <1>2, <1>5, <1>8
  <2>3. ASSUME NEW n \in DOMAIN topic, n > offset[s]
        PROVE \E k \in DOMAIN got'[s] : got'[s][k] = topic[n]
    <3>1. n - offset[s] \in 1..Len(u) /\ n = offset[s] + (n - offset[s])
      <4>1. Len(topic) \in Nat /\ n \in 1..Len(topic)
        BY <1>1
      <4>2. Len(u) = Len(topic) - offset[s]
        BY <4>1, <2>3, <1>1, <1>4
      <4> QED BY <4>1, <4>2, <2>3, <1>1
    <3>2. u[n - offset[s]] = topic[n]
      BY <3>1, <1>4
    <3>3. got'[s][Len(got[s]) + (n - offset[s])] = topic[n]
          /\ Len(got[s]) + (n - offset[s]) \in DOMAIN got'[s]
      BY <3>1, <3>2, <1>2, <1>5, <1>8
    <3> QED BY <3>3
  <2> QED BY <2>1, <2>2, <2>3 DEF Has
<1>10. \A r \in Subscribers \ {s} : \A x : (\E k \in DOMAIN got'[r] : got'[r][k] = x) <=> Has(r, x)
  BY <1>6 DEF Has
<1>11. Fresh'
  <2>1. \A r \in Subscribers : \A k \in DOMAIN got'[r] : got'[r][k] <= sent'
    <3>1. ASSUME NEW r \in Subscribers, NEW k \in DOMAIN got'[r] PROVE got'[r][k] <= sent
      <4>1. CASE r # s
        BY <4>1, <1>6 DEF Fresh
      <4>2. CASE r = s
        BY <4>2, <1>9 DEF Fresh, Has
      <4> QED BY <4>1, <4>2
    <3> QED BY <3>1, <1>3
  <2>2. \A p \in Procs : publishing'[p] # 0 => \A r \in Subscribers : ~Has(r, publishing[p])'
    <3>1. ASSUME NEW p \in Procs, publishing[p] # 0, NEW r \in Subscribers
          PROVE ~\E k \in DOMAIN got'[r] : got'[r][k] = publishing[p]
      BY <3>1, <1>9, <1>10 DEF Fresh
    <3> QED BY <3>1, <1>3 DEF Has
  <2> QED BY <1>3, <2>1, <2>2 DEF Fresh
<1>12. Once'
  <2>1. ASSUME NEW r \in Subscribers, missed'[r] = 0
        PROVE  \A k, l \in DOMAIN got'[r] : got'[r][k] = got'[r][l] => k = l
    <3>1. CASE r # s
      BY <2>1, <3>1, <1>3, <1>6 DEF Once
    <3>2. CASE r = s
      <4>1. \A k, l \in DOMAIN got[s] : got[s][k] = got[s][l] => k = l
        BY <2>1, <3>2, <1>3 DEF Once
      <4>2. \A k, l \in DOMAIN u : u[k] = u[l] => k = l
        <5>1. ASSUME NEW k \in DOMAIN u, NEW l \in DOMAIN u, u[k] = u[l] PROVE k = l
          <6>1. k \in 1..Len(u) /\ l \in 1..Len(u)
            BY <1>8
          <6>2. u[k] = topic[offset[s] + k] /\ offset[s] + k \in DOMAIN topic
                /\ u[l] = topic[offset[s] + l] /\ offset[s] + l \in DOMAIN topic
            BY <6>1, <1>4
          <6>3. offset[s] + k = offset[s] + l
            BY <5>1, <6>2 DEF Fresh
          <6> QED BY <6>1, <6>3, <1>1, <1>8
        <5> QED BY <5>1
      <4>3. \A k \in DOMAIN got[s], l \in DOMAIN u : got[s][k] # u[l]
        <5>1. ASSUME NEW l \in DOMAIN u PROVE ~Has(s, u[l])
          <6>1. l \in 1..Len(u) /\ offset[s] + l > offset[s]
            BY <1>1, <1>8
          <6>2. u[l] = topic[offset[s] + l] /\ offset[s] + l \in DOMAIN topic
            BY <6>1, <1>4
          <6>3. missed[s] = 0
            BY <2>1, <3>2, <1>3
          <6> QED BY <6>1, <6>2, <6>3 DEF Once
        <5> QED BY <5>1 DEF Has
      <4>4. \A k \in DOMAIN got'[s] :
              \/ k \in DOMAIN got[s] /\ got'[s][k] = got[s][k]
              \/ k - Len(got[s]) \in DOMAIN u /\ got'[s][k] = u[k - Len(got[s])]
        <5>1. ASSUME NEW k \in DOMAIN got'[s], k > Len(got[s])
              PROVE k - Len(got[s]) \in DOMAIN u /\ got'[s][k] = u[k - Len(got[s])]
          <6>1. k - Len(got[s]) \in 1..Len(u) /\ Len(got[s]) + (k - Len(got[s])) = k
            BY <5>1, <1>2, <1>8
          <6> QED BY <6>1, <1>5, <1>8
        <5>2. ASSUME NEW k \in DOMAIN got'[s], ~(k > Len(got[s]))
              PROVE k \in DOMAIN got[s] /\ got'[s][k] = got[s][k]
          BY <5>2, <1>2, <1>5, <1>8
        <5> QED BY <5>1, <5>2
      <4>5. ASSUME NEW k \in DOMAIN got'[s], NEW l \in DOMAIN got'[s], got'[s][k] = got'[s][l]
            PROVE k = l
        <5>1. k \in Nat /\ l \in Nat
          BY <1>2, <1>8
        <5>2. CASE k \in DOMAIN got[s] /\ got'[s][k] = got[s][k] /\ l \in DOMAIN got[s]
                       /\ got'[s][l] = got[s][l]
          BY <5>2, <4>1, <4>5
        <5>3. CASE k - Len(got[s]) \in DOMAIN u /\ got'[s][k] = u[k - Len(got[s])]
                   /\ l - Len(got[s]) \in DOMAIN u /\ got'[s][l] = u[l - Len(got[s])]
          <6>1. k - Len(got[s]) = l - Len(got[s])
            BY <5>3, <4>2, <4>5
          <6> QED BY <6>1, <5>1, <1>2
        <5> QED BY <5>2, <5>3, <4>3, <4>4, <4>5
      <4> QED BY <4>5, <3>2
    <3> QED BY <3>1, <3>2
  <2>2. ASSUME NEW r \in Subscribers, missed'[r] = 0, NEW n \in DOMAIN topic', n > offset'[r]
        PROVE ~Has(r, topic[n])'
    <3>1. r # s
      BY <2>2, <1>1, <1>3, <1>6
    <3>2. ~Has(r, topic[n])
      BY <3>1, <2>2, <1>3, <1>6 DEF Once
    <3>3. Has(r, topic[n])' <=> Has(r, topic[n])
      BY <3>1, <1>3, <1>6 DEF Has
    <3> QED BY <3>2, <3>3
  <2> QED BY <2>1, <2>2 DEF Once
<1>13. Beginning'
  <2> SUFFICES ASSUME ~withdrawn', NEW r \in Subscribers PROVE Begins(r)'
    BY DEF Beginning
  <2>1. Begins(r)
    BY <1>3 DEF Beginning
  <2>2. CASE r # s
    <3>1. offset'[r] = offset[r] /\ got'[r] = got[r] /\ missed' = missed /\ topic' = topic
      BY <2>2, <1>3, <1>6
    <3> QED BY <2>1, <3>1 DEF Begins, Has
  <2>3. CASE r = s
    <3>1. offset'[s] = Len(topic') /\ topic' = topic /\ missed' = missed
      BY <1>3, <1>6
    <3>2. offset[s] <= Len(topic) /\ Len(u) = Len(topic) - offset[s]
      <4>1. offset[s] <= Len(topic)
        BY <2>1, <2>3 DEF Begins
      <4> QED BY <4>1, <1>1, <1>4
    <3>3. missed[s] = 0 => Len(got'[s]) = Len(topic)
              /\ \A n \in 1..Len(topic) : got'[s][n] = topic[n]
      <4> SUFFICES ASSUME missed[s] = 0
                   PROVE Len(got'[s]) = Len(topic) /\ \A n \in 1..Len(topic) : got'[s][n] = topic[n]
        OBVIOUS
      <4>1. Len(got[s]) = offset[s] /\ \A n \in 1..offset[s] : got[s][n] = topic[n]
        BY <2>1, <2>3 DEF Begins
      <4>2. ASSUME NEW n \in 1..Len(topic) PROVE got'[s][n] = topic[n]
        <5>1. CASE n <= offset[s]
          BY <5>1, <4>1, <1>1, <1>5
        <5>2. CASE n > offset[s]
          <6>1. n - offset[s] \in 1..Len(u) /\ offset[s] + (n - offset[s]) = n
            BY <5>2, <3>2, <1>1
          <6>2. u[n - offset[s]] = topic[n]
            BY <6>1, <1>4
          <6>3. got'[s][Len(got[s]) + (n - offset[s])] = u[n - offset[s]]
            BY <6>1, <1>5
          <6>4. Len(got[s]) + (n - offset[s]) = n
            BY <6>1, <4>1
          <6> QED BY <6>2, <6>3, <6>4
        <5> QED BY <5>1, <5>2, <1>1
      <4> QED BY <4>1, <4>2, <3>2, <1>1, <1>5
    <3>4. \A n \in DOMAIN topic : \E k \in DOMAIN got'[s] : got'[s][k] = topic[n]
      <4>1. PICK h \in 0..Len(topic) : offset[s] <= h
                /\ \A n \in DOMAIN topic : Has(s, topic[n]) <=> n <= h
        BY <2>1, <2>3 DEF Begins
      <4>2. ASSUME NEW n \in DOMAIN topic PROVE \E k \in DOMAIN got'[s] : got'[s][k] = topic[n]
        <5>1. CASE n <= h
          BY <5>1, <4>1, <1>9
        <5>2. CASE n > h
          BY <5>2, <4>1, <1>1, <1>9
        <5> QED BY <5>1, <5>2, <1>1
      <4> QED BY <4>2
    <3>5. Len(topic) \in 0..Len(topic) /\ \A n \in DOMAIN topic : n <= Len(topic)
      BY <1>1
    <3> QED BY <2>3, <3>1, <3>3, <3>4, <3>5, <1>1 DEF Begins, Has
  <2> QED BY <2>2, <2>3
<1>14. Kept'
  BY <1>3 DEF Kept, Answered
<1> QED BY <1>7, <1>11, <1>12, <1>13, <1>14 DEF BusInv

\* The beginning of a sequence is what agrees with it so far.
LEMMA BeginningOf ==
  ASSUME NEW S, NEW t \in Seq(S), NEW a \in Seq(S), Len(a) <= Len(t),
         \A n \in 1..Len(a) : a[n] = t[n]
  PROVE  a = SubSeq(t, 1, Len(a))
<1> DEFINE l == Len(a)
<1>1. l \in Int /\ l \in Nat /\ 1 \in Int /\ \A i \in 1..l : t[i] \in S
  OBVIOUS
<1>2. /\ SubSeq(t, 1, l) \in Seq(S)
      /\ Len(SubSeq(t, 1, l)) = IF 1 <= l THEN l - 1 + 1 ELSE 0
      /\ \A i \in 1..(l - 1 + 1) : SubSeq(t, 1, l)[i] = t[1 + i - 1]
  <2> HIDE DEF l
  <2> QED BY <1>1, SubSeqProperties
<1>3. Len(SubSeq(t, 1, l)) = l /\ \A i \in 1..l : SubSeq(t, 1, l)[i] = a[i]
  <2> HIDE DEF l
  <2>1. \A i \in 1..l : a[i] = t[i]
    BY DEF l
  <2> QED BY <1>1, <1>2, <2>1
<1> DEFINE b == SubSeq(t, 1, l)
<1>4. b \in Seq(S) /\ Len(b) = Len(a) /\ \A i \in 1..Len(a) : b[i] = a[i]
  BY <1>2, <1>3
<1> HIDE DEF b
<1>5. a = b
  BY <1>4, SeqEqual
<1> QED BY <1>5 DEF b

\* Every step of the bus keeps its invariant.
LEMMA BusStep == BusInv /\ [Bus!Next]_(Bus!busVars) => BusInv'
<1> SUFFICES ASSUME BusInv, [Bus!Next]_(Bus!busVars) PROVE BusInv'
  OBVIOUS
<1> USE DEF BusInv
<1>1. ASSUME NEW p \in Procs, Bus!Publish(p) PROVE BusInv'
  <2>1. /\ publishing[p] = 0 /\ sent < MaxMessages /\ sent' = sent + 1
        /\ publishing' = [publishing EXCEPT ![p] = sent + 1]
        /\ UNCHANGED <<topic, tail, inLock, offset, got, published, missed, broken, withdrawn>>
    BY <1>1 DEF Bus!Publish
  <2>2. sent \in Nat /\ sent' \in 0..MaxMessages /\ sent' = sent + 1
    BY <2>1, BusValues DEF BusTyped
  <2>3. /\ publishing' \in [Procs -> 0..MaxMessages] /\ publishing'[p] = sent'
        /\ \A q \in Procs \ {p} : publishing'[q] = publishing[q]
    BY <2>1, <2>2 DEF BusTyped
  <2>4. BusTyped' /\ BusFlags'
    BY <2>1, <2>2, <2>3 DEF BusTyped, BusFlags
  <2>5. Fresh'
    <3>1. \A n \in DOMAIN topic : topic[n] \in Nat /\ topic[n] <= sent
      <4>1. \A n \in DOMAIN topic : topic[n] \in Messages
        BY DEF BusTyped
      <4> QED BY <4>1 DEF Fresh, Messages
    <3>2. \A s \in Subscribers : \A k \in DOMAIN got[s] : got[s][k] \in Nat /\ got[s][k] <= sent
      <4>1. ASSUME NEW s \in Subscribers, NEW k \in DOMAIN got[s] PROVE got[s][k] \in Messages
        <5>1. got[s] \in Seq(Messages)
          BY DEF BusTyped
        <5> QED BY <5>1
      <4> QED BY <4>1 DEF Fresh, Messages
    <3>3. \A q \in Procs : publishing[q] \in Nat /\ publishing[q] <= sent
      BY DEF BusTyped, Fresh
    <3>4. inLock' # Nil => publishing'[inLock'] # 0
      BY <2>1, <2>2, <2>3 DEF Fresh, BusTyped
    <3>5. \A q, r \in Procs : publishing'[q] # 0 /\ publishing'[q] = publishing'[r] => q = r
      BY <2>2, <2>3, <3>3 DEF Fresh
    <3>6. ASSUME NEW q \in Procs, publishing'[q] # 0
          PROVE  /\ \A n \in DOMAIN topic' : topic'[n] # publishing'[q]
                 /\ \A s \in Subscribers : ~Has(s, publishing[q])'
      <4>1. CASE q = p
        BY <4>1, <2>1, <2>2, <2>3, <3>1, <3>2 DEF Has
      <4>2. CASE q # p
        <5>1. publishing'[q] = publishing[q] /\ publishing[q] # 0
          BY <4>2, <2>3, <3>6
        <5> QED BY <5>1, <2>1 DEF Fresh, Has
      <4> QED BY <4>1, <4>2
    <3>7. /\ \A n \in DOMAIN topic' : topic'[n] <= sent'
          /\ \A s \in Subscribers : \A k \in DOMAIN got'[s] : got'[s][k] <= sent'
          /\ \A q \in Procs : publishing'[q] <= sent'
      BY <2>1, <2>2, <2>3, <3>1, <3>2, <3>3
    <3> QED BY <2>1, <3>4, <3>5, <3>6, <3>7 DEF Fresh
  <2>6. Once' /\ Beginning' /\ Kept'
    BY <2>1 DEF Once, Beginning, Begins, Has, Kept, Answered
  <2> QED BY <2>4, <2>5, <2>6
<1>2. ASSUME NEW p \in Procs, Bus!LockTopic(p) PROVE BusInv'
  <2>1. /\ publishing[p] # 0 /\ inLock' = p
        /\ UNCHANGED <<topic, tail, publishing, offset, got, sent, published, missed, broken,
             withdrawn>>
    BY <1>2 DEF Bus!LockTopic
  <2> QED BY <2>1 DEF BusTyped, BusFlags, Fresh, Once, Beginning, Begins, Has, Kept, Answered
<1>3. ASSUME NEW p \in Procs, Bus!AppendMessage(p) PROVE BusInv'
  <2>1. /\ inLock = p /\ Bus!Written(publishing[p], "whole") /\ Bus!Done(p)
        /\ published' = Append(published, publishing[p])
        /\ UNCHANGED <<offset, got, sent, missed>>
    BY <1>3 DEF Bus!AppendMessage
  <2>2. /\ topic' \in Seq(Messages) /\ tail' \in {"whole", "cut", "open", "mangled"}
        /\ inLock' \in Procs \union {Nil} /\ publishing' \in [Procs -> 0..MaxMessages]
        /\ BusFlags' /\ Fresh' /\ Once' /\ Beginning'
        /\ ~broken' => ~broken
        /\ tail = "whole" => topic' = Append(topic, publishing[p]) /\ tail' = "whole"
             /\ withdrawn' = withdrawn
    <3>1. "whole" \in {"whole", "cut", "open", "mangled"}
      OBVIOUS
    <3> QED BY <2>1, <3>1, BusWrites
  <2>3. publishing[p] \in Messages
    BY <2>1, BusValues DEF BusTyped, Fresh, Messages
  <2>4. published' \in Seq(Messages) /\ BusTyped'
    BY <2>1, <2>2, <2>3 DEF BusTyped
  <2>5. Kept'
    <3> SUFFICES ASSUME ~broken' PROVE tail' = "whole" /\ ~withdrawn' /\ Answered'
      BY DEF Kept
    <3>1. tail = "whole" /\ ~withdrawn /\ Answered
      BY <2>2 DEF Kept
    <3>2. topic' = Append(topic, publishing[p]) /\ tail' = "whole" /\ ~withdrawn'
      BY <3>1, <2>2
    <3>3. Len(topic) \in Nat /\ DOMAIN topic = 1..Len(topic) /\ DOMAIN topic' = 1..(Len(topic) + 1)
          /\ topic'[Len(topic) + 1] = publishing[p] /\ \A n \in 1..Len(topic) : topic'[n] = topic[n]
      BY <2>3, <3>2 DEF BusTyped
    <3>4. Len(published) \in Nat /\ DOMAIN published = 1..Len(published)
          /\ DOMAIN published' = 1..(Len(published) + 1)
          /\ published'[Len(published) + 1] = publishing[p]
          /\ \A n \in 1..Len(published) : published'[n] = published[n]
      BY <2>1, <2>3 DEF BusTyped
    <3>5. ASSUME NEW j \in DOMAIN published'
          PROVE  \E m \in DOMAIN topic' :
                   /\ topic'[m] = published'[j]
                   /\ \A i \in 1..(j - 1) : \E n \in 1..(m - 1) : topic'[n] = published'[i]
      <4>1. CASE j = Len(published) + 1
        <5>1. ASSUME NEW i \in 1..(j - 1)
              PROVE  \E n \in 1..((Len(topic) + 1) - 1) : topic'[n] = published'[i]
          <6>1. i \in DOMAIN published /\ published'[i] = published[i]
            BY <4>1, <3>4
          <6>2. PICK n \in DOMAIN topic : topic[n] = published[i]
            BY <6>1, <3>1 DEF Answered
          <6> QED BY <6>1, <6>2, <3>3
        <5>2. Len(topic) + 1 \in DOMAIN topic' /\ topic'[Len(topic) + 1] = published'[j]
          BY <4>1, <3>3, <3>4
        <5> QED BY <5>1, <5>2
      <4>2. CASE j # Len(published) + 1
        <5>1. j \in DOMAIN published /\ j \in Nat /\ published'[j] = published[j]
          BY <4>2, <3>4
        <5>2. PICK m \in DOMAIN topic :
                /\ topic[m] = published[j]
                /\ \A i \in 1..(j - 1) : \E n \in 1..(m - 1) : topic[n] = published[i]
          BY <5>1, <3>1 DEF Answered
        <5>3. m \in DOMAIN topic' /\ topic'[m] = published'[j]
          BY <5>1, <5>2, <3>3
        <5>4. ASSUME NEW i \in 1..(j - 1) PROVE \E n \in 1..(m - 1) : topic'[n] = published'[i]
          <6>1. published'[i] = published[i]
            BY <5>1, <3>4
          <6>2. PICK n \in 1..(m - 1) : topic[n] = published[i]
            BY <5>2
          <6>3. n \in 1..Len(topic)
            BY <6>2, <3>3
          <6> QED BY <6>1, <6>2, <6>3, <3>3
        <5> QED BY <5>3, <5>4
      <4> QED BY <4>1, <4>2
    <3> QED BY <3>2, <3>5 DEF Answered
  <2> QED BY <2>2, <2>4, <2>5
<1>4. ASSUME NEW p \in Procs, Bus!PublishFails(p) PROVE BusInv'
  <2>1. publishing[p] # 0 /\ Bus!Done(p) /\ UNCHANGED <<offset, got, sent, published, missed>>
    BY <1>4 DEF Bus!PublishFails
  <2>2. CASE UNCHANGED <<topic, tail, broken, withdrawn>>
    <3>1. /\ publishing' = [publishing EXCEPT ![p] = 0]
          /\ inLock' = IF inLock = p THEN Nil ELSE inLock
      BY <2>1 DEF Bus!Done
    <3>2. /\ publishing' \in [Procs -> 0..MaxMessages] /\ publishing'[p] = 0
          /\ \A q \in Procs \ {p} : publishing'[q] = publishing[q]
      BY <3>1, BusValues DEF BusTyped
    <3>3. inLock' \in Procs \union {Nil} /\ (inLock' # Nil => inLock' = inLock /\ inLock # p)
      BY <3>1, BusValues DEF BusTyped
    <3>4. BusTyped' /\ BusFlags'
      BY <2>1, <2>2, <3>2, <3>3 DEF BusTyped, BusFlags
    <3>5. Fresh'
      <4>1. inLock' # Nil => publishing'[inLock'] # 0
        BY <3>2, <3>3 DEF Fresh, BusTyped
      <4>2. \A q \in Procs : publishing'[q] <= sent'
        BY <2>1, <3>2 DEF Fresh, BusTyped
      <4>3. \A q, r \in Procs : publishing'[q] # 0 /\ publishing'[q] = publishing'[r] => q = r
        BY <3>2 DEF Fresh
      <4>4. ASSUME NEW q \in Procs, publishing'[q] # 0
            PROVE  /\ \A n \in DOMAIN topic' : topic'[n] # publishing'[q]
                   /\ \A s \in Subscribers : ~Has(s, publishing[q])'
        <5>1. publishing'[q] = publishing[q] /\ publishing[q] # 0
          BY <3>2, <4>4
        <5> QED BY <5>1, <2>1, <2>2 DEF Fresh, Has
      <4> QED BY <2>1, <2>2, <4>1, <4>2, <4>3, <4>4 DEF Fresh
    <3>6. Once' /\ Beginning' /\ Kept'
      BY <2>1, <2>2 DEF Once, Beginning, Begins, Has, Kept, Answered
    <3> QED BY <3>4, <3>5, <3>6
  <2>3. ASSUME NEW end \in {"whole", "cut", "open", "mangled"}, inLock = p,
                   Bus!Written(publishing[p], end)
        PROVE BusInv'
    <3>1. /\ topic' \in Seq(Messages) /\ tail' \in {"whole", "cut", "open", "mangled"}
          /\ inLock' \in Procs \union {Nil} /\ publishing' \in [Procs -> 0..MaxMessages]
          /\ BusFlags' /\ Fresh' /\ Once' /\ Beginning'
          /\ ~broken' => ~broken /\ end = "whole"
          /\ tail = "whole" /\ end = "whole" =>
               topic' = Append(topic, publishing[p]) /\ tail' = "whole" /\ withdrawn' = withdrawn
      BY <2>1, <2>3, BusWrites
    <3>2. BusTyped'
      BY <2>1, <3>1 DEF BusTyped
    <3>3. Kept'
      <4> SUFFICES ASSUME ~broken' PROVE tail' = "whole" /\ ~withdrawn' /\ Answered'
        BY DEF Kept
      <4>1. tail = "whole" /\ ~withdrawn /\ Answered /\ end = "whole"
        BY <3>1 DEF Kept
      <4>2. topic' = Append(topic, publishing[p]) /\ tail' = "whole" /\ ~withdrawn'
                /\ published' = published
        BY <4>1, <3>1, <2>1
      <4>3. publishing[p] \in Messages
        BY <2>1, BusValues DEF BusTyped, Messages
      <4>4. DOMAIN topic \subseteq DOMAIN topic' /\ DOMAIN topic = 1..Len(topic)
                /\ Len(topic) \in Nat
            /\ \A n \in 1..Len(topic) : topic'[n] = topic[n]
        BY <4>2, <4>3 DEF BusTyped
      <4>5. ASSUME NEW j \in DOMAIN published
            PROVE  \E m \in DOMAIN topic' :
                     /\ topic'[m] = published[j]
                     /\ \A i \in 1..(j - 1) : \E n \in 1..(m - 1) : topic'[n] = published[i]
        <5>1. PICK m \in DOMAIN topic :
                /\ topic[m] = published[j]
                /\ \A i \in 1..(j - 1) : \E n \in 1..(m - 1) : topic[n] = published[i]
          BY <4>1 DEF Answered
        <5>2. \A n \in 1..(m - 1) : topic'[n] = topic[n]
          BY <4>4
        <5> QED BY <5>1, <5>2, <4>4
      <4> QED BY <4>2, <4>5 DEF Answered
    <3> QED BY <3>1, <3>2, <3>3
  <2> QED BY <1>4, <2>2, <2>3 DEF Bus!PublishFails
<1>5. ASSUME NEW s \in Subscribers, Bus!Subscribe(s) PROVE BusInv'
  BY <1>5, BusAnswers
<1>6. ASSUME NEW s \in Subscribers, Bus!SubscribeFails(s) PROVE BusInv'
  <2>1. /\ missed[s] < MaxMisses /\ missed' = [missed EXCEPT ![s] = @ + 1]
        /\ offset' = [offset EXCEPT ![s] = 0]
        /\ UNCHANGED <<topic, tail, inLock, publishing, got, sent, published, broken, withdrawn>>
    BY <1>6 DEF Bus!SubscribeFails
  <2>2. /\ missed' \in [Subscribers -> 0..MaxMisses] /\ missed'[s] # 0
        /\ offset' \in [Subscribers -> Nat] /\ offset'[s] = 0
        /\ \A r \in Subscribers \ {s} : missed'[r] = missed[r] /\ offset'[r] = offset[r]
    BY <2>1, BusValues DEF BusTyped
  <2>3. BusTyped' /\ BusFlags' /\ Kept'
    BY <2>1, <2>2 DEF BusTyped, BusFlags, Kept, Answered
  <2>4. Fresh'
    BY <2>1 DEF Fresh, Has
  <2>5. Once'
    BY <2>1, <2>2 DEF Once, Has
  <2>6. ASSUME ~withdrawn, NEW r \in Subscribers PROVE Begins(r)'
    <3>1. Begins(r)
      BY <2>6 DEF Beginning
    <3>2. CASE r # s
      BY <3>1, <3>2, <2>1, <2>2 DEF Begins, Has
    <3>3. CASE r = s
      <4>1. PICK h \in 0..Len(topic) : \A n \in DOMAIN topic : Has(s, topic[n]) <=> n <= h
        BY <3>1, <3>3 DEF Begins
      <4>2. Len(topic) \in Nat /\ 0 <= h
        BY DEF BusTyped
      <4> QED BY <4>1, <4>2, <3>3, <2>1, <2>2 DEF Begins, Has
    <3> QED BY <3>2, <3>3
  <2> QED BY <2>1, <2>3, <2>4, <2>5, <2>6 DEF Beginning
<1>7. CASE UNCHANGED Bus!busVars
  BY <1>7 DEF Bus!busVars, BusTyped, BusFlags, Fresh, Once, Beginning, Begins, Has, Kept, Answered
<1> QED BY <1>1, <1>2, <1>3, <1>4, <1>5, <1>6, <1>7 DEF Bus!Next

\* The bus of Shared runs as EventBus says.
LEMMA BusSpec == SharedSpec => Bus!Spec
<1>1. SharedInit => Bus!Init
  BY DEF SharedInit
<1>2. [SharedNext]_sharedVars => [Bus!Next]_(Bus!busVars)
  BY DEF SharedNext, sharedVars, busVars, Bus!busVars
<1> QED BY <1>1, <1>2, PTL DEF SharedSpec, Bus!Spec

\* The invariant of the bus holds always.
LEMMA BusInvariant == SharedSpec => []BusInv
<1>1. Bus!Init => BusInv
  <2>1. Bus!Init => BusTyped
    BY BusValues DEF Bus!Init, BusTyped
  <2>2. Bus!Init => BusFlags
    BY DEF Bus!Init, BusFlags
  <2>4. Bus!Init => Fresh
    BY BusValues DEF Bus!Init, Fresh, Has
  <2>5. Bus!Init => Once
    BY DEF Bus!Init, Once, Has
  <2>6. Bus!Init => Kept
    BY DEF Bus!Init, Kept, Answered
  <2>3. Bus!Init => Beginning
    BY DEF Bus!Init, Beginning, Begins, Has
  <2> QED BY <2>1, <2>2, <2>3, <2>4, <2>5, <2>6 DEF BusInv
<1> QED BY <1>1, BusStep, BusSpec, PTL DEF Bus!Spec

\* DeliveredInOrder (publish and subscribe of event_bus.py): a subscriber that could
\* always read the topic has no message twice and, as long as none was made unreadable again,
\* every one up to its offset in the order of the file; one that did not skips none
\* before its last; and unless a line was cut off, what publish returned is in the
\* file in that order. For any publishers, subscribers, messages and failed reads.
THEOREM Delivered == SharedSpec => []DeliveredInOrder
<1>1. BusInv => DeliveredInOrder
  <2> SUFFICES ASSUME BusInv PROVE Bus!DeliveredInOrder
    BY DEF DeliveredInOrder
  <2> USE DEF BusInv
  <2>1. ASSUME NEW s \in Subscribers, missed[s] = 0 PROVE Bus!IsInjective(got[s])
    BY <2>1 DEF Once, Bus!IsInjective
  <2>2. ASSUME NEW s \in Subscribers, ~withdrawn
        PROVE  /\ offset[s] <= Len(topic)
               /\ missed[s] = 0 => got[s] = SubSeq(topic, 1, offset[s])
               /\ \A m \in DOMAIN topic : topic[m] \in Bus!ToSet(got[s]) =>
                    \A n \in 1..m : topic[n] \in Bus!ToSet(got[s])
    <3>1. Begins(s)
      BY <2>2 DEF Beginning
    <3>2. topic \in Seq(Messages) /\ got[s] \in Seq(Messages) /\ offset[s] \in Nat
          /\ Len(topic) \in Nat /\ DOMAIN topic = 1..Len(topic)
      BY DEF BusTyped
    <3>3. missed[s] = 0 => got[s] = SubSeq(topic, 1, offset[s])
      <4> SUFFICES ASSUME missed[s] = 0 PROVE got[s] = SubSeq(topic, 1, offset[s])
        OBVIOUS
      <4>1. Len(got[s]) = offset[s] /\ Len(got[s]) <= Len(topic)
                /\ \A n \in 1..Len(got[s]) : got[s][n] = topic[n]
        BY <3>1 DEF Begins
      <4>2. got[s] = SubSeq(topic, 1, Len(got[s]))
        BY <3>2, <4>1, BeginningOf
      <4> QED BY <4>1, <4>2
    <3>4. PICK h \in 0..Len(topic) : \A n \in DOMAIN topic : Has(s, topic[n]) <=> n <= h
      BY <3>1 DEF Begins
    <3>5. \A x : x \in Bus!ToSet(got[s]) <=> Has(s, x)
      BY DEF Has, Bus!ToSet
    <3>6. ASSUME NEW m \in DOMAIN topic, topic[m] \in Bus!ToSet(got[s]), NEW n \in 1..m
          PROVE topic[n] \in Bus!ToSet(got[s])
      <4>1. m <= h /\ n \in DOMAIN topic /\ n <= h
        BY <3>2, <3>4, <3>5, <3>6
      <4> QED BY <4>1, <3>4, <3>5
    <3>7. offset[s] <= Len(topic)
      BY <3>1 DEF Begins
    <3> QED BY <3>3, <3>6, <3>7
  <2>3. ~broken => Answered
    BY DEF Kept
  <2> QED BY <2>1, <2>2, <2>3 DEF Bus!DeliveredInOrder, Answered
<1> QED BY <1>1, BusInvariant, PTL

-----------------------------------------------------------------------------
(* The durable sessions.                                                   *)

\* Types of the files, the saves under way and the cache.
SaveTyped ==
  /\ disk = [f \in Durable!Files |-> disk[f]]
  /\ temp = [f \in Durable!Files |-> temp[f]]
  /\ job = [h \in Procs |-> job[h]]
  /\ \A f \in Durable!Files : disk[f] # Nil => disk[f] \in Durable!Content(f)
  /\ \A f \in Durable!Files : temp[f] # Nil => temp[f] \in Durable!Content(f)
  /\ \A h \in Procs : job[h] # Nil =>
       job[h].file \in Durable!Files /\ job[h] \in Durable!Saves(job[h].file)
  /\ llm \in [Procs -> [Prompts -> 0..MaxCalls]]
  /\ calls \in 0..MaxCalls
  /\ known \in Durable!Checkpoints

\* Types of the receipts.
ReceiptsTyped ==
  /\ receiptLog \in Seq(Tools \union {Torn, Junk})
  /\ receipted \subseteq Tools

\* The flags of the history are such.
DurableFlags == contested \in BOOLEAN /\ mixed \in BOOLEAN

\* Without overlapping calls there is one save at a time, nobody has a file open
\* but for it, and what it records is what the checkpoint will be.
Saving(h) ==
  LET j == job[h] IN
  /\ j.at = "write" => /\ temp[j.file] # Nil
                       /\ temp[j.file].by = {h}
                       /\ temp[j.file].data = Blank
  /\ j.at = "replace" => /\ temp[j.file] # Nil
                         /\ temp[j.file].by = {}
                         /\ temp[j.file].data = j.data
  /\ j.file = "checkpoint" => j.data = j.done
  /\ j.file = "llm" => j.done = known

\* While no two calls overlap, the file has what is known, and nobody has it open.
SavesKept == ~contested =>
  /\ \A g, h \in Procs : job[g] # Nil /\ job[h] # Nil => g = h
  /\ \A f \in Durable!Files : disk[f] # Nil => disk[f].by = {}
  /\ \A f \in Durable!Files : temp[f] # Nil =>
       \A h \in temp[f].by : job[h] # Nil /\ job[h].file = f /\ job[h].at = "write"
  /\ \A h \in Procs : job[h] # Nil => Saving(h)
  /\ disk["checkpoint"] # Nil => disk["checkpoint"].data = known

\* The inductive invariant of the durable layer.
DurableInv ==
  SaveTyped /\ ReceiptsTyped /\ DurableFlags /\ SavesKept /\ Durable!ReceiptsFound

-----------------------------------------------------------------------------

\* What the names of the model are told from.
LEMMA DurableValues ==
  /\ \A f \in Durable!Files : Nil \notin Durable!Content(f) /\ Nil \notin Durable!Saves(f)
  /\ Torn \notin Durable!Checkpoints /\ Blank \notin Durable!Checkpoints
  /\ Torn \notin Durable!Caches /\ Blank \notin Durable!Caches
  /\ Junk \notin Tools /\ Torn \notin Tools
<1>1. \A f \in Durable!Files : Nil \notin Durable!Content(f) /\ Nil \notin Durable!Saves(f)
  BY ValuesAssumption
<1>2. /\ Torn \notin Durable!Checkpoints /\ Blank \notin Durable!Checkpoints
      /\ Torn \notin Durable!Caches /\ Blank \notin Durable!Caches
  BY ValuesAssumption
<1>3. Junk \notin Tools /\ Torn \notin Tools
  BY ValuesAssumption
<1> QED BY <1>1, <1>2, <1>3

\* The calls are bounded by a number.
LEMMA DurableNumbers == MaxCalls \in Nat
  BY BoundsAssumption

\* A line that an append adds, or makes of a cut one, hides no receipt.
LEMMA FoundStays ==
  ASSUME ReceiptsTyped, NEW line \in Tools \union {Torn, Junk},
         receiptLog' = Append(receiptLog, line) \/
         (/\ receiptLog # <<>> /\ Durable!Last(receiptLog) = Torn
          /\ receiptLog' = Append(Durable!Front(receiptLog), line))
  PROVE  /\ receiptLog' \in Seq(Tools \union {Torn, Junk})
         /\ Durable!Found \subseteq Durable!Found'
<1> DEFINE L == Tools \union {Torn, Junk}
<1>1. receiptLog \in Seq(L) /\ Len(receiptLog) \in Nat /\ DOMAIN receiptLog = 1..Len(receiptLog)
  BY DEF ReceiptsTyped
<1> HIDE DEF L
<1>2. line \in L
  BY DEF L
<1>3. /\ receiptLog' \in Seq(L)
      /\ \A n \in DOMAIN receiptLog : receiptLog[n] # Torn =>
           n \in DOMAIN receiptLog' /\ receiptLog'[n] = receiptLog[n]
  <2>1. CASE receiptLog' = Append(receiptLog, line)
    BY <2>1, <1>1, <1>2
  <2>2. CASE /\ receiptLog # <<>> /\ Durable!Last(receiptLog) = Torn
             /\ receiptLog' = Append(Durable!Front(receiptLog), line)
    <3> DEFINE l == Len(receiptLog)
    <3> DEFINE f == SubSeq(receiptLog, 1, l - 1)
    <3>1. l \in Nat /\ l # 0 /\ receiptLog[l] = Torn /\ l - 1 \in Int
      BY <2>2, <1>1 DEF Durable!Last
    <3>2. receiptLog' = Append(f, line)
      BY <2>2 DEF Durable!Front
    <3>3. f \in Seq(L) /\ Len(f) = l - 1 /\ \A n \in 1..(l - 1) : f[n] = receiptLog[n]
      <4>1. \A n \in 1..(l - 1) : receiptLog[n] \in L
        BY <1>1
      <4> HIDE DEF l
      <4> QED BY <3>1, <4>1, SubSeqProperties
    <3> HIDE DEF f
    <3>4. receiptLog' \in Seq(L) /\ DOMAIN receiptLog' = 1..l
              /\ \A n \in 1..(l - 1) : receiptLog'[n] = receiptLog[n]
      BY <3>1, <3>2, <3>3, <1>2
    <3>5. ASSUME NEW n \in DOMAIN receiptLog, receiptLog[n] # Torn
          PROVE n \in DOMAIN receiptLog' /\ receiptLog'[n] = receiptLog[n]
      <4>1. n \in 1..(l - 1)
        BY <3>1, <3>5, <1>1
      <4> QED BY <4>1, <3>4, <3>1
    <3> QED BY <3>4, <3>5
  <2> QED BY <2>1, <2>2
<1>4. ASSUME NEW n \in DOMAIN receiptLog, \A l \in 1..n : receiptLog[l] \notin {Torn, Junk}
      PROVE  receiptLog[n] \in Durable!Found'
  <2>1. \A l \in 1..n : l \in DOMAIN receiptLog
    BY <1>1
  <2>2. n \in 1..n
    BY <1>1
  <2>3. n \in DOMAIN receiptLog' /\ receiptLog'[n] = receiptLog[n]
        /\ \A l \in 1..n : receiptLog'[l] \notin {Torn, Junk}
    BY <1>3, <1>4, <2>1, <2>2
  <2> QED BY <2>3 DEF Durable!Found
<1> QED BY <1>3, <1>4 DEF Durable!Found, L

\* The fields of a save and of a file.
LEMMA SaveFields ==
  ASSUME NEW f \in Durable!Files
  PROVE  /\ \A j \in Durable!Saves(f) : /\ j.file = f
                                        /\ j.at \in {"open", "write", "replace"}
                                        /\ j.data \in Durable!Saved(f)
                                        /\ j.done \in Durable!Checkpoints
                                        /\ \A at \in {"open", "write", "replace"} :
                                             [j EXCEPT !.at = at] \in Durable!Saves(f)
         /\ \A x \in Durable!Content(f) : x.by \in SUBSET Procs
         /\ \A B \in SUBSET Procs : \A d \in Durable!Saved(f) \union {Blank, Torn} :
              Durable!File(B, d) \in Durable!Content(f)
  BY DEF Durable!Saves, Durable!Content, Durable!File

\* The beginning of a save.
LEMMA StartKept ==
  ASSUME DurableInv, NEW h \in Procs, NEW f \in Durable!Files, NEW data \in Durable!Saved(f),
         NEW done \in Durable!Checkpoints, Durable!StartSave(h, f, data, done),
         ~contested /\ (\A g \in Procs : job[g] = Nil) =>
           (f = "checkpoint" => data = done) /\ (f = "llm" => done = known)
  PROVE  DurableInv'
<1> USE DEF DurableInv
<1>1. /\ job[h] = Nil /\ calls < MaxCalls /\ calls' = calls + 1
      /\ job' = [job EXCEPT ![h] = [file |-> f, at |-> "open", data |-> data, done |-> done]]
      /\ UNCHANGED <<disk, temp, receiptLog, llm, known, receipted, mixed>>
  BY DEF Durable!StartSave
<1>2. contested' = (contested \/ \E g \in Procs : job[g] # Nil)
  BY DEF Durable!StartSave
<1> DEFINE j == [file |-> f, at |-> "open", data |-> data, done |-> done]
<1>3. j \in Durable!Saves(f)
  BY DEF Durable!Saves
<1>4. job'[h] = j /\ (\A g \in Procs \ {h} : job'[g] = job[g]) /\ job' = [g \in Procs |-> job'[g]]
  BY <1>1 DEF SaveTyped
<1>5. calls' \in 0..MaxCalls
  BY <1>1, DurableNumbers DEF SaveTyped
<1>6. j.file = f /\ j.at = "open" /\ j.data = data /\ j.done = done
  OBVIOUS
<1> HIDE DEF j
<1>7. SaveTyped'
  <2>1. \A g \in Procs : job'[g] # Nil => job'[g].file \in Durable!Files
            /\ job'[g] \in Durable!Saves(job'[g].file)
    BY <1>3, <1>4, <1>6 DEF SaveTyped
  <2> QED BY <1>1, <1>4, <1>5, <2>1 DEF SaveTyped
<1>8. DurableFlags'
  BY <1>1, <1>2 DEF DurableFlags
<1>9. SavesKept'
  <2> SUFFICES ASSUME ~contested' PROVE SavesKept'
    BY DEF SavesKept
  <2>1. ~contested /\ \A g \in Procs : job[g] = Nil
    BY <1>2
  <2>2. (f = "checkpoint" => data = done) /\ (f = "llm" => done = known)
    BY <2>1
  <2>3. \A g \in Procs : job'[g] # Nil => g = h
    BY <1>4, <2>1
  <2>4. \A k \in Durable!Files : temp'[k] # Nil => \A g \in temp'[k].by : FALSE
    <3>1. \A k \in Durable!Files : temp[k] # Nil => temp[k].by \subseteq Procs
      BY SaveFields DEF SaveTyped
    <3> QED BY <3>1, <1>1, <2>1 DEF SavesKept
  <2>5. Saving(h)'
    BY <1>1, <1>4, <1>6, <2>2 DEF Saving
  <2> QED BY <1>1, <2>1, <2>3, <2>4, <2>5 DEF SavesKept
<1>10. ReceiptsTyped' /\ Durable!ReceiptsFound'
  BY <1>1 DEF ReceiptsTyped, Durable!ReceiptsFound, Durable!Found
<1> QED BY <1>7, <1>8, <1>9, <1>10

\* What a write leaves of the files: no more than before and the content.
Leaves(f0, h, named, after, data) ==
  /\ after = [f \in Durable!Files |-> after[f]]
  /\ \A f \in Durable!Files : after[f] # Nil => after[f] \in Durable!Content(f)
  /\ \A f \in Durable!Files : after[f] = Nil <=> named[f] = Nil
  /\ \A f \in Durable!Files : after[f] # Nil => after[f].by \subseteq named[f].by
  /\ named[f0] # Nil /\ h \in named[f0].by => after[f0].by = named[f0].by \ {h}
  /\ named[f0] # Nil /\ h \in named[f0].by /\ named[f0].data = Blank => after[f0].data = data
  /\ \A f \in Durable!Files : (f # f0 \/ named[f] = Nil \/ h \notin named[f].by) =>
       after[f] = named[f]

\* What it writes into.
Typed(named) ==
  /\ named = [f \in Durable!Files |-> named[f]]
  /\ \A f \in Durable!Files : named[f] # Nil => named[f] \in Durable!Content(f)

\* What a write may leave of the files.
LEMMA WriteLeaves ==
  ASSUME SaveTyped, NEW h \in Procs, job[h] # Nil, NEW named, NEW after, Typed(named),
         NEW data \in Durable!Saved(job[h].file) \union {Torn},
         after \in Durable!Written(h, named, data)
  PROVE  Leaves(job[h].file, h, named, after, data)
<1> USE DEF Typed, Leaves
<1> DEFINE f0 == job[h].file
<1>1. f0 \in Durable!Files
  BY DEF SaveTyped
<1>2. CASE ~(named[f0] # Nil /\ h \in named[f0].by)
  <2>1. after = named
    BY <1>2 DEF Durable!Written
  <2> QED BY <2>1, <1>1, <1>2
<1>3. CASE named[f0] # Nil /\ h \in named[f0].by
  <2>1. PICK d \in {data, Torn} : /\ after = [named EXCEPT ![f0] = Durable!File(@.by \ {h}, d)]
                                  /\ named[f0].data = Blank => d = data
    BY <1>3 DEF Durable!Written
  <2> DEFINE x == Durable!File(named[f0].by \ {h}, d)
  <2>2. after = [named EXCEPT ![f0] = x]
    BY <2>1
  <2>3. x.by = named[f0].by \ {h} /\ x.data = d
    BY DEF Durable!File
  <2>4. x \in Durable!Content(f0)
    <3>1. named[f0] \in Durable!Content(f0)
      BY <1>1, <1>3
    <3>2. named[f0].by \in SUBSET Procs
      BY <1>1, <3>1, SaveFields
    <3>3. d \in Durable!Saved(f0) \union {Blank, Torn} /\ named[f0].by \ {h} \in SUBSET Procs
      BY <2>1, <3>2
    <3> QED BY <1>1, <3>3, SaveFields
  <2>5. x # Nil
    BY <2>4, <1>1, DurableValues
  <2> HIDE DEF x, f0
  <2>6. after[f0] = x /\ (\A f \in Durable!Files \ {f0} : after[f] = named[f])
        /\ after = [f \in Durable!Files |-> after[f]]
    BY <2>2, <1>1
  <2> QED BY <1>1, <1>3, <2>1, <2>3, <2>4, <2>5, <2>6 DEF f0
<1> QED BY <1>2, <1>3

\* The end of a save that has changed what it did not write.
LEMMA SaveEnds ==
  ASSUME DurableInv, NEW h \in Procs, Durable!Abandoned(h), job' = [job EXCEPT ![h] = Nil],
         UNCHANGED <<calls, known, contested, receiptLog, receipted, mixed>>,
         llm' \in [Procs -> [Prompts -> 0..MaxCalls]]
  PROVE  DurableInv'
<1> USE DEF DurableInv
<1>1. /\ job'[h] = Nil /\ (\A g \in Procs \ {h} : job'[g] = job[g])
      /\ job' = [g \in Procs |-> job'[g]]
  BY DEF SaveTyped
<1>2. /\ \A x \in {"disk", "temp"} : TRUE
      /\ disk' = [f \in Durable!Files |-> disk'[f]] /\ temp' = [f \in Durable!Files |-> temp'[f]]
      /\ \A f \in Durable!Files : disk'[f] # Nil => disk'[f] \in Durable!Content(f)
      /\ \A f \in Durable!Files : temp'[f] # Nil => temp'[f] \in Durable!Content(f)
      /\ \A f \in Durable!Files : disk[f] # Nil /\ disk[f].by = {} => disk'[f] = disk[f]
      /\ \A f \in Durable!Files : disk'[f] # Nil => disk[f] # Nil
      /\ \A f \in Durable!Files : temp'[f] # Nil => temp[f] # Nil
           /\ temp'[f].by \subseteq temp[f].by
      /\ Durable!InSave(h, "write") /\ temp[job[h].file] # Nil /\ h \in temp[job[h].file].by =>
           temp'[job[h].file].by = temp[job[h].file].by \ {h}
  <2>1. CASE Durable!InSave(h, "write")
    <3>1. job[h] # Nil /\ job[h].file \in Durable!Files
      BY <2>1 DEF Durable!InSave, SaveTyped
    <3>2. temp' \in Durable!Written(h, temp, Torn) /\ disk' \in Durable!Written(h, disk, Torn)
      BY <2>1 DEF Durable!Abandoned
    <3>3. Typed(temp) /\ Typed(disk) /\ Torn \in Durable!Saved(job[h].file) \union {Torn}
      BY DEF SaveTyped, Typed
    <3>4. Leaves(job[h].file, h, temp, temp', Torn)
      BY <3>1, <3>2, <3>3, WriteLeaves
    <3>5. Leaves(job[h].file, h, disk, disk', Torn)
      BY <3>1, <3>2, <3>3, WriteLeaves
    <3> QED BY <3>1, <3>4, <3>5 DEF Leaves
  <2>2. CASE ~Durable!InSave(h, "write")
    <3>1. temp' = temp /\ disk' = disk
      BY <2>2 DEF Durable!Abandoned
    <3> QED BY <3>1, <2>2 DEF SaveTyped
  <2> QED BY <2>1, <2>2
<1>3. SaveTyped'
  <2>1. \A g \in Procs : job'[g] # Nil => job'[g].file \in Durable!Files
            /\ job'[g] \in Durable!Saves(job'[g].file)
    BY <1>1 DEF SaveTyped
  <2> QED BY <1>1, <1>2, <2>1 DEF SaveTyped
<1>4. SavesKept'
  <2> SUFFICES ASSUME ~contested' PROVE SavesKept'
    BY DEF SavesKept
  <2>1. \A f \in Durable!Files : disk'[f] # Nil => disk'[f] = disk[f] /\ disk[f] # Nil
    BY <1>2 DEF SavesKept
  <2>2. \A f \in Durable!Files : disk'[f] # Nil => disk'[f].by = {}
    BY <2>1 DEF SavesKept
  <2>3. "checkpoint" \in Durable!Files
    BY DEF Durable!Files
  <2>4. disk'["checkpoint"] # Nil => disk'["checkpoint"].data = known'
    BY <2>1, <2>3 DEF SavesKept
  <2>5. CASE job[h] = Nil
    <3>1. temp' = temp
      BY <2>5 DEF Durable!Abandoned, Durable!InSave
    <3>2. job' = job
      BY <2>5 DEF SaveTyped
    <3>3. \A g \in Procs : job'[g] # Nil => Saving(g)'
      BY <3>1, <3>2 DEF SavesKept, Saving
    <3> QED BY <2>2, <2>4, <3>1, <3>2, <3>3 DEF SavesKept
  <2>6. CASE job[h] # Nil
    <3>1. \A g \in Procs : job'[g] = Nil
      BY <2>6, <1>1 DEF SavesKept
    <3>2. ASSUME NEW f \in Durable!Files, temp'[f] # Nil, NEW g \in temp'[f].by PROVE FALSE
      <4>1. temp[f] # Nil /\ g \in temp[f].by
        BY <3>2, <1>2
      <4>2. g \in Procs
        BY <4>1, SaveFields DEF SaveTyped
      <4>3. job[g] # Nil /\ job[g].file = f /\ job[g].at = "write"
        BY <4>1 DEF SavesKept
      <4>4. g = h
        BY <2>6, <4>2, <4>3 DEF SavesKept
      <4>5. Durable!InSave(h, "write")
        BY <2>6, <4>3, <4>4 DEF Durable!InSave
      <4> QED BY <3>2, <1>2, <4>1, <4>3, <4>4, <4>5
    <3> QED BY <2>2, <2>4, <3>1, <3>2 DEF SavesKept
  <2> QED BY <2>5, <2>6
<1>5. DurableFlags' /\ ReceiptsTyped' /\ Durable!ReceiptsFound'
  BY DEF DurableFlags, ReceiptsTyped, Durable!ReceiptsFound, Durable!Found
<1> QED BY <1>3, <1>4, <1>5

\* Every step of the durable layer keeps its invariant.
LEMMA DurableStep == DurableInv /\ [Durable!Next]_(Durable!durableVars) => DurableInv'
<1> SUFFICES ASSUME DurableInv, [Durable!Next]_(Durable!durableVars) PROVE DurableInv'
  OBVIOUS
<1> USE DEF DurableInv
<1>1. "checkpoint" \in Durable!Files /\ "llm" \in Durable!Files /\ "checkpoint" # "llm"
  BY DEF Durable!Files
<1>2. Durable!Boot \in Durable!Checkpoints /\ MaxCalls \in Nat
          /\ Durable!Saved("checkpoint") = Durable!Checkpoints
      /\ Durable!Saved("llm") = Durable!Caches
  <2>1. MaxCalls \in Nat
    BY DurableNumbers
  <2> QED BY <2>1, <1>1 DEF Durable!Boot, Durable!Checkpoints, Durable!Saved
\* What is loaded is what is known.
<1>3. Durable!Checkpoint # Nil =>
        Durable!Checkpoint \in Durable!Checkpoints /\ (~contested => Durable!Checkpoint = known)
  <2> SUFFICES ASSUME Durable!Checkpoint # Nil
               PROVE  Durable!Checkpoint \in Durable!Checkpoints
                          /\ (~contested => Durable!Checkpoint = known)
    OBVIOUS
  <2>1. Durable!Readable("checkpoint") /\ Durable!Checkpoint = disk["checkpoint"].data
    BY DEF Durable!Checkpoint
  <2>2. disk["checkpoint"] # Nil /\ disk["checkpoint"].data \notin {Blank, Torn}
    BY <2>1 DEF Durable!Readable
  <2>3. disk["checkpoint"].data \in Durable!Checkpoints
    BY <2>2, <1>1 DEF SaveTyped, Durable!Content, Durable!Saved
  <2>4. ~contested => disk["checkpoint"].data = known
    BY <2>2 DEF SavesKept
  <2> QED BY <2>1, <2>3, <2>4
<1>4. ASSUME NEW h \in Procs, Durable!CreateInitial(h) PROVE DurableInv'
  BY <1>1, <1>2, <1>4, StartKept DEF Durable!CreateInitial
<1>5. ASSUME NEW h \in Procs, Durable!AdvancePhase(h) PROVE DurableInv'
  <2>1. Durable!Checkpoint # Nil /\ calls < MaxCalls
        /\ Durable!StartSave(h, "checkpoint", Durable!InPhase(Durable!Checkpoint, calls + 1),
             Durable!InPhase(known, calls + 1))
    BY <1>5 DEF Durable!AdvancePhase, Durable!StartSave
  <2>2. \A c \in Durable!Checkpoints : Durable!InPhase(c, calls + 1) \in Durable!Checkpoints
    BY <1>2, <2>1 DEF Durable!InPhase, Durable!Checkpoints, SaveTyped
  <2>3. ~contested => Durable!InPhase(Durable!Checkpoint, calls + 1) = Durable!InPhase(known,
            calls + 1)
    BY <2>1, <1>3
  <2>4. Durable!InPhase(Durable!Checkpoint, calls + 1) \in Durable!Saved("checkpoint")
        /\ Durable!InPhase(known, calls + 1) \in Durable!Checkpoints
    BY <2>1, <2>2, <1>2, <1>3 DEF SaveTyped
  <2> QED BY <1>1, <2>1, <2>3, <2>4, StartKept
<1>6. ASSUME NEW h \in Procs, Durable!RecordStep(h) PROVE DurableInv'
  <2>1. Durable!Checkpoint # Nil /\ calls < MaxCalls
        /\ Durable!StartSave(h, "checkpoint", Durable!WithStep(Durable!Checkpoint, calls + 1),
             Durable!WithStep(known, calls + 1))
    BY <1>6 DEF Durable!RecordStep, Durable!StartSave
  <2>2. \A c \in Durable!Checkpoints : Durable!WithStep(c, calls + 1) \in Durable!Checkpoints
    BY <1>2, <2>1 DEF Durable!WithStep, Durable!Checkpoints, SaveTyped
  <2>3. ~contested => Durable!WithStep(Durable!Checkpoint, calls + 1) = Durable!WithStep(known,
            calls + 1)
    BY <2>1, <1>3
  <2>4. Durable!WithStep(Durable!Checkpoint, calls + 1) \in Durable!Saved("checkpoint")
        /\ Durable!WithStep(known, calls + 1) \in Durable!Checkpoints
    BY <2>1, <2>2, <1>2, <1>3 DEF SaveTyped
  <2> QED BY <1>1, <2>1, <2>3, <2>4, StartKept
<1>7. ASSUME NEW h \in Procs, Durable!Persist(h) PROVE DurableInv'
  <2>1. [entries |-> llm[h]] \in Durable!Saved("llm") /\ known \in Durable!Checkpoints
    BY <1>2 DEF Durable!Caches, SaveTyped
  <2> QED BY <1>1, <1>7, <2>1, StartKept DEF Durable!Persist
<1>8. ASSUME NEW h \in Procs, Durable!Resume(h) PROVE DurableInv'
  <2>1. Durable!Readable("llm") /\ UNCHANGED <<disk, temp, job, receiptLog, calls, known,
            contested, receipted>>
        /\ llm' = [llm EXCEPT ![h] = [c \in Prompts |-> IF disk["llm"].data.entries[c] # 0
                                                        THEN disk["llm"].data.entries[c] ELSE @[c]]]
        /\ mixed' = (mixed \/ Durable!Size(h) # {})
    BY <1>8 DEF Durable!Resume
  <2>2. disk["llm"].data \in Durable!Caches
    BY <2>1, <1>1 DEF SaveTyped, Durable!Readable, Durable!Content, Durable!Saved
  <2>3. llm' \in [Procs -> [Prompts -> 0..MaxCalls]]
    BY <2>1, <2>2 DEF SaveTyped, Durable!Caches
  <2>4. SaveTyped' /\ DurableFlags'
    BY <2>1, <2>3 DEF SaveTyped, DurableFlags
  <2> QED BY <2>1, <2>4 DEF SavesKept, Saving, ReceiptsTyped, Durable!ReceiptsFound, Durable!Found
<1>9. ASSUME NEW h \in Procs, Durable!OpenTemp(h) PROVE DurableInv'
  <2> DEFINE f == job[h].file
             x == Durable!File(IF temp[f] = Nil THEN {h} ELSE temp[f].by \union {h}, Blank)
             j == [job[h] EXCEPT !.at = "write"]
  <2>1. job[h] # Nil /\ job[h].at = "open" /\ f \in Durable!Files /\ job[h] \in Durable!Saves(f)
    BY <1>9 DEF Durable!OpenTemp, Durable!InSave, SaveTyped
  <2>2. temp' = [temp EXCEPT ![f] = x] /\ job' = [job EXCEPT ![h] = j]
        /\ UNCHANGED <<disk, receiptLog, llm, calls, known, contested, receipted, mixed>>
    BY <1>9 DEF Durable!OpenTemp
  <2>3. x.by = (IF temp[f] = Nil THEN {h} ELSE temp[f].by \union {h}) /\ x.data = Blank
    BY DEF Durable!File
  <2>4. x \in Durable!Content(f) /\ x # Nil
    <3>1. (IF temp[f] = Nil THEN {h} ELSE temp[f].by \union {h}) \in SUBSET Procs
      BY <2>1, SaveFields DEF SaveTyped
    <3>2. x \in Durable!Content(f)
      BY <2>1, <3>1, SaveFields
    <3> QED BY <2>1, <3>2, DurableValues
  <2>5. j.at = "write" /\ j.file = f /\ j.data = job[h].data /\ j.done = job[h].done
            /\ j \in Durable!Saves(f)
    BY <2>1 DEF Durable!Saves
  <2>6. j # Nil
    BY <2>1, <2>5, DurableValues
  <2> HIDE DEF x, j
  <2>7. temp'[f] = x /\ (\A k \in Durable!Files \ {f} : temp'[k] = temp[k])
            /\ temp' = [k \in Durable!Files |-> temp'[k]]
    BY <2>1, <2>2 DEF SaveTyped
  <2>8. job'[h] = j /\ (\A g \in Procs \ {h} : job'[g] = job[g]) /\ job' = [g \in Procs |-> job'[g]]
    BY <2>2 DEF SaveTyped
  <2> HIDE DEF f
  <2>9. SaveTyped'
    <3>1. \A k \in Durable!Files : temp'[k] # Nil => temp'[k] \in Durable!Content(k)
      BY <2>1, <2>4, <2>7 DEF SaveTyped
    <3>2. \A g \in Procs : job'[g] # Nil => job'[g].file \in Durable!Files
              /\ job'[g] \in Durable!Saves(job'[g].file)
      BY <2>1, <2>5, <2>8 DEF SaveTyped
    <3> QED BY <2>2, <2>7, <2>8, <3>1, <3>2 DEF SaveTyped
  <2>10. SavesKept'
    <3> SUFFICES ASSUME ~contested' PROVE SavesKept'
      BY DEF SavesKept
    <3>1. \A g \in Procs : job[g] # Nil => g = h
      BY <2>1, <2>2 DEF SavesKept
    <3>2. \A g \in Procs : job'[g] # Nil => g = h
      BY <2>8, <3>1
    <3>3. \A k \in Durable!Files : temp[k] # Nil => temp[k].by = {}
      <4>1. ASSUME NEW k \in Durable!Files, temp[k] # Nil, NEW g \in temp[k].by PROVE FALSE
        <5>1. g \in Procs
          BY <4>1, SaveFields DEF SaveTyped
        <5>2. job[g] # Nil /\ job[g].at = "write"
          BY <2>2, <4>1 DEF SavesKept
        <5> QED BY <5>1, <5>2, <3>1, <2>1
      <4> QED BY <4>1
    <3>4. x.by = {h}
      BY <2>1, <2>3, <3>3
    <3>5. \A k \in Durable!Files : temp'[k] # Nil =>
            \A g \in temp'[k].by : job'[g] # Nil /\ job'[g].file = k /\ job'[g].at = "write"
      BY <2>5, <2>6, <2>7, <2>8, <3>3, <3>4
    <3>6. Saving(h)
      BY <2>1, <2>2 DEF SavesKept
    <3>7. Saving(h)'
      BY <3>4, <3>6, <2>1, <2>2, <2>3, <2>4, <2>5, <2>7, <2>8 DEF Saving, f
    <3> QED BY <2>2, <3>2, <3>5, <3>7 DEF SavesKept
  <2> QED BY <2>2, <2>9, <2>10 DEF DurableFlags, ReceiptsTyped, Durable!ReceiptsFound, Durable!Found
<1>10. ASSUME NEW h \in Procs, Durable!WriteTemp(h) PROVE DurableInv'
  <2> DEFINE f == job[h].file
             j == [job[h] EXCEPT !.at = "replace"]
  <2>1. job[h] # Nil /\ job[h].at = "write" /\ f \in Durable!Files /\ job[h] \in Durable!Saves(f)
    BY <1>10 DEF Durable!WriteTemp, Durable!InSave, SaveTyped
  <2>2. temp' \in Durable!Written(h, temp, job[h].data)
            /\ disk' \in Durable!Written(h, disk, job[h].data)
        /\ job' = [job EXCEPT ![h] = j]
        /\ UNCHANGED <<receiptLog, llm, calls, known, contested, receipted, mixed>>
    BY <1>10 DEF Durable!WriteTemp
  <2>3. j.at = "replace" /\ j.file = f /\ j.data = job[h].data /\ j.done = job[h].done
            /\ j \in Durable!Saves(f)
    BY <2>1 DEF Durable!Saves
  <2>4. j # Nil
    BY <2>1, <2>3, DurableValues
  <2> HIDE DEF j
  <2>5. job'[h] = j /\ (\A g \in Procs \ {h} : job'[g] = job[g]) /\ job' = [g \in Procs |-> job'[g]]
    BY <2>2 DEF SaveTyped
  <2>6. Typed(temp) /\ Typed(disk) /\ job[h].data \in Durable!Saved(job[h].file) \union {Torn}
    BY <2>1, SaveFields DEF SaveTyped, Typed
  <2>7. Leaves(f, h, temp, temp', job[h].data)
    BY <2>1, <2>2, <2>6, WriteLeaves
  <2>8. Leaves(f, h, disk, disk', job[h].data)
    BY <2>1, <2>2, <2>6, WriteLeaves
  <2> HIDE DEF f
  <2>9. SaveTyped'
    <3>1. \A g \in Procs : job'[g] # Nil => job'[g].file \in Durable!Files
              /\ job'[g] \in Durable!Saves(job'[g].file)
      BY <2>1, <2>3, <2>5 DEF SaveTyped
    <3> QED BY <2>2, <2>5, <2>7, <2>8, <3>1 DEF SaveTyped, Leaves
  <2>10. SavesKept'
    <3> SUFFICES ASSUME ~contested' PROVE SavesKept'
      BY DEF SavesKept
    <3>1. \A g \in Procs : job[g] # Nil => g = h
      BY <2>1, <2>2 DEF SavesKept
    <3>2. \A g \in Procs : job'[g] # Nil => g = h
      BY <2>5, <3>1
    <3>3. \A k \in Durable!Files : disk[k] # Nil => disk[k].by = {}
      BY <2>2 DEF SavesKept
    <3>4. \A k \in Durable!Files : disk'[k] # Nil => disk'[k] = disk[k] /\ disk[k] # Nil
      BY <2>8, <3>3 DEF Leaves
    <3>5. Saving(h)
      BY <2>1, <2>2 DEF SavesKept
    <3>6. temp[f] # Nil /\ temp[f].by = {h} /\ temp[f].data = Blank
      BY <3>5, <2>1 DEF Saving, f
    <3>7. temp'[f] # Nil /\ temp'[f].by = {} /\ temp'[f].data = job[h].data
      BY <2>1, <2>7, <3>6 DEF Leaves
    <3>8. ASSUME NEW k \in Durable!Files, temp'[k] # Nil, NEW g \in temp'[k].by PROVE FALSE
      <4>1. temp[k] # Nil /\ g \in temp[k].by
        BY <2>7, <3>8 DEF Leaves
      <4>2. g \in Procs
        BY <4>1, SaveFields DEF SaveTyped
      <4>3. job[g] # Nil /\ job[g].file = k
        BY <2>2, <4>1 DEF SavesKept
      <4> QED BY <4>2, <4>3, <3>1, <3>7, <3>8 DEF f
    <3>9. Saving(h)'
      BY <3>5, <3>7, <2>1, <2>2, <2>3, <2>5 DEF Saving, f
    <3> QED BY <1>1, <2>2, <3>2, <3>3, <3>4, <3>8, <3>9 DEF SavesKept
  <2> QED BY <2>2, <2>9, <2>10 DEF DurableFlags, ReceiptsTyped, Durable!ReceiptsFound, Durable!Found
<1>11. ASSUME NEW h \in Procs, Durable!Replace(h) PROVE DurableInv'
  <2> DEFINE f == job[h].file
  <2>1. job[h] # Nil /\ job[h].at = "replace" /\ f \in Durable!Files /\ job[h] \in Durable!Saves(f)
    BY <1>11 DEF Durable!Replace, Durable!InSave, SaveTyped
  <2>2. /\ temp[f] # Nil /\ disk' = [disk EXCEPT ![f] = temp[f]] /\ temp' = [temp EXCEPT ![f] = Nil]
        /\ known' = job[h].done /\ job' = [job EXCEPT ![h] = Nil]
        /\ UNCHANGED <<receiptLog, llm, calls, contested, receipted, mixed>>
    BY <1>11 DEF Durable!Replace
  <2>3. job[h].done \in Durable!Checkpoints
    BY <2>1, SaveFields
  <2>4. job'[h] = Nil /\ (\A g \in Procs \ {h} : job'[g] = job[g])
            /\ job' = [g \in Procs |-> job'[g]]
    BY <2>2 DEF SaveTyped
  <2>5. /\ temp'[f] = Nil /\ (\A k \in Durable!Files \ {f} : temp'[k] = temp[k])
        /\ disk'[f] = temp[f] /\ (\A k \in Durable!Files \ {f} : disk'[k] = disk[k])
        /\ disk' = [k \in Durable!Files |-> disk'[k]] /\ temp' = [k \in Durable!Files |-> temp'[k]]
    <3> HIDE DEF f
    <3> QED BY <2>1, <2>2 DEF SaveTyped
  <2>6. SaveTyped'
    <3> HIDE DEF f
    <3>1. \A g \in Procs : job'[g] # Nil => job'[g].file \in Durable!Files
              /\ job'[g] \in Durable!Saves(job'[g].file)
      BY <2>4 DEF SaveTyped
    <3>2. \A k \in Durable!Files : disk'[k] # Nil => disk'[k] \in Durable!Content(k)
      BY <2>1, <2>2, <2>5 DEF SaveTyped
    <3>3. \A k \in Durable!Files : temp'[k] # Nil => temp'[k] \in Durable!Content(k)
      BY <2>1, <2>2, <2>5 DEF SaveTyped
    <3> QED BY <2>2, <2>3, <2>4, <2>5, <3>1, <3>2, <3>3 DEF SaveTyped
  <2>7. SavesKept'
    <3> SUFFICES ASSUME ~contested' PROVE SavesKept'
      BY DEF SavesKept
    <3>1. \A g \in Procs : job[g] # Nil => g = h
      BY <2>1, <2>2 DEF SavesKept
    <3>2. \A g \in Procs : job'[g] = Nil
      BY <2>4, <3>1
    <3>3. Saving(h)
      BY <2>1, <2>2 DEF SavesKept
    <3>4. temp[f].by = {} /\ temp[f].data = job[h].data
      BY <3>3, <2>1 DEF Saving
    <3>5. \A k \in Durable!Files : disk'[k] # Nil => disk'[k].by = {}
      <4> HIDE DEF f
      <4> QED BY <2>1, <2>2, <2>5, <3>4 DEF SavesKept
    <3>6. ASSUME NEW k \in Durable!Files, temp'[k] # Nil, NEW g \in temp'[k].by PROVE FALSE
      <4>1. k # f /\ temp[k] # Nil /\ g \in temp[k].by
        BY <2>5, <3>6
      <4>2. g \in Procs
        BY <4>1, SaveFields DEF SaveTyped
      <4>3. job[g] # Nil /\ job[g].file = k
        BY <2>2, <4>1 DEF SavesKept
      <4> QED BY <4>1, <4>2, <4>3, <3>1
    <3>7. disk'["checkpoint"] # Nil => disk'["checkpoint"].data = known'
      <4>1. CASE f = "checkpoint"
        <5>1. disk'["checkpoint"].data = job[h].data /\ job[h].data = job[h].done
          BY <4>1, <2>5, <3>3, <3>4 DEF Saving
        <5> QED BY <5>1, <2>2
      <4>2. CASE f # "checkpoint"
        <5>1. f = "llm" /\ job[h].done = known
          BY <4>2, <2>1, <3>3 DEF Saving, Durable!Files
        <5>2. disk'["checkpoint"] = disk["checkpoint"]
          BY <4>2, <1>1, <2>5
        <5> QED BY <5>1, <5>2, <2>2 DEF SavesKept
      <4> QED BY <4>1, <4>2
    <3> QED BY <3>2, <3>5, <3>6, <3>7 DEF SavesKept
  <2> QED BY <2>2, <2>6, <2>7 DEF DurableFlags, ReceiptsTyped, Durable!ReceiptsFound, Durable!Found
<1>12. ASSUME NEW h \in Procs, Durable!ReplaceMissing(h) PROVE DurableInv'
  <2>1. job[h].at = "replace" /\ job' = [job EXCEPT ![h] = Nil]
        /\ UNCHANGED <<disk, temp, receiptLog, llm, calls, known, contested, receipted, mixed>>
    BY <1>12 DEF Durable!ReplaceMissing, Durable!InSave
  <2>2. Durable!Abandoned(h)
    BY <2>1 DEF Durable!Abandoned, Durable!InSave
  <2>3. llm' \in [Procs -> [Prompts -> 0..MaxCalls]]
    BY <2>1 DEF SaveTyped
  <2> QED BY <2>1, <2>2, <2>3, SaveEnds
<1>13. ASSUME NEW h \in Procs, Durable!SaveFails(h) PROVE DurableInv'
  <2>1. llm' \in [Procs -> [Prompts -> 0..MaxCalls]]
    BY <1>13 DEF Durable!SaveFails, SaveTyped
  <2> QED BY <1>13, <2>1, SaveEnds DEF Durable!SaveFails
<1>14. ASSUME NEW h \in Procs, Durable!Exit(h) PROVE DurableInv'
  <2>1. llm' \in [Procs -> [Prompts -> 0..MaxCalls]]
    BY <1>14, <1>2 DEF Durable!Exit, Durable!NoEntries, SaveTyped
  <2> QED BY <1>14, <2>1, SaveEnds DEF Durable!Exit
<1>15. ASSUME NEW h \in Procs, NEW t \in Tools, Durable!Emit(h, t) PROVE DurableInv'
  <2>1. PICK line \in {t, Torn} :
       /\ receiptLog' = IF receiptLog # <<>> /\ Durable!Last(receiptLog) = Torn
                        THEN Append(Durable!Front(receiptLog), IF line = Torn THEN Torn ELSE Junk)
                        ELSE Append(receiptLog, line)
       /\ receipted' = IF line = Torn \/ \E n \in DOMAIN receiptLog : receiptLog[n] \in {Torn, Junk}
                       THEN receipted ELSE receipted \union {t}
    BY <1>15 DEF Durable!Emit
  <2>2. calls < MaxCalls /\ calls' = calls + 1 /\ UNCHANGED <<disk, temp, job, llm, known,
            contested, mixed>>
    BY <1>15 DEF Durable!Emit
  <2>7. calls' \in 0..MaxCalls
    BY <2>2, <1>2 DEF SaveTyped
  <2>8. SaveTyped' /\ DurableFlags'
    BY <2>2, <2>7 DEF SaveTyped, DurableFlags
  <2>3. SaveTyped' /\ DurableFlags' /\ SavesKept'
    BY <2>2, <2>8 DEF SavesKept, Saving
  <2>4. receiptLog' \in Seq(Tools \union {Torn, Junk}) /\ Durable!Found \subseteq Durable!Found'
    <3>1. CASE receiptLog # <<>> /\ Durable!Last(receiptLog) = Torn
      BY <3>1, <2>1, FoundStays
    <3>2. CASE ~(receiptLog # <<>> /\ Durable!Last(receiptLog) = Torn)
      BY <3>2, <2>1, FoundStays
    <3> QED BY <3>1, <3>2
  <2>5. Durable!ReceiptsFound'
    <3>1. CASE receipted' = receipted
      BY <3>1, <2>4 DEF Durable!ReceiptsFound
    <3>2. CASE receipted' # receipted
      <4>1. line = t /\ receipted' = receipted \union {t}
                /\ \A n \in DOMAIN receiptLog : receiptLog[n] \notin {Torn, Junk}
        BY <3>2, <2>1
      <4>2. receiptLog \in Seq(Tools \union {Torn, Junk}) /\ Len(receiptLog) \in Nat
                /\ DOMAIN receiptLog = 1..Len(receiptLog)
        BY DEF ReceiptsTyped
      <4>3. ~(receiptLog # <<>> /\ Durable!Last(receiptLog) = Torn)
        <5>1. receiptLog # <<>> => Len(receiptLog) \in DOMAIN receiptLog
          BY <4>2
        <5> QED BY <5>1, <4>1 DEF Durable!Last
      <4>4. receiptLog' = Append(receiptLog, t) /\ t \notin {Torn, Junk}
        BY <4>1, <4>3, <2>1, DurableValues
      <4>5. /\ Len(receiptLog) + 1 \in DOMAIN receiptLog' /\ receiptLog'[Len(receiptLog) + 1] = t
            /\ \A l \in 1..(Len(receiptLog) + 1) : receiptLog'[l] \notin {Torn, Junk}
        BY <4>1, <4>2, <4>4
      <4>6. t \in Durable!Found'
        BY <4>5 DEF Durable!Found
      <4> QED BY <4>1, <4>6, <2>4 DEF Durable!ReceiptsFound
    <3> QED BY <3>1, <3>2
  <2>6. receipted' \subseteq Tools
    BY <2>1 DEF ReceiptsTyped
  <2> QED BY <2>3, <2>4, <2>5, <2>6 DEF ReceiptsTyped
<1>16. ASSUME NEW h \in Procs, NEW c \in Prompts, Durable!Put(h, c) PROVE DurableInv'
  <2>1. /\ calls < MaxCalls /\ calls' = calls + 1
        /\ UNCHANGED <<disk, temp, job, receiptLog, known, contested, receipted, mixed>>
    BY <1>16 DEF Durable!Put
  <2>2. PICK old : llm' = [llm EXCEPT ![h] = [d \in Prompts |-> IF d = c THEN calls + 1
            ELSE IF d \in old THEN 0 ELSE @[d]]]
    BY <1>16 DEF Durable!Put
  <2>3. calls + 1 \in 0..MaxCalls /\ 0 \in 0..MaxCalls
    BY <2>1, <1>2 DEF SaveTyped
  <2>4. llm' \in [Procs -> [Prompts -> 0..MaxCalls]]
    BY <2>2, <2>3 DEF SaveTyped
  <2>5. SaveTyped'
    BY <2>1, <2>3, <2>4 DEF SaveTyped
  <2> QED BY <2>1, <2>5 DEF SavesKept, Saving, DurableFlags, ReceiptsTyped, Durable!ReceiptsFound,
          Durable!Found
<1>17. CASE UNCHANGED Durable!durableVars
  <2>1. UNCHANGED <<disk, temp, job, receiptLog, llm, calls, known, contested, receipted, mixed>>
    BY <1>17 DEF Durable!durableVars
  <2>2. SaveTyped' /\ DurableFlags'
    BY <2>1 DEF SaveTyped, DurableFlags
  <2>3. SavesKept'
    BY <2>1 DEF SavesKept, Saving
  <2> QED BY <2>1, <2>2, <2>3 DEF ReceiptsTyped, Durable!ReceiptsFound, Durable!Found
<1> QED BY <1>4, <1>5, <1>6, <1>7, <1>8, <1>9, <1>10, <1>11, <1>12, <1>13, <1>14, <1>15, <1>16,
        <1>17
        DEF Durable!Next

\* The durable layer of Shared runs as DurableSession says.
LEMMA DurableSpec == SharedSpec => Durable!Spec
<1>1. SharedInit => Durable!Init
  BY DEF SharedInit
<1>2. [SharedNext]_sharedVars => [Durable!Next]_(Durable!durableVars)
  BY DEF SharedNext, sharedVars, durableVars, Durable!durableVars
<1> QED BY <1>1, <1>2, PTL DEF SharedSpec, Durable!Spec

\* The invariant of the durable layer holds always.
LEMMA DurableInvariant == SharedSpec => []DurableInv
<1>1. ASSUME Durable!Init PROVE DurableInv
  <2>1. MaxCalls \in Nat
    BY DurableNumbers
  <2>2. Durable!Boot \in Durable!Checkpoints
    BY <2>1 DEF Durable!Boot, Durable!Checkpoints
  <2>3. SaveTyped
    BY <1>1, <2>1, <2>2 DEF Durable!Init, SaveTyped, Durable!NoEntries
  <2>4. DurableFlags
    BY <1>1 DEF Durable!Init, DurableFlags
  <2>5. ReceiptsTyped /\ Durable!ReceiptsFound
    BY <1>1 DEF Durable!Init, ReceiptsTyped, Durable!ReceiptsFound
  <2>6. SavesKept
    BY <1>1 DEF Durable!Init, SavesKept, Durable!Files
  <2> QED BY <2>3, <2>4, <2>5, <2>6 DEF DurableInv
<1> QED BY <1>1, DurableStep, DurableSpec, PTL DEF Durable!Spec

\* DurableKept (ahd_session_durable.py): without overlapping calls the checkpoint is
\* what the calls that succeeded made of it, and a receipt that was written is found for
\* ever, for any hooks, tools and calls.
THEOREM DurableSaved == SharedSpec => []DurableKept
<1>1. DurableInv => DurableKept
  <2> SUFFICES ASSUME DurableInv PROVE Durable!CheckpointKept /\ Durable!ReceiptsFound
    BY DEF DurableKept
  <2>1. ASSUME ~contested, disk["checkpoint"] # Nil PROVE Durable!Checkpoint = known
    <3>1. disk["checkpoint"].data = known /\ known \in Durable!Checkpoints
      BY <2>1 DEF DurableInv, SavesKept, SaveTyped
    <3>2. Durable!Readable("checkpoint")
      BY <2>1, <3>1, DurableValues DEF Durable!Readable
    <3> QED BY <3>1, <3>2 DEF Durable!Checkpoint
  <2> QED BY <2>1 DEF DurableInv, Durable!CheckpointKept
<1> QED BY <1>1, DurableInvariant, PTL

\* The entries of a cache are no more than its limit.
CacheSize(e) == {c \in Prompts : e[c] # 0}
\* The entries of a cache that are there are within its limit.
FitsCache(e) == IsFiniteSet(CacheSize(e)) /\ Cardinality(CacheSize(e)) <= MaxEntries
\* So are those of a file that can be read.
FileFits(x) == x # Nil /\ x.data \notin {Blank, Torn} => FitsCache(x.data.entries)

\* The caches in memory, in the files and in the saves under way keep to the limit.
CachesFit == ~mixed =>
  /\ \A h \in Procs : FitsCache(llm[h])
  /\ \A h \in Procs : job[h] # Nil /\ job[h].file = "llm" => FitsCache(job[h].data.entries)
  /\ FileFits(disk["llm"]) /\ FileFits(temp["llm"])

\* A write leaves in a file what was there, what is written, or a torn file.
LEMMA WriteFits ==
  ASSUME NEW h \in Procs, NEW named, named = [f \in Durable!Files |-> named[f]], NEW data,
         NEW after \in Durable!Written(h, named, data), FileFits(named["llm"]),
         job[h].file = "llm" /\ data \notin {Blank, Torn} => FitsCache(data.entries)
  PROVE  FileFits(after["llm"])
<1> DEFINE f == job[h].file
<1>1. CASE ~(named[f] # Nil /\ h \in named[f].by)
  <2>1. after = named
    BY <1>1 DEF Durable!Written
  <2> QED BY <2>1
<1>2. CASE named[f] # Nil /\ h \in named[f].by
  <2>1. PICK d \in {data, Torn} : after = [named EXCEPT ![f] = Durable!File(@.by \ {h}, d)]
    BY <1>2 DEF Durable!Written
  <2>2. CASE f = "llm"
    <3>1. after["llm"] = Durable!File(named[f].by \ {h}, d)
      <4>1. "llm" \in Durable!Files
        BY DEF Durable!Files
      <4> QED BY <2>1, <2>2, <4>1
    <3>2. after["llm"].data = d
      BY <3>1 DEF Durable!File
    <3> QED BY <2>2, <3>2 DEF FileFits
  <2>3. CASE f # "llm"
    <3>1. after["llm"] = named["llm"]
      BY <2>1, <2>3 DEF Durable!Files
    <3> QED BY <3>1
  <2> QED BY <2>2, <2>3
<1> QED BY <1>1, <1>2

\* The operator of the standard module, by the name that DurableSession has it under.
LEMMA DurableCardinality == \A S : Durable!Cardinality(S) = Cardinality(S)
  BY DEF Durable!Cardinality, Cardinality, Durable!IsFiniteSet, IsFiniteSet

\* Removing the oldest entries of a full cache makes room for one.
LEMMA PutFits ==
  ASSUME DurableInv, NEW h \in Procs, NEW c \in Prompts, FitsCache(llm[h]), Durable!Put(h, c)
  PROVE  FitsCache(llm'[h])
<1> DEFINE S == Durable!Size(h)
           full == Durable!Cardinality(S) >= MaxEntries
           old == IF full THEN Durable!Oldest(h) ELSE {}
<1>1. /\ llm \in [Procs -> [Prompts -> 0..MaxCalls]] /\ calls \in 0..MaxCalls
      /\ MaxCalls \in Nat /\ MaxEntries \in Nat \ {0}
  BY BoundsAssumption DEF DurableInv, SaveTyped
<1>2. /\ IsFiniteSet(S) /\ Cardinality(S) <= MaxEntries /\ Cardinality(S) \in Nat
      /\ Durable!Cardinality(S) = Cardinality(S) /\ S \subseteq Prompts
  BY FS_CardinalityType, DurableCardinality DEF FitsCache, CacheSize, Durable!Size
<1>3. llm'[h] = [d \in Prompts |->
                   IF d = c THEN calls + 1 ELSE IF d \in old THEN 0 ELSE llm[h][d]]
  BY <1>1 DEF Durable!Put
<1>4. CacheSize(llm'[h]) \subseteq (S \ old) \union {c}
  BY <1>3 DEF CacheSize, Durable!Size
<1>5. full => old # {} /\ old \subseteq S
  <2> SUFFICES ASSUME full PROVE old # {} /\ old \subseteq S
    OBVIOUS
  <2>1. S # {}
    <3>1. Cardinality(S) # 0
      BY <1>1, <1>2
    <3> QED BY <3>1, FS_EmptySet
  <2> DEFINE V == {llm[h][d] : d \in S}
  <2>2. V \in SUBSET Nat /\ V # {}
    BY <1>1, <1>2, <2>1
  <2>3. PICK m \in V : \A n \in V : m <= n
    <3> HIDE DEF V
    <3> QED BY <2>2, Least
  <2>4. PICK d \in S : llm[h][d] = m
    BY <2>3
  <2>5. d \in Durable!Oldest(h)
    BY <2>3, <2>4 DEF Durable!Oldest
  <2> QED BY <2>5 DEF Durable!Oldest
<1>6. ~full => Cardinality(S) + 1 <= MaxEntries /\ old = {}
  BY <1>1, <1>2
<1>7. /\ IsFiniteSet(S \ old) /\ Cardinality(S \ old) \in Nat
      /\ Cardinality(S \ old) + 1 <= MaxEntries
  <2>1. CASE full
    <3>1. PICK d \in S : d \in old
      BY <1>5, <2>1
    <3>2. S \ old \subseteq S \ {d} /\ IsFiniteSet(S \ {d})
          /\ Cardinality(S \ {d}) = Cardinality(S) - 1
      BY <1>2, <3>1, FS_RemoveElement
    <3> HIDE DEF S, old
    <3>3. IsFiniteSet(S \ old) /\ Cardinality(S \ old) <= Cardinality(S \ {d})
      BY <3>2, FS_Subset
    <3>4. Cardinality(S \ old) \in Nat
      BY <3>3, FS_CardinalityType
    <3> QED BY <1>1, <1>2, <3>2, <3>3, <3>4
  <2>2. CASE ~full
    <3>1. S \ old = S
      BY <2>2, <1>6
    <3> QED BY <2>2, <3>1, <1>2, <1>6
  <2> QED BY <2>1, <2>2
<1> HIDE DEF S, old, full
<1>8. /\ IsFiniteSet((S \ old) \union {c})
      /\ Cardinality((S \ old) \union {c}) <= Cardinality(S \ old) + 1
      /\ Cardinality((S \ old) \union {c}) \in Nat
  <2> DEFINE R == S \ old
  <2>1. IsFiniteSet(R) /\ Cardinality(R) \in Nat
    BY <1>7
  <2> HIDE DEF R
  <2>2. IsFiniteSet(R \union {c}) /\ (c \in R => R \union {c} = R)
        /\ (c \notin R => Cardinality(R \union {c}) = Cardinality(R) + 1)
    BY <2>1, FS_AddElement
  <2>3. Cardinality(R \union {c}) \in Nat /\ Cardinality(R \union {c}) <= Cardinality(R) + 1
    BY <2>1, <2>2
  <2> QED BY <2>2, <2>3 DEF R
<1>9. /\ IsFiniteSet(CacheSize(llm'[h]))
      /\ Cardinality(CacheSize(llm'[h])) <= Cardinality((S \ old) \union {c})
      /\ Cardinality(CacheSize(llm'[h])) \in Nat
  BY <1>4, <1>8, FS_Subset, FS_CardinalityType
<1> QED BY <1>1, <1>7, <1>8, <1>9 DEF FitsCache

\* A save that begins takes a cache within the limit.
LEMMA CachesStart ==
  ASSUME DurableInv, CachesFit, NEW h \in Procs, NEW f \in Durable!Files, NEW data, NEW done,
         f = "llm" => FitsCache(data.entries) \/ mixed,
         Durable!StartSave(h, f, data, done)
  PROVE  CachesFit'
<1> DEFINE j == [file |-> f, at |-> "open", data |-> data, done |-> done]
<1>1. job' = [job EXCEPT ![h] = j] /\ UNCHANGED <<disk, temp, llm, mixed>>
  BY DEF Durable!StartSave
<1>2. j.file = f /\ j.data = data
  OBVIOUS
<1> HIDE DEF j
<1>3. job'[h] = j /\ \A g \in Procs \ {h} : job'[g] = job[g]
  BY <1>1 DEF DurableInv, SaveTyped
<1> QED BY <1>1, <1>2, <1>3 DEF CachesFit, FileFits, FitsCache, CacheSize

\* A save that goes on or ends saves what it saved.
LEMMA CachesGo ==
  ASSUME DurableInv, CachesFit, NEW h \in Procs, NEW j,
         job' = [job EXCEPT ![h] = j], mixed' = mixed,
         j = Nil \/ (job[h] # Nil /\ j.file = job[h].file /\ j.data = job[h].data),
         llm' = llm \/ llm' = [llm EXCEPT ![h] = Durable!NoEntries],
         ~mixed => FileFits(disk'["llm"]) /\ FileFits(temp'["llm"])
  PROVE  CachesFit'
<1> SUFFICES ASSUME ~mixed PROVE CachesFit'
  BY DEF CachesFit
<1>1. job'[h] = j /\ \A g \in Procs \ {h} : job'[g] = job[g]
  BY DEF DurableInv, SaveTyped
<1>2. FitsCache(Durable!NoEntries)
  <2>1. CacheSize(Durable!NoEntries) = {}
    BY DEF CacheSize, Durable!NoEntries
  <2> QED BY <2>1, FS_EmptySet, BoundsAssumption DEF FitsCache
<1>3. \A g \in Procs : llm'[g] = llm[g] \/ llm'[g] = Durable!NoEntries
  BY DEF DurableInv, SaveTyped
<1>4. \A g \in Procs : FitsCache(llm'[g])
  BY <1>2, <1>3 DEF CachesFit
<1>5. \A g \in Procs : job'[g] # Nil /\ job'[g].file = "llm" => FitsCache(job'[g].data.entries)
  BY <1>1 DEF CachesFit
<1>6. FileFits(disk'["llm"]) /\ FileFits(temp'["llm"])
  OBVIOUS
<1>7. FileFits(disk["llm"])' /\ FileFits(temp["llm"])'
  BY <1>6 DEF FileFits, FitsCache, CacheSize
<1>8. (\A g \in Procs : FitsCache(llm[g]))'
  BY <1>4 DEF FitsCache, CacheSize
<1>9. (\A g \in Procs : job[g] # Nil /\ job[g].file = "llm" => FitsCache(job[g].data.entries))'
  BY <1>5 DEF FitsCache, CacheSize
<1> QED BY <1>7, <1>8, <1>9 DEF CachesFit

\* A save that is abandoned leaves nothing that does not fit.
LEMMA AbandonedFits ==
  ASSUME DurableInv, CachesFit, ~mixed, NEW h \in Procs, Durable!Abandoned(h)
  PROVE  FileFits(disk'["llm"]) /\ FileFits(temp'["llm"])
<1>1. CASE Durable!InSave(h, "write")
  <2>1. disk' \in Durable!Written(h, disk, Torn) /\ temp' \in Durable!Written(h, temp, Torn)
    BY <1>1 DEF Durable!Abandoned
  <2>2. /\ disk = [f \in Durable!Files |-> disk[f]] /\ temp = [f \in Durable!Files |-> temp[f]]
        /\ FileFits(disk["llm"]) /\ FileFits(temp["llm"])
    BY DEF DurableInv, SaveTyped, CachesFit
  <2>3. FileFits(disk'["llm"])
    BY <2>1, <2>2, WriteFits
  <2>4. FileFits(temp'["llm"])
    BY <2>1, <2>2, WriteFits
  <2> QED BY <2>3, <2>4
<1>2. CASE ~Durable!InSave(h, "write")
  <2>1. disk' = disk /\ temp' = temp
    BY <1>2 DEF Durable!Abandoned
  <2> QED BY <2>1 DEF CachesFit
<1> QED BY <1>1, <1>2

\* Every step of the durable layer keeps the caches within their limit.
LEMMA CachesStep == DurableInv /\ CachesFit /\ [Durable!Next]_(Durable!durableVars) => CachesFit'
<1> SUFFICES ASSUME DurableInv, CachesFit, [Durable!Next]_(Durable!durableVars) PROVE CachesFit'
  OBVIOUS
<1>1. "checkpoint" \in Durable!Files /\ "llm" \in Durable!Files
  BY DEF Durable!Files
<1>2. ASSUME NEW h \in Procs,
             Durable!CreateInitial(h) \/ Durable!AdvancePhase(h) \/ Durable!RecordStep(h)
      PROVE  CachesFit'
  <2>1. \E data, done : Durable!StartSave(h, "checkpoint", data, done)
    BY <1>2 DEF Durable!CreateInitial, Durable!AdvancePhase, Durable!RecordStep
  <2> QED BY <1>1, <2>1, CachesStart
<1>3. ASSUME NEW h \in Procs, Durable!Persist(h) PROVE CachesFit'
  <2>1. Durable!StartSave(h, "llm", [entries |-> llm[h]], known)
    BY <1>3 DEF Durable!Persist
  <2>2. [entries |-> llm[h]].entries = llm[h] /\ (FitsCache(llm[h]) \/ mixed)
    BY DEF CachesFit
  <2> QED BY <1>1, <2>1, <2>2, CachesStart
<1>4. ASSUME NEW h \in Procs, Durable!Resume(h) PROVE CachesFit'
  <2> DEFINE e == [c \in Prompts |-> IF disk["llm"].data.entries[c] # 0
                                     THEN disk["llm"].data.entries[c] ELSE llm[h][c]]
  <2>1. /\ Durable!Readable("llm") /\ UNCHANGED <<disk, temp, job>>
        /\ llm' = [llm EXCEPT ![h] = e]
        /\ mixed' = (mixed \/ Durable!Size(h) # {})
    BY <1>4 DEF Durable!Resume
  <2> SUFFICES ASSUME ~mixed' PROVE CachesFit'
    BY DEF CachesFit
  <2>2. Durable!Size(h) = {} /\ ~mixed
    BY <2>1
  <2>3. FitsCache(disk["llm"].data.entries)
    BY <2>1, <2>2 DEF CachesFit, FileFits, Durable!Readable
  <2>4. CacheSize(e) = CacheSize(disk["llm"].data.entries)
    BY <2>2 DEF CacheSize, Durable!Size
  <2> HIDE DEF e
  <2>5. llm'[h] = e /\ \A g \in Procs \ {h} : llm'[g] = llm[g]
    BY <2>1 DEF DurableInv, SaveTyped
  <2>6. \A g \in Procs : FitsCache(llm'[g])
    BY <2>2, <2>3, <2>4, <2>5 DEF CachesFit, FitsCache
  <2>7. (\A g \in Procs : FitsCache(llm[g]))'
    BY <2>6 DEF FitsCache, CacheSize
  <2> QED BY <2>1, <2>2, <2>7 DEF CachesFit, FileFits, FitsCache, CacheSize
<1>5. ASSUME NEW h \in Procs, Durable!OpenTemp(h) PROVE CachesFit'
  <2> DEFINE f == job[h].file
             x == Durable!File(IF temp[f] = Nil THEN {h} ELSE temp[f].by \union {h}, Blank)
             j == [job[h] EXCEPT !.at = "write"]
  <2>1. /\ job[h] # Nil /\ job[h] \in Durable!Saves(f) /\ f \in Durable!Files
        /\ temp' = [temp EXCEPT ![f] = x] /\ job' = [job EXCEPT ![h] = j]
        /\ UNCHANGED <<disk, llm, mixed>>
    BY <1>5 DEF Durable!OpenTemp, Durable!InSave, DurableInv, SaveTyped
  <2>2. j.file = job[h].file /\ j.data = job[h].data
    BY <2>1 DEF Durable!Saves
  <2>3. x.data = Blank
    BY DEF Durable!File
  <2> HIDE DEF x, j, f
  <2>4. temp'["llm"] = temp["llm"] \/ temp'["llm"] = x
    BY <2>1, <1>1 DEF DurableInv, SaveTyped
  <2>5. ~mixed => FileFits(disk'["llm"]) /\ FileFits(temp'["llm"])
    BY <2>1, <2>3, <2>4 DEF CachesFit, FileFits
  <2> QED BY <2>1, <2>2, <2>5, CachesGo
<1>6. ASSUME NEW h \in Procs, Durable!WriteTemp(h) PROVE CachesFit'
  <2> DEFINE j == [job[h] EXCEPT !.at = "replace"]
  <2>1. /\ job[h] # Nil /\ job[h] \in Durable!Saves(job[h].file) /\ job[h].file \in Durable!Files
        /\ temp' \in Durable!Written(h, temp, job[h].data)
        /\ disk' \in Durable!Written(h, disk, job[h].data)
        /\ job' = [job EXCEPT ![h] = j] /\ UNCHANGED <<llm, mixed>>
    BY <1>6 DEF Durable!WriteTemp, Durable!InSave, DurableInv, SaveTyped
  <2>2. j.file = job[h].file /\ j.data = job[h].data
    BY <2>1 DEF Durable!Saves
  <2> HIDE DEF j
  <2>3. ASSUME ~mixed PROVE FileFits(disk'["llm"]) /\ FileFits(temp'["llm"])
    <3>1. /\ disk = [f \in Durable!Files |-> disk[f]] /\ temp = [f \in Durable!Files |-> temp[f]]
          /\ FileFits(disk["llm"]) /\ FileFits(temp["llm"])
          /\ job[h].file = "llm" => FitsCache(job[h].data.entries)
      BY <2>1, <2>3 DEF DurableInv, SaveTyped, CachesFit
    <3>2. FileFits(disk'["llm"])
      BY <2>1, <3>1, WriteFits
    <3>3. FileFits(temp'["llm"])
      BY <2>1, <3>1, WriteFits
    <3> QED BY <3>2, <3>3
  <2> QED BY <2>1, <2>2, <2>3, CachesGo
<1>7. ASSUME NEW h \in Procs, Durable!Replace(h) PROVE CachesFit'
  <2> DEFINE f == job[h].file
  <2>1. /\ job[h] # Nil /\ f \in Durable!Files
        /\ disk' = [disk EXCEPT ![f] = temp[f]] /\ temp' = [temp EXCEPT ![f] = Nil]
        /\ job' = [job EXCEPT ![h] = Nil] /\ UNCHANGED <<llm, mixed>>
    BY <1>7 DEF Durable!Replace, Durable!InSave, DurableInv, SaveTyped
  <2> HIDE DEF f
  <2>2. /\ disk'["llm"] = disk["llm"] \/ disk'["llm"] = temp["llm"]
        /\ temp'["llm"] = temp["llm"] \/ temp'["llm"] = Nil
    BY <2>1, <1>1 DEF DurableInv, SaveTyped
  <2>3. ~mixed => FileFits(disk'["llm"]) /\ FileFits(temp'["llm"])
    BY <2>2 DEF CachesFit, FileFits
  <2> QED BY <2>1, <2>3, CachesGo
<1>8. ASSUME NEW h \in Procs, Durable!ReplaceMissing(h) PROVE CachesFit'
  <2>1. job' = [job EXCEPT ![h] = Nil] /\ UNCHANGED <<disk, temp, llm, mixed>>
    BY <1>8 DEF Durable!ReplaceMissing
  <2>2. ~mixed => FileFits(disk'["llm"]) /\ FileFits(temp'["llm"])
    BY <2>1 DEF CachesFit
  <2> QED BY <2>1, <2>2, CachesGo
<1>9. ASSUME NEW h \in Procs, Durable!SaveFails(h) PROVE CachesFit'
  <2>1. Durable!Abandoned(h) /\ job' = [job EXCEPT ![h] = Nil] /\ UNCHANGED <<llm, mixed>>
    BY <1>9 DEF Durable!SaveFails
  <2> QED BY <2>1, AbandonedFits, CachesGo
<1>10. ASSUME NEW h \in Procs, Durable!Exit(h) PROVE CachesFit'
  <2>1. /\ Durable!Abandoned(h) /\ job' = [job EXCEPT ![h] = Nil] /\ mixed' = mixed
        /\ llm' = [llm EXCEPT ![h] = Durable!NoEntries]
    BY <1>10 DEF Durable!Exit
  <2> QED BY <2>1, AbandonedFits, CachesGo
<1>11. ASSUME NEW h \in Procs, NEW t \in Tools, Durable!Emit(h, t) PROVE CachesFit'
  <2>1. UNCHANGED <<disk, temp, job, llm, mixed>>
    BY <1>11 DEF Durable!Emit
  <2> QED BY <2>1 DEF CachesFit, FileFits, FitsCache, CacheSize
<1>12. ASSUME NEW h \in Procs, NEW c \in Prompts, Durable!Put(h, c) PROVE CachesFit'
  <2>1. /\ UNCHANGED <<disk, temp, job, mixed>>
        /\ \A g \in Procs \ {h} : llm'[g] = llm[g]
    BY <1>12 DEF Durable!Put, DurableInv, SaveTyped
  <2>2. ASSUME ~mixed PROVE \A g \in Procs : FitsCache(llm'[g])
    <3>1. FitsCache(llm'[h])
      BY <1>12, <2>2, PutFits DEF CachesFit
    <3> QED BY <2>1, <2>2, <3>1 DEF CachesFit
  <2>3. ~mixed => (\A g \in Procs : FitsCache(llm[g]))'
    BY <2>2 DEF FitsCache, CacheSize
  <2> QED BY <2>1, <2>3 DEF CachesFit, FileFits, FitsCache, CacheSize
<1>13. CASE UNCHANGED Durable!durableVars
  <2>1. UNCHANGED <<disk, temp, job, llm, mixed>>
    BY <1>13 DEF Durable!durableVars
  <2> QED BY <2>1 DEF CachesFit, FileFits, FitsCache, CacheSize
<1> QED BY <1>2, <1>3, <1>4, <1>5, <1>6, <1>7, <1>8, <1>9, <1>10, <1>11, <1>12, <1>13
        DEF Durable!Next

\* Type correctness of the durable layer: the cache keeps to LLM_CALL_CACHE_MAX_ENTRIES,
\* in memory and across restarts, unless one was loaded over entries in memory.
LEMMA DurableTypes == SharedSpec => []Durable!TypeOK
<1>1. Durable!Init => CachesFit
  <2> SUFFICES ASSUME Durable!Init PROVE CachesFit
    OBVIOUS
  <2>1. \A h \in Procs : llm[h] = Durable!NoEntries
    BY DEF Durable!Init
  <2>2. CacheSize(Durable!NoEntries) = {}
    BY DEF CacheSize, Durable!NoEntries
  <2>3. FitsCache(Durable!NoEntries)
    BY <2>2, FS_EmptySet, BoundsAssumption DEF FitsCache
  <2>4. (\A h \in Procs : job[h] = Nil) /\ disk["llm"] = Nil /\ temp["llm"] = Nil
    BY DEF Durable!Init, Durable!Files
  <2> QED BY <2>1, <2>3, <2>4 DEF CachesFit, FileFits
<1>2. DurableInv /\ CachesFit => Durable!TypeOK
  <2> SUFFICES ASSUME DurableInv, CachesFit PROVE Durable!TypeOK
    OBVIOUS
  <2>1. \A f \in Durable!Files : {disk[f], temp[f]} \subseteq Durable!Content(f) \union {Nil}
    BY DEF DurableInv, SaveTyped
  <2>2. \A h \in Procs : \E f \in Durable!Files : job[h] \in Durable!Saves(f) \union {Nil}
    <3>1. "llm" \in Durable!Files
      BY DEF Durable!Files
    <3> QED BY <3>1 DEF DurableInv, SaveTyped
  <2>3. mixed \/ \A h \in Procs : Durable!Cardinality(Durable!Size(h)) <= MaxEntries
    BY DurableCardinality DEF CachesFit, FitsCache, CacheSize, Durable!Size
  <2>4. {contested, mixed} \subseteq BOOLEAN
    BY Zenon DEF DurableInv, DurableFlags
  <2> QED BY <2>1, <2>2, <2>3, <2>4 DEF DurableInv, SaveTyped, ReceiptsTyped, Durable!TypeOK
<1> QED BY <1>1, <1>2, CachesStep, DurableSpec, DurableInvariant, PTL DEF Durable!Spec

-----------------------------------------------------------------------------
(* The state log.                                                          *)

\* The lines of a log.
LogLines == [form : {"entry", "half", "junk"}, prev : Nat \union {Corrupt}, hash : Nat]

\* Types of the log, the appends under way and the history.
LogTyped ==
  /\ lines \in Seq(LogLines)
  /\ logging \in [Procs -> {Nil} \union [form : {"entry"}, prev : Nat \union {Corrupt},
       hash : 1..MaxLines]]
  /\ appended \in 0..MaxLines
  /\ entries \in Seq(1..MaxLines)

\* The flags of the history are such.
LogFlags == forked \in BOOLEAN /\ halved \in BOOLEAN

\* No line is cut off or joined to another.
Whole == \A n \in DOMAIN lines : lines[n].form = "entry"

\* A log of whole lines has what was returned, in order.
Returned == Whole => \A j \in DOMAIN entries : \E m \in DOMAIN lines :
  /\ lines[m].hash = entries[j]
  /\ \A i \in 1..(j - 1) : \E n \in 1..(m - 1) : lines[n].hash = entries[i]

\* While no two appends overlap and none is cut off, the chain is whole and an append
\* goes on from its end.
Chained == ~forked /\ ~halved =>
  /\ Log!MerkleOk
  /\ \A p, q \in Procs : logging[p] # Nil /\ logging[q] # Nil => p = q
  /\ \A p \in Procs : logging[p] # Nil => logging[p].prev = Log!LastHash

\* The inductive invariant of the log.
LogInv == LogTyped /\ LogFlags /\ Returned /\ Chained

-----------------------------------------------------------------------------

\* The last line, where an append goes on.
LEMMA LogLast ==
  ASSUME LogTyped
  PROVE  /\ Len(lines) \in Nat
         /\ DOMAIN lines = 1..Len(lines)
         /\ lines = <<>> <=> Len(lines) = 0
         /\ Len(lines) # 0 => Log!Last(lines) = lines[Len(lines)]
         /\ \A n \in DOMAIN lines : lines[n] \in LogLines
  BY DEF LogTyped, Log!Last

\* An append to a log that does not end in half a line adds a line; the other way
\* it makes one that is no entry.
LEMMA LogContinued ==
  ASSUME LogTyped, NEW line \in LogLines
  PROVE  /\ Log!Continued(line) \in Seq(LogLines)
         /\ \/ /\ lines # <<>> /\ lines[Len(lines)].form = "half"
               /\ Len(Log!Continued(line)) = Len(lines)
               /\ Log!Continued(line)[Len(lines)].form # "entry"
            \/ Log!Continued(line) = Append(lines, line)
<1>1. CASE lines # <<>> /\ Log!Last(lines).form = "half"
  <2> DEFINE end == IF line.form = "half" THEN line ELSE Log!Line("junk", 0, 0)
  <2>1. end \in LogLines /\ end.form # "entry"
    BY DEF LogLines, Log!Line
  <2>2. Log!Front(lines) \in Seq(LogLines) /\ Len(Log!Front(lines)) = Len(lines) - 1
    <3>1. Len(lines) - 1 \in Int /\ 1 <= Len(lines)
              /\ \A n \in 1..(Len(lines) - 1) : lines[n] \in LogLines
      BY <1>1, LogLast
    <3>2. SubSeq(lines, 1, Len(lines) - 1) \in Seq(LogLines)
          /\ Len(SubSeq(lines, 1, Len(lines) - 1)) = IF 1 <= Len(lines) - 1
               THEN Len(lines) - 1 - 1 + 1 ELSE 0
      BY <3>1, SubSeqProperties
    <3> QED BY <3>1, <3>2, LogLast DEF Log!Front
  <2>3. Log!Continued(line) = Append(Log!Front(lines), end)
    BY <1>1 DEF Log!Continued
  <2> HIDE DEF end
  <2>4. Append(Log!Front(lines), end) \in Seq(LogLines)
        /\ Len(Append(Log!Front(lines), end)) = Len(lines)
        /\ Append(Log!Front(lines), end)[Len(lines)] = end
    BY <2>1, <2>2, LogLast
  <2> QED BY <1>1, <2>1, <2>3, <2>4, LogLast
<1>2. CASE ~(lines # <<>> /\ Log!Last(lines).form = "half")
  <2>1. Log!Continued(line) = Append(lines, line)
    BY <1>2 DEF Log!Continued
  <2> QED BY <2>1 DEF LogTyped
<1> QED BY <1>1, <1>2

\* What an append does to the two facts about whole logs.
LEMMA LogWritten ==
  ASSUME LogInv, NEW line \in LogLines, lines' = Log!Continued(line)
  PROVE  /\ lines' \in Seq(LogLines)
         /\ Whole' => Whole /\ lines' = Append(lines, line) /\ line.form = "entry"
<1>1. lines' \in Seq(LogLines)
  BY LogContinued DEF LogInv
<1>2. ASSUME Whole' PROVE Whole /\ lines' = Append(lines, line) /\ line.form = "entry"
  <2>1. lines' = Append(lines, line)
    BY <1>1, <1>2, LogContinued, LogLast DEF LogInv, Whole
  <2>2. Len(lines') = Len(lines) + 1 /\ lines'[Len(lines) + 1] = line
        /\ \A n \in DOMAIN lines : n \in DOMAIN lines' /\ lines'[n] = lines[n]
    BY <2>1, LogLast DEF LogInv, LogTyped
  <2> QED BY <1>1, <1>2, <2>1, <2>2, LogLast DEF Whole, LogInv
<1> QED BY <1>1, <1>2

\* Every step of the log keeps its invariant.
LEMMA LogStep == LogInv /\ [Log!Next]_(Log!logVars) => LogInv'
<1> SUFFICES ASSUME LogInv, [Log!Next]_(Log!logVars) PROVE LogInv'
  OBVIOUS
<1> USE DEF LogInv
<1>0. MaxLines \in Nat
  BY BoundsAssumption
<1>1. ASSUME NEW p \in Procs, Log!ReadLast(p) PROVE LogInv'
  <2> DEFINE line == Log!Line("entry", Log!LastHash, appended + 1)
  <2>1. /\ logging[p] = Nil /\ logging' = [logging EXCEPT ![p] = line]
        /\ appended' = appended + 1 /\ appended < MaxLines
        /\ forked' = (forked \/ \E q \in Procs : logging[q] # Nil)
        /\ UNCHANGED <<lines, entries, halved>>
    BY <1>1 DEF Log!ReadLast
  <2>2. Log!LastHash \in Nat \union {Corrupt}
    BY LogLast DEF Log!LastHash, LogLines
  <2>3. appended + 1 \in 1..MaxLines
    BY <1>0, <2>1 DEF LogTyped
  <2>4. line \in [form : {"entry"}, prev : Nat \union {Corrupt}, hash : 1..MaxLines]
        /\ line.prev = Log!LastHash
    BY <2>2, <2>3 DEF Log!Line
  <2> HIDE DEF line
  <2>5. LogTyped'
    BY <2>1, <2>3, <2>4 DEF LogTyped
  <2>6. Returned'
    BY <2>1 DEF Returned, Whole
  <2>7. LogFlags'
    BY <2>1 DEF LogFlags
  <2>8. Chained'
    <3> SUFFICES ASSUME ~forked', ~halved' PROVE Chained'
      BY DEF Chained
    <3>1. ~forked /\ ~halved /\ \A q \in Procs : logging[q] = Nil
      BY <2>1 DEF LogFlags
    <3>2. Log!MerkleOk' /\ Log!LastHash' = Log!LastHash
      BY <2>1, <3>1 DEF Chained, Log!MerkleOk, Log!LastHash, Log!Last
    <3>3. logging'[p] = line /\ \A q \in Procs \ {p} : logging'[q] = Nil
      BY <2>1, <3>1 DEF LogTyped
    <3> QED BY <2>4, <3>2, <3>3 DEF Chained
  <2> QED BY <2>5, <2>6, <2>7, <2>8
\* A whole line is written at the end: the chain goes on.
<1>2. ASSUME NEW p \in Procs, logging[p] # Nil, lines' = Log!Continued(logging[p]),
             logging' = [logging EXCEPT ![p] = Nil], UNCHANGED <<appended, forked, halved>>
      PROVE  /\ lines' \in Seq(LogLines)
             /\ Whole' => Whole /\ lines' = Append(lines, logging[p])
             /\ logging' \in [Procs -> {Nil} \union [form : {"entry"},
                  prev : Nat \union {Corrupt}, hash : 1..MaxLines]]
             /\ Chained'
  <2>1. logging[p] \in [form : {"entry"}, prev : Nat \union {Corrupt}, hash : 1..MaxLines]
    BY <1>2 DEF LogTyped
  <2>2. logging[p] \in LogLines
    BY <2>1 DEF LogLines
  <2>3. lines' \in Seq(LogLines) /\ (Whole' => Whole /\ lines' = Append(lines, logging[p]))
    BY <1>2, <2>2, LogWritten
  <2>4. logging' \in [Procs -> {Nil} \union [form : {"entry"}, prev : Nat \union {Corrupt},
            hash : 1..MaxLines]]
        /\ logging'[p] = Nil /\ \A q \in Procs \ {p} : logging'[q] = logging[q]
    BY <1>2 DEF LogTyped
  <2>5. Chained'
    <3> SUFFICES ASSUME ~forked, ~halved PROVE Chained'
      BY <1>2 DEF Chained
    <3>1. Log!MerkleOk /\ logging[p].prev = Log!LastHash
          /\ \A q \in Procs \ {p} : logging[q] = Nil
      BY <1>2 DEF Chained
    <3>2. lines' = Append(lines, logging[p])
      BY <1>2, <2>2, <3>1, LogContinued, LogLast DEF Log!MerkleOk
    <3>3. Len(lines') = Len(lines) + 1 /\ lines'[Len(lines) + 1] = logging[p]
          /\ DOMAIN lines' = 1..(Len(lines) + 1)
          /\ \A n \in DOMAIN lines : lines'[n] = lines[n]
      BY <3>2, <2>2, LogLast DEF LogTyped
    <3>4. logging[p].prev = IF Len(lines) + 1 = 1 THEN 0 ELSE lines[Len(lines)].hash
      BY <3>1, LogLast DEF Log!LastHash, Log!MerkleOk
    <3>5. ASSUME NEW n \in DOMAIN lines'
          PROVE lines'[n].form = "entry" /\ lines'[n].prev = IF n = 1 THEN 0 ELSE lines'[n - 1].hash
      <4>1. CASE n = Len(lines) + 1
        BY <4>1, <3>3, <3>4, <2>1, LogLast
      <4>2. CASE n \in DOMAIN lines
        <5>1. n # 1 => n - 1 \in DOMAIN lines
          BY <4>2, LogLast
        <5> QED BY <4>2, <5>1, <3>1, <3>3 DEF Log!MerkleOk
      <4> QED BY <4>1, <4>2, <3>3, LogLast
    <3>6. Log!MerkleOk'
      BY <3>5 DEF Log!MerkleOk
    <3> QED BY <3>1, <3>6, <2>4 DEF Chained
  <2> QED BY <2>3, <2>4, <2>5
<1>3. ASSUME NEW p \in Procs, Log!AppendEntry(p) PROVE LogInv'
  <2>1. /\ logging[p] # Nil /\ lines' = Log!Continued(logging[p])
        /\ entries' = Append(entries, logging[p].hash)
        /\ logging' = [logging EXCEPT ![p] = Nil] /\ UNCHANGED <<appended, forked, halved>>
    BY <1>3 DEF Log!AppendEntry
  <2>2. logging[p].hash \in 1..MaxLines
    BY <2>1 DEF LogTyped
  <2>3. LogTyped' /\ Chained'
    <3>1. entries' \in Seq(1..MaxLines)
      BY <2>1, <2>2 DEF LogTyped
    <3> QED BY <1>2, <2>1, <3>1 DEF LogTyped
  <2>4. Returned'
    <3> SUFFICES ASSUME Whole' PROVE Returned'
      BY DEF Returned
    <3>1. Whole /\ lines' = Append(lines, logging[p])
      BY <1>2, <2>1
    <3>2. Len(lines') = Len(lines) + 1 /\ lines'[Len(lines) + 1] = logging[p]
          /\ DOMAIN lines' = 1..(Len(lines) + 1)
          /\ \A n \in DOMAIN lines : lines'[n] = lines[n]
      BY <3>1, LogLast DEF LogTyped
    <3>3. Len(entries') = Len(entries) + 1 /\ entries'[Len(entries) + 1] = logging[p].hash
          /\ DOMAIN entries' = 1..(Len(entries) + 1) /\ Len(entries) \in Nat
          /\ DOMAIN entries = 1..Len(entries)
          /\ \A n \in DOMAIN entries : entries'[n] = entries[n]
      BY <2>1, <2>2 DEF LogTyped
    <3>4. ASSUME NEW j \in DOMAIN entries'
          PROVE \E m \in DOMAIN lines' : /\ lines'[m].hash = entries'[j]
                  /\ \A i \in 1..(j - 1) : \E n \in 1..(m - 1) : lines'[n].hash = entries'[i]
      <4>1. CASE j = Len(entries) + 1
        <5>1. ASSUME NEW i \in 1..(j - 1)
              PROVE  \E n \in 1..Len(lines) : lines'[n].hash = entries'[i]
          <6>1. i \in DOMAIN entries
            BY <4>1, <3>3
          <6>2. PICK n \in DOMAIN lines : lines[n].hash = entries[i]
            BY <6>1, <3>1 DEF Returned
          <6> QED BY <6>1, <6>2, <3>2, <3>3, LogLast
        <5>2. Len(lines) + 1 \in DOMAIN lines' /\ (Len(lines) + 1) - 1 = Len(lines)
              /\ lines'[Len(lines) + 1].hash = entries'[j]
          BY <4>1, <3>2, <3>3, LogLast
        <5> QED BY <5>1, <5>2
      <4>2. CASE j \in DOMAIN entries
        <5>1. PICK m \in DOMAIN lines : /\ lines[m].hash = entries[j]
                /\ \A i \in 1..(j - 1) : \E n \in 1..(m - 1) : lines[n].hash = entries[i]
          BY <4>2, <3>1 DEF Returned
        <5>2. \A i \in 1..(j - 1) : i \in DOMAIN entries
          BY <4>2, <3>3
        <5>3. \A n \in 1..(m - 1) : n \in DOMAIN lines
          BY LogLast
        <5>4. m \in DOMAIN lines' /\ lines'[m].hash = entries'[j]
          BY <5>1, <4>2, <3>2, <3>3, LogLast
        <5>5. \A i \in 1..(j - 1) : \E n \in 1..(m - 1) : lines'[n].hash = entries'[i]
          BY <5>1, <5>2, <5>3, <3>2, <3>3
        <5> QED BY <5>4, <5>5
      <4> QED BY <4>1, <4>2, <3>3
    <3> QED BY <3>4 DEF Returned
  <2> QED BY <2>1, <2>3, <2>4 DEF LogFlags
<1>4. ASSUME NEW p \in Procs, Log!AppendEntryFails(p) PROVE LogInv'
  <2>1. /\ logging[p] # Nil /\ logging' = [logging EXCEPT ![p] = Nil]
        /\ UNCHANGED <<appended, entries, forked>>
    BY <1>4 DEF Log!AppendEntryFails
  <2>2. logging' \in [Procs -> {Nil} \union [form : {"entry"}, prev : Nat \union {Corrupt},
            hash : 1..MaxLines]]
        /\ logging'[p] = Nil /\ \A q \in Procs \ {p} : logging'[q] = logging[q]
    BY <2>1 DEF LogTyped
  <2>3. CASE UNCHANGED <<lines, halved>>
    <3>1. LogTyped' /\ LogFlags' /\ Returned'
      BY <2>1, <2>2, <2>3 DEF LogTyped, LogFlags, Returned, Whole
    <3>2. Chained'
      BY <2>1, <2>2, <2>3 DEF Chained, Log!MerkleOk, Log!LastHash, Log!Last
    <3> QED BY <3>1, <3>2
  <2>4. CASE lines' = Log!Continued(Log!Line("half", 0, 0)) /\ halved' = TRUE
    <3> DEFINE half == Log!Line("half", 0, 0)
    <3>1. half \in LogLines /\ half.form # "entry"
      BY DEF Log!Line, LogLines
    <3> HIDE DEF half
    <3>2. lines' = Log!Continued(half)
      BY <2>4 DEF half
    <3>3. lines' \in Seq(LogLines) /\ ~Whole'
      BY <3>1, <3>2, LogWritten
    <3> QED BY <2>1, <2>2, <2>4, <3>3 DEF LogTyped, LogFlags, Returned, Chained
  <2>5. CASE lines' = Log!Continued(logging[p]) /\ UNCHANGED halved
    <3>1. /\ lines' \in Seq(LogLines)
          /\ Whole' => Whole /\ lines' = Append(lines, logging[p])
          /\ Chained'
      BY <1>2, <2>1, <2>5
    <3>2. LogTyped' /\ LogFlags'
      BY <2>1, <2>2, <2>5, <3>1 DEF LogTyped, LogFlags
    <3>3. Returned'
      <4> SUFFICES ASSUME Whole' PROVE Returned'
        BY DEF Returned
      <4>1. Whole /\ \A n \in DOMAIN lines : n \in DOMAIN lines' /\ lines'[n] = lines[n]
        BY <3>1, LogLast DEF LogTyped
      <4>2. \A m \in DOMAIN lines : \A n \in 1..(m - 1) : n \in DOMAIN lines
        BY LogLast
      <4> QED BY <2>1, <4>1, <4>2 DEF Returned
    <3> QED BY <3>1, <3>2, <3>3
  <2> QED BY <1>4, <2>3, <2>4, <2>5 DEF Log!AppendEntryFails
<1>5. CASE UNCHANGED Log!logVars
  BY <1>5 DEF Log!logVars, LogTyped, LogFlags, Returned, Whole, Chained, Log!MerkleOk,
       Log!LastHash, Log!Last
<1> QED BY <1>1, <1>3, <1>4, <1>5 DEF Log!Next

\* The log of Shared runs as StateLog says.
LEMMA LogSpec == SharedSpec => Log!Spec
<1>1. SharedInit => Log!Init
  BY DEF SharedInit
<1>2. [SharedNext]_sharedVars => [Log!Next]_(Log!logVars)
  BY DEF SharedNext, sharedVars, logVars, Log!logVars
<1> QED BY <1>1, <1>2, PTL DEF SharedSpec, Log!Spec

\* The invariant of the log holds always.
LEMMA LogInvariant == SharedSpec => []LogInv
<1>1. ASSUME Log!Init PROVE LogInv
  <2>1. LogTyped
    BY <1>1, BoundsAssumption DEF Log!Init, LogTyped
  <2>2. LogFlags
    BY <1>1 DEF Log!Init, LogFlags
  <2>3. Returned /\ Chained
    BY <1>1 DEF Log!Init, Returned, Chained, Log!MerkleOk
  <2> QED BY <2>1, <2>2, <2>3 DEF LogInv
<1> QED BY LogSpec, LogStep, <1>1, PTL DEF Log!Spec

\* LogVerifies (append_state_log and the Merkle chain of loop_memory_state_log.py): a
\* log that verifies has every entry that was returned, in order, and a log verifies
\* unless appends overlapped or a line was cut off, for any loggers and lines.
THEOREM LogComplete == SharedSpec => []LogVerifies
<1>1. LogInv => LogVerifies
  BY DEF LogInv, Returned, Chained, Whole, LogVerifies, Log!LogVerifies, Log!MerkleOk
<1> QED BY LogInvariant, <1>1, PTL
=============================================================================
