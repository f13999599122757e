------------------------------ MODULE Worktree ------------------------------
(***************************************************************************)
(* The git worktrees of parallel workers (worktree.py): create, merge,     *)
(* remove and clean, while the workers commit, over the state file that    *)
(* lists them and git's own knowledge of branches and worktrees.           *)
(*                                                                         *)
(* A command is split at every git call and at the load and the save of    *)
(* the state file, which it replaces by its own copy: each of the two is   *)
(* under a lock, the command as a whole is not.  The load, too, writes     *)
(* back what it has read, which is an empty list if the read fails.  clean *)
(* is a remove of each worker.  A branch is the set of its commits.  The   *)
(* list of worktrees in the session state is left out: nothing reads it.   *)
(***************************************************************************)
EXTENDS Naturals

CONSTANTS
  Operators,    \* processes that run commands
  Workers,      \* worker ids, each with its directory and branch
  MaxCommands,  \* bound of the model: commands begun
  MaxCommits,   \* bound of the model: commits of workers
  Nil           \* no branch, no merge, no command

VARIABLES
  tree,        \* tree[w]: "none", "linked" or "prunable" (git lists it, the directory is gone)
  branch,      \* branch[w]: the commits of the branch of w, or Nil
  main,        \* the commits of the current branch of the repository
  merging,     \* MERGE_HEAD: the commits of a merge that conflicts, or Nil
  worktrees,   \* the state file: the status of each worker
  running,     \* running[o]: the command o is in, or Nil
  commits,     \* history: commits made
  commands,    \* history: commands begun
  discarded,   \* history: commits that a --force-discard deleted
  strayed,     \* history: two commands on one worker at a time, or a commit after its merge
  concurrent,  \* history: two commands at a time
  hindered     \* history: a worktree half made or not removed, a list that could not be read,
               \* or a command cut off

treeVars == <<tree, branch, main, merging, worktrees, running, commits, commands,
              discarded, strayed, concurrent, hindered>>

Init ==
  /\ tree = [w \in Workers |-> "none"]
  /\ branch = [w \in Workers |-> Nil]
  /\ main = {}
  /\ merging = Nil
  /\ worktrees = [w \in Workers |-> "absent"]
  /\ running = [o \in Operators |-> Nil]
  /\ commits = 0
  /\ commands = 0
  /\ discarded = {}
  /\ strayed = FALSE
  /\ concurrent = FALSE
  /\ hindered = FALSE

Commit(w) ==
  /\ tree[w] = "linked"
  /\ branch[w] # Nil
  /\ commits < MaxCommits
  /\ commits' = commits + 1
  /\ branch' = [branch EXCEPT ![w] = @ \union {commits'}]
  /\ strayed' = (strayed \/ \E o \in Operators : running[o] # Nil /\
                              running[o].worker = w /\ running[o].op = "merge" /\
                              running[o].at \in {"tree", "branch"})
  /\ UNCHANGED <<tree, main, merging, worktrees, running, commands, discarded,
                 concurrent, hindered>>

\* The command goes on at another place, with its copy of the state file.
At(o, at, copy) == running' = [running EXCEPT ![o] = [@ EXCEPT !.at = at, !.copy = copy]]

Called(o, w) ==
  /\ running[o] = Nil
  /\ commands < MaxCommands
  /\ commands' = commands + 1
  /\ LET others == {q \in Operators : running[q] # Nil} IN
     /\ concurrent' = (concurrent \/ others # {})
     /\ strayed' = (strayed \/ \E q \in others : running[q].worker = w)

Begin(o, op, w, at) ==
  /\ Called(o, w)
  /\ running' = [running EXCEPT ![o] = [op |-> op, worker |-> w, at |-> at, copy |-> worktrees]]
  /\ UNCHANGED <<main, merging, worktrees, commits, discarded, hindered>>

NoWorktrees == [w \in Workers |-> "absent"]

\* Any command but create whose load fails: it finds no worktree, and ends.
LoadFails(o, w) ==
  /\ Called(o, w)
  /\ worktrees' = NoWorktrees
  /\ hindered' = TRUE
  /\ UNCHANGED <<tree, branch, main, merging, running, commits, discarded>>

\* git worktree add -b: fails if the directory or the branch is there, or git
\* still lists the worktree.
Create(o, w) ==
  /\ tree[w] = "none"
  /\ branch[w] = Nil
  /\ Begin(o, "create", w, "load")
  /\ tree' = [tree EXCEPT ![w] = "linked"]
  /\ branch' = [branch EXCEPT ![w] = main]

\* It fails or times out when it has made the branch, or the worktree as well, and
\* nobody takes them back.
CreateFails(o, w) ==
  /\ tree[w] = "none"
  /\ branch[w] = Nil
  /\ Called(o, w)
  /\ \E left \in {"none", "prunable", "linked"} : tree' = [tree EXCEPT ![w] = left]
  /\ branch' = [branch EXCEPT ![w] = main]
  /\ hindered' = TRUE
  /\ UNCHANGED <<main, merging, worktrees, running, commits, discarded>>

RecordState(o) ==
  /\ running[o] # Nil
  /\ running[o].at = "load"
  /\ At(o, "save", [worktrees EXCEPT ![running[o].worker] = "active"])
  /\ UNCHANGED <<tree, branch, main, merging, worktrees, commits, commands, discarded,
                 strayed, concurrent, hindered>>

\* The load of create fails: under the lock, which empties the file, or as the lock
\* cannot be had.
RecordStateAnew(o) ==
  /\ running[o] # Nil
  /\ running[o].at = "load"
  /\ worktrees' \in {worktrees, NoWorktrees}
  /\ At(o, "save", [NoWorktrees EXCEPT ![running[o].worker] = "active"])
  /\ hindered' = TRUE
  /\ UNCHANGED <<tree, branch, main, merging, commits, commands, discarded, strayed,
                 concurrent>>

\* Without a directory the record is dropped: the save of the command does that.
Merge(o, w) ==
  /\ worktrees[w] # "absent"
  /\ Begin(o, "merge", w, IF tree[w] = "linked" THEN "merge" ELSE "save")
  /\ UNCHANGED <<tree, branch>>

\* git merge: refused during another merge, without the branch, or for reasons of
\* the working tree; one that times out may be done all the same.
MergeBranch(o) ==
  /\ running[o] # Nil
  /\ running[o].at = "merge"
  /\ LET w == running[o].worker
         copy == running[o].copy IN
     \/ /\ merging = Nil
        /\ branch[w] # Nil
        /\ main' = main \union branch[w]
        /\ At(o, "tree", copy)
        /\ UNCHANGED merging
     \/ /\ \/ /\ merging = Nil /\ branch[w] # Nil
              /\ \/ ~(branch[w] \subseteq main) /\ merging' = branch[w] /\ UNCHANGED main
                 \/ main' = main \union branch[w] /\ UNCHANGED merging
           \/ UNCHANGED <<main, merging>>
        /\ At(o, "status", [copy EXCEPT ![w] = "merge-conflict"])
  /\ UNCHANGED <<tree, branch, worktrees, commits, commands, discarded, strayed,
                 concurrent, hindered>>

Remove(o, w, force) ==
  /\ worktrees[w] # "absent"
  /\ worktrees[w] = "merge-conflict" => force
  /\ Begin(o, IF force THEN "discard" ELSE "remove", w,
           IF tree[w] = "linked" THEN "tree" ELSE "branch")
  /\ UNCHANGED <<tree, branch>>

\* git worktree remove --force, or rmtree, whose errors are ignored.
RemoveTree(o) ==
  /\ running[o] # Nil
  /\ running[o].at = "tree"
  /\ LET w == running[o].worker IN
     \E left \in {"none", "prunable", "linked"} :
       /\ tree[w] = "none" => left = "none"
       /\ tree[w] = "prunable" => left # "linked"
       /\ tree' = [tree EXCEPT ![w] = left]
       /\ hindered' = (hindered \/ left # "none")
  /\ At(o, "branch", running[o].copy)
  /\ UNCHANGED <<branch, main, merging, worktrees, commits, commands, discarded,
                 strayed, concurrent>>

\* Mutant of MayDelete: branches are always deleted with -D.
MayDeleteAny(op, w) == tree[w] = "none" /\ branch[w] # Nil

\* git branch -d keeps what is not merged, and neither -d nor -D deletes a branch
\* of a worktree that git lists.
MayDelete(op, w) ==
  /\ tree[w] = "none"
  /\ branch[w] # Nil
  /\ op = "remove" => branch[w] \subseteq main

\* That the branch is not deleted is ignored.
DeleteBranch(o) ==
  /\ running[o] # Nil
  /\ running[o].at = "branch"
  /\ LET w == running[o].worker
         op == running[o].op IN
     \/ /\ MayDelete(op, w)
        /\ branch' = [branch EXCEPT ![w] = Nil]
        /\ discarded' = IF op = "discard" THEN discarded \union branch[w] ELSE discarded
     \/ UNCHANGED <<branch, discarded>>
  /\ At(o, "save", running[o].copy)
  /\ UNCHANGED <<tree, main, merging, worktrees, commits, commands, strayed,
                 concurrent, hindered>>

\* The state file becomes the copy of the command, without the worker that merge
\* and remove have done with.
SaveState(o) ==
  /\ running[o] # Nil
  /\ running[o].at \in {"save", "status"}
  /\ worktrees' = IF running[o].op = "create" \/ running[o].at = "status"
                    THEN running[o].copy
                    ELSE [running[o].copy EXCEPT ![running[o].worker] = "absent"]
  /\ running' = [running EXCEPT ![o] = Nil]
  /\ UNCHANGED <<tree, branch, main, merging, commits, commands, discarded, strayed,
                 concurrent, hindered>>

\* The process dies, the current branch cannot be read, or the save fails: the
\* last is only printed.
Stop(o) ==
  /\ running[o] # Nil
  /\ running' = [running EXCEPT ![o] = Nil]
  /\ hindered' = TRUE
  /\ UNCHANGED <<tree, branch, main, merging, worktrees, commits, commands, discarded,
                 strayed, concurrent>>

\* Somebody resolves the conflict and commits the merge, or aborts it.
Resolve ==
  /\ merging # Nil
  /\ main' \in {main, main \union merging}
  /\ merging' = Nil
  /\ UNCHANGED <<tree, branch, worktrees, running, commits, commands, discarded,
                 strayed, concurrent, hindered>>

Next ==
  \/ \E w \in Workers : Commit(w)
  \/ \E o \in Operators :
       \/ \E w \in Workers :
            \/ Create(o, w) \/ CreateFails(o, w) \/ Merge(o, w) \/ LoadFails(o, w)
            \/ \E force \in BOOLEAN : Remove(o, w, force)
       \/ RecordState(o) \/ RecordStateAnew(o) \/ MergeBranch(o) \/ RemoveTree(o) \/ DeleteBranch(o)
       \/ SaveState(o) \/ Stop(o)
  \/ Resolve

Spec == Init /\ [][Next]_treeVars

-----------------------------------------------------------------------------
(* Properties.                                                             *)

Statuses == {"absent", "active", "merge-conflict"}

Commits == 1..MaxCommits

Commands ==
  [op : {"create", "merge", "remove", "discard"}, worker : Workers,
   at : {"load", "merge", "tree", "branch", "save", "status"}, copy : [Workers -> Statuses]]

\* Type invariant.
TypeOK ==
  /\ tree \in [Workers -> {"none", "linked", "prunable"}]
  /\ branch \in [Workers -> (SUBSET Commits) \union {Nil}]
  /\ main \subseteq Commits
  /\ merging \in (SUBSET Commits) \union {Nil}
  /\ worktrees \in [Workers -> Statuses]
  /\ running \in [Operators -> {Nil} \union Commands]
  /\ discarded \subseteq Commits
  /\ {strayed, concurrent, hindered} \subseteq BOOLEAN

\* Unless two commands work on one worker at a time or a worker commits after its
\* merge, no commit of a worker is lost but by --force-discard: it is merged or on
\* a branch, through conflicts, failing git calls and commands that die.
WorkKept ==
  ~strayed => \A c \in 1..commits :
    c \in main \union discarded \/ \E w \in Workers : branch[w] # Nil /\ c \in branch[w]

\* While no two commands overlap, and none dies, fails to read the state file, or
\* leaves a worktree half made or half removed, the state file lists exactly the
\* worktrees there are, but for the one in work: conflicts, refused merges and
\* branches that are kept do not put them apart.
Tracked ==
  ~concurrent /\ ~hindered =>
    \A w \in Workers :
      \/ \E o \in Operators : running[o] # Nil /\ running[o].worker = w
      \/ tree[w] = "linked" <=> worktrees[w] # "absent"
=============================================================================
