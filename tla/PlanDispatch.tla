---------------------------- MODULE PlanDispatch ----------------------------
(***************************************************************************)
(* The dispatch of subtasks to workers (plan_dispatch.py analyze): files   *)
(* that several subtasks or an active session touch, their owners, the     *)
(* dependency graph, Kahn's order and the groups that may run in parallel. *)
(*                                                                         *)
(* A subtask is its place in the list.  Its files are the expanded ones;   *)
(* one active session stands for all, with the files it owns or affects.   *)
(* A dependency is named once per subtask, and may name no subtask.        *)
(***************************************************************************)
EXTENDS Naturals, Sequences, FiniteSets, FiniteSetsExt

CONSTANTS
  Subtasks,  \* 1..n
  Paths,
  DepSets,   \* DepSets[t]: the sets that deps of t may be
  Nil        \* no file, no group

VARIABLES
  deps, files, held, \* the input: dependencies and files of each subtask, those of the session
  told,      \* told[t]: the file that the conflict of t with the session names, or Nil
  queue,     \* Kahn: subtasks without an open dependency
  order,     \* dispatch_order
  level,     \* level[t]: the parallel group of t, or Nil: all stay so if there is a cycle
  placed     \* how many of the order have their group

dispatchVars == <<deps, files, held, told, queue, order, level, placed>>

Touching(f) == {t \in Subtasks : f \in files[t]}

\* suggested_order[0] of the conflict over f.
First(f) == CHOOSE t \in Touching(f) : \A u \in Touching(f) : t <= u

Conflicts == {f \in Paths : Cardinality(Touching(f)) > 1}

\* Mutant of Before: the owner of a file is not waited for.
BeforeDeps(t) == deps[t]

\* The dependency graph: deps, and the first subtask of each conflict.
Before(t) == deps[t] \union ({First(f) : f \in files[t] \intersect Conflicts} \ {t})

\* in_degree is zero once these subtasks are in the order.
Open(t, done) == (Before(t) \intersect Subtasks) \ done

\* The subtasks of S as the list has them.
PlaceIn(S, t) == Cardinality({u \in S : u <= t})

InList(S) == [i \in 1..Cardinality(S) |-> CHOOSE t \in S : PlaceIn(S, t) = i]

Init ==
  /\ deps \in [Subtasks -> UNION {DepSets[t] : t \in Subtasks}]
  /\ \A t \in Subtasks : deps[t] \in DepSets[t]
  /\ files \in [Subtasks -> SUBSET Paths]
  /\ held \in SUBSET Paths
  /\ told = Nil
  /\ queue = InList({t \in Subtasks : Open(t, {}) = {}})
  /\ order = <<>>
  /\ level = [t \in Subtasks |-> Nil]
  /\ placed = 0

\* _active_session_conflicts: of the held files that a subtask touches any one.
AskSessions ==
  /\ told = Nil
  /\ told' \in [Subtasks -> Paths \union {Nil}]
  /\ \A t \in Subtasks :
       IF files[t] \intersect held = {} THEN told'[t] = Nil
                                      ELSE told'[t] \in files[t] \intersect held
  /\ UNCHANGED <<deps, files, held, queue, order, level, placed>>

Sort ==
  /\ told # Nil
  /\ queue # <<>>
  /\ order' = Append(order, Head(queue))
  /\ LET done == {order'[i] : i \in DOMAIN order'}
         freed == {t \in Subtasks : Head(queue) \in Before(t) /\ Open(t, done) = {}} IN
     queue' = Tail(queue) \o InList(freed)
  /\ UNCHANGED <<deps, files, held, told, level, placed>>

\* The level of t after those before it; what is not in the order counts as 0.
Level(t) ==
  IF Before(t) = {} THEN 0
  ELSE 1 + Max({0} \union ({level[d] : d \in Before(t) \intersect Subtasks} \ {Nil}))

\* One turn of the loop over the order.
Group ==
  /\ told # Nil
  /\ queue = <<>>
  /\ Len(order) = Cardinality(Subtasks)
  /\ placed < Len(order)
  /\ placed' = placed + 1
  /\ level' = [level EXCEPT ![order[placed + 1]] = Level(order[placed + 1])]
  /\ UNCHANGED <<deps, files, held, told, queue, order>>

Next == AskSessions \/ Sort \/ Group

Spec == Init /\ [][Next]_dispatchVars

-----------------------------------------------------------------------------
(* The rest of the analysis.                                               *)

\* deadlock_detected.
CycleNodes == {t \in Subtasks : Open(t, {order[i] : i \in DOMAIN order}) # {}}

\* A file in a conflict belongs to its first subtask, or to the session if a
\* conflict with the session names it; the other subtasks share it.
SharedFiles(t) ==
  {f \in files[t] : \/ \E u \in Subtasks : told[u] = f
                    \/ f \in Conflicts /\ First(f) # t}

OwnedFiles(t) == files[t] \ SharedFiles(t)

ParallelSafe(t) == SharedFiles(t) = {} /\ files[t] \intersect held = {}

-----------------------------------------------------------------------------
(* Properties.                                                             *)

\* Type invariant.
TypeOK ==
  /\ queue \in Seq(Subtasks)
  /\ order \in Seq(Subtasks)
  /\ level \in [Subtasks -> Nat \union {Nil}]
  /\ placed \in 0..Cardinality(Subtasks)

\* The subtasks that wait for each other or for such: the reference for cycles.
Stuck == UNION {S \in SUBSET Subtasks : \A t \in S : Before(t) \intersect S # {}}

\* Kahn's order has every subtask once and after those it waits for, and leaves
\* out those on or behind a cycle, which are reported.
OrderSound ==
  /\ \A i, j \in DOMAIN order : order[j] \in Before(order[i]) => j < i
  /\ \A i, j \in DOMAIN order : order[i] = order[j] => i = j
  /\ queue = <<>> => CycleNodes = Stuck /\ Stuck = Subtasks \ {order[i] : i \in DOMAIN order}

\* The owner of a file is in an earlier group than all others that touch it, and
\* no group is later than its dependencies ask for.  Two subtasks of one group may
\* touch the same file, but then neither is called safe to run in parallel; nor is
\* one that touches a file of the session.  No file has two owners.
GroupsSound ==
  (\A t \in Subtasks : level[t] # Nil) =>
    \A t, u \in Subtasks :
      /\ t \in Before(u) => level[t] < level[u]
      /\ level[u] > 1 => \E d \in Before(u) \intersect Subtasks : level[d] = level[u] - 1
      /\ \A f \in files[t] \intersect files[u] :
           t # u => \/ f \notin OwnedFiles(t) \/ f \notin OwnedFiles(u)
      /\ \A f \in files[t] \intersect files[u] :
           /\ First(f) = t /\ t # u => level[t] < level[u]
           /\ t # u /\ level[t] = level[u] => ~ParallelSafe(t) /\ ~ParallelSafe(u)
      /\ files[t] \intersect held # {} => ~ParallelSafe(t)

\* What analyze reports of order, cycles, groups and owners.
DispatchSound == OrderSound /\ GroupsSound
=============================================================================
