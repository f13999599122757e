------------------------------- MODULE Shared -------------------------------
(* The parts of the harness that keep their state in files which several   *)
(* processes share: a behaviour is one of one of the parts, chosen in the  *)
(* initial state, while the variables of the others stay as they are.  The *)
(* processes of every part are the same.  Which parts there are is a       *)
(* constant, so that TLC can take some at a time.                          *)
EXTENDS SessionStore, Sequences, FiniteSets

CONSTANTS
  Parts, Procs, Nil, Torn, Blank, Junk, Corrupt, Mangled,
  BoardKeys, Contents, MaxPosts,
  Subscribers, MaxMessages, MaxMisses,
  Tools, Prompts, MaxEntries, MaxCalls,
  MaxLines,
  Sessions, MaxActive, MaxRecent, MaxRegenerations, MaxBeats,
  MaxRevisionRounds, MaxQcRounds, MaxEnhanceRounds, MaxApprovalRounds, MaxBlocking,
  MaxInits,
  Nodes, Branches, Needs, BatchSize, MaxTries, MaxUses,
  Documents, MaxDecisions, MaxEdits,
  MaxRegisters,
  Agents, MaxLoads,
  Workers, MaxCommands, MaxCommits,
  Paths, Subtasks, DepSets, Unknown

VARIABLES
  part,
  rule, region, keeper, post, board, posts, forms, accepted,
  topic, tail, inLock, publishing, offset, got, sent, published, missed, broken, withdrawn,
  disk, temp, job, receiptLog, llm, calls, known, contested, receipted, mixed,
  lines, logging, appended, entries, forked, halved,
  state, silent, registry, notes, round, beats, unread, rounds, decision, raced,
  planFile, command, inits, overlapped, interrupted,
  dagFile, using, uses, handed, finished, crossed, unsaved, overlooked,
  required, document, gate, archive, review, begun, edits, verdict, entangled,
  moved, chopped,
  distributed, lease, keyFile, stage, handle, result, recorded, executed, registers,
  revocationFile, agents, revocations, decisions, decided, loads, spoilt,
  tree, branch, main, merging, worktrees, running, commits, commands, discarded,
  strayed, concurrent, hindered,
  deps, files, held, told, queue, order, level, placed

Board == INSTANCE Blackboard WITH Writers <- Procs
Bus == INSTANCE EventBus WITH Publishers <- Procs
Durable == INSTANCE DurableSession WITH Hooks <- Procs, Empty <- Blank
Log == INSTANCE StateLog WITH Loggers <- Procs
Loop == INSTANCE LoopMemory WITH Keepers <- Procs
Cli == INSTANCE PlanCli WITH Callers <- Procs
Dag == INSTANCE DagCallbacks WITH Agents <- Procs
Gate == INSTANCE ApprovalGate WITH Reviewers <- Procs
Idem == INSTANCE Idempotency WITH Registrars <- Procs
Registry == INSTANCE AgentRegistry WITH Loaders <- Procs
Trees == INSTANCE Worktree WITH Operators <- Procs
Dispatch == INSTANCE PlanDispatch

\* The parts, by the names of their modules in this one.
AllParts == {"session", "board", "bus", "durable", "log", "loop", "cli", "dag", "gate",
             "idem", "registry", "trees", "dispatch"}

ASSUME PartsAssumption == Parts \subseteq AllParts

\* The bounds are numbers, and the cache has room for an entry.
ASSUME BoundsAssumption ==
  /\ {MaxPosts, MaxMessages, MaxMisses, MaxEntries, MaxCalls, MaxLines, MaxActive, MaxRecent,
      MaxRegenerations, MaxBeats, MaxInits, BatchSize, MaxTries, MaxUses, MaxDecisions, MaxEdits,
      MaxRegisters, MaxLoads, MaxCommands, MaxCommits} \subseteq Nat
  /\ MaxEntries # 0

\* The limits of the plan phase, and the bound of its model.
ASSUME RoundsAssumption ==
  {MaxRevisionRounds, MaxQcRounds, MaxEnhanceRounds, MaxApprovalRounds, MaxBlocking}
    \subseteq Nat \ {0}

\* What is not there or cannot be read is none of the values that can, and the
\* contents of the blackboard are what JSON has.
ASSUME ValuesAssumption ==
  /\ Nil \notin Procs \union {Torn, Mangled} \union Nat
  /\ Contents \subseteq Board!Values /\ Torn \notin Board!Boards
  /\ {Torn, Junk} \intersect Tools = {}
  /\ {Blank, Torn} \intersect (Durable!Checkpoints \union Durable!Caches) = {}
  /\ \A f \in Durable!Files : Nil \notin Durable!Content(f) \union Durable!Saves(f)
  /\ {Nil, Torn} \intersect (Documents \union Gate!GateState) = {}
  /\ Nil \notin Sessions \union Loop!SessionFiles \union Loop!Regenerates
  /\ Nil \notin Cli!Commands /\ Torn \notin Cli!StateFiles
  /\ \A s \in SUBSET Trees!Commits : s # Nil
  /\ Nil \notin Trees!Commands
  /\ {Nil, Torn, Mangled} \intersect Dag!States = {}

\* Subtasks are places in a list.
ASSUME PlacesAssumption == IsFiniteSet(Subtasks) /\ Subtasks = 1..Cardinality(Subtasks)

\* There are finitely many sessions.
ASSUME SessionsAssumption == IsFiniteSet(Sessions)

\* Tasks depend on tasks of the workflow, branches on nothing.
ASSUME NeedsAssumption ==
  /\ Needs \in [Nodes -> SUBSET Nodes]
  /\ Branches \subseteq Nodes /\ \A b \in Branches : Needs[b] = {}

boardVars == <<rule, region, keeper, post, board, posts, forms, accepted>>
busVars == <<topic, tail, inLock, publishing, offset, got, sent, published, missed, broken,
             withdrawn>>
durableVars == <<disk, temp, job, receiptLog, llm, calls, known, contested, receipted, mixed>>
logVars == <<lines, logging, appended, entries, forked, halved>>
loopVars == <<state, silent, registry, notes, round, beats, unread, rounds, decision, raced>>
cliVars == <<planFile, command, inits, overlapped, interrupted>>
callVars == <<dagFile, using, uses, handed, finished, crossed, unsaved, overlooked>>
gateVars == <<required, document, gate, archive, review, begun, edits, verdict,
              entangled, moved, chopped>>
idemVars == <<distributed, lease, keyFile, stage, handle, result, recorded, executed,
              registers>>
registryVars == <<revocationFile, agents, revocations, decisions, decided, loads, spoilt>>
treeVars == <<tree, branch, main, merging, worktrees, running, commits, commands,
              discarded, strayed, concurrent, hindered>>
dispatchVars == <<deps, files, held, told, queue, order, level, placed>>

SharedInit ==
  /\ part \in Parts
  /\ part # "session" => persistent = TRUE
  /\ part # "board" => rule = "append_only"
  /\ part # "gate" => required = FALSE /\ document = CHOOSE d \in Documents : TRUE
  /\ part # "idem" => distributed = FALSE
  /\ Init /\ Board!Init /\ Bus!Init /\ Durable!Init /\ Log!Init
  /\ Loop!Init /\ Cli!Init /\ Dag!Init /\ Gate!Init
  /\ Idem!Init /\ Registry!Init /\ Trees!Init
  /\ IF part = "dispatch"
       THEN Dispatch!Init
       ELSE /\ deps = Nil /\ files = Nil /\ held = Nil /\ told = Nil
            /\ queue = Nil /\ order = Nil /\ level = Nil /\ placed = Nil

SharedNext ==
  /\ UNCHANGED part
  /\ IF part = "session" THEN Next ELSE UNCHANGED vars
  /\ IF part = "board" THEN Board!Next ELSE UNCHANGED boardVars
  /\ IF part = "bus" THEN Bus!Next ELSE UNCHANGED busVars
  /\ IF part = "durable" THEN Durable!Next ELSE UNCHANGED durableVars
  /\ IF part = "log" THEN Log!Next ELSE UNCHANGED logVars
  /\ IF part = "loop" THEN Loop!Next ELSE UNCHANGED loopVars
  /\ IF part = "cli" THEN Cli!Next ELSE UNCHANGED cliVars
  /\ IF part = "dag" THEN Dag!Next ELSE UNCHANGED callVars
  /\ IF part = "gate" THEN Gate!Next ELSE UNCHANGED gateVars
  /\ IF part = "idem" THEN Idem!Next ELSE UNCHANGED idemVars
  /\ IF part = "registry" THEN Registry!Next ELSE UNCHANGED registryVars
  /\ IF part = "trees" THEN Trees!Next ELSE UNCHANGED treeVars
  /\ IF part = "dispatch" THEN Dispatch!Next ELSE UNCHANGED dispatchVars

sharedVars == <<part, vars, boardVars, busVars, durableVars, logVars, loopVars, cliVars,
                callVars, gateVars, idemVars, registryVars, treeVars, dispatchVars>>

SharedSpec == SharedInit /\ [][SharedNext]_sharedVars

-----------------------------------------------------------------------------
(* Properties: those of SessionStore, and those of the other parts, see    *)
(* there.                                                                  *)

\* Type invariant.
AllTypesOK ==
  CASE part = "session" -> TypeOK
    [] part = "board" -> Board!TypeOK
    [] part = "bus" -> Bus!TypeOK
    [] part = "durable" -> Durable!TypeOK
    [] part = "log" -> Log!TypeOK
    [] part = "loop" -> Loop!TypeOK
    [] part = "cli" -> Cli!TypeOK
    [] part = "dag" -> Dag!TypeOK
    [] part = "gate" -> Gate!TypeOK
    [] part = "idem" -> Idem!TypeOK
    [] part = "registry" -> Registry!TypeOK
    [] part = "trees" -> Trees!TypeOK
    [] part = "dispatch" -> Dispatch!TypeOK

\* No accepted write of the blackboard is lost but by the rule of its region.
NoLostWrite == Board!NoLostWrite

\* A subscriber has every message of the topic up to its offset, once and in order,
\* on the conditions of EventBus.
DeliveredInOrder == Bus!DeliveredInOrder

\* While no two calls overlap the checkpoint of a session is what the calls that
\* succeeded made of it; and a receipt that was written is found for ever.
DurableKept == Durable!CheckpointKept /\ Durable!ReceiptsFound

\* A log that verifies is complete and in order, and one whose appends were neither
\* crossed nor cut verifies.
LogVerifies == Log!LogVerifies

\* While no two regenerates overlap, what was decided about a session stays.
StatusKept == Loop!StatusKept

\* The plan in the state file keeps to its limits; unless commands overlap it goes
\* forward and never stops where no command helps.
PlanOnlyForward == Cli!PlanOnlyForward

\* Tasks are handed out after what they depend on, and once unless calls overlap or
\* fail.
HandedOutInOrder == Dag!HandedOutInOrder

\* An approval is of the document it was given for, and stays unless commands
\* overlap.
ApprovalKept == Gate!ApprovalKept

\* No commit of a worker is lost but on request, and the list of worktrees is what
\* there is, on the conditions of Worktree.
WorktreesKept == Trees!WorkKept /\ Trees!Tracked

\* Subtasks are dispatched in the order of their dependencies and files.
DispatchSound == part = "dispatch" => Dispatch!DispatchSound
=============================================================================
