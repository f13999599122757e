\* Every part, each but the dispatch with two processes that are interchangeable.
CONSTANTS
  Parts = {"session", "board", "bus", "durable", "log", "loop", "cli", "gate", "idem",
           "registry", "dag", "trees", "dispatch"}
  Procs = {p1, p2}
  Nil = Nil
  Callers = {p1, p2}
  Inodes = {i, j, k}
  None = None
  MaxUpdates = 1
  Torn = Torn
  Blank = Blank
  Junk = Junk
  Corrupt = Corrupt
  Mangled = Mangled
  BoardKeys = {k1, k2}
  Contents <- MCContents
  MaxPosts = 3
  Subscribers = {u}
  MaxMessages = 4
  MaxMisses = 1
  Tools = {t1}
  Prompts = {q1, q2}
  MaxEntries = 1
  MaxCalls = 4
  MaxLines = 4
  Sessions = {s1, s2}
  MaxActive = 1
  MaxRecent = 1
  MaxRegenerations = 2
  MaxBeats = 2
  MaxRevisionRounds = 1
  MaxQcRounds = 1
  MaxEnhanceRounds = 1
  MaxApprovalRounds = 2
  MaxBlocking = 1
  MaxInits = 2
  Left = Left
  Right = Right
  Join = Join
  Nodes <- MCNodes
  Spare = Spare
  Branches = {Spare}
  Needs <- MCNeeds
  BatchSize = 2
  MaxTries = 1
  MaxUses = 5
  Documents = {a, b}
  MaxDecisions = 3
  MaxEdits = 1
  MaxRegisters = 3
  Agents = {a1, a2}
  MaxLoads = 3
  Workers = {w1, w2}
  MaxCommands = 3
  MaxCommits = 2
  Paths = {f1, f2}
  Unknown = 0
  Subtasks <- MCSubtasks
  DepSets <- MCDepSets
SPECIFICATION SharedSpec
SYMMETRY Symmetry
INVARIANTS AllTypesOK MutualExclusion NoOrphanLock NoLostUpdate NoLostWrite DeliveredInOrder DurableKept LogVerifies HandedOutInOrder ApprovalKept WorktreesKept DispatchSound
PROPERTIES StatusKept PlanOnlyForward
CONSTRAINT Apart
CHECK_DEADLOCK FALSE
