\* More ready tasks than max_parallel, in a graph that is never restored.
CONSTANTS
  a = a
  b = b
  c = c
  d = d
  Tasks <- MCTasks
  Deps <- MCDeps
  MaxParallel = 1
  DefaultParallel = 1
  MaxRetries = 0
  Interval = 1
  MaxRestores = 0
  Nil = Nil
SPECIFICATION FairSpec
PROPERTY ReadyTasksRun
CHECK_DEADLOCK FALSE
