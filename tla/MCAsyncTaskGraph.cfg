\* Four tasks of which two need a, two at a time and one after a restart, one
\* retry, a checkpoint after every task that ends, one restart.
CONSTANTS
  a = a
  b = b
  c = c
  d = d
  Tasks <- MCTasks
  Deps <- MCDeps
  MaxParallel = 2
  DefaultParallel = 1
  MaxRetries = 1
  Interval = 1
  MaxRestores = 1
  Nil = Nil
SPECIFICATION FairSpec
INVARIANTS TypeOK DependenciesRespected RunnersBounded DoneMeansSettled
PROPERTY EndsUnlessStranded
CHECK_DEADLOCK FALSE
