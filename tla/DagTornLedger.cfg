\* A failed append that leaves part of a line in the ledger.
CONSTANTS
  Tasks <- MCTasks
  Deps <- MCDeps
  BatchSize = 2
  MaxRetries = 1
  MaxIterations = 3
  TornAppends = TRUE
  MaxFaults = 1
  Entries = {"execute"}
SPECIFICATION Spec
INVARIANT CompleteMeansRecorded
