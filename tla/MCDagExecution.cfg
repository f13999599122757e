\* Batches of two; one retry, two iterations of the loop per
\* execution, two crashes, failed writes or failed reads.
CONSTANTS
  Tasks <- MCTasks
  Deps <- MCDeps
  BatchSize = 2
  MaxRetries = 1
  MaxIterations = 2
  TornAppends = FALSE
  MaxFaults = 2
  Entries = {"execute", "resume", "checkpoint"}
SPECIFICATION FairSpec
INVARIANTS TypeOK DependenciesRespected CompleteMeansRecorded DuplicatesNeedFaults
PROPERTIES RecordedRunsOnce RecordsInOrder Returns Completes
