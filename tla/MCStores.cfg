\* The stores of the new state layer.  Store: two callers, one key of each kind.
\* Events: two coroutines, three appends, two increments.  Adapters: two callers,
\* two items under one lock.  The coroutines of each are interchangeable.
CONSTANTS
  Clients = {c1, c2}
  Keys = {k, t}
  TxKeys = {t}
  TtlKeys = {k}
  Values = {x, y}
  MaxLog = 2
  Tasks = {t1, t2}
  MaxAppends = 3
  MaxCount = 2
  Callers = {d1, d2}
  Items = {i, j}
  Record = i
  MaxWrites = 3
  Nil = Nil
  Torn = Torn
SPECIFICATION StoresSpec
SYMMETRY Symmetry
INVARIANTS AllTypesOK WatcherUpToDate ChainLinked AckedKept Replayable 
PROPERTY FirstWriteExact
CHECK_DEADLOCK FALSE
