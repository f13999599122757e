\* One session: a legacy write that fails behind a view that was written.
CONSTANTS
  Callers = {d1, d2}
  Items = {i}
  Record = i
  MaxWrites = 2
  Nil = Nil
  Torn = Torn
SPECIFICATION Spec
INVARIANT RaisedIsUndone
CHECK_DEADLOCK FALSE
