\* Two callers of one key, with and without Redis.
CONSTANTS
  Registrars = {c, d}
  MaxRegisters = 2
  Nil = Nil
SPECIFICATION Spec
INVARIANT OneRunsAtATime
CHECK_DEADLOCK FALSE
