\* One caller that sets a session and then updates it.
CONSTANTS
  Callers = {d1}
  Items = {i}
  Record = i
  MaxWrites = 3
  Nil = Nil
  Torn = Torn
SPECIFICATION FairSpec
PROPERTY UpdatesReturn
CHECK_DEADLOCK FALSE
