\* Two processes, two agents, two decisions.
CONSTANTS
  Agents = {a, b}
  Loaders = {p, q}
  MaxDecisions = 2
  MaxLoads = 3
  Nil = Nil
  Torn = Torn
SPECIFICATION Spec
PROPERTY RevocationsKept
CHECK_DEADLOCK FALSE
