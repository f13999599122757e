\* Two callers; the disagreement needs three updates.
CONSTANTS
  Callers = {p, q}
  Inodes = {i, j, k}
  None = None
  MaxUpdates = 2
SPECIFICATION Spec
INVARIANT SessionUpdatesKept
CHECK_DEADLOCK FALSE
