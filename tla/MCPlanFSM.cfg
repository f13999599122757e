\* The limits of constants.py.
CONSTANTS
  MaxRevisionRounds = 7
  MaxQcRounds = 7
  MaxEnhanceRounds = 3
  MaxApprovalRounds = 7
  MaxBlocking = 3
SPECIFICATION FairSpec
INVARIANTS TypeOK GatesPassed RoundsBounded
PROPERTIES Progress Termination
CHECK_DEADLOCK FALSE
