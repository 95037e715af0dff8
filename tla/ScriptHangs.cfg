\* Three scripts in a row, each of which may hang.
CONSTANT K = 3
SPECIFICATION FairSpec
PROPERTIES
  TimeoutReturns
CHECK_DEADLOCK FALSE
