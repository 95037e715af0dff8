\* Three scripts in a row, each of which may end, fail or hang.  A
\* finished installation stops.
CONSTANT K = 3
SPECIFICATION FairSpec
INVARIANTS
  TypeOK
  SuccessIsReal
  NoScriptLeft
PROPERTIES
  EndedIsReturned
CHECK_DEADLOCK FALSE
