\* Three shells and inputflinger, one of which may die.
CONSTANTS
  Apps = {a1, a2, a3}
  MaxCrashes = 1
SPECIFICATION FairSpec
INVARIANTS
  TypeOK
  ListedOnce
PROPERTIES
  UnreachedDropped
  EventAnswered
  RegistrationReturns
