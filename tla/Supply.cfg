\* Two revisions and versions, one key; two processes of the user.
CONSTANTS
  Revisions = {1, 2}
  VersionOf <- TwoVersions
  None = None
  Cut = Cut
  Short = Short
  Asked <- OneNames
  u1 = u1
  u2 = u2
  Users = {u1, u2}
  Retries = 1
  MaxCrashes = 1
  MaxPublished = 2
SPECIFICATION FairSpec
INVARIANTS
  CachedIsPublished
  InstalledIsSound
PROPERTIES
  CommandsEnd
CHECK_DEADLOCK FALSE
