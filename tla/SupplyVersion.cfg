\* Two revisions and versions in the registry, and one user who names a version.
CONSTANTS
  Revisions = {1, 2}
  VersionOf <- TwoVersions
  None = None
  Cut = Cut
  Short = Short
  Asked <- OneNames
  u1 = u1
  u2 = u2
  Users = {u1}
  Retries = 1
  MaxCrashes = 0
  MaxPublished = 2
SPECIFICATION Spec
PROPERTIES
  FetchesWhatIsAsked
CHECK_DEADLOCK FALSE
