\* One opk process, no faults: an update that fails before its move.
CONSTANTS
  app1 = app1
  good1 = good1
  good2 = good2
  bados = bados
  badsig = badsig
  badhash = badhash
  badpre = badpre
  badpost = badpost
  None = None
  Partial = Partial
  Apps = {app1}
  Packages <- AllPackages
  AppOf <- AllAppOf
  Defect <- AllDefect
  Actors = {x}
  FaultKinds = {}
  MaxFaults = 0
SPECIFICATION Spec
PROPERTIES
  FailedUpdateKeepsOldVersion
