\* Two opk processes on one application, with one failing call or crash: undisturbed and
\* disturbed histories side by side.
CONSTANTS
  app1 = app1
  good1 = good1
  good2 = good2
  bados = bados
  badsig = badsig
  badhash = badhash
  badpre = badpre
  badpost = badpost
  None = None
  Partial = Partial
  Apps = {app1}
  Packages <- FewPackages
  AppOf <- FewAppOf
  Defect <- FewDefect
  Actors = {x, y}
  FaultKinds = {"io", "crash"}
  MaxFaults = 1
SYMMETRY Alike
VIEW View
SPECIFICATION Spec
INVARIANTS
  TypeOK
  OnlyVerifiedInPlace
  Verified
  BackupIsTransient
  Consistent
PROPERTIES
  RestoresAfterMove
  CompletedInPlace
  LastCopyKept
  AtomicInstall
