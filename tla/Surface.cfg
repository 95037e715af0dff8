\* The status bar and an application; one program and one composer that die.
CONSTANTS
  Clients <- BarAndApp
  Height <- BarAndAppHeight
  Retrying = {"bar"}
  Nobody = "nobody"
  MaxId = 3
  MaxFrames = 2
  MaxDeaths = 1
  MaxRestarts = 1
SPECIFICATION Spec
INVARIANTS
  TypeOK
  SurfaceIsOwn
  FrameShown
  NewestOnTop
