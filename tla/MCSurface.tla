------------------------------ MODULE MCSurface ------------------------------
(***************************************************************************)
(* Instances of SurfaceComposer for TLC.                                   *)
(***************************************************************************)
EXTENDS SurfaceComposer

\* The status bar and an application.
BarAndApp       == {"bar", "app"}
BarAndAppHeight == [c \in BarAndApp |-> IF c = "bar" THEN 100 ELSE 2200]
=============================================================================
