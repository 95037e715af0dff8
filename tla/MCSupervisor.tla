---------------------------- MODULE MCSupervisor ----------------------------
(***************************************************************************)
(* Instances of Supervisor for TLC.                                        *)
(***************************************************************************)
EXTENDS Supervisor

\* Two services that are respawned; in the file, the broker comes last.
BothClass   == <<"main", "core">>
BothRespawn == <<TRUE, TRUE>>
=============================================================================
