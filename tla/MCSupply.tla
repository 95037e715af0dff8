------------------------------ MODULE MCSupply ------------------------------
(***************************************************************************)
(* Instances of Supply for TLC.                                            *)
(***************************************************************************)
EXTENDS Supply

CONSTANTS u1, u2

\* Every revision is a version of its own.
TwoVersions == [r \in Revisions |-> r]

\* The first user names version 1, which may be an old one or never published; the
\* second names none.
OneNames == [u \in Users |-> IF u = u1 THEN {1} ELSE {}]
=============================================================================
