------------------------------ MODULE OpkFile -------------------------------
(***************************************************************************)
(* A .opk file. Its entries are the files of one revision of the sources,  *)
(* data; the hashes in its checksums.sha256 are of revision sums. Its      *)
(* signature is the blank one that pack writes, a good one (over its own   *)
(* entries and hashes), or a stale one (over those of another package).    *)
(* Hashes and signatures are ideal: equal exactly when what they are made  *)
(* of is equal.                                                            *)
(***************************************************************************)
EXTENDS Integers

CONSTANTS
  Revisions,  \* the revisions of the source directory, in their order
  VersionOf,  \* the version that the manifest of a revision states
  None,       \* no file
  Cut         \* a file that ends early: no ZIP directory

ASSUME RevisionsAreNat == Revisions \subseteq Nat /\ Revisions # {}
ASSUME VersionsAreNat  == VersionOf \in [Revisions -> Nat \ {0}]

Versions == {VersionOf[r] : r \in Revisions}

Package == [data : Revisions, sums : Revisions, sig : {"blank", "good", "stale"}]

ASSUME NoPackages      == None \notin Package /\ Cut \notin Package /\ None # Cut

\* A file that the ZIP reader opens.
Readable(f) == f \in Package

Version(p) == VersionOf[p.data]

\* What calculate_aggregate_message hashes: entries and the list of hashes.
Message(p) == <<p.data, p.sums>>

\* Every entry has the hash that the list states.
HashesMatch(p) == p.data = p.sums
=============================================================================
