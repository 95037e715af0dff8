---------------------------- MODULE MCOpkInstall ----------------------------
(***************************************************************************)
(* Instances of OpkInstall for TLC.                                        *)
(***************************************************************************)
EXTENDS OpkInstall, TLC

CONSTANTS
  app1,                                                   \* an application
  good1, good2, bados, badsig, badhash, badpre, badpost   \* packages

Good == {good1, good2}

\* Two good versions of one application and one package for each way to fail.
AllPackages == Good \cup {bados, badsig, badhash, badpre, badpost}
AllAppOf    == [p \in AllPackages |-> app1]
AllDefect   == bados :> "os" @@ badsig :> "signature" @@ badhash :> "hash"
               @@ badpre :> "pre" @@ badpost :> "post" @@ [p \in Good |-> "none"]

\* A good version, an update of it, a corrupt package and one whose script fails.
FewPackages == Good \cup {badhash, badpost}
FewAppOf    == [p \in FewPackages |-> app1]
FewDefect   == badhash :> "hash" @@ badpost :> "post" @@ [p \in Good |-> "none"]

\* Actors, and good packages, differ in their names only.
Alike == Permutations(Actors) \cup Permutations(Good)

\* Nothing reads what was installed when a command began once its application is
\* disturbed: neither an action nor a property.
View == <<fs, env, [i \in Actors |-> IF proc[i].app \in disturbed
                                     THEN [proc[i] EXCEPT !.before = None] ELSE proc[i]]>>
=============================================================================
