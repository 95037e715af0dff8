------------------------------ MODULE AppStore ------------------------------
(***************************************************************************)
(* What the package kit promises of an application as long as no two       *)
(* commands on it overlap and no fault hits one: it is installed as one    *)
(* sound package or not at all, and changes in a single step.              *)
(***************************************************************************)
CONSTANTS
  Apps,      \* application ids
  Packages,  \* .opk files
  AppOf,     \* the id of each package
  Sound,     \* the packages whose installation can succeed
  None       \* nothing installed

VARIABLE installed  \* installed[a]: the package of a, or None

Init == installed = [a \in Apps |-> None]

Install(a) ==
  \E p \in Sound : AppOf[p] = a /\ installed' = [installed EXCEPT ![a] = p]

\* An uninstall; an install that fails before its move; the end of what is promised,
\* when the application is disturbed (see README).
Remove(a) == installed' = [installed EXCEPT ![a] = None]

Next == \E a \in Apps : Install(a) \/ Remove(a)

Spec == Init /\ [][Next]_installed
=============================================================================
