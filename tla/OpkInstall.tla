----------------------------- MODULE OpkInstall -----------------------------
(***************************************************************************)
(* The installation pipeline of the Orion package kit and its uninstaller  *)
(* (mcpkg-pipeline: lib.rs and lifecycle.rs) as programs over a shared     *)
(* file system.  An actor is one `opk` process; it runs one command, ends  *)
(* it and may run another.  Every file system call that another actor can  *)
(* see is a step of its own.  A directory is abstracted to the package its *)
(* files came from.  No lock protects apps_root: two actors may work on    *)
(* the same application, any call may fail and a process may die.  What is *)
(* promised only where none of that happens is promised of the             *)
(* applications outside disturbed, a history variable that no action reads.*)
(***************************************************************************)
EXTENDS Naturals, FiniteSets

CONSTANTS
  Apps,        \* application ids
  Packages,    \* .opk files
  AppOf,       \* AppOf[p]: the id in p's manifest
  Defect,      \* Defect[p]: what is wrong with p, "none" for a good package
  Actors,      \* opk processes
  None,        \* no directory, no package, no application
  Partial,     \* a directory whose removal stopped half way
  FaultKinds,  \* which faults the environment commits: "io", "crash"
  MaxFaults    \* bound on their number

\* What makes run_install_impl stop: the OS version, a missing or malformed
\* signature file, a hash, a script.  A well-formed signature that does not verify
\* is no defect: the pipeline warns, marks the package Unsigned and goes on.
Defects == {"none", "os", "signature", "hash", "pre", "post"}

ASSUME PackageAssumption ==
  /\ AppOf \in [Packages -> Apps]
  /\ Defect \in [Packages -> Defects]

ASSUME NoneAssumption ==
  /\ None \notin Apps \cup Packages
  /\ Partial \notin Packages \cup {None}

ASSUME FaultAssumption ==
  /\ FaultKinds \subseteq {"io", "crash"}
  /\ MaxFaults \in Nat

VARIABLES
  dir,      \* dir[a]: apps_root/<a>
  backup,   \* backup[a]: apps_root/<a>.backup
  staging,  \* staging[i]: the temporary directory of actor i
  desktop,  \* applications with a .desktop entry
  icons,    \* applications with an icon file
  proc,     \* the local state of each actor
  faults,   \* faults committed so far
  disturbed \* history: applications on which two commands overlapped, or one of
            \* whose commands met a fault

fs   == <<dir, backup, staging, desktop, icons>>
env  == <<faults, disturbed>>
vars == <<dir, backup, staging, desktop, icons, proc, faults, disturbed>>

Contents == Packages \cup {None, Partial}

----------------------------------------------------------------------------
(* Local state of an actor: pc is the next thing the code does.            *)

Ended == {"Idle", "Completed", "Failed"}

Deciding  == {"CheckOs", "Gatekeeper", "Confirm"}
Unpacking == {"Stage", "Extract"}
Checking  == {"VerifyHashes", "PreInstall"}
Moving    == {"CheckTarget", "CheckBackup", "DropStale", "ToBackup"}
AfterMove == {"PostInstall", "Desktop", "Icon", "CheckDone", "DropBackup"}
Rollback  == {"RbTarget", "RbRestore", "RbDesktop"}
Uninstall == {"UnDesktop", "UnIcon", "UnDir"}

BeforeMove == Deciding \cup Unpacking \cup Checking \cup Moving
Labels == Ended \cup BeforeMove \cup {"ToTarget"} \cup AfterMove
                \cup Rollback \cup Uninstall

Procs == [pc : Labels,
          app : Apps \cup {None},
          pkg : Packages \cup {None},
          hasBackup : BOOLEAN,       \* has_backup_ref
          createdDesktop : BOOLEAN,  \* created_desktop_ref
          choice : {"none", "approved", "declined"},  \* the user's answer
          before : Contents]         \* history: dir[app] when the command began

NewProc(l, a, p, c) ==
  [pc |-> l, app |-> a, pkg |-> p, hasBackup |-> FALSE, createdDesktop |-> FALSE,
   choice |-> "none", before |-> c]

IdleProc == NewProc("Idle", None, None, None)

Active(i) == proc[i].pc \notin Ended
Busy(a)   == \E j \in Actors : Active(j) /\ proc[j].app = a

ProcsOK ==
  /\ proc \in [Actors -> Procs]
  /\ \A i \in Actors : Active(i) => proc[i].app \in Apps

TypeOK ==
  /\ dir \in [Apps -> Contents]
  /\ backup \in [Apps -> Contents]
  /\ staging \in [Actors -> Packages \cup {None}]
  /\ desktop \subseteq Apps
  /\ icons \subseteq Apps
  /\ ProcsOK
  /\ faults \in 0..MaxFaults
  /\ disturbed \subseteq Apps

At(i, l)   == proc[i].pc = l
Goto(i, l) == proc' = [proc EXCEPT ![i].pc = l]

\* The command is over: the process exits with its outcome.
End(i, l)   == proc' = [proc EXCEPT ![i] = [IdleProc EXCEPT !.pc = l]]

\* `?` in run_install_impl: TempDir is dropped, then run_install rolls back.
Fail(i) ==
  /\ Goto(i, "RbTarget")
  /\ staging' = [staging EXCEPT ![i] = None]

\* A fault that hits a command of actor i.
Fault(i, kind) ==
  /\ kind \in FaultKinds
  /\ faults < MaxFaults
  /\ faults' = faults + 1
  /\ disturbed' = disturbed \cup {proc[i].app}

\* A command on a begins, perhaps beside another one on a.
Begin(a) ==
  /\ disturbed' = IF Busy(a) THEN disturbed \cup {a} ELSE disturbed
  /\ UNCHANGED faults

Init ==
  /\ dir = [a \in Apps |-> None]
  /\ backup = [a \in Apps |-> None]
  /\ staging = [i \in Actors |-> None]
  /\ desktop = {}
  /\ icons = {}
  /\ proc = [i \in Actors |-> IdleProc]
  /\ faults = 0
  /\ disturbed = {}

----------------------------------------------------------------------------
(* Installing: up to the move nothing but the staging directory is written.*)

\* run_install on a readable package: its app_id is known from here on.
BeginInstall(i, p) ==
  /\ ~Active(i)
  /\ Begin(AppOf[p])
  /\ proc' = [proc EXCEPT ![i] = NewProc("CheckOs", AppOf[p], p, dir[AppOf[p]])]
  /\ UNCHANGED fs

\* A stage that inspects the package: it goes on, or fails on the defect.
Inspect(i, l, defect, next) ==
  /\ At(i, l)
  /\ IF Defect[proc[i].pkg] = defect
       THEN Fail(i)
       ELSE Goto(i, next) /\ UNCHANGED staging
  /\ UNCHANGED <<dir, backup, desktop, icons, env>>

CheckOs(i)      == Inspect(i, "CheckOs", "os", "Gatekeeper")
Gatekeeper(i)   == Inspect(i, "Gatekeeper", "signature", "Confirm")
\* Mutant: the hashes are computed and not compared.
VerifyHashesUnchecked(i) ==
  At(i, "VerifyHashes") /\ Goto(i, "PreInstall") /\ UNCHANGED <<fs, env>>

VerifyHashes(i) == Inspect(i, "VerifyHashes", "hash", "PreInstall")
PreInstall(i)   == Inspect(i, "PreInstall", "pre", "CheckTarget")

Approve(i) ==
  /\ At(i, "Confirm")
  /\ proc' = [proc EXCEPT ![i].pc = "Stage", ![i].choice = "approved"]
  /\ UNCHANGED <<fs, env>>

\* A refusal is an error like any other.
Decline(i) ==
  /\ At(i, "Confirm")
  /\ proc' = [proc EXCEPT ![i].pc = "RbTarget", ![i].choice = "declined"]
  /\ UNCHANGED <<fs, env>>

\* Mutant: an extraction that stopped half way counts as done.
ExtractHalf(i) ==
  /\ \/ At(i, "Stage") /\ Goto(i, "Extract") /\ UNCHANGED staging
     \/ /\ At(i, "Extract")
        /\ Goto(i, "VerifyHashes")
        /\ staging' = [staging EXCEPT ![i] = Partial]
  /\ UNCHANGED <<dir, backup, desktop, icons, env>>

\* tempdir() and the extraction into it.
Extract(i) ==
  /\ \/ At(i, "Stage") /\ Goto(i, "Extract") /\ UNCHANGED staging
     \/ /\ At(i, "Extract")
        /\ Goto(i, "VerifyHashes")
        /\ staging' = [staging EXCEPT ![i] = proc[i].pkg]
  /\ UNCHANGED <<dir, backup, desktop, icons, env>>

----------------------------------------------------------------------------
(* The move: target -> backup, staging -> target.                          *)

CheckTarget(i) ==
  /\ At(i, "CheckTarget")
  /\ Goto(i, IF dir[proc[i].app] # None THEN "CheckBackup" ELSE "ToTarget")
  /\ UNCHANGED <<fs, env>>

CheckBackup(i) ==
  /\ At(i, "CheckBackup")
  /\ Goto(i, IF backup[proc[i].app] # None THEN "DropStale" ELSE "ToBackup")
  /\ UNCHANGED <<fs, env>>

DropStale(i) ==
  LET a == proc[i].app IN
  /\ At(i, "DropStale")
  /\ IF backup[a] = None
       THEN Fail(i) /\ UNCHANGED backup
       ELSE /\ backup' = [backup EXCEPT ![a] = None]
            /\ Goto(i, "ToBackup")
            /\ UNCHANGED staging
  /\ UNCHANGED <<dir, desktop, icons, env>>

\* Mutant: the old version is deleted, as if the rename could not fail later.
ToBackupDeletes(i) ==
  /\ At(i, "ToBackup")
  /\ dir' = [dir EXCEPT ![proc[i].app] = None]
  /\ proc' = [proc EXCEPT ![i].pc = "ToTarget", ![i].hasBackup = TRUE]
  /\ UNCHANGED <<backup, staging, desktop, icons, env>>

\* rename(2) fails when its source is gone or its target is a full directory.
ToBackup(i) ==
  LET a == proc[i].app IN
  /\ At(i, "ToBackup")
  /\ IF dir[a] = None \/ backup[a] # None
       THEN Fail(i) /\ UNCHANGED <<dir, backup>>
       ELSE /\ backup' = [backup EXCEPT ![a] = dir[a]]
            /\ dir' = [dir EXCEPT ![a] = None]
            /\ proc' = [proc EXCEPT ![i].pc = "ToTarget", ![i].hasBackup = TRUE]
            /\ UNCHANGED staging
  /\ UNCHANGED <<desktop, icons, env>>

ToTarget(i) ==
  LET a == proc[i].app IN
  /\ At(i, "ToTarget")
  /\ IF dir[a] # None
       THEN Fail(i) /\ UNCHANGED dir
       ELSE /\ dir' = [dir EXCEPT ![a] = staging[i]]
            /\ staging' = [staging EXCEPT ![i] = None]
            /\ Goto(i, "PostInstall")
  /\ UNCHANGED <<backup, desktop, icons, env>>

----------------------------------------------------------------------------
(* After the move.                                                         *)

\* Mutant: the exit status of post-install.sh is ignored.
PostInstallIgnored(i) ==
  At(i, "PostInstall") /\ Goto(i, "Desktop") /\ UNCHANGED <<fs, env>>

\* The script is the one found in the target directory, whoever put it there.
PostInstall(i) ==
  LET c == dir[proc[i].app] IN
  /\ At(i, "PostInstall")
  /\ \/ /\ c \in Packages => Defect[c] # "post"
        /\ Goto(i, "Desktop")
        /\ UNCHANGED staging
     \/ /\ c = Partial \/ (c \in Packages /\ Defect[c] = "post")
        /\ Fail(i)
  /\ UNCHANGED <<dir, backup, desktop, icons, env>>

\* Mutant: created_desktop_ref is set and the entry is not written.
WriteDesktopForgotten(i) ==
  /\ At(i, "Desktop")
  /\ proc' = [proc EXCEPT ![i].pc = "Icon", ![i].createdDesktop = TRUE]
  /\ UNCHANGED <<fs, env>>

WriteDesktop(i) ==
  /\ At(i, "Desktop")
  /\ desktop' = desktop \cup {proc[i].app}
  /\ proc' = [proc EXCEPT ![i].pc = "Icon", ![i].createdDesktop = TRUE]
  /\ UNCHANGED <<dir, backup, staging, icons, env>>

\* An icon found in the target directory is copied; errors of the copy, and of
\* the audit record written next, are ignored.
WriteIcon(i) ==
  LET a == proc[i].app IN
  /\ At(i, "Icon")
  /\ icons' \in {icons} \cup (IF dir[a] = None THEN {} ELSE {icons \cup {a}})
  /\ Goto(i, "CheckDone")
  /\ UNCHANGED <<dir, backup, staging, desktop, env>>

\* Mutant: the backup is not cleaned up after a success.
CheckDoneKeeps(i) ==
  At(i, "CheckDone") /\ End(i, "Completed") /\ UNCHANGED <<fs, env>>

CheckDone(i) ==
  /\ At(i, "CheckDone")
  /\ IF proc[i].hasBackup /\ backup[proc[i].app] # None
       THEN Goto(i, "DropBackup") ELSE End(i, "Completed")
  /\ UNCHANGED <<fs, env>>

DropBackup(i) ==
  LET a == proc[i].app IN
  /\ At(i, "DropBackup")
  /\ IF backup[a] = None
       THEN Fail(i) /\ UNCHANGED backup
       ELSE /\ backup' = [backup EXCEPT ![a] = None]
            /\ End(i, "Completed")
            /\ UNCHANGED staging
  /\ UNCHANGED <<dir, desktop, icons, env>>

----------------------------------------------------------------------------
(* Rolling back: run_install's error branch, the same for every error.     *)

\* Mutant: the new directory is left in place, where the restore trips over it.
RollbackTargetSkipped(i) ==
  At(i, "RbTarget") /\ Goto(i, "RbRestore") /\ UNCHANGED <<fs, env>>

RollbackTarget(i) ==
  /\ At(i, "RbTarget")
  /\ dir' = [dir EXCEPT ![proc[i].app] = None]
  /\ Goto(i, "RbRestore")
  /\ UNCHANGED <<backup, staging, desktop, icons, env>>

RollbackRestore(i) ==
  LET a == proc[i].app IN
  /\ At(i, "RbRestore")
  /\ Goto(i, "RbDesktop")
  /\ IF proc[i].hasBackup /\ backup[a] # None /\ dir[a] = None
       THEN /\ dir' = [dir EXCEPT ![a] = backup[a]]
            /\ backup' = [backup EXCEPT ![a] = None]
       ELSE UNCHANGED <<dir, backup>>
  /\ UNCHANGED <<staging, desktop, icons, env>>

RollbackDesktop(i) ==
  /\ At(i, "RbDesktop")
  /\ desktop' = IF proc[i].createdDesktop THEN desktop \ {proc[i].app} ELSE desktop
  /\ End(i, "Failed")
  /\ UNCHANGED <<dir, backup, staging, icons, env>>

----------------------------------------------------------------------------
(* Uninstalling (the desktop entry goes first, the directory after it).    *)

BeginUninstall(i, a) ==
  /\ ~Active(i)
  /\ dir[a] # None
  /\ Begin(a)
  /\ proc' = [proc EXCEPT ![i] = NewProc("UnDesktop", a, None, dir[a])]
  /\ UNCHANGED fs

UninstallDesktop(i) ==
  /\ At(i, "UnDesktop")
  /\ desktop' = desktop \ {proc[i].app}
  /\ Goto(i, "UnIcon")
  /\ UNCHANGED <<dir, backup, staging, icons, env>>

UninstallIcon(i) ==
  /\ At(i, "UnIcon")
  /\ icons' = icons \ {proc[i].app}
  /\ Goto(i, "UnDir")
  /\ UNCHANGED <<dir, backup, staging, desktop, env>>

UninstallDir(i) ==
  LET a == proc[i].app IN
  /\ At(i, "UnDir")
  /\ dir' = [dir EXCEPT ![a] = None]
  /\ End(i, IF dir[a] = None THEN "Failed" ELSE "Completed")
  /\ UNCHANGED <<backup, staging, desktop, icons, env>>

----------------------------------------------------------------------------
(* Faults: a call that fails, a process that dies.                         *)

\* A call before or during the move fails and leaves what it found.
CallFails(i) ==
  /\ proc[i].pc \in {"Gatekeeper", "Stage", "Extract", "VerifyHashes", "PreInstall",
                     "CheckTarget", "ToBackup", "ToTarget", "PostInstall", "Desktop"}
  /\ Fault(i, "io")
  /\ Fail(i)
  /\ desktop' \in IF At(i, "Desktop") THEN {desktop, desktop \cup {proc[i].app}}
                                      ELSE {desktop}
  /\ UNCHANGED <<dir, backup, icons>>

\* remove_dir_all of a backup stops half way: an error, so a rollback.
BackupRemovalFails(i) ==
  LET a == proc[i].app IN
  /\ proc[i].pc \in {"DropStale", "DropBackup"}
  /\ backup[a] # None
  /\ Fault(i, "io")
  /\ \E c \in {backup[a], Partial} : backup' = [backup EXCEPT ![a] = c]
  /\ Fail(i)
  /\ UNCHANGED <<dir, desktop, icons>>

\* A call of the rollback fails: the error is dropped and the rollback goes on.
RollbackCallFails(i) ==
  LET a == proc[i].app IN
  /\ Fault(i, "io")
  /\ \/ /\ At(i, "RbTarget") /\ dir[a] # None
        /\ \E c \in {dir[a], Partial} : dir' = [dir EXCEPT ![a] = c]
        /\ Goto(i, "RbRestore")
     \/ At(i, "RbRestore") /\ Goto(i, "RbDesktop") /\ UNCHANGED dir
     \/ At(i, "RbDesktop") /\ End(i, "Failed") /\ UNCHANGED dir
  /\ UNCHANGED <<backup, staging, desktop, icons>>

\* Only the removal of the directory ends an uninstall with an error.
UninstallCallFails(i) ==
  LET a == proc[i].app IN
  /\ Fault(i, "io")
  /\ \/ At(i, "UnDesktop") /\ Goto(i, "UnIcon") /\ UNCHANGED dir
     \/ At(i, "UnIcon") /\ Goto(i, "UnDir") /\ UNCHANGED dir
     \/ /\ At(i, "UnDir") /\ dir[a] # None
        /\ \E c \in {dir[a], Partial} : dir' = [dir EXCEPT ![a] = c]
        /\ End(i, "Failed")
  /\ UNCHANGED <<backup, staging, desktop, icons>>

\* The process dies.  Nothing is cleaned up, then or later; a directory that
\* was being removed may be left half removed.
Crash(i) ==
  LET a == proc[i].app
      Left(d, removing) ==
        IF proc[i].pc \in removing /\ d[a] # None
          THEN {d, [d EXCEPT ![a] = Partial]} ELSE {d}
  IN
  /\ Active(i)
  /\ Fault(i, "crash")
  /\ dir' \in Left(dir, {"RbTarget", "UnDir"})
  /\ backup' \in Left(backup, {"DropStale", "DropBackup"})
  /\ proc' = [proc EXCEPT ![i] = IdleProc]
  /\ staging' = [staging EXCEPT ![i] = None]
  /\ UNCHANGED <<desktop, icons>>

----------------------------------------------------------------------------

Installing(i) ==
  \/ \E p \in Packages : BeginInstall(i, p)
  \/ CheckOs(i) \/ Gatekeeper(i) \/ Approve(i) \/ Decline(i)
  \/ Extract(i) \/ VerifyHashes(i) \/ PreInstall(i)
  \/ CheckTarget(i) \/ CheckBackup(i) \/ DropStale(i) \/ ToBackup(i) \/ ToTarget(i)
  \/ PostInstall(i) \/ WriteDesktop(i) \/ WriteIcon(i)
  \/ CheckDone(i) \/ DropBackup(i)

RollingBack(i) == RollbackTarget(i) \/ RollbackRestore(i) \/ RollbackDesktop(i)

Uninstalling(i) ==
  \/ \E a \in Apps : BeginUninstall(i, a)
  \/ UninstallDesktop(i) \/ UninstallIcon(i) \/ UninstallDir(i)

Faulty(i) ==
  \/ CallFails(i) \/ BackupRemovalFails(i) \/ RollbackCallFails(i)
  \/ UninstallCallFails(i) \/ Crash(i)

Next == \E i \in Actors : Installing(i) \/ RollingBack(i) \/ Uninstalling(i) \/ Faulty(i)

Spec == Init /\ [][Next]_vars

----------------------------------------------------------------------------
(* Properties.                                                             *)

PassedStages(p) == Defect[p] \in {"none", "post"}

\* Whatever faults occur and whoever else is at work: what lies in a target or
\* backup directory comes from a package that passed the compatibility, signature,
\* hash and pre-install stages, and was put there with the user's approval.  (Of
\* the signature, the code requires that there is one: see Defects.)
OnlyVerifiedInPlace ==
  /\ \A a \in Apps : {dir[a], backup[a]} \cap Packages
                        \subseteq {p \in Packages : PassedStages(p)}
  /\ \A i \in Actors : proc[i].pc \in AfterMove => proc[i].choice = "approved"

\* <a>.backup exists only while a running update owns it: no finished, failed or
\* refused command leaves one behind.
BackupIsTransient ==
  \A a \in Apps \ disturbed : backup[a] # None =>
    \E i \in Actors : Active(i) /\ proc[i].app = a /\ proc[i].hasBackup

\* Actor i ends its command with outcome l, on an application nobody disturbed.
Reports(i, l) == Active(i) /\ proc'[i].pc = l /\ proc[i].app \notin disturbed'

\* An update that fails after the old version was moved away puts it back
\* (what test_post_install_script_failure_rollback_and_restore tests once).
RestoresAfterMove ==
  [][\A i \in Actors : Reports(i, "Failed") /\ proc[i].hasBackup
       => dir'[proc[i].app] = proc[i].before]_vars

\* A command that reports success did all it was asked: the package is in place
\* with its desktop entry, or all of it is gone.
CompletedInPlace ==
  [][\A i \in Actors : Reports(i, "Completed") =>
       LET a == proc[i].app IN
       /\ dir'[a] = proc[i].pkg
       /\ a \in desktop' <=> proc[i].pkg # None
       /\ proc[i].pkg = None => a \notin icons']_vars

HasSoundCopy(a) == \E c \in {dir[a], backup[a]} \cap Packages : Defect[c] = "none"
LosesCopy(a)    == HasSoundCopy(a) /\ ~HasSoundCopy(a)'

\* The user said no, or the package fails a stage that precedes the move.
Refused(i) == proc[i].choice = "declined" \/ ~PassedStages(proc[i].pkg)

\* Of an application nobody disturbed, the last whole copy of a sound package is
\* destroyed only by an uninstall or by an install that was refused.  So an update
\* that gets to its move never destroys it, whatever its post-install script does;
\* the refused install is what FailedUpdateKeepsOldVersion is violated by.
LastCopyKept ==
  [][\A a \in Apps \ disturbed' : LosesCopy(a) =>
       \E i \in Actors :
         /\ proc[i].app = a
         /\ At(i, "UnDir") \/ (At(i, "RbTarget") /\ Refused(i))]_vars

\* What opk-lifecycle-spec.md says of updates, backed up and rolled back to prevent a
\* loss: whatever happened before, and also after a fault, no step of an update that
\* was not refused destroys the last whole copy.
NoLossByUpdate ==
  [][\A a \in Apps, i \in Actors :
       LosesCopy(a) /\ proc'[i] # proc[i] /\ proc[i].pkg # None => Refused(i)]_vars

\* What ARCHITECTURE.md says of a failed installation: whatever stage fails, the
\* system is back in the state it was in, the old version installed.
FailedUpdateKeepsOldVersion ==
  [][\A i \in Actors : Reports(i, "Failed") /\ proc[i].pkg # None
       => dir'[proc[i].app] = proc[i].before]_vars

----------------------------------------------------------------------------
(* The inductive invariant behind OnlyVerifiedInPlace: what an actor knows *)
(* of its package grows with its stage, and the staging directory holds it.*)

StageKnowledge(i) ==
  LET p == proc[i]
      d == Defect[p.pkg]
      Move == Moving \cup {"ToTarget"}
  IN
  /\ p.pc \in BeforeMove \cup {"ToTarget"} => p.pkg \in Packages
  /\ p.pc \in (BeforeMove \ {"CheckOs"}) \cup {"ToTarget"} => d # "os"
  /\ p.pc \in {"Confirm"} \cup Unpacking \cup Checking \cup Move => d # "signature"
  /\ p.pc \in {"PreInstall"} \cup Move => d # "hash"
  /\ p.pc \in Move => d # "pre"
  /\ p.pc \in Checking \cup Move => staging[i] = p.pkg
  /\ p.pc \in Unpacking \cup Checking \cup Move \cup AfterMove => p.choice = "approved"

Verified == OnlyVerifiedInPlace /\ \A i \in Actors : StageKnowledge(i)

----------------------------------------------------------------------------
(* The inductive invariant behind the others: what an actor knows of an    *)
(* application that nobody disturbs.                                       *)

ActorConsistent(i) ==
  LET a == proc[i].app
      p == proc[i]
  IN
  Active(i) /\ a \notin disturbed =>
    /\ p.pc \in Uninstall <=> p.pkg = None
    /\ p.pkg # None => AppOf[p.pkg] = a
    /\ p.pc # "DropStale"
    /\ p.pc \in BeforeMove \cup Uninstall => ~p.hasBackup /\ dir[a] = p.before
    /\ p.pc \in {"CheckBackup", "ToBackup", "UnDesktop", "UnIcon", "UnDir"} => p.before # None
    /\ p.pc \in {"ToTarget", "RbRestore"} => dir[a] = None
    /\ p.pc \in AfterMove => dir[a] = p.pkg
    /\ p.pc \in AfterMove \ {"PostInstall"} => Defect[p.pkg] # "post"
    /\ p.pc = "RbTarget" /\ p.hasBackup => dir[a] = p.pkg /\ Defect[p.pkg] = "post"
    /\ p.pc = "RbTarget" /\ ~p.hasBackup =>
         Refused(i) \/ (dir[a] = p.pkg /\ Defect[p.pkg] = "post")
    /\ p.pc = "RbDesktop" => dir[a] = IF p.hasBackup THEN p.before ELSE None
    /\ p.hasBackup => p.before # None
    /\ p.pc = "DropBackup" => p.hasBackup
    /\ backup[a] = IF p.hasBackup /\ p.pc # "RbDesktop" THEN p.before ELSE None
    /\ p.pc \in {"VerifyHashes", "PreInstall", "CheckTarget", "CheckBackup", "ToBackup",
                  "ToTarget"} => staging[i] = p.pkg
    /\ p.pc \in {"Icon", "CheckDone", "DropBackup"} => a \in desktop
    /\ p.pc \in {"UnIcon", "UnDir"} => a \notin desktop
    /\ p.pc = "UnDir" => a \notin icons

OneCommandPerApp ==
  \A i, j \in Actors :
    Active(i) /\ Active(j) /\ proc[i].app = proc[j].app /\ proc[i].app \notin disturbed
      => i = j

Consistent ==
  /\ OneCommandPerApp
  /\ \A i \in Actors : ActorConsistent(i)
  /\ BackupIsTransient

----------------------------------------------------------------------------
(* The pipeline implements AppStore.                                       *)

\* While a command holds an application between the move and its end, what counts
\* as installed is what a rollback would bring back; once the application is
\* disturbed, nothing of it counts any more.
InMove(i) == proc[i].pc \in AfterMove \cup {"ToTarget", "RbTarget", "RbRestore"}

Installed ==
  [a \in Apps |->
     IF a \in disturbed THEN None
     ELSE IF \E i \in Actors : InMove(i) /\ proc[i].app = a THEN backup[a] ELSE dir[a]]

Store == INSTANCE AppStore WITH installed <- Installed,
                                Sound <- {p \in Packages : Defect[p] = "none"}

\* Seen through Installed, every command is atomic: an application is one sound
\* package or absent, never a package whose post-install failed, never half of one.
AtomicInstall == Store!Spec
=============================================================================
