-------------------------- MODULE OpkInstall_proofs --------------------------
(***************************************************************************)
(* Proofs about OpkInstall, for every set of applications, packages and    *)
(* actors.                                                                 *)
(***************************************************************************)
EXTENDS OpkInstall, TLAPS

----------------------------------------------------------------------------
(* Typing.                                                                 *)

USE DEF Labels, Ended, BeforeMove, Deciding, Unpacking, Checking, Moving, AfterMove,
        Rollback, Uninstall, env

\* The record a new command starts from is a process state.
LEMMA NewProcType ==
  ASSUME NEW l \in Labels, NEW a \in Apps \cup {None}, NEW p \in Packages \cup {None},
         NEW c \in Contents
  PROVE  NewProc(l, a, p, c) \in Procs
  BY DEF NewProc, Procs

\* Moving an active actor to its next stage keeps the processes typed.
LEMMA GotoType ==
  ASSUME TypeOK, NEW i \in Actors, Active(i), NEW l \in Labels, Goto(i, l)
  PROVE  ProcsOK'
  BY DEF TypeOK, ProcsOK, Active, Goto, Procs

\* So does any update of an active actor that leaves it on its application.
LEMMA UpdateType ==
  ASSUME TypeOK, NEW i \in Actors, Active(i), NEW r \in Procs, r.app = proc[i].app,
         proc' = [proc EXCEPT ![i] = r]
  PROVE  ProcsOK'
  BY DEF TypeOK, ProcsOK, Active

\* So does the end of a command, whatever its outcome.
LEMMA EndType ==
  ASSUME TypeOK, NEW i \in Actors, NEW l \in Ended, End(i, l)
  PROVE  ProcsOK'
<1>1. IdleProc \in Procs
  BY NewProcType DEF IdleProc, Contents
<1>2. [IdleProc EXCEPT !.pc = l] \in Procs /\ [IdleProc EXCEPT !.pc = l].pc = l
  BY <1>1 DEF Procs, IdleProc, NewProc
<1>3. QED
  BY <1>2 DEF TypeOK, ProcsOK, Active, End

\* So does `?`, which also clears the staging directory.
LEMMA FailType ==
  ASSUME TypeOK, NEW i \in Actors, Active(i), Fail(i)
  PROVE  ProcsOK' /\ staging' \in [Actors -> Packages \cup {None}]
<1>1. Goto(i, "RbTarget")
  BY DEF Fail
<1>2. "RbTarget" \in Labels
  OBVIOUS
<1>3. ProcsOK'
  BY <1>1, <1>2, GotoType
<1>4. QED
  BY <1>3 DEF Fail, TypeOK

\* A stage that only inspects the package keeps the types.
LEMMA TypeInspect ==
  ASSUME TypeOK, NEW i \in Actors, NEW l \in Labels \ Ended, NEW d, NEW n \in Labels,
         Inspect(i, l, d, n)
  PROVE  TypeOK'
<1> Active(i)
  BY DEF Inspect, At, Active
<1>1. CASE Fail(i)
  BY <1>1, FailType DEF Inspect, TypeOK
<1>2. CASE Goto(i, n) /\ UNCHANGED staging
  BY <1>2, GotoType DEF Inspect, TypeOK
<1>3. QED
  BY <1>1, <1>2 DEF Inspect

\* Every stage of run_install_impl keeps the types.
LEMMA TypeInstalling ==
  ASSUME TypeOK, NEW i \in Actors, Installing(i)
  PROVE  TypeOK'
<1> DEFINE a == proc[i].app
<1>1. ASSUME NEW p \in Packages, BeginInstall(i, p)
      PROVE  TypeOK'
  <2>1. AppOf[p] \in Apps /\ dir[AppOf[p]] \in Contents
    BY PackageAssumption DEF TypeOK
  <2>2. DEFINE new == NewProc("CheckOs", AppOf[p], p, dir[AppOf[p]])
  <2>3. new \in Procs /\ new.app \in Apps
    BY <2>1, NewProcType DEF NewProc
  <2>4. ProcsOK'
    BY <1>1, <2>3 DEF BeginInstall, TypeOK, ProcsOK, Active
  <2>5. QED
    BY <1>1, <2>1, <2>4 DEF BeginInstall, Begin, TypeOK, fs
<1>2. CASE CheckOs(i) \/ Gatekeeper(i) \/ VerifyHashes(i) \/ PreInstall(i)
  BY <1>2, TypeInspect DEF CheckOs, Gatekeeper, VerifyHashes, PreInstall
<1>3. CASE Approve(i) \/ Decline(i)
  <2>1. Active(i) /\ proc[i] \in Procs
    BY <1>3 DEF Approve, Decline, At, Active, TypeOK, ProcsOK
  <2>2. PICK l \in {"Stage", "RbTarget"}, c \in {"approved", "declined"} :
          proc' = [proc EXCEPT ![i] = [proc[i] EXCEPT !.pc = l, !.choice = c]]
    BY <1>3 DEF Approve, Decline, TypeOK, ProcsOK
  <2>3. [proc[i] EXCEPT !.pc = l, !.choice = c] \in Procs
    BY <2>1 DEF Procs
  <2>4. [proc[i] EXCEPT !.pc = l, !.choice = c].app = proc[i].app
    BY <2>1 DEF Procs
  <2>5. ProcsOK'
    BY <2>1, <2>2, <2>3, <2>4, UpdateType
  <2>6. QED
    BY <1>3, <2>5 DEF Approve, Decline, TypeOK, fs
<1>4. ASSUME Active(i)
      PROVE  a \in Apps /\ proc[i].pkg \in Packages \cup {None} /\ dir[a] \in Contents
  BY <1>4 DEF TypeOK, ProcsOK, Procs
<1>5. CASE Extract(i)
  <2>1. Active(i)
    BY <1>5 DEF Extract, At, Active
  <2>2. ProcsOK'
    BY <1>5, <2>1, GotoType DEF Extract
  <2>3. QED
    BY <1>4, <1>5, <2>1, <2>2 DEF Extract, TypeOK
<1>6. CASE CheckTarget(i) \/ CheckBackup(i)
  <2>1. Active(i)
    BY <1>6 DEF CheckTarget, CheckBackup, At, Active
  <2>2. QED
    BY <1>6, <2>1, GotoType DEF CheckTarget, CheckBackup, TypeOK, fs
<1>7. CASE DropStale(i) \/ DropBackup(i)
  <2>1. Active(i)
    BY <1>7 DEF DropStale, DropBackup, At, Active
  <2>2. backup' \in [Apps -> Contents]
    BY <1>7 DEF DropStale, DropBackup, TypeOK, Contents
  <2>3. CASE Fail(i)
    BY <1>7, <2>1, <2>2, <2>3, FailType DEF DropStale, DropBackup, TypeOK
  <2>4. CASE UNCHANGED staging /\ (Goto(i, "ToBackup") \/ End(i, "Completed"))
    BY <1>7, <2>1, <2>2, <2>4, GotoType, EndType DEF DropStale, DropBackup, TypeOK
  <2>5. QED
    BY <1>7, <2>3, <2>4 DEF DropStale, DropBackup
<1>8. CASE ToBackup(i)
  <2>1. Active(i)
    BY <1>8 DEF ToBackup, At, Active
  <2>2. CASE dir[a] = None \/ backup[a] # None
    BY <1>8, <2>1, <2>2, FailType DEF ToBackup, TypeOK
  <2>3. CASE ~(dir[a] = None \/ backup[a] # None)
    <3> DEFINE r == [proc[i] EXCEPT !.pc = "ToTarget", !.hasBackup = TRUE]
    <3>1. proc[i] \in Procs
      BY DEF TypeOK, ProcsOK
    <3>2. r \in Procs /\ r.app = a
      BY <3>1 DEF Procs
    <3>3. proc' = [proc EXCEPT ![i].pc = "ToTarget", ![i].hasBackup = TRUE]
      BY <1>8, <2>3 DEF ToBackup
    <3>4. proc' = [proc EXCEPT ![i] = r]
      BY <3>3 DEF TypeOK, ProcsOK
    <3>5. ProcsOK'
      BY <2>1, <3>2, <3>4, UpdateType
    <3>6. QED
      BY <1>4, <1>8, <2>1, <2>3, <3>5 DEF ToBackup, TypeOK, Contents
  <2>4. QED
    BY <2>2, <2>3
<1>9. CASE ToTarget(i)
  <2>1. Active(i)
    BY <1>9 DEF ToTarget, At, Active
  <2>2. CASE dir[a] # None
    BY <1>9, <2>1, <2>2, FailType DEF ToTarget, TypeOK
  <2>3. CASE dir[a] = None
    BY <1>9, <2>1, <2>3, GotoType DEF ToTarget, TypeOK, Contents
  <2>4. QED
    BY <2>2, <2>3
<1>10. CASE PostInstall(i)
  <2>1. Active(i)
    BY <1>10 DEF PostInstall, At, Active
  <2>2. QED
    BY <1>10, <2>1, FailType, GotoType DEF PostInstall, TypeOK
<1>11. CASE WriteDesktop(i)
  <2>1. Active(i)
    BY <1>11 DEF WriteDesktop, At, Active
  <2> DEFINE r == [proc[i] EXCEPT !.pc = "Icon", !.createdDesktop = TRUE]
  <2>2. r \in Procs /\ r.app = a /\ proc' = [proc EXCEPT ![i] = r]
    BY <1>11, ZenonT(60) DEF WriteDesktop, TypeOK, ProcsOK, Procs
  <2>3. ProcsOK'
    BY <2>1, <2>2, UpdateType
  <2>4. QED
    BY <1>4, <1>11, <2>1, <2>3 DEF WriteDesktop, TypeOK
<1>12. CASE WriteIcon(i)
  <2>1. Active(i)
    BY <1>12 DEF WriteIcon, At, Active
  <2>2. icons' \subseteq Apps
    BY <1>4, <1>12, <2>1 DEF WriteIcon, TypeOK
  <2>3. QED
    BY <1>12, <2>1, <2>2, GotoType DEF WriteIcon, TypeOK
<1>13. CASE CheckDone(i)
  <2>1. Active(i)
    BY <1>13 DEF CheckDone, At, Active
  <2>2. ProcsOK'
    BY <1>13, <2>1, GotoType, EndType DEF CheckDone
  <2>3. QED
    BY <1>13, <2>2 DEF CheckDone, TypeOK, fs
<1>14. QED
  BY <1>1, <1>2, <1>3, <1>5, <1>6, <1>7, <1>8, <1>9, <1>10, <1>11, <1>12, <1>13
  DEF Installing

\* Every step of the rollback and of an uninstall keeps the types.
LEMMA TypeEnding ==
  ASSUME TypeOK, NEW i \in Actors, RollingBack(i) \/ Uninstalling(i)
  PROVE  TypeOK'
<1>1. ASSUME NEW a \in Apps, BeginUninstall(i, a)
      PROVE  TypeOK'
  <2>1. DEFINE new == NewProc("UnDesktop", a, None, dir[a])
  <2>2. new \in Procs /\ new.app \in Apps
    BY NewProcType DEF NewProc, TypeOK
  <2>3. ProcsOK'
    BY <1>1, <2>2 DEF BeginUninstall, TypeOK, ProcsOK, Active
  <2>4. QED
    BY <1>1, <2>3 DEF BeginUninstall, Begin, TypeOK, fs
<1>2. CASE RollingBack(i)
  <2>1. Active(i)
    BY <1>2 DEF RollingBack, RollbackTarget, RollbackRestore, RollbackDesktop, At, Active
  <2>2. ProcsOK'
    BY <1>2, <2>1, GotoType, EndType
    DEF RollingBack, RollbackTarget, RollbackRestore, RollbackDesktop
  <2>3. QED
    BY <1>2, <2>2
    DEF RollingBack, RollbackTarget, RollbackRestore, RollbackDesktop, TypeOK, Contents
<1>3. CASE UninstallDesktop(i) \/ UninstallIcon(i) \/ UninstallDir(i)
  <2>1. Active(i)
    BY <1>3 DEF UninstallDesktop, UninstallIcon, UninstallDir, At, Active
  <2>2. ProcsOK'
    BY <1>3, <2>1, GotoType, EndType DEF UninstallDesktop, UninstallIcon, UninstallDir
  <2>3. QED
    BY <1>3, <2>2 DEF UninstallDesktop, UninstallIcon, UninstallDir, TypeOK, Contents
<1>4. QED
  BY <1>1, <1>2, <1>3 DEF Uninstalling

\* Every failing call and a crash keep the types.
LEMMA TypeFaulty ==
  ASSUME TypeOK, NEW i \in Actors, Faulty(i)
  PROVE  TypeOK'
<1> DEFINE a == proc[i].app
<1>1. Active(i) /\ a \in Apps
  BY DEF Faulty, CallFails, BackupRemovalFails, RollbackCallFails, UninstallCallFails,
         Crash, At, Active, TypeOK, ProcsOK
<1>2. faults' \in 0..MaxFaults /\ disturbed' \subseteq Apps
  BY <1>1, FaultAssumption DEF Faulty, CallFails, BackupRemovalFails, RollbackCallFails,
     UninstallCallFails, Crash, Fault, TypeOK
<1>3. CASE CallFails(i) \/ BackupRemovalFails(i)
  <2>1. ProcsOK' /\ staging' \in [Actors -> Packages \cup {None}]
    BY <1>1, <1>3, FailType DEF CallFails, BackupRemovalFails
  <2>2. desktop' \subseteq Apps /\ backup' \in [Apps -> Contents]
    BY <1>1, <1>3 DEF CallFails, BackupRemovalFails, TypeOK, Contents
  <2>3. QED
    BY <1>2, <1>3, <2>1, <2>2 DEF CallFails, BackupRemovalFails, TypeOK
<1>4. CASE RollbackCallFails(i) \/ UninstallCallFails(i)
  <2>1. ProcsOK'
    BY <1>1, <1>4, GotoType, EndType DEF RollbackCallFails, UninstallCallFails
  <2>2. dir' \in [Apps -> Contents]
    BY <1>1, <1>4 DEF RollbackCallFails, UninstallCallFails, TypeOK, Contents
  <2>3. QED
    BY <1>2, <1>4, <2>1, <2>2 DEF RollbackCallFails, UninstallCallFails, TypeOK
<1>5. CASE Crash(i)
  <2>1. IdleProc \in Procs /\ IdleProc.pc = "Idle"
    BY NewProcType DEF IdleProc, NewProc, Contents
  <2>2. ProcsOK'
    BY <1>5, <2>1 DEF Crash, TypeOK, ProcsOK, Active
  <2>3. dir' \in [Apps -> Contents] /\ backup' \in [Apps -> Contents]
    BY <1>1, <1>5 DEF Crash, TypeOK, Contents
  <2>4. QED
    BY <1>2, <1>5, <2>2, <2>3 DEF Crash, TypeOK
<1>6. QED
  BY <1>3, <1>4, <1>5 DEF Faulty

\* Every variable keeps its type, whatever the actors do and whichever faults occur.
THEOREM TypeCorrect == Spec => []TypeOK
<1>1. Init => TypeOK
  <2>1. IdleProc \in Procs /\ IdleProc.pc = "Idle"
    BY NewProcType DEF IdleProc, NewProc, Contents
  <2>2. QED
    BY <2>1, FaultAssumption DEF Init, TypeOK, ProcsOK, Active, Contents
<1>2. TypeOK /\ [Next]_vars => TypeOK'
  <2>1. ASSUME TypeOK, Next
        PROVE  TypeOK'
    BY <2>1, TypeInstalling, TypeEnding, TypeFaulty DEF Next
  <2>2. CASE UNCHANGED vars
    BY <2>2 DEF vars, TypeOK, ProcsOK, Active
  <2>3. QED
    BY <2>1, <2>2
<1>3. QED
  BY <1>1, <1>2, PTL DEF Spec
----------------------------------------------------------------------------
(* What a step of one actor leaves alone.                                  *)

Step(i) == Installing(i) \/ RollingBack(i) \/ Uninstalling(i) \/ Faulty(i)

USE DEF At

\* The other actors' state and staging directories.
ActorFrame(i) ==
  \A j \in Actors \ {i} : proc'[j] = proc[j] /\ staging'[j] = staging[j]

\* The files of applications the actor has no business with.
AppFrame(i) ==
  \A b \in Apps \ {proc[i].app} :
    /\ dir'[b] = dir[b] /\ backup'[b] = backup[b]
    /\ b \in desktop' <=> b \in desktop
    /\ b \in icons' <=> b \in icons

\* A step of an actor changes no other actor, nor its staging directory.
LEMMA StepActorFrame ==
  ASSUME TypeOK, NEW i \in Actors, Step(i)
  PROVE  ActorFrame(i)
<1> USE DEF ActorFrame, TypeOK, ProcsOK, Fail, Goto, End, fs
<1>1. CASE Installing(i)
  BY <1>1
  DEF Installing, BeginInstall, CheckOs, Gatekeeper, VerifyHashes, PreInstall, Inspect,
      Approve, Decline, Extract, CheckTarget, CheckBackup, DropStale, ToBackup, ToTarget,
      PostInstall, WriteDesktop, WriteIcon, CheckDone, DropBackup
<1>2. CASE RollingBack(i)
  BY <1>2 DEF RollingBack, RollbackTarget, RollbackRestore, RollbackDesktop
<1>3. CASE Uninstalling(i)
  BY <1>3 DEF Uninstalling, BeginUninstall, UninstallDesktop, UninstallIcon, UninstallDir
<1>4. CASE Faulty(i)
  BY <1>4
  DEF Faulty, CallFails, BackupRemovalFails, RollbackCallFails, UninstallCallFails, Crash
<1>5. QED
  BY <1>1, <1>2, <1>3, <1>4 DEF Step

\* A step of an actor changes no file of another application than its own.
LEMMA StepAppFrame ==
  ASSUME TypeOK, NEW i \in Actors, Step(i)
  PROVE  AppFrame(i)
<1> USE DEF AppFrame, TypeOK, fs
<1>1. CASE Installing(i)
  BY <1>1
  DEF Installing, BeginInstall, CheckOs, Gatekeeper, VerifyHashes, PreInstall, Inspect,
      Approve, Decline, Extract, CheckTarget, CheckBackup, DropStale, ToBackup, ToTarget,
      PostInstall, WriteDesktop, WriteIcon, CheckDone, DropBackup
<1>2. CASE RollingBack(i)
  BY <1>2 DEF RollingBack, RollbackTarget, RollbackRestore, RollbackDesktop
<1>3. CASE Uninstalling(i)
  BY <1>3 DEF Uninstalling, BeginUninstall, UninstallDesktop, UninstallIcon, UninstallDir
<1>4. CASE Faulty(i)
  BY <1>4
  DEF Faulty, CallFails, BackupRemovalFails, RollbackCallFails, UninstallCallFails, Crash
<1>5. QED
  BY <1>1, <1>2, <1>3, <1>4 DEF Step

----------------------------------------------------------------------------
(* Only verified packages are put in place.                                *)

\* Whatever appears in a directory was in one before, or comes from the staging
\* directory of an actor at its move.
LEMMA ContentsMove ==
  ASSUME TypeOK, NEW i \in Actors, Step(i), NEW b \in Apps
  PROVE  /\ \/ dir'[b] \in {dir[b], backup[b], None, Partial}
            \/ At(i, "ToTarget") /\ dir'[b] = staging[i]
         /\ backup'[b] \in {backup[b], dir[b], None, Partial}
<1> USE DEF TypeOK, fs
<1>1. CASE Installing(i)
  BY <1>1
  DEF Installing, BeginInstall, CheckOs, Gatekeeper, VerifyHashes, PreInstall, Inspect,
      Approve, Decline, Extract, CheckTarget, CheckBackup, DropStale, ToBackup, ToTarget,
      PostInstall, WriteDesktop, WriteIcon, CheckDone, DropBackup
<1>2. CASE RollingBack(i)
  BY <1>2 DEF RollingBack, RollbackTarget, RollbackRestore, RollbackDesktop
<1>3. CASE Uninstalling(i)
  BY <1>3 DEF Uninstalling, BeginUninstall, UninstallDesktop, UninstallIcon, UninstallDir
<1>4. CASE Faulty(i)
  BY <1>4
  DEF Faulty, CallFails, BackupRemovalFails, RollbackCallFails, UninstallCallFails, Crash
<1>5. QED
  BY <1>1, <1>2, <1>3, <1>4 DEF Step

\* Sufficient conditions for the actor that made a step to know its stage.
LEMMA KnowledgeStep ==
  ASSUME TypeOK, TypeOK', NEW i \in Actors, Step(i), StageKnowledge(i)
  PROVE  StageKnowledge(i)'
<1> USE DEF StageKnowledge
<1>1. CASE proc'[i].pc \in Ended \cup Rollback \cup Uninstall
  BY <1>1
<1>2. CASE Installing(i)
  <2>1. CASE \E p \in Packages : BeginInstall(i, p)
    BY <2>1 DEF BeginInstall, NewProc, TypeOK, ProcsOK
  <2>2. CASE CheckOs(i) \/ Gatekeeper(i) \/ VerifyHashes(i) \/ PreInstall(i)
    BY <1>1, <2>2
    DEF CheckOs, Gatekeeper, VerifyHashes, PreInstall, Inspect, Fail, Goto, TypeOK,
        ProcsOK, Procs
  <2>3. CASE Approve(i)
    BY <2>3, SMTT(30) DEF Approve, TypeOK, ProcsOK, Procs, fs
  <2>4. CASE Extract(i)
    BY <2>4, SMTT(30) DEF Extract, Goto, TypeOK, ProcsOK, Procs
  <2>5. CASE CheckTarget(i) \/ CheckBackup(i)
    BY <2>5 DEF CheckTarget, CheckBackup, Goto, TypeOK, ProcsOK, Procs, fs
  <2>6. CASE DropStale(i)
    BY <1>1, <2>6 DEF DropStale, Fail, Goto, TypeOK, ProcsOK, Procs
  <2>7. CASE ToBackup(i)
    BY <1>1, <2>7 DEF ToBackup, Fail, Goto, TypeOK, ProcsOK, Procs
  <2>8. CASE ToTarget(i)
    BY <1>1, <2>8 DEF ToTarget, Fail, Goto, TypeOK, ProcsOK, Procs
  <2>9. CASE PostInstall(i)
    BY <1>1, <2>9 DEF PostInstall, Fail, Goto, TypeOK, ProcsOK, Procs
  <2>10. CASE WriteDesktop(i) \/ WriteIcon(i)
    BY <2>10 DEF WriteDesktop, WriteIcon, Goto, TypeOK, ProcsOK, Procs
  <2>11. CASE Decline(i) \/ CheckDone(i) \/ DropBackup(i)
    BY <1>1, <2>11
    DEF Decline, CheckDone, DropBackup, Fail, Goto, End, IdleProc, NewProc, TypeOK, ProcsOK, Procs
  <2>12. QED
    BY <1>2, <2>1, <2>2, <2>3, <2>4, <2>5, <2>6, <2>7, <2>8, <2>9, <2>10, <2>11 DEF Installing
<1>3. CASE RollingBack(i) \/ Uninstalling(i) \/ Faulty(i)
  <2>1. proc'[i].pc \in Ended \cup Rollback \cup Uninstall
    BY <1>3
    DEF RollingBack, RollbackTarget, RollbackRestore, RollbackDesktop, Uninstalling,
        BeginUninstall, UninstallDesktop, UninstallIcon, UninstallDir, Faulty, CallFails,
        BackupRemovalFails, RollbackCallFails, UninstallCallFails, Crash, Fail, Goto, End,
        IdleProc, NewProc, TypeOK, ProcsOK, Procs
  <2>2. QED
    BY <1>1, <2>1
<1>4. QED
  BY <1>2, <1>3 DEF Step

\* Under every interleaving and every fault, what an actor's stage says of its package
\* is so: past the gatekeeper it is intact, past the hashes it is whole, and so on; this
\* is the inductive invariant that keeps unverified packages out of place.
THEOREM VerifiedAlways == Spec => []Verified
<1>1. Init => Verified
  BY NoneAssumption
  DEF Init, Verified, OnlyVerifiedInPlace, StageKnowledge, IdleProc, NewProc
<1>2. TypeOK /\ TypeOK' /\ Verified /\ [Next]_vars => Verified'
  <2>1. ASSUME TypeOK, TypeOK', Verified, NEW i \in Actors, Step(i)
        PROVE  Verified'
    <3>1. \A j \in Actors : StageKnowledge(j)'
      <4>1. StageKnowledge(i)'
        BY <2>1, KnowledgeStep DEF Verified
      <4>2. ASSUME NEW j \in Actors \ {i}
            PROVE  StageKnowledge(j)'
        BY <2>1, StepActorFrame DEF ActorFrame, StageKnowledge, Verified
      <4>3. QED
        BY <4>1, <4>2
    <3>2. ASSUME NEW b \in Apps
          PROVE  {dir'[b], backup'[b]} \cap Packages \subseteq {p \in Packages : PassedStages(p)}
      <4>1. At(i, "ToTarget") /\ staging[i] \in Packages => PassedStages(staging[i])
        BY <2>1, PackageAssumption DEF Verified, StageKnowledge, PassedStages, Defects
      <4>2. QED
        BY <2>1, <4>1, ContentsMove, NoneAssumption DEF Verified, OnlyVerifiedInPlace
    <3>3. QED
      BY <3>1, <3>2 DEF Verified, OnlyVerifiedInPlace, StageKnowledge
  <2>2. CASE UNCHANGED vars
    BY <2>2 DEF vars, Verified, OnlyVerifiedInPlace, StageKnowledge
  <2>3. QED
    BY <2>1, <2>2 DEF Next, Step
<1>3. QED
  BY <1>1, <1>2, TypeCorrect, PTL DEF Spec

\* Under every interleaving and every fault, only packages that passed the stages and
\* were approved are ever in a target or a backup directory.
THEOREM OnlyVerifiedPackages == Spec => []OnlyVerifiedInPlace
<1>1. Verified => OnlyVerifiedInPlace
  BY DEF Verified
<1>2. QED
  BY <1>1, VerifiedAlways, PTL
----------------------------------------------------------------------------
(* What holds of an application until it is disturbed, whatever happens to *)
(* the others: backups are transient, and every command is atomic.         *)

\* Only the application that an actor works on, or begins to work on, can become
\* disturbed by its step; and it does by a fault, and by a second command.
LEMMA DisturbedStep ==
  ASSUME TypeOK, NEW i \in Actors, Step(i)
  PROVE  /\ disturbed \subseteq disturbed'
         /\ \A b \in disturbed' \ disturbed :
              IF Active(i) THEN proc[i].app = b ELSE proc'[i].app = b
         /\ Faulty(i) => Active(i) /\ proc[i].app \in disturbed'
         /\ ~Active(i) => Begin(proc'[i].app)
<1>1. CASE Faulty(i)
  BY <1>1
  DEF Faulty, CallFails, BackupRemovalFails, RollbackCallFails, UninstallCallFails,
      Crash, Fault, Active
<1>2. ASSUME NEW p \in Packages, BeginInstall(i, p)
      PROVE  proc'[i].app = AppOf[p] /\ Begin(AppOf[p]) /\ ~Active(i)
  BY <1>2 DEF BeginInstall, NewProc, TypeOK, ProcsOK
<1>3. ASSUME NEW a \in Apps, BeginUninstall(i, a)
      PROVE  proc'[i].app = a /\ Begin(a) /\ ~Active(i)
  BY <1>3 DEF BeginUninstall, NewProc, TypeOK, ProcsOK
<1>4. CASE \/ \E p \in Packages : BeginInstall(i, p)
           \/ \E a \in Apps : BeginUninstall(i, a)
  <2>1. Begin(proc'[i].app) /\ ~Active(i)
    BY <1>2, <1>3, <1>4
  <2>2. ~Faulty(i)
    BY <1>1, <2>1
    DEF Faulty, CallFails, BackupRemovalFails, RollbackCallFails, UninstallCallFails,
        Crash, Active
  <2>3. QED
    BY <2>1, <2>2 DEF Begin
<1>5. CASE ~Faulty(i) /\ ~(\E p \in Packages : BeginInstall(i, p))
             /\ ~(\E a \in Apps : BeginUninstall(i, a))
  <2>1. Active(i) /\ disturbed' = disturbed
    <3>1. CASE Installing(i)
      BY <1>5, <3>1
      DEF Installing, Active, CheckOs, Gatekeeper, VerifyHashes, PreInstall, Inspect,
          Approve, Decline, Extract, CheckTarget, CheckBackup, DropStale, ToBackup,
          ToTarget, PostInstall, WriteDesktop, WriteIcon, CheckDone, DropBackup
    <3>2. CASE RollingBack(i) \/ Uninstalling(i)
      BY <1>5, <3>2
      DEF RollingBack, RollbackTarget, RollbackRestore, RollbackDesktop, Uninstalling,
          UninstallDesktop, UninstallIcon, UninstallDir, Active
    <3>3. QED
      BY <1>5, <3>1, <3>2 DEF Step
  <2>2. QED
    BY <1>5, <2>1
<1>6. QED
  BY <1>1, <1>4, <1>5

\* A step that leaves an application undisturbed is no fault of a command on it, and
\* begins none beside another.
LEMMA QuietStep ==
  ASSUME TypeOK, NEW i \in Actors, Step(i), NEW b \in Apps \ disturbed'
  PROVE  /\ b \notin disturbed
         /\ proc[i].app = b => ~Faulty(i)
         /\ ~Active(i) /\ proc'[i].app = b => \A j \in Actors : Active(j) => proc[j].app # b
  BY DisturbedStep DEF Begin, Busy

\* A command that begins changes no file; one that goes on stays on its application.
LEMMA StepBegins ==
  ASSUME TypeOK, NEW i \in Actors, Step(i)
  PROVE  /\ ~Active(i) =>
              /\ UNCHANGED fs
              /\ proc'[i].app \in Apps /\ proc'[i].pc \in {"CheckOs", "UnDesktop"}
         /\ Active(i) /\ Active(i)' => proc'[i].app = proc[i].app
<1> USE DEF TypeOK, ProcsOK, Procs, Active, Goto
<1>1. CASE \E p \in Packages : BeginInstall(i, p)
  BY <1>1, PackageAssumption DEF BeginInstall, NewProc
<1>2. CASE \E a \in Apps : BeginUninstall(i, a)
  BY <1>2 DEF BeginUninstall, NewProc
<1>3. ASSUME Fail(i), Active(i)
      PROVE  proc'[i].app = proc[i].app
  BY <1>3 DEF Fail
<1>4. CASE CheckOs(i) \/ Gatekeeper(i) \/ VerifyHashes(i) \/ PreInstall(i) \/ Extract(i)
  BY <1>3, <1>4 DEF CheckOs, Gatekeeper, VerifyHashes, PreInstall, Inspect, Extract
<1>5. CASE Approve(i) \/ Decline(i) \/ CheckTarget(i) \/ CheckBackup(i)
  BY <1>5 DEF Approve, Decline, CheckTarget, CheckBackup
<1>6. CASE DropStale(i) \/ ToBackup(i) \/ ToTarget(i) \/ PostInstall(i)
  BY <1>3, <1>6 DEF DropStale, ToBackup, ToTarget, PostInstall
<1>7. CASE WriteDesktop(i) \/ WriteIcon(i)
  BY <1>7 DEF WriteDesktop, WriteIcon
<1>8. ASSUME NEW l \in Ended, End(i, l)
      PROVE  ~Active(i)'
  BY <1>8 DEF End, IdleProc, NewProc
<1>9. CASE CheckDone(i) \/ DropBackup(i)
  BY <1>3, <1>8, <1>9 DEF CheckDone, DropBackup
<1>10. CASE RollingBack(i)
  BY <1>8, <1>10 DEF RollingBack, RollbackTarget, RollbackRestore, RollbackDesktop
<1>11. CASE UninstallDesktop(i) \/ UninstallIcon(i) \/ UninstallDir(i)
  BY <1>8, <1>11 DEF UninstallDesktop, UninstallIcon, UninstallDir
<1>12. CASE Crash(i)
  BY <1>12 DEF Crash, IdleProc, NewProc
<1>13. CASE CallFails(i) \/ BackupRemovalFails(i)
  BY <1>3, <1>13 DEF CallFails, BackupRemovalFails
<1>14. CASE RollbackCallFails(i) \/ UninstallCallFails(i)
  BY <1>8, <1>14 DEF RollbackCallFails, UninstallCallFails
<1>15. QED
  BY <1>1, <1>2, <1>4, <1>5, <1>6, <1>7, <1>9, <1>10, <1>11, <1>12, <1>13, <1>14
  DEF Step, Installing, Uninstalling, Faulty

----------------------------------------------------------------------------
(* The invariant.                                                          *)

\* Two actors never come to work on one application that stays undisturbed.
LEMMA OneCommandStep ==
  ASSUME TypeOK, OneCommandPerApp, NEW i \in Actors, Step(i)
  PROVE  OneCommandPerApp'
<1>1. ASSUME NEW j \in Actors \ {i}, Active(i)', Active(j)', proc'[j].app \notin disturbed'
      PROVE  proc'[i].app # proc'[j].app
  <2>1. proc'[j] = proc[j] /\ Active(j) /\ proc[j].app \in Apps
    BY <1>1, StepActorFrame DEF ActorFrame, Active, TypeOK, ProcsOK
  <2>2. proc[j].app \notin disturbed
    BY <1>1, <2>1, QuietStep
  <2>3. CASE Active(i)
    BY <1>1, <2>1, <2>2, <2>3, StepBegins DEF OneCommandPerApp
  <2>4. CASE ~Active(i)
    BY <1>1, <2>1, <2>4, QuietStep
  <2>5. QED
    BY <2>3, <2>4
<1>2. ASSUME NEW j \in Actors \ {i}, NEW k \in Actors \ {i}, Active(j)', Active(k)',
             proc'[j].app = proc'[k].app, proc'[j].app \notin disturbed'
      PROVE  j = k
  BY <1>2, StepActorFrame, DisturbedStep DEF ActorFrame, Active, OneCommandPerApp
<1>3. QED
  BY <1>1, <1>2 DEF OneCommandPerApp

\* What an actor knows is not disturbed by the others.
LEMMA OtherStep ==
  ASSUME TypeOK, Consistent, NEW i \in Actors, Step(i), NEW j \in Actors \ {i}
  PROVE  ActorConsistent(j)'
<1> DEFINE b == proc[j].app
<1>1. proc'[j] = proc[j] /\ staging'[j] = staging[j]
  BY StepActorFrame DEF ActorFrame
<1>2. SUFFICES ASSUME Active(j), b \notin disturbed'
               PROVE  ActorConsistent(j)'
  BY <1>1 DEF ActorConsistent, Active
<1>3. b \in Apps /\ b \notin disturbed
  BY <1>2, QuietStep DEF TypeOK, ProcsOK
<1>4. /\ dir'[b] = dir[b] /\ backup'[b] = backup[b]
      /\ b \in desktop' <=> b \in desktop
      /\ b \in icons' <=> b \in icons
  <2>1. CASE Active(i)
    BY <1>2, <1>3, <2>1, StepAppFrame DEF AppFrame, Consistent, OneCommandPerApp
  <2>2. CASE ~Active(i)
    BY <2>2, StepBegins DEF fs
  <2>3. QED
    BY <2>1, <2>2
<1>5. QED
  BY <1>1, <1>2, <1>3, <1>4 DEF Consistent, ActorConsistent, Active, Refused

\* What an actor knows at its next stage follows from what it knew and did.
LEMMA OwnStep ==
  ASSUME TypeOK, Consistent, NEW i \in Actors, Step(i)
  PROVE  ActorConsistent(i)'
<1> DEFINE a == proc[i].app
<1> USE NoneAssumption
<1> SUFFICES ASSUME Active(i)', proc'[i].app \notin disturbed'
             PROVE  ActorConsistent(i)'
  BY DEF ActorConsistent
<1>1. ASSUME NEW b \in Apps, ~Active(i), proc'[i].app = b
      PROVE  backup[b] = None
  BY <1>1, QuietStep DEF Consistent, BackupIsTransient
<1>2. CASE \E p \in Packages : BeginInstall(i, p)
  BY <1>1, <1>2, PackageAssumption
  DEF BeginInstall, NewProc, ActorConsistent, Active, TypeOK, ProcsOK, fs
<1>3. CASE \E b \in Apps : BeginUninstall(i, b)
  BY <1>1, <1>3 DEF BeginUninstall, NewProc, ActorConsistent, Active, TypeOK, ProcsOK, fs
<1>4. ASSUME Active(i)
      PROVE  /\ a \in Apps /\ a \notin disturbed /\ ~Faulty(i)
             /\ ActorConsistent(i) /\ proc[i] \in Procs
  <2>1. a \in Apps /\ proc[i] \in Procs /\ ActorConsistent(i)
    BY <1>4 DEF TypeOK, ProcsOK, Consistent
  <2>2. proc'[i].app = a
    BY <1>4, StepBegins
  <2>3. QED
    BY <2>1, <2>2, QuietStep
<1>5. ASSUME Active(i), proc[i].pc \in BeforeMove, Fail(i), UNCHANGED <<dir, backup>>,
             ~PassedStages(proc[i].pkg)
      PROVE  ActorConsistent(i)'
  BY <1>4, <1>5
  DEF Fail, Goto, ActorConsistent, Refused, Active, TypeOK, ProcsOK, Procs
<1>6. CASE CheckOs(i) \/ Gatekeeper(i) \/ VerifyHashes(i) \/ PreInstall(i)
  <2>1. Active(i) /\ proc[i].pc \in BeforeMove
    BY <1>6 DEF CheckOs, Gatekeeper, VerifyHashes, PreInstall, Inspect, Active
  <2>2. CASE Defect[proc[i].pkg] \in {"os", "signature", "hash", "pre"} /\ Fail(i)
    BY <1>5, <1>6, <2>1, <2>2
    DEF CheckOs, Gatekeeper, VerifyHashes, PreInstall, Inspect, PassedStages
  <2>3. CASE UNCHANGED staging /\ proc'[i].pc # "RbTarget"
    BY <1>4, <1>6, <2>1, <2>3
    DEF CheckOs, Gatekeeper, VerifyHashes, PreInstall, Inspect, Fail, Goto, ActorConsistent,
        Active, TypeOK, ProcsOK, Procs
  <2>4. QED
    BY <1>6, <2>2, <2>3
    DEF CheckOs, Gatekeeper, VerifyHashes, PreInstall, Inspect, Goto, TypeOK, ProcsOK, Procs
<1>7. CASE Approve(i) \/ Decline(i) \/ Extract(i)
  BY <1>4, <1>7
  DEF Approve, Decline, Extract, Goto, ActorConsistent, Refused, Active, TypeOK, ProcsOK, Procs, fs
<1>8. CASE CheckTarget(i) \/ CheckBackup(i)
  BY <1>4, <1>8
  DEF CheckTarget, CheckBackup, Goto, ActorConsistent, Active, TypeOK, ProcsOK, Procs, fs
<1>9. CASE DropStale(i) \/ ToBackup(i)
  BY <1>4, <1>9
  DEF DropStale, ToBackup, Fail, ActorConsistent, Active, TypeOK, ProcsOK, Procs
<1>10. CASE ToTarget(i)
  BY <1>4, <1>10 DEF ToTarget, Fail, Goto, ActorConsistent, Active, TypeOK, ProcsOK, Procs
<1>11. CASE PostInstall(i)
  BY <1>4, <1>11 DEF PostInstall, Fail, Goto, ActorConsistent, Active, TypeOK, ProcsOK, Procs
<1>12. CASE WriteDesktop(i) \/ WriteIcon(i)
  BY <1>4, <1>12
  DEF WriteDesktop, WriteIcon, Goto, ActorConsistent, Active, TypeOK, ProcsOK, Procs
<1>13. ASSUME NEW l \in Ended, End(i, l)
      PROVE  FALSE
  BY <1>13 DEF End, IdleProc, NewProc, Active, TypeOK, ProcsOK
<1>14. CASE CheckDone(i) \/ DropBackup(i)
  BY <1>4, <1>13, <1>14
  DEF CheckDone, DropBackup, Fail, Goto, ActorConsistent, Active, TypeOK, ProcsOK, Procs, fs
<1>15. CASE RollingBack(i)
  BY <1>4, <1>13, <1>15
  DEF RollingBack, RollbackTarget, RollbackRestore, RollbackDesktop, Goto,
      ActorConsistent, Refused, Active, TypeOK, ProcsOK, Procs
<1>16. CASE UninstallDesktop(i) \/ UninstallIcon(i) \/ UninstallDir(i)
  BY <1>4, <1>13, <1>16
  DEF UninstallDesktop, UninstallIcon, UninstallDir, Goto, ActorConsistent, Active,
      TypeOK, ProcsOK, Procs
<1>17. QED
  BY <1>2, <1>3, <1>6, <1>7, <1>8, <1>9, <1>10, <1>11, <1>12, <1>14, <1>15, <1>16,
     DisturbedStep, <1>4
  DEF Step, Installing, Uninstalling

\* The four steps that end a command, faults aside.
LEMMA EndingStep ==
  ASSUME TypeOK, NEW i \in Actors, Step(i), ~Faulty(i), Active(i),
         ~Active(i)'
  PROVE  \/ CheckDone(i) /\ End(i, "Completed")
         \/ DropBackup(i) /\ End(i, "Completed") /\ backup[proc[i].app] # None
         \/ RollbackDesktop(i) /\ End(i, "Failed")
         \/ UninstallDir(i)
<1> USE DEF TypeOK, ProcsOK, Procs, Active
<1>1. ~Fail(i) /\ \A l \in Labels \ Ended : ~Goto(i, l)
  BY DEF Fail, Goto
<1>2. ASSUME Installing(i), ~(CheckDone(i) \/ DropBackup(i))
      PROVE  FALSE
  <2>1. ~(\E p \in Packages : BeginInstall(i, p))
    BY DEF BeginInstall
  <2>2. ~(CheckOs(i) \/ Gatekeeper(i) \/ VerifyHashes(i) \/ PreInstall(i) \/ Extract(i))
    BY <1>1 DEF CheckOs, Gatekeeper, VerifyHashes, PreInstall, Inspect, Extract
  <2>3. ~(Approve(i) \/ Decline(i) \/ CheckTarget(i) \/ CheckBackup(i))
    BY <1>1 DEF Approve, Decline, CheckTarget, CheckBackup
  <2>4. ~(DropStale(i) \/ ToBackup(i) \/ ToTarget(i) \/ PostInstall(i))
    BY <1>1 DEF DropStale, ToBackup, ToTarget, PostInstall
  <2>5. ~(WriteDesktop(i) \/ WriteIcon(i))
    BY <1>1 DEF WriteDesktop, WriteIcon
  <2>6. QED
    BY <1>2, <2>1, <2>2, <2>3, <2>4, <2>5 DEF Installing
<1>3. CASE CheckDone(i) \/ DropBackup(i)
  BY <1>1, <1>3 DEF CheckDone, DropBackup
<1>4. CASE RollingBack(i) \/ Uninstalling(i)
  BY <1>1, <1>4
  DEF RollingBack, RollbackTarget, RollbackRestore, RollbackDesktop, Uninstalling,
      BeginUninstall, UninstallDesktop, UninstallIcon
<1>5. QED
  BY <1>2, <1>3, <1>4 DEF Step

\* A command that ends leaves no backup of its application.
LEMMA NoBackupLeft ==
  ASSUME TypeOK, Consistent, NEW i \in Actors, Step(i), Active(i), ~Active(i)',
         proc[i].app \notin disturbed'
  PROVE  backup'[proc[i].app] = None
<1> DEFINE a == proc[i].app
<1>1. /\ a \in Apps /\ a \notin disturbed /\ ~Faulty(i)
      /\ ActorConsistent(i) /\ backup \in [Apps -> Contents]
  BY QuietStep DEF TypeOK, ProcsOK, Consistent
<1>2. CASE CheckDone(i) /\ End(i, "Completed")
  <2>1. ~(proc[i].hasBackup /\ backup[a] # None)
    BY <1>2 DEF CheckDone, Goto, End, IdleProc, NewProc, TypeOK, ProcsOK
  <2>2. QED
    BY <1>1, <1>2, <2>1 DEF CheckDone, ActorConsistent, Active, fs
<1>3. CASE DropBackup(i) /\ backup[a] # None
  BY <1>1, <1>3 DEF DropBackup
<1>4. CASE RollbackDesktop(i) \/ UninstallDir(i)
  BY <1>1, <1>4 DEF RollbackDesktop, UninstallDir, ActorConsistent, Active
<1>5. QED
  BY <1>1, <1>2, <1>3, <1>4, EndingStep

\* Backups stay transient.
LEMMA TransientStep ==
  ASSUME TypeOK, Consistent, NEW i \in Actors, Step(i)
  PROVE  BackupIsTransient'
<1> SUFFICES ASSUME NEW a \in Apps \ disturbed', backup'[a] # None
             PROVE  \E j \in Actors : Active(j)' /\ proc'[j].app = a /\ proc'[j].hasBackup
  BY DEF BackupIsTransient
<1>1. CASE Active(i) /\ proc[i].app = a
  <2>1. Active(i)' /\ proc'[i].app = a
    BY <1>1, NoBackupLeft, StepBegins
  <2>2. ActorConsistent(i)'
    BY OwnStep
  <2>3. QED
    BY <2>1, <2>2 DEF ActorConsistent
<1>2. CASE ~(Active(i) /\ proc[i].app = a)
  <2>1. backup'[a] = backup[a]
    <3>1. CASE Active(i)
      BY <1>2, <3>1, StepAppFrame DEF AppFrame
    <3>2. CASE ~Active(i)
      BY <3>2, StepBegins DEF fs
    <3>3. QED
      BY <3>1, <3>2
  <2>2. PICK j \in Actors : Active(j) /\ proc[j].app = a /\ proc[j].hasBackup
    BY <2>1, QuietStep DEF Consistent, BackupIsTransient
  <2>3. proc'[j] = proc[j]
    BY <1>2, <2>2, StepActorFrame DEF ActorFrame
  <2>4. QED
    BY <2>2, <2>3 DEF Active
<1>3. QED
  BY <1>1, <1>2

\* What the actors know of the applications that nobody disturbs is an invariant,
\* whatever races and faults befall the other applications.
THEOREM ConsistentAlways == Spec => []Consistent
<1>1. Init => Consistent
  BY DEF Init, Consistent, OneCommandPerApp, ActorConsistent, BackupIsTransient, Active,
         IdleProc, NewProc
<1>2. TypeOK /\ Consistent /\ [Next]_vars => Consistent'
  <2>1. ASSUME TypeOK, Consistent, NEW i \in Actors, Step(i)
        PROVE  Consistent'
    <3>1. \A j \in Actors : ActorConsistent(j)'
      BY <2>1, OwnStep, OtherStep
    <3>2. QED
      BY <2>1, <3>1, OneCommandStep, TransientStep DEF Consistent
  <2>2. CASE UNCHANGED vars
    BY <2>2
    DEF vars, Consistent, OneCommandPerApp, ActorConsistent, BackupIsTransient, Active,
        Refused
  <2>3. QED
    BY <2>1, <2>2 DEF Next, Step
<1>3. QED
  BY <1>1, <1>2, TypeCorrect, PTL DEF Spec

\* Until an application is disturbed, its backup directory exists only while a running
\* update owns it, for every number of applications, packages and users.
THEOREM BackupsAreTransient == Spec => []BackupIsTransient
<1>1. Consistent => BackupIsTransient
  BY DEF Consistent
<1>2. QED
  BY <1>1, ConsistentAlways, PTL

----------------------------------------------------------------------------
(* How commands end.                                                       *)

\* What the directories look like when a command reports its outcome.
LEMMA Outcome ==
  ASSUME TypeOK, Consistent, NEW i \in Actors, Step(i), Active(i), ~Active(i)',
         proc[i].app \notin disturbed'
  PROVE  LET a == proc[i].app IN
         /\ proc'[i].pc = "Failed" /\ proc[i].hasBackup => dir'[a] = proc[i].before
         /\ proc'[i].pc = "Completed" =>
              /\ dir'[a] = proc[i].pkg
              /\ a \in desktop' <=> proc[i].pkg # None
              /\ proc[i].pkg = None => a \notin icons'
<1> DEFINE a == proc[i].app
<1>1. /\ a \in Apps /\ a \notin disturbed /\ ~Faulty(i)
      /\ ActorConsistent(i) /\ dir \in [Apps -> Contents]
  BY QuietStep DEF TypeOK, ProcsOK, Consistent
<1>2. \A l \in Ended : End(i, l) => proc'[i].pc = l
  BY DEF End, IdleProc, NewProc, TypeOK, ProcsOK
<1>3. CASE CheckDone(i) /\ End(i, "Completed")
  BY <1>1, <1>2, <1>3 DEF CheckDone, ActorConsistent, Active, fs
<1>4. CASE DropBackup(i) /\ End(i, "Completed")
  BY <1>1, <1>2, <1>4 DEF DropBackup, ActorConsistent, Active
<1>5. CASE RollbackDesktop(i) /\ End(i, "Failed")
  BY <1>1, <1>2, <1>5 DEF RollbackDesktop, ActorConsistent, Active
<1>6. CASE UninstallDir(i)
  BY <1>1, <1>2, <1>6 DEF UninstallDir, ActorConsistent, Active
<1>7. QED
  BY <1>1, <1>3, <1>4, <1>5, <1>6, EndingStep

\* An update that fails after moving the old version away puts it back.
THEOREM OldVersionRestored == Spec => RestoresAfterMove
<1> DEFINE A == \A i \in Actors : Reports(i, "Failed") /\ proc[i].hasBackup
                  => dir'[proc[i].app] = proc[i].before
<1>1. TypeOK /\ Consistent /\ [Next]_vars => [A]_vars
  <2>1. ASSUME TypeOK, Consistent, NEW k \in Actors, Step(k),
               NEW i \in Actors, Reports(i, "Failed"), proc[i].hasBackup
        PROVE  dir'[proc[i].app] = proc[i].before
    <3>1. Active(i) /\ ~Active(i)'
      BY <2>1 DEF Reports, Active
    <3>2. k = i
      BY <2>1, <3>1, StepActorFrame DEF ActorFrame, Active
    <3>3. QED
      BY <2>1, <3>1, <3>2, Outcome DEF Reports
  <2>2. QED
    BY <2>1 DEF Next, Step
<1>2. QED
  BY <1>1, TypeCorrect, ConsistentAlways, PTL DEF Spec, RestoresAfterMove

\* A command that reports success has done all of it.
THEOREM SuccessIsComplete == Spec => CompletedInPlace
<1> DEFINE A == \A i \in Actors : Reports(i, "Completed") =>
                  LET a == proc[i].app IN
                  /\ dir'[a] = proc[i].pkg
                  /\ a \in desktop' <=> proc[i].pkg # None
                  /\ proc[i].pkg = None => a \notin icons'
<1>1. TypeOK /\ Consistent /\ [Next]_vars => [A]_vars
  <2>1. ASSUME TypeOK, Consistent, NEW k \in Actors, Step(k),
               NEW i \in Actors, Reports(i, "Completed")
        PROVE  /\ dir'[proc[i].app] = proc[i].pkg
               /\ proc[i].app \in desktop' <=> proc[i].pkg # None
               /\ proc[i].pkg = None => proc[i].app \notin icons'
    <3>1. Active(i) /\ ~Active(i)'
      BY <2>1 DEF Reports, Active
    <3>2. k = i
      BY <2>1, <3>1, StepActorFrame DEF ActorFrame, Active
    <3>3. QED
      BY <2>1, <3>1, <3>2, Outcome DEF Reports
  <2>2. QED
    BY <2>1 DEF Next, Step
<1>2. QED
  BY <1>1, TypeCorrect, ConsistentAlways, PTL DEF Spec, CompletedInPlace

\* A step that destroys the last whole copy of a sound package belongs to an uninstall,
\* or to the rollback of an install that was refused.
LEMMA CopyLost ==
  ASSUME TypeOK, Consistent, OnlyVerifiedInPlace, NEW i \in Actors, Step(i),
         NEW b \in Apps \ disturbed', LosesCopy(b)
  PROVE  proc[i].app = b /\ (At(i, "UnDir") \/ (At(i, "RbTarget") /\ Refused(i)))
<1> USE DEF LosesCopy, HasSoundCopy, TypeOK
<1>1. Active(i) /\ proc[i].app = b
  <2>1. ~(dir'[b] = dir[b] /\ backup'[b] = backup[b])
    OBVIOUS
  <2>2. CASE ~Active(i)
    BY <2>1, <2>2, StepBegins DEF fs
  <2>3. CASE proc[i].app # b
    BY <2>1, <2>3, StepAppFrame DEF AppFrame
  <2>4. QED
    BY <2>2, <2>3
<1>2. ActorConsistent(i) /\ proc[i] \in Procs /\ b \notin disturbed /\ ~Faulty(i)
  BY <1>1, QuietStep DEF Consistent, ProcsOK
<1>3. ~(UNCHANGED <<dir, backup>>)
  OBVIOUS
<1>4. ~(CheckOs(i) \/ Gatekeeper(i) \/ VerifyHashes(i) \/ PreInstall(i) \/ Approve(i)
         \/ Decline(i) \/ Extract(i) \/ CheckTarget(i) \/ CheckBackup(i) \/ PostInstall(i)
         \/ WriteDesktop(i) \/ WriteIcon(i) \/ CheckDone(i) \/ RollbackDesktop(i)
         \/ UninstallDesktop(i) \/ UninstallIcon(i))
  BY <1>3
  DEF CheckOs, Gatekeeper, VerifyHashes, PreInstall, Inspect, Approve, Decline, Extract,
      CheckTarget, CheckBackup, PostInstall, WriteDesktop, WriteIcon, CheckDone,
      RollbackDesktop, UninstallDesktop, UninstallIcon, fs
<1>5. ~(DropStale(i) \/ ToBackup(i) \/ ToTarget(i))
  BY <1>1, <1>2, NoneAssumption DEF DropStale, ToBackup, ToTarget, ActorConsistent, Active
<1>6. ~DropBackup(i)
  <2>1. SUFFICES ASSUME DropBackup(i)
                 PROVE  FALSE
    OBVIOUS
  <2>2. dir[b] = proc[i].pkg /\ dir[b] \in Packages /\ Defect[dir[b]] # "post"
    BY <1>1, <1>2, <2>1 DEF DropBackup, ActorConsistent, Active, Procs
  <2>3. Defect[dir[b]] = "none"
    BY <2>2 DEF OnlyVerifiedInPlace, PassedStages
  <2>4. QED
    BY <2>1, <2>2, <2>3 DEF DropBackup
<1>7. ASSUME RollbackTarget(i)
      PROVE  Refused(i)
  BY <1>1, <1>2, <1>7, NoneAssumption DEF RollbackTarget, ActorConsistent, Active
<1>8. ~RollbackRestore(i)
  BY <1>1, <1>2, NoneAssumption DEF RollbackRestore, ActorConsistent, Active
<1>9. ~(\E p \in Packages : BeginInstall(i, p)) /\ ~(\E a \in Apps : BeginUninstall(i, a))
  BY <1>1 DEF BeginInstall, BeginUninstall
<1>10. RollbackTarget(i) \/ UninstallDir(i)
  BY <1>2, <1>4, <1>5, <1>6, <1>8, <1>9 DEF Step, Installing, RollingBack, Uninstalling
<1>11. QED
  BY <1>1, <1>7, <1>10 DEF RollbackTarget, UninstallDir

\* Of an application nobody disturbed, the last whole copy of a sound package is never
\* destroyed by an update that was approved and passed the checks: only by an uninstall
\* or by the rollback of a refused install.
THEOREM LastCopySurvives == Spec => LastCopyKept
<1> DEFINE A == \A a \in Apps \ disturbed' : LosesCopy(a) =>
                  \E i \in Actors :
                    /\ proc[i].app = a
                    /\ At(i, "UnDir") \/ (At(i, "RbTarget") /\ Refused(i))
<1>1. TypeOK /\ Consistent /\ OnlyVerifiedInPlace /\ [Next]_vars => [A]_vars
  BY CopyLost DEF Next, Step
<1>2. QED
  BY <1>1, TypeCorrect, ConsistentAlways, OnlyVerifiedPackages, PTL DEF Spec, LastCopyKept

----------------------------------------------------------------------------
(* Every command is atomic.                                                *)

\* What counts as installed for an application somebody is working on.
Seen(i) == IF InMove(i) THEN backup[proc[i].app] ELSE dir[proc[i].app]

LEMMA InstalledSeen ==
  ASSUME OneCommandPerApp, NEW b \in Apps \ disturbed
  PROVE  /\ \A i \in Actors : Active(i) /\ proc[i].app = b => Installed[b] = Seen(i)
         /\ (\A i \in Actors : Active(i) => proc[i].app # b) => Installed[b] = dir[b]
<1>1. \A i \in Actors : InMove(i) => Active(i)
  BY DEF InMove, Active
<1>2. QED
  BY <1>1 DEF Installed, Seen, OneCommandPerApp

\* Nobody has begun or finished a move on an application that a step leaves alone.
LEMMA SeenByOthers ==
  ASSUME TypeOK, NEW i \in Actors, Step(i), NEW b \in Apps, ~(Active(i) /\ proc[i].app = b)
  PROVE  IF b \in disturbed' THEN Installed'[b] = None ELSE Installed'[b] = Installed[b]
<1>1. dir'[b] = dir[b] /\ backup'[b] = backup[b]
  <2>1. CASE Active(i)
    BY <2>1, StepAppFrame DEF AppFrame
  <2>2. CASE ~Active(i)
    BY <2>2, StepBegins DEF fs
  <2>3. QED
    BY <2>1, <2>2
<1>2. ASSUME NEW j \in Actors
      PROVE  (InMove(j) /\ proc[j].app = b)' <=> (InMove(j) /\ proc[j].app = b)
  <2>1. CASE j # i
    BY <2>1, StepActorFrame DEF ActorFrame, InMove
  <2>2. CASE j = i /\ Active(i)
    BY <2>2, StepBegins DEF InMove, Active
  <2>3. CASE j = i /\ ~Active(i)
    <3>1. proc'[i].pc \in {"CheckOs", "UnDesktop"}
      BY <2>3, StepBegins
    <3>2. QED
      BY <2>3, <3>1 DEF InMove, Active
  <2>4. QED
    BY <2>1, <2>2, <2>3
<1>3. b \notin disturbed' => b \notin disturbed
  BY DisturbedStep
<1>4. QED
  BY <1>1, <1>2, <1>3 DEF Installed

\* What was no longer counted is not counted now.
LEMMA DisturbedIsGone ==
  ASSUME TypeOK, NEW i \in Actors, Step(i), NEW b \in disturbed
  PROVE  b \in Apps /\ Installed[b] = None /\ Installed'[b] = None
<1>1. b \in Apps /\ b \in disturbed'
  BY DisturbedStep DEF TypeOK
<1>2. QED
  BY <1>1 DEF Installed

\* A step within a command changes what counts as installed to nothing, or not at all.
LEMMA SeenWithin ==
  ASSUME TypeOK, Consistent, NEW i \in Actors, Step(i), Active(i), Active(i)',
         proc[i].app \notin disturbed'
  PROVE  Seen(i)' \in {Seen(i), None}
<1> DEFINE a == proc[i].app
<1> USE DEF Seen, InMove, ActorConsistent, Active, TypeOK, ProcsOK, Procs, Goto
<1>1. /\ a \in Apps /\ a \notin disturbed /\ ~Faulty(i)
      /\ ActorConsistent(i) /\ proc'[i].app = a
  BY StepBegins, QuietStep DEF Consistent
<1>2. ASSUME Fail(i), proc[i].pc \in BeforeMove, UNCHANGED backup
      PROVE  Seen(i)' = None
  BY <1>1, <1>2 DEF Fail
<1>3. CASE CheckOs(i) \/ Gatekeeper(i) \/ VerifyHashes(i) \/ PreInstall(i) \/ Extract(i)
  BY <1>1, <1>2, <1>3 DEF CheckOs, Gatekeeper, VerifyHashes, PreInstall, Inspect, Extract
<1>4. CASE Approve(i) \/ Decline(i) \/ CheckTarget(i) \/ CheckBackup(i)
  BY <1>1, <1>4 DEF Approve, Decline, CheckTarget, CheckBackup, fs
<1>5. CASE DropStale(i) \/ ToBackup(i) \/ ToTarget(i)
  BY <1>1, <1>5 DEF DropStale, ToBackup, ToTarget, Fail
<1>6. CASE PostInstall(i) \/ WriteDesktop(i) \/ WriteIcon(i)
  BY <1>1, <1>6 DEF PostInstall, WriteDesktop, WriteIcon, Fail
<1>7. CASE CheckDone(i) \/ DropBackup(i)
  BY <1>1, <1>7 DEF CheckDone, DropBackup, Fail, End, IdleProc, NewProc, fs
<1>8. CASE RollingBack(i)
  BY <1>1, <1>8
  DEF RollingBack, RollbackTarget, RollbackRestore, RollbackDesktop, End, IdleProc, NewProc
<1>9. CASE UninstallDesktop(i) \/ UninstallIcon(i) \/ UninstallDir(i)
  BY <1>1, <1>9 DEF UninstallDesktop, UninstallIcon, UninstallDir, End, IdleProc, NewProc
<1>10. ~(\E p \in Packages : BeginInstall(i, p)) /\ ~(\E b \in Apps : BeginUninstall(i, b))
  BY DEF BeginInstall, BeginUninstall
<1>11. QED
  BY <1>1, <1>3, <1>4, <1>5, <1>6, <1>7, <1>8, <1>9, <1>10
  DEF Step, Installing, Uninstalling

\* At its end a command has installed its sound package, or removed the application,
\* or it changes nothing that counted as installed.
LEMMA SeenAtEnd ==
  ASSUME TypeOK, Consistent, OnlyVerifiedInPlace, NEW i \in Actors, Step(i),
         Active(i), ~Active(i)', proc[i].app \notin disturbed'
  PROVE  LET a == proc[i].app IN
         \/ dir'[a] \in {Seen(i), None}
         \/ /\ dir'[a] \in Packages
            /\ Defect[dir'[a]] = "none"
            /\ AppOf[dir'[a]] = a
<1> DEFINE a == proc[i].app
<1> USE DEF ActorConsistent, Active
<1>1. /\ a \in Apps /\ a \notin disturbed /\ ~Faulty(i)
      /\ ActorConsistent(i) /\ proc[i] \in Procs /\ dir \in [Apps -> Contents]
  BY QuietStep DEF TypeOK, ProcsOK, Consistent
<1>2. CASE CheckDone(i) \/ DropBackup(i)
  <2>1. proc[i].pkg \in Packages /\ dir[a] = proc[i].pkg /\ AppOf[proc[i].pkg] = a
    BY <1>1, <1>2 DEF CheckDone, DropBackup, Procs
  <2>2. Defect[dir[a]] = "none"
    BY <1>1, <1>2, <2>1 DEF CheckDone, DropBackup, OnlyVerifiedInPlace, PassedStages
  <2>3. dir'[a] = dir[a]
    BY <1>2 DEF CheckDone, DropBackup, fs
  <2>4. QED
    BY <2>1, <2>2, <2>3
<1>3. CASE RollbackDesktop(i) \/ UninstallDir(i)
  BY <1>1, <1>3 DEF RollbackDesktop, UninstallDir, Seen, InMove
<1>4. QED
  BY <1>1, <1>2, <1>3, EndingStep

\* A step changes what counts as installed of at most one application.
LEMMA StoreFrame ==
  ASSUME TypeOK, NEW i \in Actors, Step(i), NEW a \in Apps,
         IF Active(i) THEN proc[i].app = a ELSE proc'[i].app = a
  PROVE  Installed' = [Installed EXCEPT ![a] = Installed'[a]]
<1>1. Installed = [b \in Apps |-> Installed[b]] /\ Installed' = [b \in Apps |-> Installed'[b]]
  BY DEF Installed
<1>2. ASSUME NEW b \in Apps \ {a}
      PROVE  Installed'[b] = Installed[b]
  <2>1. CASE b \in disturbed
    BY <2>1, DisturbedIsGone
  <2>2. CASE b \notin disturbed
    <3>1. b \notin disturbed' /\ ~(Active(i) /\ proc[i].app = b)
      BY <1>2, <2>2, DisturbedStep
    <3>2. QED
      BY <1>2, <3>1, SeenByOthers
  <2>3. QED
    BY <2>1, <2>2
<1>3. QED
  BY <1>1, <1>2

\* A step of the pipeline is a step of the store, or changes nothing in it.
LEMMA StoreStep ==
  ASSUME TypeOK, TypeOK', Consistent, Consistent', OnlyVerifiedInPlace,
         NEW i \in Actors, Step(i)
  PROVE  Store!Next \/ Installed' = Installed
<1>1. PICK a \in Apps : IF Active(i) THEN proc[i].app = a ELSE proc'[i].app = a
  BY StepBegins DEF TypeOK, ProcsOK
<1>2. Installed' = [Installed EXCEPT ![a] = Installed'[a]]
  BY <1>1, StoreFrame
<1>3. Installed = [b \in Apps |-> Installed[b]]
  BY DEF Installed
<1>4. SUFFICES \/ Installed'[a] \in {Installed[a], None}
               \/ /\ Installed'[a] \in Packages
                  /\ Defect[Installed'[a]] = "none"
                  /\ AppOf[Installed'[a]] = a
  BY <1>2, <1>3 DEF Store!Next, Store!Install, Store!Remove
<1>5. CASE a \in disturbed'
  BY <1>5 DEF Installed
<1>6. CASE a \notin disturbed' /\ ~Active(i)
  BY <1>1, <1>6, SeenByOthers
<1>7. CASE a \notin disturbed' /\ Active(i)
  <2>1. a \notin disturbed /\ proc[i].app = a
    BY <1>1, <1>7, QuietStep
  <2>2. Installed[a] = Seen(i)
    BY <1>7, <2>1, InstalledSeen DEF Consistent
  <2>3. \A j \in Actors : InMove(j)' => Active(j)'
    BY DEF InMove, Active
  <2>4. CASE Active(i)'
    <3>1. proc'[i].app = a
      BY <1>7, <2>1, <2>4, StepBegins
    <3>2. Installed'[a] = Seen(i)'
      <4>1. \A j \in Actors : Active(j)' /\ proc'[j].app = a => j = i
        BY <1>7, <2>4, <3>1 DEF Consistent, OneCommandPerApp
      <4>2. QED
        BY <1>7, <2>3, <2>4, <3>1, <4>1 DEF Installed, Seen
    <3>3. QED
      BY <1>7, <2>1, <2>2, <2>4, <3>2, SeenWithin
  <2>5. CASE ~Active(i)'
    <3>1. \A j \in Actors : Active(j)' => proc'[j].app # a
      BY <1>7, <2>1, <2>5, StepActorFrame
      DEF ActorFrame, Active, Consistent, OneCommandPerApp
    <3>2. Installed'[a] = dir'[a]
      BY <1>7, <2>3, <3>1 DEF Installed
    <3>3. QED
      BY <1>7, <2>1, <2>2, <2>5, <3>2, SeenAtEnd
  <2>6. QED
    BY <2>4, <2>5
<1>8. QED
  BY <1>5, <1>6, <1>7

\* The pipeline implements AppStore: as long as nobody disturbs an application, every
\* command on it is atomic.
THEOREM CommandsAreAtomic == Spec => AtomicInstall
<1>1. Init => Store!Init
  BY DEF Init, Store!Init, Installed
<1>2. TypeOK /\ TypeOK' /\ Consistent /\ Consistent' /\ OnlyVerifiedInPlace /\ [Next]_vars
        => [Store!Next]_Installed
  <2>1. CASE Next
    BY <2>1, StoreStep DEF Next, Step
  <2>2. CASE UNCHANGED vars
    BY <2>2 DEF vars, Installed, InMove
  <2>3. QED
    BY <2>1, <2>2
<1>3. QED
  BY <1>1, <1>2, TypeCorrect, ConsistentAlways, OnlyVerifiedPackages, PTL
  DEF Spec, AtomicInstall, Store!Spec
=============================================================================
