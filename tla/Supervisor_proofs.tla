-------------------------- MODULE Supervisor_proofs --------------------------
(***************************************************************************)
(* Proofs about Supervisor, for every init.rc, every table of processes    *)
(* and every number of failing spawns.                                     *)
(***************************************************************************)
EXTENDS Supervisor, TLAPS

\* The initial table is empty and agrees with the kernel.
LEMMA InitSound == Init => TypeOK /\ Supervision
<1> SUFFICES ASSUME Init PROVE TypeOK /\ Supervision
  OBVIOUS
<1>1. TypeOK
  BY BoundAssumption, PidAssumption DEF Init, TypeOK
<1>2. Supervision
  BY PidAssumption
  DEF Init, Supervision, TableAgrees, TrackedIsOwn, ReapConsistent, SpawnConsistent,
      TimersConsistent, NoDeathLost
<1>3. QED
  BY <1>1, <1>2

\* Every action keeps the types.
LEMMA TypeStep == TypeOK /\ [Next]_vars => TypeOK'
<1> SUFFICES ASSUME TypeOK, [Next]_vars PROVE TypeOK'
  OBVIOUS
<1> USE PidAssumption, BoundAssumption DEF TypeOK, NoSpawn
<1>1. ASSUME NEW s \in Services, Launch(s)
      PROVE  TypeOK'
  BY <1>1 DEF Launch, Fork, FreePids
<1>2. ASSUME NEW s \in Services, LaunchFails(s)
      PROVE  TypeOK'
  BY <1>2 DEF LaunchFails, SpawnFails
<1>3. CASE LaunchRecord \/ RespawnRecord
  BY <1>3 DEF LaunchRecord, RespawnRecord, Record, Unlocked
<1>4. CASE LaunchDone
  BY <1>4 DEF LaunchDone
<1>5. CASE Handle
  BY <1>5 DEF Handle, Tracked
<1>6. ASSUME NEW p \in Pids, Wait(p) \/ Exit(p) \/ Orphan(p)
      PROVE  TypeOK'
  BY <1>6 DEF Wait, Exit, Orphan
<1>7. ASSUME NEW s \in Services, RespawnFork(s)
      PROVE  TypeOK'
  BY <1>7 DEF RespawnFork, Fork, FreePids
<1>8. ASSUME NEW s \in Services, RespawnFails(s)
      PROVE  TypeOK'
  BY <1>8 DEF RespawnFails, SpawnFails
<1>9. CASE UNCHANGED vars
  BY <1>9 DEF vars
<1>10. QED
  BY <1>1, <1>2, <1>3, <1>4, <1>5, <1>6, <1>7, <1>8, <1>9
  DEF Next, Launching, Reaping, Respawning, World

\* Every action keeps the table in agreement with the kernel.
LEMMA SupervisionStep == TypeOK /\ Supervision /\ [Next]_vars => Supervision'
<1> SUFFICES ASSUME TypeOK, Supervision, [Next]_vars PROVE Supervision'
  OBVIOUS
<1> USE PidAssumption
    DEF TypeOK, NoSpawn, Unlocked, Supervision, TableAgrees, TrackedIsOwn, ReapConsistent,
        SpawnConsistent, TimersConsistent, NoDeathLost
<1>1. ASSUME NEW s \in Services, Launch(s)
      PROVE  Supervision'
  BY <1>1 DEF Launch, Fork, FreePids, NextToLaunch
<1>2. ASSUME NEW s \in Services, LaunchFails(s)
      PROVE  Supervision'
  BY <1>2 DEF LaunchFails, SpawnFails
<1>3. CASE LaunchRecord \/ RespawnRecord
  <2> DEFINE s == spawning.svc
             p == spawning.pid
  <2>1. /\ s \in Services /\ p \in Pids
        /\ pid' = [pid EXCEPT ![s] = p]
        /\ spawning' = NoSpawn
        /\ UNCHANGED <<child, owner, main, timers, abandoned>>
        /\ launched' \in {launched, launched \cup {s}}
        /\ s \in launched'
    BY <1>3 DEF LaunchRecord, RespawnRecord, Record
  <2>2. TableAgrees'
    <3>1. \A t \in Services : pid[t] # p
      BY <2>1, <1>3 DEF LaunchRecord, RespawnRecord
    <3>2. pid[s] = None /\ (owner[p] = s \/ main.got = p) /\ spawning = [svc |-> s, pid |-> p]
      BY <2>1, <1>3 DEF LaunchRecord, RespawnRecord
    <3>3. TrackedIsOwn'
      BY <2>1, <3>2
    <3>4. \A t, u \in Services : pid'[t] # None /\ pid'[t] = pid'[u] => t = u
      BY <2>1, <3>1
    <3>5. ASSUME NEW q \in Pids, owner[q] # None
          PROVE  child[q] # "free" /\ pid'[owner[q]] = q
      BY <2>1, <3>2, <3>5
    <3>6. QED
      BY <2>1, <3>3, <3>4, <3>5
  <2>3. ReapConsistent' /\ SpawnConsistent'
    BY <2>1
  <2>4. TimersConsistent'
    BY <2>1
  <2>5. NoDeathLost'
    BY <2>1
  <2>6. QED
    BY <2>2, <2>3, <2>4, <2>5
<1>4. CASE LaunchDone
  BY <1>4 DEF LaunchDone
<1>5. CASE Handle
  BY <1>5 DEF Handle, Tracked
<1>6. ASSUME NEW p \in Pids, Wait(p)
      PROVE  Supervision'
  BY <1>6 DEF Wait
<1>7. ASSUME NEW p \in Pids, Exit(p) \/ Orphan(p)
      PROVE  Supervision'
  BY <1>7 DEF Exit, Orphan, FreePids
<1>8. ASSUME NEW s \in Services, RespawnFork(s)
      PROVE  Supervision'
  <2>1. /\ timers[s] = 1 /\ pid[s] = None
        /\ s \in launched /\ main.at # "launch"
        /\ spawning = NoSpawn
    <3>1. timers[s] > 0 /\ spawning = NoSpawn
      BY <1>8 DEF RespawnFork
    <3>2. timers[s] = 1 /\ pid[s] = None /\ s \in launched
      BY <3>1
    <3>3. main.at # "launch"
      BY <3>2
    <3>4. QED
      BY <3>1, <3>2, <3>3
  <2>2. PICK p \in FreePids :
          /\ child' = [child EXCEPT ![p] = "live"]
          /\ owner' = [owner EXCEPT ![p] = s]
          /\ spawning' = [svc |-> s, pid |-> p]
          /\ abandoned' = abandoned \ {s}
    BY <1>8, <2>1 DEF RespawnFork, Fork
  <2>3. timers' = [timers EXCEPT ![s] = 0] /\ UNCHANGED <<pid, main, launched>>
    BY <1>8, <2>1 DEF RespawnFork
  <2>4. TableAgrees'
    BY <2>1, <2>2, <2>3 DEF FreePids
  <2>5. ReapConsistent' /\ SpawnConsistent'
    BY <2>1, <2>2, <2>3 DEF FreePids
  <2>6. TimersConsistent' /\ NoDeathLost'
    BY <2>1, <2>2, <2>3 DEF FreePids
  <2>7. QED
    BY <2>4, <2>5, <2>6
<1>9. ASSUME NEW s \in Services, RespawnFails(s)
      PROVE  Supervision'
  BY <1>9 DEF RespawnFails, SpawnFails
<1>10. CASE UNCHANGED vars
  BY <1>10 DEF vars
<1>11. QED
  BY <1>1, <1>2, <1>3, <1>4, <1>5, <1>6, <1>7, <1>8, <1>9, <1>10
  DEF Next, Launching, Reaping, Respawning, World

\* The invariant holds in every reachable state.
THEOREM SupervisionCorrect == Spec => [](TypeOK /\ Supervision)
<1>1. TypeOK /\ Supervision /\ [Next]_vars => (TypeOK /\ Supervision)'
  BY TypeStep, SupervisionStep
<1>2. QED
  BY InitSound, <1>1, PTL DEF Spec

\* No service ever has two live processes: two of them would both be the one the
\* table tracks or the one being started, and it never has both.
THEOREM NoServiceTwice == Spec => []SingleInstance
<1>1. TypeOK /\ Supervision => SingleInstance
  <2> SUFFICES ASSUME TypeOK, Supervision, NEW p \in Pids, NEW q \in Pids,
                      owner[p] # None, owner[p] = owner[q]
               PROVE  p = q
    BY DEF SingleInstance
  <2> DEFINE s == owner[p]
  <2>1. s \in Services /\ s # None /\ p # None /\ q # None
    BY PidAssumption DEF TypeOK
  <2>2. pid[s] = p \/ spawning = [svc |-> s, pid |-> p]
    BY DEF Supervision, TableAgrees
  <2>3. pid[s] = q \/ spawning = [svc |-> s, pid |-> q]
    BY DEF Supervision, TableAgrees
  <2>4. ASSUME NEW r, spawning = [svc |-> s, pid |-> r]
        PROVE  pid[s] = None
    BY <2>1, <2>4 DEF Supervision, SpawnConsistent, NoSpawn
  <2>5. QED
    BY <2>1, <2>2, <2>3, <2>4
<1>2. QED
  BY <1>1, SupervisionCorrect, PTL

\* The variables of init, its table, its timers and its children keep their types.
THEOREM SupervisorTypes == Spec => []TypeOK
<1> QED
  BY SupervisionCorrect, PTL

\* No pid in the table is stale: a service is only tracked by a process that is its own,
\* so that no other process is ever stopped or awaited in its name.
THEOREM NoStalePid == Spec => []TrackedIsOwn
<1>1. Supervision => TrackedIsOwn
  BY DEF Supervision, TableAgrees
<1>2. QED
  BY <1>1, SupervisionCorrect, PTL

\* No death of a service is lost: a service without a process is being restarted, was
\* abandoned or was never launched.
THEOREM NoDeathIsLost == Spec => []NoDeathLost
<1>1. Supervision => NoDeathLost
  BY DEF Supervision
<1>2. QED
  BY <1>1, SupervisionCorrect, PTL
=============================================================================
