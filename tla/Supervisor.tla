----------------------------- MODULE Supervisor -----------------------------
(***************************************************************************)
(* Orion's PID 1 (core/init/src/main.rs): it launches the services of      *)
(* init.rc, reaps every child of the system and respawns the services that *)
(* ask for it, each from a thread of its own.  The threads and the reaping *)
(* loop share the table of services, G_SERVICES, under its mutex.          *)
(***************************************************************************)
EXTENDS Naturals, FiniteSets

CONSTANTS
  N,            \* number of service blocks in init.rc
  Class,        \* Class[s]: "core", "main" or "default"
  Respawn,      \* Respawn[s]: the block says respawn
  Pids,         \* process ids
  None,         \* -1
  MaxOrphans,   \* bound on the foreign children alive at once
  MaxFailures   \* bound on the spawns that fail

Services == 1..N
Classes  == {"core", "main", "default"}

ASSUME ServiceAssumption ==
  /\ N \in Nat
  /\ Class \in [Services -> Classes]
  /\ Respawn \in [Services -> BOOLEAN]

ASSUME PidAssumption == None \notin Pids \cup Services

ASSUME BoundAssumption == MaxOrphans \in Nat /\ MaxFailures \in Nat

VARIABLES
  pid,        \* pid[s]: svc.pid (svc.active holds exactly when it is not -1)
  child,      \* child[p]: "free", "live" or "zombie": the kernel's process table
  owner,      \* owner[p]: the service that process p runs, None for an orphan
  main,       \* the main thread: what it does, and the pid waitpid returned
  launched,   \* the services launch_services has started
  spawning,   \* the spawn in progress; G_SERVICES is locked meanwhile
  timers,     \* timers[s]: respawn threads for s that have not locked yet
  abandoned,  \* history: services whose spawn failed since they last ran
  failures    \* spawns that failed so far

vars == <<pid, child, owner, main, launched, spawning, timers, abandoned, failures>>

NoSpawn == [svc |-> None, pid |-> None]

TypeOK ==
  /\ pid \in [Services -> Pids \cup {None}]
  /\ child \in [Pids -> {"free", "live", "zombie"}]
  /\ owner \in [Pids -> Services \cup {None}]
  /\ main \in [at : {"launch", "wait", "handle"}, got : Pids \cup {None}]
  /\ launched \subseteq Services
  /\ spawning \in [svc : Services, pid : Pids] \cup {NoSpawn}
  /\ timers \in [Services -> Nat]
  /\ abandoned \subseteq Services
  /\ failures \in 0..MaxFailures

Init ==
  /\ pid = [s \in Services |-> None]
  /\ child = [p \in Pids |-> "free"]
  /\ owner = [p \in Pids |-> None]
  /\ main = [at |-> "launch", got |-> None]
  /\ launched = {}
  /\ spawning = NoSpawn
  /\ timers = [s \in Services |-> 0]
  /\ abandoned = {}
  /\ failures = 0

----------------------------------------------------------------------------
(* spawn_service: fork and exec under the lock, then the pid is noted.     *)

Unlocked == spawning = NoSpawn

\* The kernel hands out a pid that is not in use.  It allocates cyclically, so it is
\* not the one that waitpid has just freed.
FreePids == {p \in Pids : child[p] = "free" /\ p # main.got}

Fork(s) ==
  \E p \in FreePids :
    /\ child' = [child EXCEPT ![p] = "live"]
    /\ owner' = [owner EXCEPT ![p] = s]
    /\ spawning' = [svc |-> s, pid |-> p]
    /\ abandoned' = abandoned \ {s}

\* Mutant: the service's place in the table is stored for its pid.
RecordIndex ==
  /\ pid' = [pid EXCEPT ![spawning.svc] = spawning.svc]
  /\ spawning' = NoSpawn

Record ==
  /\ pid' = [pid EXCEPT ![spawning.svc] = spawning.pid]
  /\ spawning' = NoSpawn

\* cmd.spawn() returns an error and leaves no child.
SpawnFails(s) ==
  /\ failures < MaxFailures
  /\ failures' = failures + 1
  /\ abandoned' = abandoned \cup {s}

----------------------------------------------------------------------------
(* launch_services: core, main and the other services, each in file order; *)
(* the first failure ends it.  Nothing is reaped until it returns.         *)

Rank(s) == CASE Class[s] = "core" -> 0 [] Class[s] = "main" -> 1 [] OTHER -> 2

Before(s, t) == Rank(s) < Rank(t) \/ (Rank(s) = Rank(t) /\ s < t)

NextToLaunch(s) ==
  /\ s \notin launched
  /\ \A t \in Services : Before(t, s) => t \in launched

Launch(s) ==
  /\ main.at = "launch" /\ Unlocked
  /\ NextToLaunch(s)
  /\ Fork(s)
  /\ UNCHANGED <<pid, main, launched, timers, failures>>

LaunchRecord ==
  /\ main.at = "launch" /\ ~Unlocked
  /\ Record
  /\ launched' = launched \cup {spawning.svc}
  /\ UNCHANGED <<child, owner, main, timers, abandoned, failures>>

LaunchFails(s) ==
  /\ main.at = "launch" /\ Unlocked
  /\ NextToLaunch(s)
  /\ SpawnFails(s)
  /\ main' = [main EXCEPT !.at = "wait"]
  /\ UNCHANGED <<pid, child, owner, launched, spawning, timers>>

LaunchDone ==
  /\ main.at = "launch" /\ Unlocked
  /\ launched = Services
  /\ main' = [main EXCEPT !.at = "wait"]
  /\ UNCHANGED <<pid, child, owner, launched, spawning, timers, abandoned, failures>>

----------------------------------------------------------------------------
(* The supervision loop and handle_child_exit.                             *)

\* Mutant: waitpid is asked for stopped children too (WUNTRACED).
WaitStopped(p) ==
  /\ main.at = "wait"
  /\ child[p] # "free"
  /\ child' = [child EXCEPT ![p] = IF @ = "zombie" THEN "free" ELSE @]
  /\ owner' = [owner EXCEPT ![p] = IF child[p] = "zombie" THEN None ELSE @]
  /\ main' = [at |-> "handle", got |-> p]
  /\ UNCHANGED <<pid, launched, spawning, timers, abandoned, failures>>

\* waitpid(-1): any zombie is reaped, its pid is free again.
Wait(p) ==
  /\ main.at = "wait"
  /\ child[p] = "zombie"
  /\ child' = [child EXCEPT ![p] = "free"]
  /\ owner' = [owner EXCEPT ![p] = None]
  /\ main' = [at |-> "handle", got |-> p]
  /\ UNCHANGED <<pid, launched, spawning, timers, abandoned, failures>>

Tracked(p) == {s \in Services : pid[s] = p}

\* Mutant: the table is read without its lock.
HandleUnlocked ==
  /\ main.at = "handle"
  /\ main' = [at |-> "wait", got |-> None]
  /\ \/ Tracked(main.got) = {} /\ UNCHANGED <<pid, timers>>
     \/ \E s \in Tracked(main.got) :
          /\ pid' = [pid EXCEPT ![s] = None]
          /\ timers' = IF Respawn[s] THEN [timers EXCEPT ![s] = @ + 1] ELSE timers
  /\ UNCHANGED <<child, owner, launched, spawning, abandoned, failures>>

\* Mutant: the pid of the dead child is not reset, so spawn_service declines.
HandleKeepsPid ==
  /\ main.at = "handle" /\ Unlocked
  /\ main' = [at |-> "wait", got |-> None]
  /\ \/ Tracked(main.got) = {} /\ UNCHANGED timers
     \/ \E s \in Tracked(main.got) :
          timers' = IF Respawn[s] THEN [timers EXCEPT ![s] = @ + 1] ELSE timers
  /\ UNCHANGED <<pid, child, owner, launched, spawning, abandoned, failures>>

\* The service with that pid is marked dead and, if it asks for it, a thread is
\* started that will respawn it; a child nobody tracks is only logged.
Handle ==
  /\ main.at = "handle" /\ Unlocked
  /\ main' = [at |-> "wait", got |-> None]
  /\ \/ Tracked(main.got) = {} /\ UNCHANGED <<pid, timers>>
     \/ \E s \in Tracked(main.got) :
          /\ pid' = [pid EXCEPT ![s] = None]
          /\ timers' = IF Respawn[s] THEN [timers EXCEPT ![s] = @ + 1] ELSE timers
  /\ UNCHANGED <<child, owner, launched, spawning, abandoned, failures>>

----------------------------------------------------------------------------
(* respawn_service_async: two seconds later a thread takes the lock.       *)

\* Mutant: the thread gives up when somebody else holds the lock (try_lock).
RespawnForkTryLock(s) ==
  /\ timers[s] > 0
  /\ IF ~Unlocked \/ pid[s] # None
       THEN UNCHANGED <<child, owner, spawning, abandoned>> ELSE Fork(s)
  /\ timers' = [timers EXCEPT ![s] = @ - 1]
  /\ UNCHANGED <<pid, main, launched, failures>>

\* spawn_service has nothing to do for a service that runs.
RespawnFork(s) ==
  /\ timers[s] > 0 /\ Unlocked
  /\ IF pid[s] # None THEN UNCHANGED <<child, owner, spawning, abandoned>> ELSE Fork(s)
  /\ timers' = [timers EXCEPT ![s] = @ - 1]
  /\ UNCHANGED <<pid, main, launched, failures>>

RespawnRecord ==
  /\ main.at # "launch" /\ ~Unlocked
  /\ Record
  /\ UNCHANGED <<child, owner, main, launched, timers, abandoned, failures>>

\* The error is printed and the thread ends: nobody tries again.
RespawnFails(s) ==
  /\ timers[s] > 0 /\ Unlocked
  /\ pid[s] = None
  /\ SpawnFails(s)
  /\ timers' = [timers EXCEPT ![s] = @ - 1]
  /\ UNCHANGED <<pid, child, owner, main, launched, spawning>>

----------------------------------------------------------------------------
(* The rest of the system.                                                 *)

\* A process ends, at any moment, even before its parent has noted its pid.
Exit(p) ==
  /\ child[p] = "live"
  /\ child' = [child EXCEPT ![p] = "zombie"]
  /\ UNCHANGED <<pid, owner, main, launched, spawning, timers, abandoned, failures>>

\* A process whose parent died becomes a child of PID 1.
Orphan(p) ==
  /\ p \in FreePids
  /\ Cardinality({q \in Pids : child[q] # "free" /\ owner[q] = None}) < MaxOrphans
  /\ child' = [child EXCEPT ![p] = "live"]
  /\ owner' = [owner EXCEPT ![p] = None]
  /\ UNCHANGED <<pid, main, launched, spawning, timers, abandoned, failures>>

----------------------------------------------------------------------------

Launching ==
  \/ \E s \in Services : Launch(s) \/ LaunchFails(s)
  \/ LaunchRecord \/ LaunchDone

Reaping == Handle \/ \E p \in Pids : Wait(p)

Respawning ==
  \/ \E s \in Services : RespawnFork(s) \/ RespawnFails(s)
  \/ RespawnRecord

World == \E p \in Pids : Exit(p) \/ Orphan(p)

Next == Launching \/ Reaping \/ Respawning \/ World

Spec == Init /\ [][Next]_vars

\* Every thread that can run does.  The kernel returns zombies oldest first and no
\* thread is kept from the mutex for ever: new contenders for it come two seconds
\* apart.
Fairness ==
  /\ WF_vars(Launching)
  /\ WF_vars(RespawnRecord)
  /\ SF_vars(Handle)
  /\ \A p \in Pids : SF_vars(Wait(p))
  /\ \A s \in Services :
       SF_vars(RespawnFork(s) \/ RespawnFails(s))

FairSpec == Spec /\ Fairness

----------------------------------------------------------------------------
(* Properties.                                                             *)

Alive(s) == \E p \in Pids : child[p] = "live" /\ owner[p] = s

\* A pid in the table is never stale: it is the service's own process, running or
\* dead, until the moment handle_child_exit is told of its death.
TrackedIsOwn ==
  \A s \in Services : pid[s] # None =>
    \/ child[pid[s]] # "free" /\ owner[pid[s]] = s
    \/ main.got = pid[s]

\* No service ever runs twice, whatever dies while it is being started.
SingleInstance ==
  \A p, q \in Pids :
    /\ child[p] = "live" /\ child[q] = "live"
    /\ owner[p] # None /\ owner[p] = owner[q]
    => p = q

\* No death is lost: a respawn service that was launched is tracked, or is being
\* started, or has exactly one thread about to start it, or its last spawn failed.
NoDeathLost ==
  \A s \in Services : Respawn[s] /\ s \in launched =>
    \/ pid[s] # None \/ spawning.svc = s
    \/ timers[s] = 1
    \/ s \in abandoned

\* A launched respawn service runs again and again, unless a spawn of it fails.
RespawnedUnlessAbandoned ==
  \A s \in Services : Respawn[s] =>
    (s \in launched /\ ~Alive(s)) ~> (Alive(s) \/ s \in abandoned)

----------------------------------------------------------------------------
(* The inductive invariant behind the safety properties.                   *)

\* The table and the kernel agree on who runs what, but for the pid in main.got,
\* whose death is known to the kernel and not to the table.
TableAgrees ==
  /\ TrackedIsOwn
  /\ \A s, t \in Services : pid[s] # None /\ pid[s] = pid[t] => s = t
  /\ \A p \in Pids : owner[p] # None =>
       /\ child[p] # "free"
       /\ pid[owner[p]] = p \/ spawning = [svc |-> owner[p], pid |-> p]

ReapConsistent ==
  /\ main.at = "handle" <=> main.got # None
  /\ main.got # None => child[main.got] = "free"

SpawnConsistent ==
  spawning # NoSpawn =>
    /\ pid[spawning.svc] = None /\ timers[spawning.svc] = 0
    /\ \A s \in Services : pid[s] # spawning.pid
    /\ owner[spawning.pid] = spawning.svc \/ main.got = spawning.pid
    /\ main.at = "launch" \/ spawning.svc \in launched

TimersConsistent ==
  \A s \in Services :
    /\ timers[s] > 0 => timers[s] = 1 /\ pid[s] = None /\ s \in launched
    /\ s \notin launched => pid[s] = None
    /\ main.at = "launch" => timers[s] = 0

Supervision ==
  TableAgrees /\ ReapConsistent /\ SpawnConsistent /\ TimersConsistent /\ NoDeathLost
=============================================================================
