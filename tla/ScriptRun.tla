------------------------------ MODULE ScriptRun ------------------------------
(***************************************************************************)
(* How an installation runs its scripts (mcpkg-pipeline/src/lib.rs,        *)
(* run_script_in_sandbox and wait_timeout): a waiter thread blocks in      *)
(* wait() with the mutex around the child in hand, and the main thread     *)
(* waits for its message, for 60 seconds.                                  *)
(***************************************************************************)
EXTENDS Naturals

CONSTANT K  \* number of scripts, run one after the other
ASSUME KAssumption == K \in Nat

Scripts  == 1..K
Statuses == {"zero", "nonzero", "killed"}

VARIABLES
  child,   \* the script's process; "reaped" is not told from ended: wait() caches it
  waiter,  \* the waiter thread: it asks for the lock, waits holding it, sends
  main,    \* run_script_in_sandbox
  lock,    \* who holds the mutex around the child
  chan,    \* the message in the channel
  result   \* what run_script_in_sandbox returned

vars == <<child, waiter, main, lock, chan, result>>

TypeOK ==
  /\ child \in [Scripts -> {"none", "running"} \cup Statuses]
  /\ waiter \in [Scripts -> {"none", "lock", "wait", "send", "done"}]
  /\ main \in [Scripts -> {"spawn", "recv", "lock", "kill", "reap", "done"}]
  /\ lock \in [Scripts -> {"free", "waiter", "main"}]
  /\ chan \in [Scripts -> {"empty"} \cup Statuses]
  /\ result \in [Scripts -> {"none", "ok", "spawn", "status", "timeout"}]

Init ==
  /\ child = [s \in Scripts |-> "none"]
  /\ waiter = [s \in Scripts |-> "none"]
  /\ main = [s \in Scripts |-> "spawn"]
  /\ lock = [s \in Scripts |-> "free"]
  /\ chan = [s \in Scripts |-> "empty"]
  /\ result = [s \in Scripts |-> "none"]

Set(f, s, v) == [f EXCEPT ![s] = v]

Return(s, r) == main' = Set(main, s, "done") /\ result' = Set(result, s, r)

\* The child is spawned, or its pre_exec refuses a strict sandbox, or exec fails.
Spawn(s) ==
  /\ main[s] = "spawn"
  /\ \A t \in 1..(s - 1) : result[t] = "ok"
  /\ \/ /\ child' = Set(child, s, "running")
        /\ waiter' = Set(waiter, s, "lock")
        /\ main' = Set(main, s, "recv")
        /\ UNCHANGED result
     \/ Return(s, "spawn") /\ UNCHANGED <<child, waiter>>
  /\ UNCHANGED <<lock, chan>>

\* The script may run for ever.
Exit(s) ==
  /\ child[s] = "running"
  /\ \E status \in {"zero", "nonzero"} : child' = Set(child, s, status)
  /\ UNCHANGED <<waiter, main, lock, chan, result>>

WaiterLock(s) ==
  /\ waiter[s] = "lock" /\ lock[s] = "free"
  /\ waiter' = Set(waiter, s, "wait")
  /\ lock' = Set(lock, s, "waiter")
  /\ UNCHANGED <<child, main, chan, result>>

\* Mutant: the lock is kept until the main thread takes the message.
WaiterReapRendezvous(s) ==
  /\ waiter[s] = "wait" /\ child[s] \in Statuses
  /\ main[s] = "recv"
  /\ waiter' = Set(waiter, s, "send")
  /\ lock' = Set(lock, s, "free")
  /\ UNCHANGED <<child, main, chan, result>>

\* Mutant: try_wait() instead of wait().
WaiterReapTry(s) ==
  /\ waiter[s] = "wait"
  /\ waiter' = Set(waiter, s, "send")
  /\ lock' = Set(lock, s, "free")
  /\ UNCHANGED <<child, main, chan, result>>

\* guard.wait() returns when the child has ended; then the guard is dropped.
WaiterReap(s) ==
  /\ waiter[s] = "wait" /\ child[s] \in Statuses
  /\ waiter' = Set(waiter, s, "send")
  /\ lock' = Set(lock, s, "free")
  /\ UNCHANGED <<child, main, chan, result>>

WaiterSend(s) ==
  /\ waiter[s] = "send"
  /\ waiter' = Set(waiter, s, "done")
  /\ chan' = Set(chan, s, child[s])
  /\ UNCHANGED <<child, main, lock, result>>

\* Mutant: the exit status is not looked at.
ReceiveAnyStatus(s) ==
  /\ main[s] = "recv" /\ chan[s] # "empty"
  /\ Return(s, "ok")
  /\ UNCHANGED <<child, waiter, lock, chan>>

Receive(s) ==
  /\ main[s] = "recv" /\ chan[s] # "empty"
  /\ Return(s, IF chan[s] = "zero" THEN "ok" ELSE "status")
  /\ UNCHANGED <<child, waiter, lock, chan>>

\* Mutant: the error is returned and the child left to itself.
TimeoutAbandons(s) ==
  /\ main[s] = "recv" /\ chan[s] = "empty"
  /\ Return(s, "timeout")
  /\ UNCHANGED <<child, waiter, lock, chan>>

\* The 60 seconds are over: recv_timeout gives up.
Timeout(s) ==
  /\ main[s] = "recv" /\ chan[s] = "empty"
  /\ main' = Set(main, s, "lock")
  /\ UNCHANGED <<child, waiter, lock, chan, result>>

TimeoutLock(s) ==
  /\ main[s] = "lock" /\ lock[s] = "free"
  /\ main' = Set(main, s, "kill")
  /\ lock' = Set(lock, s, "main")
  /\ UNCHANGED <<child, waiter, chan, result>>

Kill(s) ==
  /\ main[s] = "kill"
  /\ child' = Set(child, s, IF child[s] = "running" THEN "killed" ELSE child[s])
  /\ main' = Set(main, s, "reap")
  /\ UNCHANGED <<waiter, lock, chan, result>>

KillReap(s) ==
  /\ main[s] = "reap"
  /\ Return(s, "timeout")
  /\ lock' = Set(lock, s, "free")
  /\ UNCHANGED <<child, waiter, chan>>

Threads(s) ==
  \/ WaiterLock(s) \/ WaiterReap(s) \/ WaiterSend(s)
  \/ Spawn(s) \/ Receive(s) \/ Timeout(s) \/ TimeoutLock(s) \/ Kill(s) \/ KillReap(s)

Next == \E s \in Scripts : Threads(s) \/ Exit(s)

Spec == Init /\ [][Next]_vars

\* Both threads run; nothing makes a script end.
FairSpec ==
  /\ Spec
  /\ \A s \in Scripts :
       /\ WF_vars(WaiterLock(s) \/ WaiterReap(s) \/ WaiterSend(s))
       /\ WF_vars(Spawn(s) \/ Receive(s) \/ Timeout(s) \/ TimeoutLock(s)
                           \/ Kill(s) \/ KillReap(s))

----------------------------------------------------------------------------
(* Properties.                                                             *)

\* A run reported as successful is one whose script exited with status zero, and a
\* later script only runs after it.
SuccessIsReal ==
  \A s \in Scripts :
    /\ result[s] = "ok" => child[s] = "zero"
    /\ child[s] # "none" => \A t \in 1..(s - 1) : child[t] = "zero"

\* No script outlives the call that ran it, timed out or not: a rollback that follows
\* never removes the directory under a running script.
NoScriptLeft == \A s \in Scripts : main[s] = "done" => child[s] # "running"

\* A script that ends ends its run, whether or not the timeout came first.
EndedIsReturned == \A s \in Scripts : child[s] \in Statuses ~> main[s] = "done"

\* What opk-format-spec.md grants a script: 60 seconds.
TimeoutReturns == \A s \in Scripts : main[s] = "lock" ~> main[s] = "done"

----------------------------------------------------------------------------
(* The inductive invariant behind the safety properties.                   *)

\* The mutex is with the thread that is between its lock() and the end of the guard.
LockHeld(s) ==
  /\ lock[s] = "waiter" <=> waiter[s] = "wait"
  /\ lock[s] = "main" <=> main[s] \in {"kill", "reap"}

\* There is a waiter exactly for a child that was spawned, and it sends its status once.
WaiterFollows(s) ==
  /\ waiter[s] = "none" <=> child[s] = "none"
  /\ waiter[s] \in {"send", "done"} => child[s] \in Statuses
  /\ chan[s] # "empty" => waiter[s] = "done" /\ chan[s] = child[s]

\* What the main thread knows of the child at each of its stages.
MainKnows(s) ==
  /\ main[s] = "spawn" => child[s] = "none"
  /\ main[s] \in {"recv", "lock", "kill"} => child[s] # "none"
  /\ main[s] = "reap" => child[s] \in Statuses
  /\ main[s] = "done" => child[s] # "running"
  /\ main[s] = "done" <=> result[s] # "none"

\* Scripts run in order, each after the success of the one before.
InOrder(s) ==
  /\ result[s] = "ok" => child[s] = "zero"
  /\ child[s] # "none" => \A t \in 1..(s - 1) : result[t] = "ok"

Handover == \A s \in Scripts : LockHeld(s) /\ WaiterFollows(s) /\ MainKnows(s) /\ InOrder(s)
=============================================================================
