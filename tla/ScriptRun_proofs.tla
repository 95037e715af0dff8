--------------------------- MODULE ScriptRun_proofs ---------------------------
(***************************************************************************)
(* Proofs about ScriptRun, for every number of scripts: the handover of a  *)
(* child between the main thread and its waiter, under every interleaving  *)
(* of the two with the script itself and the timeout.                      *)
(***************************************************************************)
EXTENDS ScriptRun, TLAPS

\* What one script's step leaves of the others.
Others(s) ==
  \A t \in Scripts \ {s} :
    /\ child'[t] = child[t] /\ waiter'[t] = waiter[t] /\ main'[t] = main[t]
    /\ lock'[t] = lock[t] /\ chan'[t] = chan[t] /\ result'[t] = result[t]

\* A step of one script's threads, or of the script itself, keeps the types: what the
\* waiter sends is a status, because it has waited.
LEMMA TypeStep ==
  ASSUME TypeOK, Handover, NEW s \in Scripts, Threads(s) \/ Exit(s)
  PROVE  TypeOK'
<1> USE DEF TypeOK, Statuses, Set
<1>1. CASE WaiterLock(s) \/ WaiterReap(s)
  BY <1>1 DEF WaiterLock, WaiterReap
<1>2. CASE WaiterSend(s)
  BY <1>2 DEF WaiterSend, Handover, WaiterFollows
<1>3. CASE Spawn(s)
  BY <1>3 DEF Spawn, Return
<1>4. CASE Receive(s)
  BY <1>4 DEF Receive, Return
<1>5. CASE Timeout(s) \/ TimeoutLock(s) \/ Kill(s) \/ KillReap(s)
  BY <1>5 DEF Timeout, TimeoutLock, Kill, KillReap, Return
<1>6. CASE Exit(s)
  BY <1>6 DEF Exit
<1>7. QED
  BY <1>1, <1>2, <1>3, <1>4, <1>5, <1>6 DEF Threads

\* A step is about one script, and never takes a success back.
LEMMA StepFrame ==
  ASSUME TypeOK, Handover, NEW s \in Scripts, Threads(s) \/ Exit(s)
  PROVE  /\ Others(s)
         /\ \A t \in Scripts : result[t] = "ok" => result'[t] = "ok"
<1> USE DEF TypeOK, Set, Others
<1>1. Others(s)
  BY DEF Threads, WaiterLock, WaiterReap, WaiterSend, Spawn, Receive, Timeout,
         TimeoutLock, Kill, KillReap, Exit, Return
<1>2. result[s] = "ok" => result'[s] = "ok"
  BY DEF Threads, WaiterLock, WaiterReap, WaiterSend, Spawn, Receive, Timeout,
         TimeoutLock, Kill, KillReap, Exit, Return, Handover, MainKnows, InOrder
<1>3. QED
  BY <1>1, <1>2

\* What a step establishes of its own script.
LEMMA OwnHandover ==
  ASSUME TypeOK, Handover, NEW s \in Scripts, Threads(s) \/ Exit(s)
  PROVE  LockHeld(s)' /\ WaiterFollows(s)' /\ MainKnows(s)'
<1> USE DEF TypeOK, Statuses, Set, Handover, LockHeld, WaiterFollows, MainKnows
<1>1. CASE WaiterLock(s) \/ WaiterReap(s) \/ WaiterSend(s)
  BY <1>1 DEF WaiterLock, WaiterReap, WaiterSend
<1>2. CASE Spawn(s) \/ Receive(s)
  BY <1>2 DEF Spawn, Receive, Return
<1>3. CASE Timeout(s) \/ TimeoutLock(s)
  BY <1>3 DEF Timeout, TimeoutLock
<1>4. CASE Kill(s) \/ KillReap(s)
  BY <1>4 DEF Kill, KillReap, Return
<1>5. CASE Exit(s)
  BY <1>5 DEF Exit
<1>6. QED
  BY <1>1, <1>2, <1>3, <1>4, <1>5 DEF Threads

\* The order of the scripts survives a step: a success is reported of a child that ended
\* with zero and nobody changes the status of a child that ended.
LEMMA OwnOrder ==
  ASSUME TypeOK, Handover, NEW s \in Scripts, Threads(s) \/ Exit(s)
  PROVE  /\ result'[s] = "ok" => child'[s] = "zero"
         /\ child'[s] # "none" => \A t \in 1..(s - 1) : result[t] = "ok"
<1> USE DEF TypeOK, Statuses, Set, Handover, WaiterFollows, MainKnows, InOrder
<1>1. CASE WaiterLock(s) \/ WaiterReap(s) \/ WaiterSend(s)
  BY <1>1 DEF WaiterLock, WaiterReap, WaiterSend
<1>2. CASE Spawn(s)
  BY <1>2 DEF Spawn, Return
<1>3. CASE Receive(s)
  BY <1>3 DEF Receive, Return
<1>4. CASE Timeout(s) \/ TimeoutLock(s)
  BY <1>4 DEF Timeout, TimeoutLock
<1>5. CASE Kill(s) \/ KillReap(s)
  BY <1>5 DEF Kill, KillReap, Return
<1>6. CASE Exit(s)
  BY <1>6 DEF Exit
<1>7. QED
  BY <1>1, <1>2, <1>3, <1>4, <1>5, <1>6 DEF Threads

LEMMA HandoverStep == TypeOK /\ Handover /\ [Next]_vars => (TypeOK /\ Handover)'
<1>1. ASSUME TypeOK, Handover, NEW s \in Scripts, Threads(s) \/ Exit(s)
      PROVE  (TypeOK /\ Handover)'
  <2>1. TypeOK'
    BY <1>1, TypeStep
  <2>2. Others(s) /\ \A t \in Scripts : result[t] = "ok" => result'[t] = "ok"
    BY <1>1, StepFrame
  <2>3. ASSUME NEW t \in Scripts
        PROVE  LockHeld(t)' /\ WaiterFollows(t)' /\ MainKnows(t)'
    <3>1. CASE t = s
      BY <1>1, <3>1, OwnHandover
    <3>2. CASE t # s
      BY <1>1, <2>2, <3>2 DEF Others, Handover, LockHeld, WaiterFollows, MainKnows
    <3>3. QED
      BY <3>1, <3>2
  <2>4. ASSUME NEW t \in Scripts
        PROVE  InOrder(t)'
    <3>1. 1..(t - 1) \subseteq Scripts
      BY KAssumption DEF Scripts
    <3>2. /\ result'[t] = "ok" => child'[t] = "zero"
          /\ child'[t] # "none" => \A u \in 1..(t - 1) : result[u] = "ok"
      <4>1. CASE t = s
        BY <1>1, <4>1, OwnOrder
      <4>2. CASE t # s
        BY <1>1, <2>2, <4>2 DEF Others, Handover, InOrder
      <4>3. QED
        BY <4>1, <4>2
    <3>3. QED
      BY <2>2, <3>1, <3>2 DEF InOrder
  <2>5. QED
    BY <2>1, <2>3, <2>4 DEF Handover
<1>2. CASE UNCHANGED vars /\ TypeOK /\ Handover
  BY <1>2 DEF vars, TypeOK, Handover, LockHeld, WaiterFollows, MainKnows, InOrder
<1>3. QED
  BY <1>1, <1>2 DEF Next

\* Under every interleaving of main thread, waiter, script and timeout, the two threads
\* agree on who holds the child, what became of it and who was told.
THEOREM HandoverAlways == Spec => [](TypeOK /\ Handover)
<1>1. Init => TypeOK /\ Handover
  BY DEF Init, TypeOK, Statuses, Handover, LockHeld, WaiterFollows, MainKnows, InOrder
<1>2. QED
  BY <1>1, HandoverStep, PTL DEF Spec

\* The child, the two threads, the mutex, the channel and the results keep their types:
\* in particular what is sent is the status of a child that has ended.
THEOREM ScriptTypes == Spec => []TypeOK
<1> QED
  BY HandoverAlways, PTL

\* A run is reported as successful only if its script exited with zero, and a script
\* runs only after the success of all before it, however many there are.
THEOREM SuccessIsAlwaysReal == Spec => []SuccessIsReal
<1>1. Handover => SuccessIsReal
  <2> SUFFICES ASSUME Handover, NEW s \in Scripts, child[s] # "none", NEW t \in 1..(s - 1)
               PROVE  child[t] = "zero"
    BY DEF SuccessIsReal, Handover, InOrder
  <2>1. t \in Scripts
    BY KAssumption DEF Scripts
  <2>2. QED
    BY <2>1 DEF Handover, InOrder
<1>2. QED
  BY <1>1, HandoverAlways, PTL

\* No script outlives the call that ran it, even when its timeout races its end.
THEOREM NoScriptIsLeft == Spec => []NoScriptLeft
<1>1. Handover => NoScriptLeft
  BY DEF Handover, MainKnows, NoScriptLeft
<1>2. QED
  BY <1>1, HandoverAlways, PTL
=============================================================================
