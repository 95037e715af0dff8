------------------------ MODULE InputDispatch_proofs ------------------------
(***************************************************************************)
(* Proofs about InputDispatch, for every set of shells and every number of *)
(* deaths: which listeners an event removes.                               *)
(***************************************************************************)
EXTENDS InputDispatch, SequenceTheorems, TLAPS

\* Vec::remove: what stays, and where it goes.
LEMMA RemoveAtElements ==
  ASSUME NEW S, NEW s \in Seq(S), NEW i \in 1..Len(s)
  PROVE  /\ RemoveAt(s, i) \in Seq(S)
         /\ Len(RemoveAt(s, i)) = Len(s) - 1
         /\ \A j \in 1..(Len(s) - 1) :
              RemoveAt(s, i)[j] = IF j < i THEN s[j] ELSE s[j + 1]
<1> DEFINE p == SubSeq(s, 1, i - 1)
           q == SubSeq(s, i + 1, Len(s))
<1>1. Len(s) \in Nat
  BY LenProperties
<1>2. /\ p \in Seq(S) /\ Len(p) = i - 1
      /\ \A j \in 1..(i - 1) : p[j] = s[j]
  <2>1. \A j \in 1..(i - 1) : s[j] \in S
    BY <1>1, ElementOfSeq
  <2>2. QED
    BY <1>1, <2>1, SubSeqProperties
<1>3. /\ q \in Seq(S) /\ Len(q) = Len(s) - i
      /\ \A j \in 1..(Len(s) - i) : q[j] = s[i + j]
  <2>1. \A j \in (i + 1)..Len(s) : s[j] \in S
    BY <1>1, ElementOfSeq
  <2>2. QED
    BY <1>1, <2>1, SubSeqProperties
<1>4. RemoveAt(s, i) = p \o q
  BY DEF RemoveAt
<1> HIDE DEF p, q
<1>5. /\ p \o q \in Seq(S) /\ Len(p \o q) = Len(p) + Len(q)
      /\ \A j \in 1..(Len(p) + Len(q)) :
           (p \o q)[j] = IF j <= Len(p) THEN p[j] ELSE q[j - Len(p)]
  BY <1>2, <1>3, ConcatProperties
<1>6. Len(p) + Len(q) = Len(s) - 1
  BY <1>1, <1>2, <1>3
<1>7. ASSUME NEW j \in 1..(Len(s) - 1)
      PROVE  (p \o q)[j] = IF j < i THEN s[j] ELSE s[j + 1]
  <2>1. ASSUME j < i
        PROVE  (p \o q)[j] = s[j]
    BY <1>1, <1>2, <1>5, <1>6, <2>1
  <2>2. ASSUME ~(j < i)
        PROVE  (p \o q)[j] = s[j + 1]
    <3>1. j - Len(p) \in 1..(Len(s) - i) /\ i + (j - Len(p)) = j + 1
      BY <1>1, <1>2, <2>2
    <3>2. (p \o q)[j] = q[j - Len(p)]
      BY <1>1, <1>2, <1>5, <1>6, <2>2
    <3>3. QED
      BY <1>3, <2>2, <3>1, <3>2
  <2>3. QED
    BY <2>1, <2>2, Zenon
<1>8. QED
  BY <1>4, <1>5, <1>6, <1>7

\* What is left of a vector without its last element.
LEMMA FrontElements ==
  ASSUME NEW S, NEW s \in Seq(S), Len(s) # 0,
         NEW T, \A j \in 1..(Len(s) - 1) : s[j] \in T
  PROVE  /\ Front(s) \in Seq(T)
         /\ Len(Front(s)) = Len(s) - 1
         /\ \A j \in 1..(Len(s) - 1) : Front(s)[j] = s[j]
<1>1. Len(s) \in Nat \ {0}
  BY LenProperties
<1> DEFINE n == Len(s) - 1
<1>2. n \in Nat /\ Front(s) = SubSeq(s, 1, n)
  BY <1>1 DEF Front
<1>3. \A j \in 1..n : s[j] \in T
  OBVIOUS
<1> HIDE DEF n
<1>4. /\ SubSeq(s, 1, n) \in Seq(T)
      /\ Len(SubSeq(s, 1, n)) = IF 1 <= n THEN n - 1 + 1 ELSE 0
      /\ \A j \in 1..(n - 1 + 1) : SubSeq(s, 1, n)[j] = s[1 + j - 1]
  BY <1>2, <1>3, SubSeqProperties
<1>5. /\ SubSeq(s, 1, n) \in Seq(T)
      /\ Len(SubSeq(s, 1, n)) = n
      /\ \A j \in 1..n : SubSeq(s, 1, n)[j] = s[j]
  BY <1>2, <1>4
<1>6. QED
  BY <1>2, <1>5 DEF n

----------------------------------------------------------------------------
(* Steps.                                                                  *)

\* The parts of the state that only inputflinger's dispatch writes.
DispatchState == <<flinger, listeners, turn, dead, unreached>>

\* The shells' states keep their type under every step.
LEMMA ShellTypes ==
  ASSUME TypeOK, [Next]_vars
  PROVE  /\ app' \in [Apps -> {"start", "calling", "bind", "loop", "event"}]
         /\ crashes' \in 0..MaxCrashes
<1> USE CrashAssumption DEF TypeOK
<1>1. CASE Flinger
  BY <1>1 DEF Flinger, FlingerBind, SendInputEvent, Connect, DispatchDone, Sweep, Reply,
              RegisterListener
<1>2. ASSUME NEW a \in Apps, Shell(a)
      PROVE  /\ app' \in [Apps -> {"start", "calling", "bind", "loop", "event"}]
             /\ crashes' \in 0..MaxCrashes
  BY <1>2 DEF Shell, Register, Bind, AcceptEvent, Answer
<1>3. ASSUME NEW a \in Apps, AppCrash(a)
      PROVE  /\ app' \in [Apps -> {"start", "calling", "bind", "loop", "event"}]
             /\ crashes' \in 0..MaxCrashes
  BY <1>3 DEF AppCrash, Crash
<1>4. CASE FlingerCrash
  BY <1>4 DEF FlingerCrash, Crash
<1>5. CASE UNCHANGED vars
  BY <1>5 DEF vars
<1>6. QED
  BY <1>1, <1>2, <1>3, <1>4, <1>5 DEF Next

\* The types of what the dispatch writes, as far as they are not the invariant's.
DispatchTypes ==
  /\ flinger \in {"down", "idle", "dispatch", "call", "served", "sweep"}
  /\ listeners \in Seq(Apps)
  /\ turn \in 1..(Len(listeners) + 1)
  /\ dead \in Seq(Indices)
  /\ unreached \subseteq Apps

\* A listener that is not reached joins the dead, at the largest index so far.
LEMMA UnreachedStep ==
  ASSUME DispatchTypes, Dispatching,
         flinger \in {"dispatch", "call", "served"}, turn \in Indices,
         Unreached, flinger' = "dispatch", UNCHANGED listeners
  PROVE  (DispatchTypes /\ Dispatching)'
<1> DEFINE n == Len(dead)
<1>1. /\ n \in Nat /\ DOMAIN dead = 1..n
      /\ \A i \in 1..n : dead[i] \in Indices
  BY ElementOfSeq, LenProperties DEF DispatchTypes
<1>2. /\ dead' \in Seq(Indices) /\ Len(dead') = n + 1 /\ DOMAIN dead' = 1..(n + 1)
      /\ dead'[n + 1] = turn
      /\ \A i \in 1..n : dead'[i] = dead[i]
  BY AppendProperties, <1>1 DEF DispatchTypes, Unreached
<1>3. Len(listeners) \in Nat /\ Len(listeners)' = Len(listeners) /\ Indices' = Indices
      /\ listeners[turn] \in Apps
  BY ElementOfSeq, LenProperties DEF DispatchTypes, Indices
<1>4. DispatchTypes'
  BY <1>2, <1>3 DEF DispatchTypes, Unreached, Indices
<1>5. \A i \in 1..n : dead[i] < turn
  BY <1>1 DEF Dispatching, TurnPastDead
<1> HIDE DEF n
<1>6. TurnPastDead' /\ DeadAscend'
  BY <1>1, <1>2, <1>3, <1>5 DEF Dispatching, TurnPastDead, DeadAscend, Unreached, Indices, DispatchTypes
<1>7. ListedOnce'
  BY DEF ListedOnce, Dispatching
<1>8. ASSUME NEW k \in Indices
      PROVE  (\E i \in 1..(n + 1) : dead'[i] = k) <=> listeners[k] \in unreached'
  <2>1. CASE k = turn
    <3>1. n + 1 \in 1..(n + 1)
      BY <1>1
    <3>2. QED
      BY <2>1, <3>1, <1>2 DEF Unreached
  <2>2. CASE k # turn
    <3>1. listeners[k] # listeners[turn]
      <4>1. DOMAIN listeners = Indices
        BY LenProperties DEF DispatchTypes, Indices
      <4>2. QED
        BY <2>2, <4>1 DEF Dispatching, ListedOnce, IsInjective
    <3>2. (\E i \in 1..(n + 1) : dead'[i] = k) <=> (\E i \in 1..n : dead[i] = k)
      BY <1>1, <1>2, <2>2
    <3>3. QED
      BY <1>1, <3>1, <3>2 DEF Unreached, Dispatching, DeadAreUnreached
  <2>3. QED
    BY <2>1, <2>2
<1>9. DeadAreUnreached'
  BY <1>2, <1>3, <1>8 DEF DeadAreUnreached
<1>10. QED
  BY <1>4, <1>6, <1>7, <1>9 DEF Dispatching

\* A removal takes the listener at the largest dead index, an unreached one, and leaves
\* the remaining dead indices where they point.
LEMMA SweepStep ==
  ASSUME DispatchTypes, Dispatching, Sweep
  PROVE  /\ (DispatchTypes /\ Dispatching)'
         /\ ToSet(listeners) \ ToSet(listeners') \subseteq unreached
<1> DEFINE n == Len(dead)
           m == dead[n]
           l == Len(listeners)
<1>1. /\ n \in Nat \ {0} /\ DOMAIN dead = 1..n
      /\ \A i \in 1..n : dead[i] \in 1..l
      /\ l \in Nat /\ DOMAIN listeners = 1..l
      /\ \A i \in 1..l : listeners[i] \in Apps
  BY ElementOfSeq, LenProperties, EmptySeq DEF DispatchTypes, Indices, Sweep
<1>2. m \in 1..l /\ \A i \in 1..(n - 1) : dead[i] < m
  BY <1>1 DEF Dispatching, DeadAscend
<1>3. listeners[m] \in unreached
  BY <1>1, <1>2 DEF Dispatching, DeadAreUnreached, Indices
<1>4. /\ listeners' \in Seq(Apps) /\ Len(listeners') = l - 1 /\ DOMAIN listeners' = 1..(l - 1)
      /\ \A j \in 1..(l - 1) :
           listeners'[j] = IF j < m THEN listeners[j] ELSE listeners[j + 1]
  <2>1. listeners' = RemoveAt(listeners, m)
    BY DEF Sweep, Last
  <2>2. listeners \in Seq(Apps) /\ m \in 1..Len(listeners)
    BY <1>2 DEF DispatchTypes
  <2> HIDE DEF m
  <2>3. QED
    BY <2>1, <2>2, RemoveAtElements, LenProperties
<1>5. /\ dead' \in Seq(1..(l - 1)) /\ Len(dead') = n - 1 /\ DOMAIN dead' = 1..(n - 1)
      /\ \A i \in 1..(n - 1) : dead'[i] = dead[i]
  <2>1. \A i \in 1..(n - 1) : dead[i] \in 1..(l - 1)
    BY <1>1, <1>2
  <2>2. dead' = Front(dead) /\ dead \in Seq(Indices) /\ n # 0
    BY <1>1 DEF Sweep, DispatchTypes
  <2>3. QED
    BY <2>1, <2>2, FrontElements, LenProperties
<1> HIDE DEF n, l, m
<1>6. Indices' = 1..(l - 1) /\ Indices = 1..l
  BY <1>4 DEF Indices, l
<1>7. flinger = "sweep" /\ flinger' = "sweep" /\ turn' = turn /\ unreached' = unreached
  BY DEF Sweep
<1>8. DispatchTypes'
  <2>1. turn' \in 1..(Len(listeners') + 1)
    BY <1>1, <1>4, <1>7 DEF Dispatching, TurnPastDead
  <2>2. QED
    BY <2>1, <1>4, <1>5, <1>6, <1>7 DEF DispatchTypes
<1>9. TurnPastDead' /\ DeadAscend'
  <2>1. TurnPastDead'
    BY <1>7 DEF Dispatching, TurnPastDead
  <2>2. ASSUME NEW i \in 1..(n - 1), NEW j \in 1..(n - 1), i < j
        PROVE  dead'[i] < dead'[j]
    <3>1. i \in DOMAIN dead /\ j \in DOMAIN dead
      BY <1>1
    <3>2. dead[i] < dead[j]
      BY <2>2, <3>1 DEF Dispatching, DeadAscend
    <3>3. QED
      BY <1>5, <3>2
  <2>3. QED
    BY <1>5, <2>1, <2>2 DEF DeadAscend
<1>10. ListedOnce'
  <2> SUFFICES ASSUME NEW i \in 1..(l - 1), NEW j \in 1..(l - 1),
                      listeners'[i] = listeners'[j]
               PROVE  i = j
    BY <1>4 DEF ListedOnce, IsInjective
  <2>1. \A a, b \in 1..l : listeners[a] = listeners[b] => a = b
    BY <1>1 DEF Dispatching, ListedOnce, IsInjective
  <2>2. QED
    BY <1>1, <1>2, <1>4, <2>1
<1>11. ASSUME NEW k \in 1..(l - 1)
       PROVE  (\E i \in 1..(n - 1) : dead'[i] = k) <=> listeners'[k] \in unreached
  <2>1. \A i \in 1..n : dead[i] <= m
    BY <1>1, <1>2 DEF m
  <2>2. CASE k < m
    <3>1. k \in 1..l /\ listeners'[k] = listeners[k]
      BY <1>1, <1>4, <2>2
    <3>2. (\E i \in 1..(n - 1) : dead'[i] = k) <=> (\E i \in 1..n : dead[i] = k)
      BY <1>1, <1>2, <1>5, <2>2 DEF m
    <3>3. QED
      BY <1>1, <1>6, <3>1, <3>2 DEF Dispatching, DeadAreUnreached
  <2>3. CASE k >= m
    <3>1. k + 1 \in 1..l /\ listeners'[k] = listeners[k + 1]
      BY <1>1, <1>2, <1>4, <2>3
    <3>2. ~\E i \in 1..n : dead[i] = k + 1
      BY <1>1, <1>2, <2>1, <2>3
    <3>3. ~\E i \in 1..(n - 1) : dead'[i] = k
      BY <1>1, <1>2, <1>5, <2>3
    <3>4. QED
      BY <1>1, <1>6, <3>1, <3>2, <3>3 DEF Dispatching, DeadAreUnreached
  <2>4. QED
    BY <1>1, <1>2, <2>2, <2>3
<1>12. DeadAreUnreached'
  BY <1>5, <1>6, <1>7, <1>11 DEF DeadAreUnreached
<1>13. ToSet(listeners) \ ToSet(listeners') \subseteq unreached
  <2> SUFFICES ASSUME NEW j \in 1..l, j # m
               PROVE  listeners[j] \in ToSet(listeners')
    BY <1>1, <1>3 DEF ToSet
  <2>1. CASE j < m
    BY <1>1, <1>2, <1>4, <2>1 DEF ToSet
  <2>2. CASE j > m
    <3>1. j - 1 \in 1..(l - 1) /\ listeners'[j - 1] = listeners[j]
      BY <1>1, <1>2, <1>4, <2>2
    <3>2. QED
      BY <1>4, <3>1 DEF ToSet
  <2>3. QED
    BY <1>1, <1>2, <2>1, <2>2
<1>14. QED
  BY <1>8, <1>9, <1>10, <1>12, <1>13 DEF Dispatching

\* A shell that registers is appended, unless it is listed: it stays listed once.
LEMMA RegisterStep ==
  ASSUME DispatchTypes, Dispatching, NEW a \in Apps, RegisterListener(a)
  PROVE  /\ (DispatchTypes /\ Dispatching)'
         /\ ToSet(listeners) \subseteq ToSet(listeners')
<1>1. CASE Contains(listeners, a)
  BY <1>1 DEF RegisterListener, DispatchTypes, Dispatching, ListedOnce, TurnPastDead,
              DeadAscend, DeadAreUnreached, Indices
<1>2. CASE ~Contains(listeners, a)
  <2> DEFINE l == Len(listeners)
  <2>1. l \in Nat /\ DOMAIN listeners = 1..l
    BY LenProperties DEF DispatchTypes
  <2>2. \A j \in 1..l : listeners[j] # a
    BY <1>2 DEF Contains
  <2>3. /\ flinger = "idle" /\ dead = <<>> /\ turn = 1 /\ unreached = {}
        /\ UNCHANGED <<flinger, dead, turn, unreached>>
    BY DEF RegisterListener, Dispatching, TurnPastDead
  <2>4. /\ listeners' \in Seq(Apps) /\ Len(listeners') = l + 1
        /\ DOMAIN listeners' = 1..(l + 1)
        /\ listeners'[l + 1] = a
        /\ \A j \in 1..l : listeners'[j] = listeners[j]
    BY <1>2, <2>1, AppendProperties, LenProperties DEF RegisterListener, DispatchTypes
  <2> HIDE DEF l
  <2>5. DispatchTypes'
    BY <2>1, <2>3, <2>4, EmptySeq DEF DispatchTypes, Indices
  <2>6. ListedOnce'
    <3> SUFFICES ASSUME NEW i \in 1..(l + 1), NEW j \in 1..(l + 1),
                        listeners'[i] = listeners'[j]
                 PROVE  i = j
      BY <2>4 DEF ListedOnce, IsInjective
    <3>1. \A x, y \in 1..l : listeners[x] = listeners[y] => x = y
      BY <2>1 DEF Dispatching, ListedOnce, IsInjective
    <3>2. QED
      BY <2>1, <2>2, <2>4, <3>1
  <2>7. TurnPastDead' /\ DeadAscend' /\ DeadAreUnreached'
    BY <2>3, <2>4 DEF TurnPastDead, DeadAscend, DeadAreUnreached, Indices
  <2>8. ToSet(listeners) \subseteq ToSet(listeners')
    BY <2>1, <2>4 DEF ToSet
  <2>9. QED
    BY <2>5, <2>6, <2>7, <2>8 DEF Dispatching
<1>3. QED
  BY <1>1, <1>2

\* Every other step of inputflinger.
LEMMA LoopStep ==
  ASSUME DispatchTypes, Dispatching,
         FlingerBind \/ SendInputEvent \/ DispatchDone \/ Reply
  PROVE  (DispatchTypes /\ Dispatching)' /\ UNCHANGED listeners
<1>1. Len(listeners) \in Nat
  BY LenProperties DEF DispatchTypes
<1>2. CASE FlingerBind
  BY <1>1, <1>2 DEF FlingerBind, DispatchTypes, Dispatching, ListedOnce, TurnPastDead, DeadAscend,
              DeadAreUnreached, Indices
<1>3. CASE SendInputEvent
  BY <1>1, <1>3 DEF SendInputEvent, DispatchTypes, Dispatching, ListedOnce, TurnPastDead,
              DeadAscend, DeadAreUnreached, Indices
<1>4. CASE DispatchDone
  BY <1>1, <1>4 DEF DispatchDone, DispatchTypes, Dispatching, ListedOnce, TurnPastDead,
              DeadAscend, DeadAreUnreached, Indices
<1>5. CASE Reply
  <2>1. \A k \in Indices : listeners[k] \notin unreached
    BY <1>5 DEF Reply, Dispatching, DeadAreUnreached
  <2>2. QED
    BY <1>1, <1>5, <2>1 DEF Reply, DispatchTypes, Dispatching, ListedOnce, TurnPastDead,
                DeadAscend, DeadAreUnreached, Indices
<1>6. QED
  BY <1>2, <1>3, <1>4, <1>5 DEF FlingerBind, SendInputEvent, DispatchDone, Reply

\* The shells' own steps, one of which ends a call to a listener.
LEMMA ShellStep ==
  ASSUME DispatchTypes, Dispatching, NEW a \in Apps, Shell(a)
  PROVE  (DispatchTypes /\ Dispatching)' /\ UNCHANGED listeners
<1>1. Len(listeners) \in Nat
  BY LenProperties DEF DispatchTypes
<1>2. CASE UNCHANGED DispatchState
  BY <1>2 DEF DispatchState, DispatchTypes, Dispatching, ListedOnce, TurnPastDead,
              DeadAscend, DeadAreUnreached, Indices
<1>3. CASE AcceptEvent(a)
  BY <1>1, <1>3 DEF AcceptEvent, DispatchTypes, Dispatching, ListedOnce, TurnPastDead,
              DeadAscend, DeadAreUnreached, Indices
<1>4. CASE Answer(a) /\ flinger = "served"
  <2>1. CASE listeners[turn] = a
    <3>1. turn' = turn + 1 /\ flinger' = "dispatch" /\ UNCHANGED <<listeners, dead, unreached>>
      BY <1>4, <2>1 DEF Answer
    <3>2. turn \in 1..Len(listeners) /\ \A i \in DOMAIN dead : dead[i] < turn
      BY <1>4 DEF Dispatching, TurnPastDead, Indices
    <3>3. \A i \in DOMAIN dead : dead[i] \in Nat
      BY ElementOfSeq, LenProperties DEF DispatchTypes, Indices
    <3>4. DispatchTypes'
      BY <1>1, <3>1, <3>2 DEF DispatchTypes, Indices
    <3>5. TurnPastDead'
      BY <1>1, <3>1, <3>2, <3>3 DEF TurnPastDead
    <3>6. QED
      BY <3>1, <3>4, <3>5 DEF Dispatching, ListedOnce, DeadAscend, DeadAreUnreached, Indices
  <2>2. CASE listeners[turn] # a
    BY <1>2, <1>4, <2>2 DEF Answer, DispatchState
  <2>3. QED
    BY <2>1, <2>2
<1>5. QED
  BY <1>2, <1>3, <1>4 DEF Shell, Register, Bind, Answer, AcceptEvent, DispatchState

\* A shell that dies during a call to it is unreached; inputflinger's death takes
\* everything.
LEMMA DeathStep ==
  ASSUME DispatchTypes, Dispatching, (\E a \in Apps : AppCrash(a)) \/ FlingerCrash
  PROVE  /\ (DispatchTypes /\ Dispatching)'
         /\ UNCHANGED listeners \/ flinger' = "down"
<1>1. CASE FlingerCrash
  <2>1. /\ flinger' = "down" /\ listeners' = <<>> /\ turn' = 1 /\ dead' = <<>>
        /\ unreached' = {}
    BY <1>1 DEF FlingerCrash
  <2>2. listeners' \in Seq(Apps) /\ Len(listeners') = 0 /\ dead' \in Seq(Indices')
    BY <2>1, EmptySeq
  <2>3. DispatchTypes'
    BY <2>1, <2>2 DEF DispatchTypes
  <2>4. Dispatching'
    BY <2>1 DEF Dispatching, ListedOnce, IsInjective, TurnPastDead, DeadAscend,
                DeadAreUnreached, Indices
  <2>5. QED
    BY <2>1, <2>3, <2>4
<1>2. ASSUME NEW a \in Apps, AppCrash(a)
      PROVE  (DispatchTypes /\ Dispatching)' /\ UNCHANGED listeners
  <2>1. CASE flinger \in {"call", "served"} /\ listeners[turn] = a
    <3>1. turn \in Indices
      BY <2>1 DEF Dispatching, TurnPastDead
    <3>2. Unreached /\ flinger' = "dispatch" /\ UNCHANGED listeners
      BY <1>2, <2>1 DEF AppCrash
    <3>3. QED
      BY <2>1, <3>1, <3>2, UnreachedStep
  <2>2. CASE ~(flinger \in {"call", "served"} /\ listeners[turn] = a)
    BY <1>2, <2>2 DEF AppCrash, DispatchTypes, Dispatching, ListedOnce, TurnPastDead,
                DeadAscend, DeadAreUnreached, Indices
  <2>3. QED
    BY <2>1, <2>2
<1>3. QED
  BY <1>1, <1>2

\* A connection to a listener succeeds, or the listener is unreached.
LEMMA ConnectStep ==
  ASSUME DispatchTypes, Dispatching, Connect
  PROVE  (DispatchTypes /\ Dispatching)' /\ UNCHANGED listeners
<1>1. CASE Bound(listeners[turn])
  <2>1. /\ flinger = "dispatch" /\ turn \in Indices /\ flinger' = "call"
        /\ UNCHANGED <<listeners, turn, dead, unreached>>
    BY <1>1 DEF Connect
  <2>2. DispatchTypes'
    BY <2>1 DEF DispatchTypes, Indices
  <2>3. TurnPastDead'
    BY <2>1 DEF Dispatching, TurnPastDead, Indices
  <2>4. QED
    BY <2>1, <2>2, <2>3 DEF Dispatching, ListedOnce, DeadAscend, DeadAreUnreached, Indices
<1>2. CASE ~Bound(listeners[turn])
  <2>1. /\ flinger = "dispatch" /\ turn \in Indices
        /\ Unreached /\ flinger' = "dispatch" /\ UNCHANGED listeners
    BY <1>2 DEF Connect
  <2>2. QED
    BY <2>1, UnreachedStep
<1>3. QED
  BY <1>1, <1>2

\* What any step does to the list of listeners, and that it keeps the invariant.
LEMMA DispatchStep ==
  ASSUME TypeOK, Dispatching, [Next]_vars
  PROVE  /\ (TypeOK /\ Dispatching)'
         /\ \/ ToSet(listeners) \ ToSet(listeners') \subseteq unreached
            \/ flinger' = "down"
<1>1. DispatchTypes
  BY DEF TypeOK, DispatchTypes
<1>2. CASE Flinger
  <2>1. CASE Connect
    BY <1>1, <2>1, ConnectStep, ShellTypes DEF TypeOK, DispatchTypes
  <2>2. CASE \E a \in Apps : RegisterListener(a)
    BY <1>1, <2>2, RegisterStep, ShellTypes DEF TypeOK, DispatchTypes
  <2>3. CASE Sweep
    BY <1>1, <2>3, SweepStep, ShellTypes DEF TypeOK, DispatchTypes
  <2>4. CASE FlingerBind \/ SendInputEvent \/ DispatchDone \/ Reply
    BY <1>1, <2>4, LoopStep, ShellTypes DEF TypeOK, DispatchTypes
  <2>5. QED
    BY <1>2, <2>1, <2>2, <2>3, <2>4 DEF Flinger
<1>3. CASE \E a \in Apps : Shell(a)
  BY <1>1, <1>3, ShellStep, ShellTypes DEF TypeOK, DispatchTypes
<1>4. CASE (\E a \in Apps : AppCrash(a)) \/ FlingerCrash
  BY <1>1, <1>4, DeathStep, ShellTypes DEF TypeOK, DispatchTypes
<1>5. CASE UNCHANGED vars
  BY <1>5 DEF vars, TypeOK, Dispatching, ListedOnce, TurnPastDead, DeadAscend,
              DeadAreUnreached, Indices
<1>6. QED
  BY <1>2, <1>3, <1>4, <1>5 DEF Next

----------------------------------------------------------------------------
(* Theorems.                                                               *)

\* However shells register, die and come back while an event is dispatched, the dead
\* indices are those of the listeners this event did not reach.
THEOREM DispatchingAlways == Spec => [](TypeOK /\ Dispatching)
<1>1. Init => TypeOK /\ Dispatching
  <2> SUFFICES ASSUME Init
               PROVE  TypeOK /\ Dispatching
    OBVIOUS
  <2>1. listeners \in Seq(Apps) /\ Len(listeners) = 0 /\ dead \in Seq(Indices)
    BY EmptySeq DEF Init
  <2>2. TypeOK
    BY <2>1, CrashAssumption DEF Init, TypeOK
  <2>3. Dispatching
    BY DEF Init, Dispatching, ListedOnce, IsInjective, TurnPastDead, DeadAscend,
           DeadAreUnreached, Indices
  <2>4. QED
    BY <2>2, <2>3
<1>2. TypeOK /\ Dispatching /\ [Next]_vars => (TypeOK /\ Dispatching)'
  BY DispatchStep
<1>3. QED
  BY <1>1, <1>2, PTL DEF Spec

\* inputflinger's and the shells' variables keep their types: in particular every index
\* in dead_listeners is one of the list it will be removed from.
THEOREM DispatchTypesAlways == Spec => []TypeOK
<1> QED
  BY DispatchingAlways, PTL

\* However often a shell dies and registers again, it is listed at most once.
THEOREM AlwaysListedOnce == Spec => []ListedOnce
<1>1. Dispatching => ListedOnce
  BY DEF Dispatching
<1>2. QED
  BY <1>1, DispatchingAlways, PTL

\* An event drops exactly the listeners it failed to reach, whatever the number of the
\* dead and wherever they are in the list.
THEOREM ExactlyUnreachedDropped == Spec => UnreachedDropped
<1> DEFINE Dropped ==
      /\ ToSet(listeners) \ ToSet(listeners') \subseteq unreached \/ flinger' = "down"
      /\ flinger = "sweep" /\ flinger' = "idle" => ToSet(listeners') \cap unreached = {}
<1>1. TypeOK /\ Dispatching /\ [Next]_vars => [Dropped]_vars
  <2> SUFFICES ASSUME TypeOK, Dispatching, [Next]_vars
               PROVE  Dropped
    OBVIOUS
  <2>1. ToSet(listeners) \ ToSet(listeners') \subseteq unreached \/ flinger' = "down"
    BY DispatchStep
  <2>2. ASSUME flinger = "sweep", flinger' = "idle"
        PROVE  ToSet(listeners') \cap unreached = {}
    <3>1. Reply
      BY <2>2 DEF Next, Flinger, FlingerBind, SendInputEvent, Connect, DispatchDone, Sweep,
                  RegisterListener, Shell, Register, Bind, AcceptEvent, Answer, AppCrash,
                  FlingerCrash, vars
    <3>2. dead = <<>> /\ listeners' = listeners
      BY <3>1 DEF Reply
    <3>3. DOMAIN listeners = Indices
      BY LenProperties DEF TypeOK, Indices
    <3>4. QED
      BY <3>2, <3>3 DEF Dispatching, DeadAreUnreached, ToSet
  <2>3. QED
    BY <2>1, <2>2
<1>2. QED
  BY <1>1, DispatchingAlways, PTL DEF Spec, UnreachedDropped
=============================================================================
