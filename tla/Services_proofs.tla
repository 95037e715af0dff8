--------------------------- MODULE Services_proofs ---------------------------
(***************************************************************************)
(* Proofs about Services, for every number of threads, applications, modes *)
(* and deaths: whose answer a process gets, and what it knows by it.       *)
(***************************************************************************)
EXTENDS Services, SequenceTheorems, TLAPS

\* What stays of a sequence, and where it goes.
LEMMA RemoveAtElements ==
  ASSUME NEW S, NEW s \in Seq(S), NEW i \in 1..Len(s)
  PROVE  /\ RemoveAt(s, i) \in Seq(S)
         /\ Len(RemoveAt(s, i)) = Len(s) - 1
         /\ \A j \in 1..(Len(s) - 1) :
              RemoveAt(s, i)[j] = IF j < i THEN s[j] ELSE s[j + 1]
<1> DEFINE p == SubSeq(s, 1, i - 1)
           q == SubSeq(s, i + 1, Len(s))
<1>1. Len(s) \in Nat
  BY LenProperties
<1>2. /\ p \in Seq(S) /\ Len(p) = i - 1
      /\ \A j \in 1..(i - 1) : p[j] = s[j]
  <2>1. \A j \in 1..(i - 1) : s[j] \in S
    BY <1>1, ElementOfSeq
  <2>2. QED
    BY <1>1, <2>1, SubSeqProperties
<1>3. /\ q \in Seq(S) /\ Len(q) = Len(s) - i
      /\ \A j \in 1..(Len(s) - i) : q[j] = s[i + j]
  <2>1. \A j \in (i + 1)..Len(s) : s[j] \in S
    BY <1>1, ElementOfSeq
  <2>2. QED
    BY <1>1, <2>1, SubSeqProperties
<1>4. RemoveAt(s, i) = p \o q
  BY DEF RemoveAt
<1> HIDE DEF p, q
<1>5. /\ p \o q \in Seq(S) /\ Len(p \o q) = Len(p) + Len(q)
      /\ \A j \in 1..(Len(p) + Len(q)) :
           (p \o q)[j] = IF j <= Len(p) THEN p[j] ELSE q[j - Len(p)]
  BY <1>2, <1>3, ConcatProperties
<1>6. Len(p) + Len(q) = Len(s) - 1
  BY <1>1, <1>2, <1>3
<1>7. ASSUME NEW j \in 1..(Len(s) - 1)
      PROVE  (p \o q)[j] = IF j < i THEN s[j] ELSE s[j + 1]
  <2>1. ASSUME j < i
        PROVE  (p \o q)[j] = s[j]
    BY <1>1, <1>2, <1>5, <1>6, <2>1
  <2>2. ASSUME ~(j < i)
        PROVE  (p \o q)[j] = s[j + 1]
    <3>1. j - Len(p) \in 1..(Len(s) - i) /\ i + (j - Len(p)) = j + 1
      BY <1>1, <1>2, <2>2
    <3>2. (p \o q)[j] = q[j - Len(p)]
      BY <1>1, <1>2, <1>5, <1>6, <2>2
    <3>3. QED
      BY <1>3, <2>2, <3>1, <3>2
  <2>3. QED
    BY <2>1, <2>2, Zenon
<1>8. QED
  BY <1>4, <1>5, <1>6, <1>7

-----------------------------------------------------------------------------
(* Connections: what a call, a reply and a death leave of them.            *)

\* What Asks reads of a process.
Same(q)     == pc'[q] = pc[q] /\ (q \in Clients => job'[q] = job[q])
Unqueued(p) == \A s \in Servers : \A i \in DOMAIN queue[s] : queue[s][i].from # p
BusTypes    == queue \in [Servers -> Seq(Requests)] /\ reply \in [Processes -> Answers]

LEMMA AsksSame ==
  ASSUME NEW q, NEW s, NEW r, Same(q), Asks(q, s, r)
  PROVE  Asks(q, s, r)'
BY DEF Asks, Same, Clients

\* A process that has its answer, or asks nothing, is in no queue.
LEMMA NotQueued ==
  ASSUME Outstanding, NEW p,
         \/ reply[p] # "waiting"
         \/ \A s \in Servers : \A i \in DOMAIN queue[s] : ~Asks(p, s, queue[s][i])
  PROVE  Unqueued(p)
BY DEF Outstanding, Unqueued

LEMMA QueueFacts ==
  ASSUME BusTypes, NEW s \in Servers
  PROVE  /\ queue[s] \in Seq(Requests) /\ Len(queue[s]) \in Nat
         /\ DOMAIN queue[s] = 1..Len(queue[s])
         /\ \A i \in DOMAIN queue[s] : queue[s][i] \in Requests /\ queue[s][i].from \in Processes
<1>1. queue[s] \in Seq(Requests)
  BY DEF BusTypes
<1>2. Len(queue[s]) \in Nat /\ DOMAIN queue[s] = 1..Len(queue[s])
  BY <1>1, LenProperties
<1>3. \A i \in DOMAIN queue[s] : queue[s][i] \in Requests
  BY <1>1, <1>2, ElementOfSeq
<1>4. QED
  BY <1>1, <1>2, <1>3 DEF Requests

\* A step of p that calls nobody.
LEMMA RestKeeps ==
  ASSUME BusTypes, Outstanding, NEW p \in Processes, Unqueued(p), UNCHANGED queue,
         \A q \in Processes \ {p} : Same(q) /\ reply'[q] = reply[q]
  PROVE  Outstanding'
<1> SUFFICES ASSUME NEW s \in Servers
             PROVE  /\ \A i \in DOMAIN queue[s] :
                         reply'[queue[s][i].from] = "waiting" /\ Asks(queue[s][i].from, s, queue[s][i])'
                    /\ \A i, j \in DOMAIN queue[s] :
                         queue[s][i].from = queue[s][j].from => i = j
  BY DEF Outstanding
<1>1. ASSUME NEW i \in DOMAIN queue[s]
      PROVE  /\ reply'[queue[s][i].from] = "waiting"
             /\ Asks(queue[s][i].from, s, queue[s][i])'
  <2>1. queue[s][i].from \in Processes \ {p}
    BY QueueFacts DEF Unqueued
  <2>2. reply[queue[s][i].from] = "waiting" /\ Asks(queue[s][i].from, s, queue[s][i])
    BY DEF Outstanding
  <2>3. QED
    BY <2>1, <2>2, AsksSame
<1>2. QED
  BY <1>1 DEF Outstanding

\* A call of p, to a server that listens or does not.
LEMMA CallKeeps ==
  ASSUME BusTypes, Outstanding, NEW p \in Processes, Unqueued(p), NEW to \in Servers,
         NEW code, NEW arg, [from |-> p, code |-> code, arg |-> arg] \in Requests,
         Call(p, to, code, arg), Asks(p, to, [from |-> p, code |-> code, arg |-> arg])',
         \A q \in Processes \ {p} : Same(q)
  PROVE  /\ Outstanding' /\ BusTypes'
         /\ reply'[p] \in {"waiting", "error"}
         /\ reply'[p] = "waiting" <=> Listening(to)
         /\ \A q \in Processes \ {p} : reply'[q] = reply[q]
<1> DEFINE new == [from |-> p, code |-> code, arg |-> arg]
<1>1. /\ reply' \in [Processes -> Answers] /\ reply'[p] \in {"waiting", "error"}
      /\ \A q \in Processes \ {p} : reply'[q] = reply[q]
  BY DEF Call, BusTypes, Answers
<1>2. CASE ~Listening(to)
  <2>1. UNCHANGED queue /\ reply'[p] = "error"
    BY <1>2 DEF Call, BusTypes
  <2>2. QED
    BY <1>1, <1>2, <2>1, RestKeeps DEF BusTypes, Listening
<1>3. CASE Listening(to)
  <2>1. /\ queue' = [queue EXCEPT ![to] = Append(queue[to], new)]
        /\ reply'[p] = "waiting"
    BY <1>3 DEF Call, BusTypes
  <2> HIDE DEF new
  <2>2. /\ Append(queue[to], new) \in Seq(Requests)
        /\ Len(Append(queue[to], new)) = Len(queue[to]) + 1
        /\ \A i \in 1..Len(queue[to]) : Append(queue[to], new)[i] = queue[to][i]
        /\ Append(queue[to], new)[Len(queue[to]) + 1] = new
        /\ DOMAIN Append(queue[to], new) = 1..(Len(queue[to]) + 1)
    BY QueueFacts, AppendProperties, LenProperties DEF new
  <2>3. BusTypes'
    BY <1>1, <2>1, <2>2 DEF BusTypes
  <2>4. ASSUME NEW s \in Servers, NEW i \in DOMAIN queue'[s]
        PROVE  \/ i \in DOMAIN queue[s] /\ queue'[s][i] = queue[s][i]
               \/ s = to /\ i = Len(queue[s]) + 1 /\ queue'[s][i] = new
    BY <2>1, <2>2, <2>4, QueueFacts DEF BusTypes
  <2>5. new.from = p /\ Asks(p, to, new)'
    BY DEF new
  <2>6. ASSUME NEW s \in Servers, NEW i \in DOMAIN queue'[s], NEW r, r = queue'[s][i]
        PROVE  reply'[r.from] = "waiting" /\ Asks(r.from, s, r)'
    <3>1. CASE i \in DOMAIN queue[s] /\ r = queue[s][i]
      <4>1. r.from \in Processes \ {p}
        BY <3>1, QueueFacts DEF Unqueued
      <4>2. reply[r.from] = "waiting" /\ Asks(r.from, s, r)
        BY <3>1 DEF Outstanding
      <4>3. QED
        BY <1>1, <4>1, <4>2, AsksSame
    <3>2. CASE s = to /\ r = new
      BY <2>1, <2>5, <3>2
    <3>3. QED
      BY <2>4, <2>6, <3>1, <3>2
  <2>7. ASSUME NEW s \in Servers, NEW i \in DOMAIN queue'[s], NEW j \in DOMAIN queue'[s],
               queue'[s][i].from = queue'[s][j].from
        PROVE  i = j
    BY <2>4, <2>5, <2>7 DEF Outstanding, Unqueued
  <2>8. Outstanding'
    BY <2>6, <2>7 DEF Outstanding
  <2>9. QED
    BY <1>1, <1>3, <2>1, <2>3, <2>8 DEF Listening
<1>4. QED
  BY <1>2, <1>3

\* Server s answers the request that waits longest.
LEMMA ServeKeeps ==
  ASSUME BusTypes, Outstanding, NEW s \in Servers, queue[s] # <<>>,
         NEW answer \in Answers, Serve(s, answer),
         \A q \in Processes : Unqueued(q) \/ Same(q)
  PROVE  /\ Outstanding' /\ BusTypes'
         /\ reply'[Request(s).from] = answer
         /\ \A q \in Processes \ {Request(s).from} : reply'[q] = reply[q]
<1>1. /\ queue[s] \in Seq(Requests) /\ Len(queue[s]) \in Nat \ {0}
      /\ DOMAIN queue[s] = 1..Len(queue[s])
  BY QueueFacts, EmptySeq
<1>2. Request(s) = queue[s][1] /\ queue[s][1].from \in Processes
  BY <1>1, HeadTailProperties, QueueFacts DEF Request
<1>3. /\ Tail(queue[s]) \in Seq(Requests) /\ DOMAIN Tail(queue[s]) = 1..(Len(queue[s]) - 1)
      /\ \A i \in 1..(Len(queue[s]) - 1) : Tail(queue[s])[i] = queue[s][i + 1]
  BY <1>1, HeadTailProperties, LenProperties
<1>4. /\ queue' = [queue EXCEPT ![s] = Tail(queue[s])]
      /\ reply' = [reply EXCEPT ![Request(s).from] = answer]
  BY DEF Serve
<1>5. BusTypes'
  BY <1>2, <1>3, <1>4 DEF BusTypes
<1>6. /\ reply'[Request(s).from] = answer
      /\ \A q \in Processes \ {Request(s).from} : reply'[q] = reply[q]
  BY <1>2, <1>4 DEF BusTypes
<1>7. ASSUME NEW t \in Servers, NEW i \in DOMAIN queue'[t]
      PROVE  \/ t # s /\ i \in DOMAIN queue[t] /\ queue'[t][i] = queue[t][i]
             \/ t = s /\ i \in Nat /\ i + 1 \in DOMAIN queue[t] /\ i + 1 # 1
                      /\ queue'[t][i] = queue[t][i + 1]
  BY <1>1, <1>3, <1>4, <1>7 DEF BusTypes
<1>8. ASSUME NEW t \in Servers, NEW k \in DOMAIN queue[t], t # s \/ k # 1,
             NEW r, r = queue[t][k]
      PROVE  reply'[r.from] = "waiting" /\ Asks(r.from, t, r)'
  <2>1. r.from \in Processes /\ Same(r.from)
    BY <1>8, QueueFacts DEF Unqueued
  <2>2. reply[r.from] = "waiting" /\ Asks(r.from, t, r)
    BY <1>8 DEF Outstanding
  <2>3. r.from # queue[s][1].from
    <3>1. 1 \in DOMAIN queue[s] /\ Asks(queue[s][1].from, s, queue[s][1])
      BY <1>1 DEF Outstanding
    <3>2. CASE t = s
      BY <1>8, <3>1, <3>2 DEF Outstanding
    <3>3. CASE t # s
      BY <2>2, <3>1, <3>3, ProcessesAssumption DEF Asks, Clients, Servers
    <3>4. QED
      BY <3>2, <3>3
  <2>4. QED
    BY <1>2, <1>6, <2>1, <2>2, <2>3, AsksSame
<1>9. ASSUME NEW t \in Servers, NEW i \in DOMAIN queue'[t], NEW r, r = queue'[t][i]
      PROVE  reply'[r.from] = "waiting" /\ Asks(r.from, t, r)'
  <2>1. PICK k \in DOMAIN queue[t] : (t # s \/ k # 1) /\ r = queue[t][k]
    BY <1>7, <1>9
  <2>2. QED
    BY <1>8, <2>1, Zenon
<1>10. ASSUME NEW t \in Servers, NEW i \in DOMAIN queue'[t], NEW j \in DOMAIN queue'[t],
              queue'[t][i].from = queue'[t][j].from
       PROVE  i = j
  BY <1>7, <1>10 DEF Outstanding
<1>11. Outstanding'
  BY <1>9, <1>10 DEF Outstanding
<1>12. QED
  BY <1>5, <1>6, <1>11

LEMMA WithoutElements ==
  ASSUME NEW q \in Seq(Requests), NEW p,
         \A i, j \in DOMAIN q : q[i].from = q[j].from => i = j
  PROVE  /\ Without(q, p) \in Seq(Requests)
         /\ \A i \in DOMAIN Without(q, p) :
              \E k \in DOMAIN q : Without(q, p)[i] = q[k] /\ q[k].from # p
         /\ \A i, j \in DOMAIN Without(q, p) :
              Without(q, p)[i].from = Without(q, p)[j].from => i = j
<1>1. Len(q) \in Nat /\ DOMAIN q = 1..Len(q)
  BY LenProperties
<1>2. CASE ~\E i \in DOMAIN q : q[i].from = p
  <2>1. Without(q, p) = q
    BY <1>2 DEF Without
  <2>2. QED
    BY <1>2, <2>1
<1>3. CASE \E i \in DOMAIN q : q[i].from = p
  <2>1. PICK n \in 1..Len(q) : q[n].from = p /\ Without(q, p) = RemoveAt(q, n)
    BY <1>1, <1>3 DEF Without
  <2>2. /\ RemoveAt(q, n) \in Seq(Requests) /\ Len(RemoveAt(q, n)) = Len(q) - 1
        /\ \A j \in 1..(Len(q) - 1) : RemoveAt(q, n)[j] = IF j < n THEN q[j] ELSE q[j + 1]
    BY RemoveAtElements
  <2>3. DOMAIN RemoveAt(q, n) = 1..(Len(q) - 1)
    BY <2>2, LenProperties
  <2> DEFINE m(i) == IF i < n THEN i ELSE i + 1
  <2>4. ASSUME NEW i \in 1..(Len(q) - 1)
        PROVE  m(i) \in DOMAIN q /\ m(i) # n /\ RemoveAt(q, n)[i] = q[m(i)]
    BY <1>1, <2>2
  <2>5. \A i, j \in 1..(Len(q) - 1) : m(i) = m(j) => i = j
    BY <1>1
  <2> HIDE DEF m
  <2>6. \A i \in 1..(Len(q) - 1) : q[m(i)].from # p
    BY <1>1, <2>1, <2>4
  <2>7. \A i, j \in 1..(Len(q) - 1) : q[m(i)].from = q[m(j)].from => i = j
    BY <2>4, <2>5
  <2>8. \A i \in 1..(Len(q) - 1) :
          \E k \in DOMAIN q : RemoveAt(q, n)[i] = q[k] /\ q[k].from # p
    BY <2>4, <2>6
  <2>9. \A i, j \in 1..(Len(q) - 1) :
          RemoveAt(q, n)[i].from = RemoveAt(q, n)[j].from => i = j
    BY <2>4, <2>7
  <2>10. QED
    BY <2>1, <2>2, <2>3, <2>8, <2>9
<1>4. QED
  BY <1>2, <1>3

\* Server s dies: its queue fails, its own connection is taken back.
LEMMA DiesKeeps ==
  ASSUME TypeOK, Outstanding, NEW s \in Servers, Dies(s), UNCHANGED job
  PROVE  /\ Outstanding' /\ BusTypes'
         /\ \A q \in Processes \ {s} :
              /\ Same(q)
              /\ \/ reply'[q] = reply[q]
                 \/ reply'[q] = "error" /\ \E r : Asks(q, s, r)
<1> USE DEF BusTypes
<1>1. /\ queue \in [Servers -> Seq(Requests)] /\ reply \in [Processes -> Answers]
      /\ s \in Processes /\ pc \in [Processes -> Places]
  BY DEF TypeOK, Processes
<1>2. /\ queue' = [t \in Servers |-> IF t = s THEN <<>> ELSE Without(queue[t], s)]
      /\ reply' = [p \in Processes |-> IF p = s THEN None
                                       ELSE IF p \in Waiters(s) THEN "error" ELSE reply[p]]
      /\ pc' = [pc EXCEPT ![s] = "down"]
  BY <1>1 DEF Dies, Goto
<1>3. \A q \in Processes \ {s} : Same(q)
  BY <1>1, <1>2 DEF Same
<1>4. /\ reply' \in [Processes -> Answers]
      /\ \A q \in Processes \ {s} : reply'[q] = IF q \in Waiters(s) THEN "error" ELSE reply[q]
  BY <1>1, <1>2 DEF Answers
<1>5. ASSUME NEW t \in Servers, t # s
      PROVE  /\ queue'[t] \in Seq(Requests)
             /\ \A i \in DOMAIN queue'[t] :
                  \E k \in DOMAIN queue[t] : queue'[t][i] = queue[t][k] /\ queue[t][k].from # s
             /\ \A i, j \in DOMAIN queue'[t] : queue'[t][i].from = queue'[t][j].from => i = j
  <2>1. queue[t] \in Seq(Requests) /\ queue'[t] = Without(queue[t], s)
    BY <1>1, <1>2, <1>5
  <2>2. \A i, j \in DOMAIN queue[t] : queue[t][i].from = queue[t][j].from => i = j
    BY DEF Outstanding
  <2>3. QED
    BY <2>1, <2>2, WithoutElements
<1>6. queue'[s] = <<>> /\ DOMAIN queue'[s] = {} /\ queue' \in [Servers -> Seq(Requests)]
  <2>1. queue'[s] = <<>> /\ <<>> \in Seq(Requests)
    BY <1>2
  <2>2. QED
    BY <1>2, <1>5, <2>1
<1>7. ASSUME NEW t \in Servers, NEW i \in DOMAIN queue'[t], NEW r, r = queue'[t][i]
      PROVE  reply'[r.from] = "waiting" /\ Asks(r.from, t, r)'
  <2>1. t # s
    BY <1>6, <1>7
  <2>2. PICK k \in DOMAIN queue[t] : r = queue[t][k] /\ r.from # s
    BY <1>5, <1>7, <2>1
  <2>3. r.from \in Processes \ {s}
    BY <1>1, <2>2, QueueFacts
  <2>4. reply[r.from] = "waiting" /\ Asks(r.from, t, r)
    BY <2>2 DEF Outstanding
  <2>5. r.from \notin Waiters(s)
    <3>1. ASSUME NEW j \in DOMAIN queue[s], queue[s][j].from = r.from
          PROVE  FALSE
      <4>1. Asks(r.from, s, queue[s][j])
        BY <3>1 DEF Outstanding
      <4>2. QED
        BY <2>1, <2>4, <4>1, ProcessesAssumption DEF Asks, Clients, Servers
    <3>2. QED
      BY <3>1 DEF Waiters
  <2>6. QED
    BY <1>3, <1>4, <2>3, <2>4, <2>5, AsksSame
<1>8. ASSUME NEW t \in Servers, NEW i \in DOMAIN queue'[t], NEW j \in DOMAIN queue'[t],
             queue'[t][i].from = queue'[t][j].from
      PROVE  i = j
  <2>1. t # s
    BY <1>6, <1>8
  <2>2. QED
    BY <1>5, <1>8, <2>1
<1>9. Outstanding'
  BY <1>7, <1>8 DEF Outstanding
<1>10. ASSUME NEW q \in Waiters(s)
       PROVE  \E r : Asks(q, s, r)
  BY DEF Waiters, Outstanding
<1>11. QED
  BY <1>3, <1>4, <1>6, <1>9, <1>10

-----------------------------------------------------------------------------
(* Steps of one process that calls, and of what they leave of the others.  *)

Inv == TypeOK /\ Outstanding /\ Knowledge

\* Only p goes on.
Step(p) ==
  /\ pc' \in [Processes -> Places] /\ job' \in [Clients -> Jobs]
  /\ \A q \in Processes \ {p} : Same(q)

LEMMA ProcessFacts ==
  /\ Servers \subseteq Processes /\ Clients \subseteq Processes
  /\ Threads \subseteq Clients /\ Apps \subseteq Clients
  /\ \A c \in Clients : c \notin Servers /\ c \notin {"manager", "power", "bar"}
  /\ \A c \in Threads : c \notin Apps
BY ProcessesAssumption DEF Processes, Clients, Servers

\* A client goes to l with job j.
LEMMA ClientGoes ==
  ASSUME TypeOK, NEW c \in Clients, NEW l \in Places, NEW j \in Jobs,
         Goto(c, l), job' = [job EXCEPT ![c] = j]
  PROVE  Step(c) /\ pc'[c] = l /\ job'[c] = j /\ pc'["power"] = pc["power"]
BY ProcessFacts DEF TypeOK, Goto, Step, Same, Servers

LEMMA ClientCalls ==
  ASSUME TypeOK, Outstanding, NEW c \in Processes, Unqueued(c), Step(c), NEW to \in Servers,
         NEW code, NEW arg, [from |-> c, code |-> code, arg |-> arg] \in Requests,
         Call(c, to, code, arg), Asks(c, to, [from |-> c, code |-> code, arg |-> arg])'
  PROVE  /\ Outstanding' /\ BusTypes'
         /\ reply'[c] \in {"waiting", "error"}
         /\ reply'[c] = "waiting" <=> Listening(to)
         /\ \A q \in Processes \ {c} : reply'[q] = reply[q]
BY CallKeeps DEF TypeOK, BusTypes, Step

LEMMA ClientRests ==
  ASSUME TypeOK, Outstanding, NEW c \in Processes, Unqueued(c), Step(c), NEW r \in Answers,
         UNCHANGED queue, reply' = [reply EXCEPT ![c] = r]
  PROVE  /\ Outstanding' /\ BusTypes' /\ reply'[c] = r
         /\ \A q \in Processes \ {c} : reply'[q] = reply[q]
<1>1. /\ BusTypes' /\ reply'[c] = r
      /\ \A q \in Processes \ {c} : reply'[q] = reply[q]
  BY DEF TypeOK, BusTypes
<1>2. QED
  BY <1>1, RestKeeps DEF TypeOK, BusTypes, Step

\* What a process knows stays true when only the processes of P move or are answered.
LEMMA OthersKnow ==
  ASSUME Inv, NEW P, pc'["power"] = pc["power"], UNCHANGED mode,
         \A q \in Processes \ P : Same(q) /\ reply'[q] = reply[q],
         \A a \in Apps \ P : own'[a] = own[a],
         DOMAIN seen' \subseteq Threads,
         \A t \in Threads \ P :
           /\ t \in DOMAIN seen' <=> t \in DOMAIN seen
           /\ t \in DOMAIN seen => seen'[t] = seen[t],
         \A q \in P \cap (Clients \cup {"bar"}) : KnowsPath(q)',
         \A t \in P \cap Threads : ThreadKnows(t)',
         \A a \in P \cap Apps : AppKnows(a)'
  PROVE  Knowledge'
<1>1. (pc["power"] # "serve" => mode = Balanced)'
  BY DEF Inv, Knowledge
<1>2. ASSUME NEW d \in Clients \cup {"bar"}, d \notin P
      PROVE  KnowsPath(d)'
  <2>1. pc'[d] = pc[d] /\ reply'[d] = reply[d]
    BY <1>2, ProcessFacts DEF Same, Servers
  <2>2. QED
    BY <2>1 DEF Inv, Knowledge, KnowsPath, Resolving
<1>3. ASSUME NEW t \in Threads, t \notin P
      PROVE  ThreadKnows(t)'
  <2>1. /\ pc'[t] = pc[t] /\ reply'[t] = reply[t] /\ job'[t] = job[t]
        /\ t \in DOMAIN seen => seen'[t] = seen[t]
        /\ t \in DOMAIN seen' <=> t \in DOMAIN seen
        /\ ThreadKnows(t)
    BY <1>3, ProcessFacts DEF Same, Inv, Knowledge
  <2>2. QED
    BY <2>1 DEF ThreadKnows, Reading
<1>4. ASSUME NEW a \in Apps, a \notin P
      PROVE  AppKnows(a)'
  <2>1. /\ pc'[a] = pc[a] /\ reply'[a] = reply[a] /\ job'[a] = job[a] /\ own'[a] = own[a]
        /\ AppKnows(a)
    BY <1>4, ProcessFacts DEF Same, Inv, Knowledge
  <2>2. QED
    BY <2>1 DEF AppKnows
<1>5. \A q \in Clients \cup {"bar"} : KnowsPath(q)'
  BY <1>2
<1>6. (\A t \in Threads : ThreadKnows(t)') /\ (\A a \in Apps : AppKnows(a)')
  BY <1>3, <1>4
<1>7. QED
  BY <1>1, <1>5, <1>6 DEF Knowledge

LEMMA MoverKnows ==
  ASSUME Inv, NEW c \in Processes \ {"power"}, Step(c), UNCHANGED mode,
         \A q \in Processes \ {c} : reply'[q] = reply[q],
         \A a \in Apps \ {c} : own'[a] = own[a],
         DOMAIN seen' \subseteq Threads,
         \A t \in Threads \ {c} :
           /\ t \in DOMAIN seen' <=> t \in DOMAIN seen
           /\ t \in DOMAIN seen => seen'[t] = seen[t],
         c \in Clients \cup {"bar"} => KnowsPath(c)',
         c \in Threads => ThreadKnows(c)',
         c \in Apps => AppKnows(c)'
  PROVE  Knowledge'
<1>1. pc'["power"] = pc["power"]
  BY ProcessFacts DEF Step, Same, Servers
<1>2. \A q \in Processes \ {c} : Same(q) /\ reply'[q] = reply[q]
  BY DEF Step
<1>3. /\ \A q \in {c} \cap (Clients \cup {"bar"}) : KnowsPath(q)'
      /\ \A t \in {c} \cap Threads : ThreadKnows(t)'
      /\ \A a \in {c} \cap Apps : AppKnows(a)'
  OBVIOUS
<1>4. QED
  BY <1>1, <1>2, <1>3, OthersKnow

-----------------------------------------------------------------------------
(* The clients.                                                            *)

LEMMA BeginKeeps ==
  ASSUME Inv, NEW c \in Clients, NEW m \in Modes, NEW kind,
         kind \in {"power", "set", "settings"}, kind = "power" => c \in Threads,
         Begin(c, kind, m)
  PROVE  Inv'
<1> USE DEF Inv
<1> DEFINE j   == [NoJob EXCEPT !.kind = kind, !.arg = m]
           req == [from |-> c, code |-> "lookup", arg |-> "power"]
<1>1. pc[c] = "idle" /\ Goto(c, "find") /\ job' = [job EXCEPT ![c] = j]
      /\ Call(c, "manager", "lookup", "power")
      /\ UNCHANGED <<directory, mode, own, deaths, bar>>
  BY DEF Begin, Learn
<1>2. j \in Jobs /\ j.kind = kind /\ j.arg = m /\ j.set = FALSE /\ "find" \in Places
  BY ModesAssumption DEF NoJob, Jobs, Answers, Places
<1> HIDE DEF j
<1>3. Step(c) /\ pc'[c] = "find" /\ job'[c] = j /\ pc'["power"] = pc["power"]
  BY <1>1, <1>2, ClientGoes
<1>4. Unqueued(c)
  BY <1>1, NotQueued, ProcessFacts DEF Asks
<1>5. req \in Requests /\ Asks(c, "manager", req)'
  BY <1>3, ProcessFacts DEF Requests, Asks
<1>6. /\ Outstanding' /\ BusTypes' /\ reply'[c] \in {"waiting", "error"}
      /\ \A q \in Processes \ {c} : reply'[q] = reply[q]
  BY <1>1, <1>3, <1>4, <1>5, ClientCalls, ProcessFacts DEF Servers
<1>7. TypeOK'
  BY <1>1, <1>3, <1>6 DEF TypeOK, BusTypes, Step
<1>8. c \in Threads => c \notin DOMAIN seen
  BY <1>1 DEF Knowledge, ThreadKnows, Reading
<1>9. /\ DOMAIN seen' = DOMAIN seen \cup (IF kind = "power" THEN {c} ELSE {})
      /\ \A t \in DOMAIN seen \ {c} : seen'[t] = seen[t]
      /\ kind = "power" /\ pc["power"] = "serve" => mode \in seen'[c]
  BY <1>1 DEF Begin
<1>10. KnowsPath(c)'
  BY <1>6 DEF KnowsPath
<1>11. ASSUME c \in Threads
       PROVE  ThreadKnows(c)'
  BY <1>1, <1>2, <1>3, <1>8, <1>9, <1>11 DEF ThreadKnows, Reading
<1>12. ASSUME c \in Apps
       PROVE  AppKnows(c)'
  BY <1>1, <1>3, <1>12 DEF Knowledge, AppKnows
<1>13. DOMAIN seen' \subseteq Threads
  BY <1>9, ProcessFacts DEF Knowledge
<1>14. Knowledge'
  BY <1>1, <1>3, <1>6, <1>9, <1>10, <1>11, <1>12, <1>13, MoverKnows, ProcessFacts
<1>15. QED
  BY <1>6, <1>7, <1>14

\* A step of client c that adds to nobody's history.
LEMMA ClientKeeps ==
  ASSUME Inv, NEW c \in Clients, Step(c), UNCHANGED seen, ClientFrame,
         Outstanding', BusTypes', \A q \in Processes \ {c} : reply'[q] = reply[q],
         KnowsPath(c)', c \in Threads => ThreadKnows(c)', c \in Apps => AppKnows(c)'
  PROVE  Inv'
<1>1. UNCHANGED <<directory, mode, own, deaths, bar, seen>> /\ DOMAIN seen \subseteq Threads
  BY DEF ClientFrame, Inv, Knowledge
<1>2. TypeOK'
  BY <1>1 DEF Inv, TypeOK, BusTypes, Step
<1>3. Knowledge'
  BY <1>1, MoverKnows, ProcessFacts
<1>4. QED
  BY <1>2, <1>3 DEF Inv

LEMMA GatewayResolvedKeeps ==
  ASSUME Inv, NEW c \in Threads, GatewayResolved(c)
  PROVE  Inv'
<1> USE DEF Inv
<1>1. /\ pc[c] = "find" /\ reply[c] # "waiting" /\ UNCHANGED seen /\ ClientFrame
      /\ c \in Clients /\ c \in Processes /\ c \notin Apps
  BY ProcessFacts DEF GatewayResolved, Returned
<1>2. Unqueued(c) /\ ThreadKnows(c) /\ job[c] \in Jobs /\ UNCHANGED mode
  BY <1>1, NotQueued DEF Knowledge, TypeOK, ClientFrame
<1>3. CASE ResolvedPath(c) = None
  <2> DEFINE j == [job[c] EXCEPT !.answer = "error"]
  <2>1. Goto(c, "done") /\ job' = [job EXCEPT ![c] = j] /\ Forget(c)
    BY <1>3 DEF GatewayResolved, Fails, Learn
  <2>2. /\ j \in Jobs /\ j.kind = job[c].kind /\ j.answer = "error"
        /\ "done" \in Places /\ None \in Answers
    BY <1>2 DEF Jobs, Answers, Places
  <2> HIDE DEF j
  <2>3. Step(c) /\ pc'[c] = "done" /\ job'[c] = j /\ pc'["power"] = pc["power"]
    BY <1>1, <2>1, <2>2, ClientGoes
  <2>4. Outstanding' /\ BusTypes' /\ \A q \in Processes \ {c} : reply'[q] = reply[q]
    BY <1>1, <1>2, <2>1, <2>2, <2>3, ClientRests DEF Forget
  <2>5. ThreadKnows(c)' /\ KnowsPath(c)'
    BY <1>1, <1>2, <2>2, <2>3, ProcessFacts DEF ThreadKnows, Reading, KnowsPath, Resolving
  <2>6. QED
    BY <1>1, <2>3, <2>4, <2>5, ClientKeeps
<1>4. CASE ResolvedPath(c) # None
  <2>1. reply[c] = "power"
    BY <1>1, <1>4 DEF ResolvedPath, Failed, Knowledge, KnowsPath, Resolving
  <2>2. job' = job /\ job' = [job EXCEPT ![c] = job[c]]
    BY <1>1, <1>4 DEF GatewayResolved, TypeOK
  <2>3. ASSUME NEW l \in {"battery", "ask"}, Goto(c, l), NEW code, NEW arg,
               Call(c, "power", code, arg),
               \/ l = "battery" /\ code = "battery" /\ arg = None /\ job[c].kind = "power"
               \/ l = "ask" /\ code = "set" /\ arg = job[c].arg /\ job[c].kind # "power"
        PROVE  Inv'
    <3> DEFINE req == [from |-> c, code |-> code, arg |-> arg]
    <3>1. Step(c) /\ pc'[c] = l /\ job'[c] = job[c] /\ pc'["power"] = pc["power"]
      <4>1. l \in Places
        BY DEF Places
      <4>2. QED
        BY <1>1, <1>2, <2>2, <2>3, <4>1, ClientGoes
    <3>2. req \in Requests /\ Asks(c, "power", req)'
      BY <1>1, <1>2, <2>3, <3>1 DEF Requests, Jobs, Asks, TypeOK
    <3>3. /\ Outstanding' /\ BusTypes' /\ reply'[c] \in {"waiting", "error"}
          /\ \A q \in Processes \ {c} : reply'[q] = reply[q]
      BY <1>1, <1>2, <2>3, <3>1, <3>2, ClientCalls DEF Servers
    <3>4. ThreadKnows(c)' /\ KnowsPath(c)'
      BY <1>1, <1>2, <2>3, <3>1, <3>3 DEF ThreadKnows, Reading, KnowsPath
    <3>5. QED
      BY <1>1, <3>1, <3>3, <3>4, ClientKeeps
  <2>4. QED
    BY <1>4, <2>1, <2>3 DEF GatewayResolved
<1>5. QED
  BY <1>3, <1>4

LEMMA GatewayAsksModeKeeps ==
  ASSUME Inv, NEW c \in Threads, GatewayAsksMode(c)
  PROVE  Inv'
<1> USE DEF Inv
<1>1. /\ pc[c] = "battery" /\ reply[c] # "waiting" /\ UNCHANGED seen /\ ClientFrame
      /\ c \in Clients /\ c \in Processes /\ c \notin Apps
  BY ProcessFacts DEF GatewayAsksMode, Returned
<1>2. Unqueued(c) /\ ThreadKnows(c) /\ job[c] \in Jobs /\ UNCHANGED mode
  BY <1>1, NotQueued DEF Knowledge, TypeOK, ClientFrame
<1>3. CASE Failed(c)
  <2> DEFINE j == [job[c] EXCEPT !.answer = "error"]
  <2>1. Goto(c, "done") /\ job' = [job EXCEPT ![c] = j] /\ Forget(c)
    BY <1>3 DEF GatewayAsksMode, Fails, Learn
  <2>2. /\ j \in Jobs /\ j.kind = job[c].kind /\ j.answer = "error"
        /\ "done" \in Places /\ None \in Answers
    BY <1>2 DEF Jobs, Answers, Places
  <2> HIDE DEF j
  <2>3. Step(c) /\ pc'[c] = "done" /\ job'[c] = j /\ pc'["power"] = pc["power"]
    BY <1>1, <2>1, <2>2, ClientGoes
  <2>4. Outstanding' /\ BusTypes' /\ \A q \in Processes \ {c} : reply'[q] = reply[q]
    BY <1>1, <1>2, <2>1, <2>2, <2>3, ClientRests DEF Forget
  <2>5. ThreadKnows(c)' /\ KnowsPath(c)'
    BY <1>1, <1>2, <2>2, <2>3, ProcessFacts DEF ThreadKnows, Reading, KnowsPath, Resolving
  <2>6. QED
    BY <1>1, <2>3, <2>4, <2>5, ClientKeeps
<1>4. CASE ~Failed(c)
  <2> DEFINE req == [from |-> c, code |-> "get", arg |-> None]
  <2>1. Goto(c, "ask") /\ job' = [job EXCEPT ![c] = job[c]] /\ Call(c, "power", "get", None)
    BY <1>4 DEF GatewayAsksMode, TypeOK
  <2>2. Step(c) /\ pc'[c] = "ask" /\ job'[c] = job[c] /\ pc'["power"] = pc["power"]
    BY <1>1, <1>2, <2>1, ClientGoes DEF Places
  <2>3. req \in Requests /\ Asks(c, "power", req)'
    BY <1>1, <1>2, <2>1, <2>2 DEF Requests, Asks, ThreadKnows
  <2>4. /\ Outstanding' /\ BusTypes' /\ reply'[c] \in {"waiting", "error"}
        /\ \A q \in Processes \ {c} : reply'[q] = reply[q]
    BY <1>1, <1>2, <2>1, <2>2, <2>3, ClientCalls DEF Servers
  <2>5. ThreadKnows(c)' /\ KnowsPath(c)'
    BY <1>1, <1>2, <2>2, <2>4, ProcessFacts DEF ThreadKnows, Reading, KnowsPath, Resolving
  <2>6. QED
    BY <1>1, <2>2, <2>4, <2>5, ClientKeeps
<1>5. QED
  BY <1>3, <1>4

LEMMA GatewayAnswersKeeps ==
  ASSUME Inv, NEW c \in Threads, GatewayAnswers(c)
  PROVE  Inv'
<1> USE DEF Inv
<1>1. /\ pc[c] = "ask" /\ reply[c] # "waiting" /\ UNCHANGED seen /\ ClientFrame
      /\ c \in Clients /\ c \in Processes /\ c \notin Apps
  BY ProcessFacts DEF GatewayAnswers, Returned
<1>2. Unqueued(c) /\ ThreadKnows(c) /\ job[c] \in Jobs /\ reply[c] \in Answers /\ UNCHANGED mode
  BY <1>1, NotQueued DEF Knowledge, TypeOK, ClientFrame
<1> DEFINE j == [job[c] EXCEPT !.answer = reply[c]]
<1>3. Goto(c, "done") /\ job' = [job EXCEPT ![c] = j] /\ Forget(c)
  BY DEF GatewayAnswers, Learn
<1>4. /\ j \in Jobs /\ j.kind = job[c].kind /\ j.answer = reply[c]
      /\ "done" \in Places /\ None \in Answers
  BY <1>2 DEF Jobs, Answers, Places
<1> HIDE DEF j
<1>5. Step(c) /\ pc'[c] = "done" /\ job'[c] = j /\ pc'["power"] = pc["power"]
  BY <1>1, <1>3, <1>4, ClientGoes
<1>6. Outstanding' /\ BusTypes' /\ \A q \in Processes \ {c} : reply'[q] = reply[q]
  BY <1>1, <1>2, <1>3, <1>4, <1>5, ClientRests DEF Forget
<1>7. ThreadKnows(c)' /\ KnowsPath(c)'
  BY <1>1, <1>2, <1>4, <1>5, ProcessFacts DEF ThreadKnows, Reading, KnowsPath, Resolving
<1>8. QED
  BY <1>1, <1>5, <1>6, <1>7, ClientKeeps

\* A call of c to a service whose path it may not have.
LEMMA ClientCallsIf ==
  ASSUME TypeOK, Outstanding, NEW c \in Processes, Unqueued(c), Step(c), NEW path,
         path \in Servers \/ path = None,
         NEW code, NEW arg, [from |-> c, code |-> code, arg |-> arg] \in Requests,
         CallIf(c, path, code, arg),
         path # None => Asks(c, path, [from |-> c, code |-> code, arg |-> arg])'
  PROVE  /\ Outstanding' /\ BusTypes'
         /\ reply'[c] \in {"waiting", "error"}
         /\ reply'[c] = "waiting" <=> path # None /\ Listening(path)
         /\ \A q \in Processes \ {c} : reply'[q] = reply[q]
<1>1. CASE path = None
  <2>1. UNCHANGED queue /\ reply' = [reply EXCEPT ![c] = "error"] /\ "error" \in Answers
    BY <1>1 DEF CallIf, Answers
  <2>2. QED
    BY <1>1, <2>1, ClientRests
<1>2. CASE path # None
  <2>1. path \in Servers /\ Call(c, path, code, arg)
    BY <1>2 DEF CallIf
  <2>2. QED
    BY <1>2, <2>1, ClientCalls
<1>3. QED
  BY <1>1, <1>2

LEMMA FindsBarKeeps ==
  ASSUME Inv, NEW c \in Apps, FindsBar(c)
  PROVE  Inv'
<1> USE DEF Inv
<1> DEFINE j   == [job[c] EXCEPT !.path = ResolvedPath(c)]
           req == [from |-> c, code |-> "lookup", arg |-> "bar"]
<1>1. /\ pc[c] = "find" /\ reply[c] # "waiting" /\ UNCHANGED seen /\ ClientFrame
      /\ c \in Clients /\ c \in Processes /\ c \notin Threads
      /\ Goto(c, "findbar") /\ job' = [job EXCEPT ![c] = j]
      /\ Call(c, "manager", "lookup", "bar")
  BY ProcessFacts DEF FindsBar, Returned, Learn
<1>2. Unqueued(c) /\ AppKnows(c) /\ job[c] \in Jobs /\ UNCHANGED <<mode, own>>
  BY <1>1, NotQueued DEF Knowledge, TypeOK, ClientFrame
<1>3. ResolvedPath(c) \in {None, "power"}
  BY <1>1 DEF ResolvedPath, Failed, Knowledge, KnowsPath, Resolving
<1>4. j \in Jobs /\ "findbar" \in Places
  BY <1>2, <1>3 DEF Jobs, Places
<1> HIDE DEF j
<1>5. Step(c) /\ pc'[c] = "findbar" /\ job'[c] = j /\ pc'["power"] = pc["power"]
  BY <1>1, <1>4, ClientGoes
<1>6. req \in Requests /\ Asks(c, "manager", req)'
  BY <1>1, <1>5 DEF Requests, Asks
<1>7. /\ Outstanding' /\ BusTypes' /\ reply'[c] \in {"waiting", "error"}
      /\ \A q \in Processes \ {c} : reply'[q] = reply[q]
  BY <1>1, <1>2, <1>5, <1>6, ClientCalls DEF Servers
<1>8. AppKnows(c)' /\ KnowsPath(c)'
  BY <1>1, <1>2, <1>5, <1>7, ProcessFacts DEF AppKnows, KnowsPath, Resolving
<1>9. QED
  BY <1>1, <1>5, <1>7, <1>8, ClientKeeps

LEMMA SetsModeKeeps ==
  ASSUME Inv, NEW c \in Apps, SetsMode(c)
  PROVE  Inv'
<1> USE DEF Inv
<1> DEFINE j   == [job[c] EXCEPT !.bar = ResolvedPath(c)]
           req == [from |-> c, code |-> "set", arg |-> job[c].arg]
<1>1. /\ pc[c] = "findbar" /\ reply[c] # "waiting" /\ UNCHANGED seen /\ ClientFrame
      /\ c \in Clients /\ c \in Processes /\ c \notin Threads
      /\ Goto(c, "set") /\ job' = [job EXCEPT ![c] = j]
      /\ CallIf(c, job[c].path, "set", job[c].arg)
  BY ProcessFacts DEF SetsMode, Returned, Learn
<1>2. Unqueued(c) /\ AppKnows(c) /\ job[c] \in Jobs /\ UNCHANGED <<mode, own>>
  BY <1>1, NotQueued DEF Knowledge, TypeOK, ClientFrame
<1>3. ResolvedPath(c) \in {None, "bar"}
  BY <1>1, <1>2 DEF ResolvedPath, Failed, AppKnows
<1>4. /\ j \in Jobs /\ j.path = job[c].path /\ j.arg = job[c].arg /\ "set" \in Places
      /\ job[c].path \in {None, "power"}
  BY <1>2, <1>3 DEF Jobs, Places
<1> HIDE DEF j
<1>5. Step(c) /\ pc'[c] = "set" /\ job'[c] = j /\ pc'["power"] = pc["power"]
  BY <1>1, <1>4, ClientGoes
<1>6. req \in Requests /\ Asks(c, "power", req)'
  BY <1>1, <1>2, <1>4, <1>5 DEF Requests, Jobs, Asks
<1>7. /\ Outstanding' /\ BusTypes' /\ reply'[c] \in {"waiting", "error"}
      /\ job[c].path = None => reply'[c] = "error"
      /\ \A q \in Processes \ {c} : reply'[q] = reply[q]
  BY <1>1, <1>2, <1>4, <1>5, <1>6, ClientCallsIf DEF Servers
<1>8. AppKnows(c)' /\ KnowsPath(c)'
  BY <1>1, <1>2, <1>4, <1>5, <1>7, ProcessFacts DEF AppKnows, KnowsPath, Resolving
<1>9. QED
  BY <1>1, <1>5, <1>7, <1>8, ClientKeeps

LEMMA NotifiesKeeps ==
  ASSUME Inv, NEW c \in Apps, Notifies(c)
  PROVE  Inv'
<1> USE DEF Inv
<1> DEFINE j   == [job[c] EXCEPT !.set = ~Failed(c), !.bar = None]
           req == [from |-> c, code |-> "notify", arg |-> job[c].arg]
<1>1. /\ pc[c] = "set" /\ reply[c] # "waiting" /\ UNCHANGED seen /\ ClientFrame
      /\ c \in Clients /\ c \in Processes /\ c \notin Threads
      /\ Goto(c, "notify") /\ job' = [job EXCEPT ![c] = j]
      /\ IF Failed(c) THEN Forget(c) ELSE CallIf(c, job[c].bar, "notify", job[c].arg)
  BY ProcessFacts DEF Notifies, Returned, Learn
<1>2. Unqueued(c) /\ AppKnows(c) /\ job[c] \in Jobs /\ UNCHANGED <<mode, own>>
  BY <1>1, NotQueued DEF Knowledge, TypeOK, ClientFrame
<1>3. PICK success \in BOOLEAN : success = (reply[c] # "error")
  OBVIOUS
<1>4. /\ j \in Jobs /\ j.path = job[c].path /\ j.arg = job[c].arg /\ j.set = success
      /\ "notify" \in Places /\ None \in Answers
      /\ job[c].path \in {None, "power"} /\ job[c].bar \in {None, "bar"}
  <2>1. j = [job[c] EXCEPT !.set = success, !.bar = None]
    BY <1>3, Zenon DEF Failed
  <2> HIDE DEF j
  <2>2. QED
    BY <1>2, <2>1 DEF Jobs, Places, Answers
<1> HIDE DEF j
<1>5. Step(c) /\ pc'[c] = "notify" /\ job'[c] = j /\ pc'["power"] = pc["power"]
  BY <1>1, <1>4, ClientGoes
<1>6. req \in Requests /\ Asks(c, "bar", req)'
  BY <1>1, <1>2, <1>4, <1>5 DEF Requests, Jobs, Asks
<1>7. Outstanding' /\ BusTypes' /\ \A q \in Processes \ {c} : reply'[q] = reply[q]
  <2>1. CASE Failed(c)
    BY <1>1, <1>2, <1>4, <1>5, <2>1, ClientRests DEF Forget
  <2>2. CASE ~Failed(c)
    BY <1>1, <1>2, <1>4, <1>5, <1>6, <2>2, ClientCallsIf DEF Servers
  <2>3. QED
    BY <2>1, <2>2
<1>8. AppKnows(c)' /\ KnowsPath(c)'
  BY <1>1, <1>2, <1>3, <1>4, <1>5, ProcessFacts DEF AppKnows, KnowsPath, Resolving
<1>9. QED
  BY <1>1, <1>5, <1>7, <1>8, ClientKeeps

LEMMA AsksModeKeeps ==
  ASSUME Inv, NEW c \in Apps, AsksMode(c)
  PROVE  Inv'
<1> USE DEF Inv
<1> DEFINE req == [from |-> c, code |-> "get", arg |-> None]
<1>1. /\ pc[c] = "notify" /\ reply[c] # "waiting" /\ UNCHANGED seen /\ ClientFrame
      /\ c \in Clients /\ c \in Processes /\ c \notin Threads
      /\ Goto(c, "ask") /\ job' = [job EXCEPT ![c] = job[c]]
      /\ CallIf(c, job[c].path, "get", None)
  BY ProcessFacts DEF AsksMode, Returned, TypeOK
<1>2. /\ Unqueued(c) /\ AppKnows(c) /\ job[c] \in Jobs /\ UNCHANGED <<mode, own>>
      /\ job[c].path \in {None, "power"}
  BY <1>1, NotQueued DEF Knowledge, TypeOK, ClientFrame, Jobs
<1>3. Step(c) /\ pc'[c] = "ask" /\ job'[c] = job[c] /\ pc'["power"] = pc["power"]
  BY <1>1, <1>2, ClientGoes DEF Places
<1>4. req \in Requests /\ Asks(c, "power", req)'
  BY <1>1, <1>3 DEF Requests, Asks
<1>5. /\ Outstanding' /\ BusTypes' /\ reply'[c] \in {"waiting", "error"}
      /\ reply'[c] = "waiting" <=> job[c].path # None /\ Listening(job[c].path)
      /\ \A q \in Processes \ {c} : reply'[q] = reply[q]
  BY <1>1, <1>2, <1>3, <1>4, ClientCallsIf DEF Servers
<1>6. AppKnows(c)' /\ KnowsPath(c)'
  <2>1. own[c] /\ job[c].set => reply'[c] = "waiting"
    BY <1>1, <1>2, <1>5 DEF AppKnows, Listening
  <2>2. QED
    BY <1>1, <1>2, <1>3, <2>1, ProcessFacts DEF AppKnows, KnowsPath, Resolving
<1>7. QED
  BY <1>1, <1>3, <1>5, <1>6, ClientKeeps

LEMMA ShowsKeeps ==
  ASSUME Inv, NEW c \in Apps, Shows(c)
  PROVE  Inv'
<1> USE DEF Inv
<1> DEFINE answer == IF Failed(c) THEN Balanced ELSE reply[c]
           j      == [job[c] EXCEPT !.answer = answer]
<1>1. /\ pc[c] = "ask" /\ reply[c] # "waiting" /\ UNCHANGED seen /\ ClientFrame
      /\ c \in Clients /\ c \in Processes /\ c \notin Threads
      /\ Goto(c, "done") /\ job' = [job EXCEPT ![c] = j] /\ Forget(c)
  BY ProcessFacts DEF Shows, Returned, Learn
<1>2. /\ Unqueued(c) /\ AppKnows(c) /\ job[c] \in Jobs /\ UNCHANGED <<mode, own>>
      /\ answer \in Answers
  BY <1>1, NotQueued, ModesAssumption DEF Knowledge, TypeOK, ClientFrame, Answers
<1> HIDE DEF answer
<1>3. /\ j \in Jobs /\ j.set = job[c].set /\ j.arg = job[c].arg /\ j.answer = answer
      /\ "done" \in Places /\ None \in Answers
  BY <1>2 DEF Jobs, Answers, Places
<1> HIDE DEF j
<1>4. Step(c) /\ pc'[c] = "done" /\ job'[c] = j /\ pc'["power"] = pc["power"]
  BY <1>1, <1>3, ClientGoes
<1>5. Outstanding' /\ BusTypes' /\ \A q \in Processes \ {c} : reply'[q] = reply[q]
  BY <1>1, <1>2, <1>3, <1>4, ClientRests DEF Forget
<1>6. AppKnows(c)' /\ KnowsPath(c)'
  <2>1. own[c] /\ job[c].set => answer = job[c].arg
    <3>1. job[c].arg # "error"
      BY <1>2, ModesAssumption DEF Jobs
    <3>2. QED
      BY <1>1, <1>2, <3>1 DEF AppKnows, answer, Failed
  <2>2. QED
    BY <1>1, <1>2, <1>3, <1>4, <2>1, ProcessFacts DEF AppKnows, KnowsPath, Resolving
<1>7. QED
  BY <1>1, <1>4, <1>5, <1>6, ClientKeeps

LEMMA EndsKeeps ==
  ASSUME Inv, NEW c \in Clients, Ends(c)
  PROVE  Inv'
<1> USE DEF Inv
<1>1. /\ pc[c] = "done" /\ c \in Processes
      /\ Goto(c, "gone") /\ job' = [job EXCEPT ![c] = NoJob]
      /\ UNCHANGED <<queue, reply, directory, mode, deaths, bar>>
  BY ProcessFacts DEF Ends, Learn
<1>2. Unqueued(c)
  BY <1>1, NotQueued, ProcessFacts DEF Asks
<1>3. NoJob \in Jobs /\ "gone" \in Places
  BY ModesAssumption DEF NoJob, Jobs, Answers, Places
<1>4. Step(c) /\ pc'[c] = "gone" /\ job'[c] = NoJob /\ pc'["power"] = pc["power"]
  BY <1>1, <1>3, ClientGoes
<1>5. Outstanding' /\ BusTypes'
  BY <1>1, <1>2, <1>4, RestKeeps DEF TypeOK, BusTypes, Step
<1>6. /\ own' \in [Apps -> BOOLEAN] /\ (c \in Apps => ~own'[c])
      /\ \A a \in Apps \ {c} : own'[a] = own[a]
  <2>1. own' = [a \in Apps |-> a # c /\ own[a]] /\ own \in [Apps -> BOOLEAN]
    BY DEF Ends, TypeOK
  <2>2. QED
    BY <2>1
<1>7. TypeOK'
  BY <1>1, <1>4, <1>5, <1>6 DEF TypeOK, BusTypes, Step
<1>8. /\ DOMAIN seen' = DOMAIN seen \ {c} /\ DOMAIN seen' \subseteq Threads
      /\ \A t \in DOMAIN seen' : seen'[t] = seen[t]
  BY DEF Ends, Restrict, Knowledge
<1>9. KnowsPath(c)' /\ (c \in Threads => ThreadKnows(c)') /\ (c \in Apps => AppKnows(c)')
  BY <1>4, <1>6, <1>8, ProcessFacts DEF KnowsPath, Resolving, ThreadKnows, Reading, AppKnows
<1>10. Knowledge'
  BY <1>1, <1>4, <1>6, <1>8, <1>9, MoverKnows
<1>11. QED
  BY <1>5, <1>7, <1>10

-----------------------------------------------------------------------------
(* The status bar as a client.                                             *)

BarStates == [path : {None, "power"}, shown : Answers]

LEMMA BarGoes ==
  ASSUME TypeOK, NEW l \in Places, Goto("bar", l), UNCHANGED job
  PROVE  Step("bar") /\ pc'["bar"] = l
BY ProcessFacts DEF TypeOK, Goto, Step, Same, Servers

LEMMA BarKeeps ==
  ASSUME Inv, Step("bar"), BarFrame, bar' \in BarStates,
         Outstanding', BusTypes', \A q \in Processes \ {"bar"} : reply'[q] = reply[q],
         KnowsPath("bar")'
  PROVE  Inv'
<1>1. UNCHANGED <<directory, mode, own, deaths, seen>> /\ DOMAIN seen \subseteq Threads
  BY DEF BarFrame, Inv, Knowledge
<1>2. "bar" \notin Threads /\ "bar" \notin Apps
  BY ProcessFacts
<1>3. TypeOK'
  BY <1>1 DEF Inv, TypeOK, BusTypes, Step, BarStates
<1>4. Knowledge'
  BY <1>1, <1>2, MoverKnows, ProcessFacts DEF Servers
<1>5. QED
  BY <1>3, <1>4 DEF Inv

LEMMA BarLooksUp ==
  ASSUME Inv, Unqueued("bar"), NEW l \in {"resolve", "again"}, Goto("bar", l), BarFrame,
         Call("bar", "manager", "lookup", "power"), bar' \in BarStates
  PROVE  Inv'
<1> DEFINE req == [from |-> "bar", code |-> "lookup", arg |-> "power"]
<1>1. TypeOK /\ Outstanding /\ "bar" \in Processes /\ "manager" \in Servers /\ l \in Places
  BY ProcessFacts DEF Inv, Servers, Places
<1>2. Step("bar") /\ pc'["bar"] = l
  BY <1>1, BarGoes DEF BarFrame
<1>3. req \in Requests /\ Asks("bar", "manager", req)'
  BY <1>1, <1>2 DEF Requests, Asks
<1>4. /\ Outstanding' /\ BusTypes' /\ reply'["bar"] \in {"waiting", "error"}
      /\ \A q \in Processes \ {"bar"} : reply'[q] = reply[q]
  BY <1>1, <1>2, <1>3, ClientCalls
<1>5. KnowsPath("bar")'
  BY <1>4 DEF KnowsPath
<1>6. QED
  BY <1>2, <1>4, <1>5, BarKeeps

LEMMA DrawKeeps ==
  ASSUME Inv, Unqueued("bar"), NEW b \in BarStates, Draw(b), BarFrame
  PROVE  Inv'
<1>1. /\ TypeOK /\ Outstanding /\ "bar" \in Processes /\ "power" \in Servers
      /\ {"loop", "mode"} \subseteq Places /\ None \in Answers
  BY ProcessFacts DEF Inv, Servers, Places, Answers
<1>2. CASE b.path = None
  <2>1. Goto("bar", "loop") /\ bar' = [b EXCEPT !.shown = Balanced] /\ Forget("bar")
    BY <1>2 DEF Draw
  <2>2. Step("bar") /\ pc'["bar"] = "loop"
    BY <1>1, <2>1, BarGoes DEF BarFrame
  <2>3. Outstanding' /\ BusTypes' /\ \A q \in Processes \ {"bar"} : reply'[q] = reply[q]
    BY <1>1, <2>1, <2>2, ClientRests DEF Forget
  <2>4. KnowsPath("bar")'
    BY <2>2, ProcessFacts DEF KnowsPath, Resolving
  <2>5. bar' \in BarStates
    BY <2>1, ModesAssumption DEF BarStates, Answers
  <2>6. QED
    BY <2>2, <2>3, <2>4, <2>5, BarKeeps
<1>3. CASE b.path # None
  <2> DEFINE req == [from |-> "bar", code |-> "get", arg |-> None]
  <2>1. Goto("bar", "mode") /\ bar' = b /\ Call("bar", "power", "get", None)
    BY <1>3 DEF Draw, BarStates
  <2>2. Step("bar") /\ pc'["bar"] = "mode"
    BY <1>1, <2>1, BarGoes DEF BarFrame
  <2>3. req \in Requests /\ Asks("bar", "power", req)'
    BY <1>1, <2>2 DEF Requests, Asks
  <2>4. Outstanding' /\ BusTypes' /\ \A q \in Processes \ {"bar"} : reply'[q] = reply[q]
    BY <1>1, <2>1, <2>2, <2>3, ClientCalls
  <2>5. KnowsPath("bar")'
    BY <2>2, ProcessFacts DEF KnowsPath, Resolving
  <2>6. QED
    BY <2>1, <2>2, <2>4, <2>5, BarKeeps
<1>4. QED
  BY <1>2, <1>3

LEMMA RedrawKeeps ==
  ASSUME Inv, Unqueued("bar"), Redraw(bar), BarFrame
  PROVE  Inv'
<1>1. bar \in BarStates
  BY DEF Inv, TypeOK, BarStates
<1>2. CASE bar.path = None
  <2>1. Goto("bar", "again") /\ bar' = bar /\ Call("bar", "manager", "lookup", "power")
    BY <1>2 DEF Redraw
  <2>2. QED
    BY <1>1, <2>1, BarLooksUp
<1>3. CASE bar.path # None
  BY <1>1, <1>3, DrawKeeps DEF Redraw
<1>4. QED
  BY <1>2, <1>3

LEMMA BarCallsKeep ==
  ASSUME Inv, BarStarts \/ (BarNext /\ ~BarNotified)
  PROVE  Inv'
<1>1. /\ TypeOK /\ Outstanding /\ "bar" \in Processes /\ "manager" \in Servers
      /\ bar \in BarStates /\ IdleBar \in BarStates /\ None \in Answers
      /\ {"register", "loop"} \subseteq Places
  BY ProcessFacts, ModesAssumption
     DEF Inv, Servers, TypeOK, BarStates, IdleBar, Answers, Places
<1>2. ASSUME \/ pc["bar"] \in {"down", "loop", "notified"}
             \/ Returned("bar")
      PROVE  Unqueued("bar")
  BY <1>1, <1>2, NotQueued, ProcessFacts DEF Asks, Returned
<1>3. pc["bar"] \in {"resolve", "again"} /\ Returned("bar") => ResolvedPath("bar") \in {None, "power"}
  BY DEF ResolvedPath, Returned, Failed, Inv, Knowledge, KnowsPath, Resolving
<1>4. CASE BarStarts
  BY <1>1, <1>2, <1>4, BarLooksUp DEF BarStarts
<1>5. CASE BarRegisters
  <2> DEFINE req == [from |-> "bar", code |-> "register", arg |-> "bar"]
  <2>1. /\ pc["bar"] = "resolve" /\ Returned("bar") /\ Goto("bar", "register") /\ BarFrame
        /\ bar' = [bar EXCEPT !.path = ResolvedPath("bar")]
        /\ Call("bar", "manager", "register", "bar")
    BY <1>5 DEF BarRegisters
  <2>2. Step("bar") /\ pc'["bar"] = "register" /\ bar' \in BarStates
    BY <1>1, <1>3, <2>1, BarGoes DEF BarFrame, BarStates
  <2>3. req \in Requests /\ Asks("bar", "manager", req)'
    BY <1>1, <2>2 DEF Requests, Asks
  <2>4. Outstanding' /\ BusTypes' /\ \A q \in Processes \ {"bar"} : reply'[q] = reply[q]
    BY <1>1, <1>2, <2>1, <2>2, <2>3, ClientCalls
  <2>5. KnowsPath("bar")'
    BY <2>2, ProcessFacts DEF KnowsPath, Resolving
  <2>6. QED
    BY <2>1, <2>2, <2>4, <2>5, BarKeeps
<1>6. CASE BarDraws
  BY <1>1, <1>2, <1>6, DrawKeeps DEF BarDraws
<1>7. CASE BarShows
  <2>1. /\ Returned("bar") /\ Goto("bar", "loop") /\ Forget("bar") /\ BarFrame
        /\ bar' = [bar EXCEPT !.shown = IF Failed("bar") THEN Balanced ELSE reply["bar"]]
    BY <1>7 DEF BarShows
  <2>2. bar' \in BarStates
    BY <1>1, <2>1, ModesAssumption DEF BarStates, Answers, TypeOK
  <2>3. Step("bar") /\ pc'["bar"] = "loop"
    BY <1>1, <2>1, BarGoes DEF BarFrame
  <2>4. Outstanding' /\ BusTypes' /\ \A q \in Processes \ {"bar"} : reply'[q] = reply[q]
    BY <1>1, <1>2, <2>1, <2>3, ClientRests DEF Forget
  <2>5. KnowsPath("bar")'
    BY <2>3, ProcessFacts DEF KnowsPath, Resolving
  <2>6. QED
    BY <2>1, <2>2, <2>3, <2>4, <2>5, BarKeeps
<1>8. CASE BarWakes \/ BarRedraws
  BY <1>2, <1>8, RedrawKeeps DEF BarWakes, BarRedraws
<1>9. CASE BarResolved
  <2>1. [bar EXCEPT !.path = ResolvedPath("bar")] \in BarStates
    BY <1>1, <1>3, <1>9 DEF BarResolved, BarStates
  <2>2. QED
    BY <1>2, <1>9, <2>1, DrawKeeps DEF BarResolved
<1>10. QED
  BY <1>4, <1>5, <1>6, <1>7, <1>8, <1>9 DEF BarNext

-----------------------------------------------------------------------------
(* The servers.                                                            *)

LEMMA ManagerStartsKeeps ==
  ASSUME Inv, ManagerStarts, Others
  PROVE  Inv'
<1>1. Step("manager") /\ UNCHANGED <<queue, reply, directory, mode, seen, own, deaths, bar, job>>
  BY ProcessFacts DEF ManagerStarts, Others, Goto, Step, Same, Inv, TypeOK, Places, Servers
<1>2. /\ Unqueued("manager") /\ "manager" \in Processes \ {"power"}
      /\ "manager" \notin Clients \cup {"bar"} /\ "manager" \notin Threads \cup Apps
  BY NotQueued, ProcessFacts DEF Asks, Inv, Servers
<1>3. Outstanding'
  BY <1>1, <1>2, RestKeeps DEF Inv, TypeOK, BusTypes, Step
<1>4. TypeOK'
  BY <1>1 DEF Inv, TypeOK, Step
<1>5. Knowledge'
  BY <1>1, <1>2, MoverKnows DEF Inv, Knowledge
<1>6. QED
  BY <1>3, <1>4, <1>5 DEF Inv

\* The request that server s serves, and who made it.
LEMMA RequestFacts ==
  ASSUME Inv, NEW s \in Servers, queue[s] # <<>>
  PROVE  /\ Request(s) \in Requests /\ Request(s).from \in Processes
         /\ Asks(Request(s).from, s, Request(s)) /\ reply[Request(s).from] = "waiting"
<1>1. Request(s) = queue[s][1] /\ 1 \in DOMAIN queue[s]
  BY QueueFacts, EmptySeq, HeadTailProperties DEF Request, Inv, TypeOK, BusTypes
<1>2. QED
  BY <1>1, QueueFacts DEF Inv, TypeOK, BusTypes, Outstanding

LEMMA ManagerServesKeeps ==
  ASSUME Inv, ManagerServes, Others
  PROVE  Inv'
<1> PICK r : r = Request("manager")
  OBVIOUS
<1>1. /\ queue["manager"] # <<>> /\ "manager" \in Servers
      /\ UNCHANGED <<pc, mode, seen, own, deaths, bar, job>>
  BY DEF ManagerServes, Others, Servers
<1>2. r \in Requests /\ r.from \in Processes /\ Asks(r.from, "manager", r)
  BY <1>1, RequestFacts
<1>3. PICK answer \in Answers :
        /\ Serve("manager", answer)
        /\ r.code = "lookup" => answer \in {None, r.arg}
        /\ directory' \subseteq {"power", "bar"}
  <2>1. CASE r.code = "register"
    <3>1. directory' = directory \cup {r.arg} /\ Serve("manager", "ok")
      BY <2>1 DEF ManagerServes
    <3>2. r.arg \in {"power", "bar"} /\ "ok" \in Answers
      BY <1>2, <2>1 DEF Asks, Answers
    <3>3. QED
      BY <2>1, <3>1, <3>2 DEF Inv, TypeOK
  <2>2. CASE r.code # "register"
    <3>1. /\ directory' = directory
          /\ Serve("manager", IF r.arg \in directory THEN r.arg ELSE None)
      BY <2>2 DEF ManagerServes
    <3>2. (IF r.arg \in directory THEN r.arg ELSE None) \in Answers \cap {None, r.arg}
      BY DEF Answers, Inv, TypeOK
    <3>3. QED
      BY <3>1, <3>2 DEF Inv, TypeOK
  <2>3. QED
    BY <2>1, <2>2
<1>4. /\ Outstanding' /\ BusTypes' /\ reply'[r.from] = answer
      /\ \A q \in Processes \ {r.from} : reply'[q] = reply[q]
  BY <1>1, <1>3, ServeKeeps DEF Same, Inv, TypeOK, BusTypes
<1>5. TypeOK'
  BY <1>1, <1>3, <1>4 DEF Inv, TypeOK, BusTypes
<1>6. Knowledge'
  <2>1. Resolving(r.from) => answer \in {None, "power"}
    BY <1>2, <1>3, ProcessFacts DEF Asks, Resolving
  <2>2. r.from \in Clients \cup {"bar"} => KnowsPath(r.from)'
    BY <1>1, <1>4, <2>1 DEF KnowsPath, Resolving
  <2>3. r.from \in Threads => ThreadKnows(r.from)'
    <3>1. r.from \in Threads => pc[r.from] = "find"
      BY <1>2, ProcessFacts DEF Asks
    <3>2. QED
      BY <1>1, <1>4, <3>1 DEF ThreadKnows, Reading, Inv, Knowledge
  <2>4. ASSUME r.from \in Apps
        PROVE  AppKnows(r.from)'
    <3>1. r.from \notin {"power", "bar"}
      BY <2>4, ProcessFacts
    <3>2. \/ pc[r.from] = "find"
          \/ pc[r.from] = "findbar" /\ r.code = "lookup" /\ r.arg = "bar"
      BY <1>2, <3>1 DEF Asks
    <3>3. QED
      BY <1>1, <1>3, <1>4, <2>4, <3>2 DEF AppKnows, Inv, Knowledge
  <2>5. /\ \A q \in Processes \ {r.from} : Same(q) /\ reply'[q] = reply[q]
        /\ pc'["power"] = pc["power"] /\ DOMAIN seen \subseteq Threads
    BY <1>1, <1>4 DEF Same, Inv, Knowledge
  <2>6. /\ \A q \in {r.from} \cap (Clients \cup {"bar"}) : KnowsPath(q)'
        /\ \A t \in {r.from} \cap Threads : ThreadKnows(t)'
        /\ \A a \in {r.from} \cap Apps : AppKnows(a)'
    BY <2>2, <2>3, <2>4
  <2>7. QED
    BY <1>1, <2>5, <2>6, OthersKnow
<1>7. QED
  BY <1>4, <1>5, <1>6 DEF Inv

\* What the clients know when powermanager moves: its new mode is noticed by the
\* requests that run, and no application owns it unless powermanager served before.
LEMMA PowerKnows ==
  ASSUME Inv, Step("power"),
         \A q \in Processes \ {"power"} : reply'[q] = reply[q],
         pc["power"] # "serve", UNCHANGED <<mode, own>>,
         \/ pc'["power"] # "serve" /\ UNCHANGED seen
         \/ Notice(Balanced)
  PROVE  Knowledge'
<1>1. mode = Balanced /\ mode' = Balanced
  BY DEF Inv, Knowledge
<1>2. /\ DOMAIN seen' = DOMAIN seen
      /\ \A t \in DOMAIN seen : seen[t] \subseteq seen'[t]
      /\ pc'["power"] = "serve" => \A t \in DOMAIN seen : Balanced \in seen'[t]
  BY DEF Notice
<1>3. ASSUME NEW q \in Clients \cup {"bar"}
      PROVE  pc'[q] = pc[q] /\ reply'[q] = reply[q] /\ (q \in Clients => job'[q] = job[q])
  BY ProcessFacts DEF Step, Same, Servers
<1>4. ASSUME NEW q \in Clients \cup {"bar"}
      PROVE  KnowsPath(q)'
  BY <1>3 DEF Inv, Knowledge, KnowsPath, Resolving
<1>5. ASSUME NEW t \in Threads
      PROVE  ThreadKnows(t)'
  <2>1. pc'[t] = pc[t] /\ reply'[t] = reply[t] /\ job'[t] = job[t] /\ ThreadKnows(t)
    BY <1>3, ProcessFacts DEF Inv, Knowledge
  <2>2. QED
    BY <1>1, <1>2, <2>1 DEF ThreadKnows, Reading
<1>6. ASSUME NEW a \in Apps
      PROVE  AppKnows(a)'
  <2>1. pc'[a] = pc[a] /\ reply'[a] = reply[a] /\ job'[a] = job[a] /\ AppKnows(a)
    BY <1>3, ProcessFacts DEF Inv, Knowledge
  <2>2. QED
    BY <2>1 DEF AppKnows
<1>7. QED
  BY <1>1, <1>2, <1>4, <1>5, <1>6 DEF Inv, Knowledge

LEMMA PowerStartsKeeps ==
  ASSUME Inv, PowerStarts, Others
  PROVE  Inv'
<1> DEFINE req == [from |-> "power", code |-> "register", arg |-> "power"]
<1>1. /\ pc["power"] = "down" /\ pc' = [pc EXCEPT !["power"] = "register"]
      /\ Call("power", "manager", "register", "power")
      /\ UNCHANGED <<directory, mode, seen, own, deaths, bar, job>>
      /\ TypeOK /\ Outstanding /\ "power" \in Processes /\ "manager" \in Servers
  BY ProcessFacts DEF PowerStarts, Others, Goto, Inv, Servers
<1>2. Step("power") /\ pc'["power"] = "register"
  BY <1>1 DEF Step, Same, TypeOK, Places
<1>3. Unqueued("power")
  BY <1>1, NotQueued, ProcessFacts DEF Asks
<1>4. req \in Requests /\ Asks("power", "manager", req)'
  BY <1>1, <1>2 DEF Requests, Asks
<1>5. /\ Outstanding' /\ BusTypes'
      /\ \A q \in Processes \ {"power"} : reply'[q] = reply[q]
  BY <1>1, <1>2, <1>3, <1>4, ClientCalls
<1>6. TypeOK'
  BY <1>1, <1>2, <1>5 DEF TypeOK, BusTypes, Step
<1>7. Knowledge'
  BY <1>1, <1>2, <1>5, PowerKnows
<1>8. QED
  BY <1>5, <1>6, <1>7 DEF Inv

LEMMA PowerBindsKeeps ==
  ASSUME Inv, PowerBinds, Others
  PROVE  Inv'
<1>1. /\ pc["power"] = "register" /\ reply["power"] # "waiting"
      /\ pc' = [pc EXCEPT !["power"] = "serve"]
      /\ Notice(Balanced) /\ Forget("power")
      /\ UNCHANGED <<directory, mode, own, deaths, bar, job>>
      /\ TypeOK /\ Outstanding /\ "power" \in Processes /\ None \in Answers
  BY ProcessFacts DEF PowerBinds, Others, Goto, Returned, Inv, Servers, Answers
<1>2. Step("power") /\ pc'["power"] = "serve"
  BY <1>1 DEF Step, Same, TypeOK, Places
<1>3. Unqueued("power")
  BY <1>1, NotQueued
<1>4. /\ Outstanding' /\ BusTypes'
      /\ \A q \in Processes \ {"power"} : reply'[q] = reply[q]
  BY <1>1, <1>2, <1>3, ClientRests DEF Forget
<1>5. TypeOK'
  BY <1>1, <1>2, <1>4 DEF TypeOK, BusTypes, Step
<1>6. Knowledge'
  BY <1>1, <1>2, <1>4, PowerKnows
<1>7. QED
  BY <1>4, <1>5, <1>6 DEF Inv

LEMMA PowerServesKeeps ==
  ASSUME Inv, PowerServes, Others
  PROVE  Inv'
<1> PICK r : r = Request("power")
  OBVIOUS
<1>1. /\ queue["power"] # <<>> /\ "power" \in Servers /\ pc["power"] = "serve"
      /\ UNCHANGED <<pc, directory, deaths, bar, job>>
  BY DEF PowerServes, Others, Servers
<1>2. /\ r \in Requests /\ r.from \in Processes /\ Asks(r.from, "power", r)
      /\ reply[r.from] = "waiting"
  BY <1>1, RequestFacts
<1>3. \/ r.code = "set" /\ PowerSets(r.from, r.arg) /\ Serve("power", "ok")
      \/ r.code = "get" /\ Serve("power", mode) /\ UNCHANGED <<mode, seen, own>>
      \/ r.code = "battery" /\ Serve("power", "level") /\ UNCHANGED <<mode, seen, own>>
  BY DEF PowerServes
<1>4. PICK answer \in Answers : Serve("power", answer) /\ (r.code = "get" => answer = mode)
  BY <1>3 DEF Answers, Inv, TypeOK
<1>5. /\ Outstanding' /\ BusTypes' /\ reply'[r.from] = answer
      /\ \A q \in Processes \ {r.from} : reply'[q] = reply[q]
  BY <1>1, <1>4, ServeKeeps DEF Same, Inv, TypeOK, BusTypes
<1>6. r.code = "set" => /\ r.from \in Clients /\ r.arg = job[r.from].arg /\ r.arg \in Modes
                        /\ mode' = r.arg /\ Notice(mode')
                        /\ own' = [a \in Apps |-> a = r.from]
  BY <1>2, <1>3, ProcessFacts DEF Asks, PowerSets, Inv, TypeOK, Jobs
<1>7. r.code # "set" => UNCHANGED <<mode, seen, own>>
  BY <1>3
<1>8. TypeOK'
  BY <1>1, <1>5, <1>6, <1>7 DEF Inv, TypeOK, BusTypes
<1>9. /\ DOMAIN seen' = DOMAIN seen /\ DOMAIN seen \subseteq Threads
      /\ \A t \in DOMAIN seen : seen[t] \subseteq seen'[t] /\ mode' \in seen'[t]
  <2>1. \A t \in DOMAIN seen : mode \in seen[t]
    BY <1>1 DEF Inv, Knowledge, ThreadKnows
  <2>2. QED
    BY <1>6, <1>7, <2>1 DEF Notice, Inv, Knowledge
<1>10. ASSUME NEW q \in Clients \cup {"bar"}
       PROVE  KnowsPath(q)'
  <2>1. Resolving(q)' <=> Resolving(q)
    BY <1>1 DEF Resolving
  <2>2. Resolving(q) => q # r.from
    BY <1>2, <1>10, ProcessFacts DEF Resolving, Asks
  <2>3. QED
    BY <1>5, <1>10, <2>1, <2>2, ProcessFacts DEF KnowsPath, Inv, Knowledge, Servers
<1>11. ASSUME NEW t \in Threads
       PROVE  ThreadKnows(t)'
  <2>1. ThreadKnows(t)
    BY DEF Inv, Knowledge
  <2>2. Reading(t) /\ pc[t] = "ask" => reply'[t] \in {"waiting", "error"} \cup seen'[t]
    <3>1. CASE t = r.from
      <4>1. Reading(t) /\ pc[t] = "ask" => r.code = "get"
        BY <1>2, <3>1, ProcessFacts DEF Asks, Reading
      <4>2. QED
        BY <1>4, <1>5, <1>7, <1>9, <2>1, <3>1, <4>1 DEF ThreadKnows
    <3>2. CASE t # r.from
      BY <1>5, <1>9, <2>1, <3>2, ProcessFacts DEF ThreadKnows
    <3>3. QED
      BY <3>1, <3>2
  <2>3. QED
    BY <1>1, <1>9, <2>1, <2>2 DEF ThreadKnows, Reading
<1>12. ASSUME NEW a \in Apps
       PROVE  AppKnows(a)'
  <2>1. AppKnows(a) /\ a \notin {"power", "bar"} /\ a \notin Threads /\ a \in Processes
    BY ProcessFacts DEF Inv, Knowledge
  <2>2. CASE a = r.from
    <3>1. \/ pc[a] = "set" /\ r.code = "set" /\ r.arg = job[a].arg
          \/ pc[a] = "ask" /\ r.code = "get"
      BY <1>2, <2>1, <2>2 DEF Asks
    <3>2. CASE pc[a] = "set" /\ r.code = "set" /\ r.arg = job[a].arg
      BY <1>1, <1>2, <1>6, <2>1, <2>2, <3>2 DEF AppKnows
    <3>3. CASE pc[a] = "ask" /\ r.code = "get"
      BY <1>1, <1>4, <1>5, <1>7, <2>1, <2>2, <3>3 DEF AppKnows
    <3>4. QED
      BY <3>1, <3>2, <3>3
  <2>3. CASE a # r.from
    <3>1. reply'[a] = reply[a]
      BY <1>5, <2>1, <2>3
    <3>2. r.code = "set" => ~own'[a]
      BY <1>6, <2>3
    <3>3. QED
      BY <1>1, <1>7, <2>1, <3>1, <3>2 DEF AppKnows
  <2>4. QED
    BY <2>2, <2>3
<1>13. Knowledge'
  BY <1>1, <1>9, <1>10, <1>11, <1>12 DEF Knowledge
<1>14. QED
  BY <1>5, <1>8, <1>13 DEF Inv

\* A notification changes nothing but its sender's reply.
LEMMA BarNotifiedKeeps ==
  ASSUME Inv, BarNotified
  PROVE  Inv'
<1> PICK r : r = Request("bar")
  OBVIOUS
<1>1. /\ queue["bar"] # <<>> /\ "bar" \in Servers /\ pc["bar"] = "loop"
      /\ Goto("bar", "notified") /\ Serve("bar", "ok") /\ "ok" \in Answers
      /\ UNCHANGED <<bar, directory, mode, seen, own, deaths, job>>
  BY DEF BarNotified, BarFrame, Servers, Answers
<1>2. r.from \in Apps /\ pc[r.from] = "notify"
  BY <1>1, RequestFacts DEF Asks
<1>3. Step("bar") /\ pc'["bar"] = "notified" /\ pc'["power"] = pc["power"]
  BY <1>1, ProcessFacts DEF Inv, TypeOK, Goto, Step, Same, Places, Servers
<1>4. Unqueued("bar")
  BY <1>1, NotQueued, ProcessFacts DEF Inv, Asks
<1>5. /\ Outstanding' /\ BusTypes'
      /\ \A q \in Processes \ {r.from} : reply'[q] = reply[q]
  <2>1. \A q \in Processes : Unqueued(q) \/ Same(q)
    BY <1>3, <1>4 DEF Step
  <2>2. QED
    BY <1>1, <2>1, ServeKeeps DEF Inv, TypeOK, BusTypes
<1>6. TypeOK'
  BY <1>1, <1>3, <1>5 DEF Inv, TypeOK, BusTypes, Step
<1>7. AppKnows(r.from)' /\ KnowsPath(r.from)' /\ KnowsPath("bar")' /\ pc'[r.from] = "notify"
  <2>1. pc'[r.from] = "notify" /\ AppKnows(r.from) /\ r.from \in Clients
    BY <1>2, <1>3, ProcessFacts DEF Step, Same, Inv, Knowledge
  <2>2. KnowsPath(r.from)' /\ KnowsPath("bar")'
    BY <1>3, <2>1, ProcessFacts DEF KnowsPath, Resolving
  <2>3. AppKnows(r.from)'
    <3>1. PICK a \in Apps : a = r.from
      BY <1>2
    <3>2. /\ AppKnows(a) /\ pc[a] = "notify" /\ pc'[a] = "notify"
          /\ own'[a] = own[a] /\ job'[a] = job[a] /\ mode' = mode
      BY <1>1, <1>2, <2>1, <3>1
    <3>3. AppKnows(a)'
      BY <1>3, <3>2 DEF AppKnows
    <3>4. QED
      BY <3>1, <3>3
  <2>4. QED
    BY <2>1, <2>2, <2>3
<1>8. /\ \A q \in Processes \ {r.from, "bar"} : Same(q) /\ reply'[q] = reply[q]
      /\ DOMAIN seen \subseteq Threads
  BY <1>3, <1>5 DEF Step, Inv, Knowledge
<1>9. /\ \A q \in {r.from, "bar"} \cap (Clients \cup {"bar"}) : KnowsPath(q)'
      /\ \A t \in {r.from, "bar"} \cap Threads : ThreadKnows(t)'
      /\ \A a \in {r.from, "bar"} \cap Apps : AppKnows(a)'
  BY <1>2, <1>7, ProcessFacts
<1>10. Knowledge'
  BY <1>1, <1>3, <1>8, <1>9, OthersKnow
<1>11. QED
  BY <1>5, <1>6, <1>10 DEF Inv

LEMMA DiesKeepsInv ==
  ASSUME Inv, NEW s \in Servers, Dies(s), Others
  PROVE  Inv'
<1>1. /\ Outstanding' /\ BusTypes'
      /\ \A q \in Processes \ {s} :
           /\ Same(q)
           /\ \/ reply'[q] = reply[q]
              \/ reply'[q] = "error" /\ \E r : Asks(q, s, r)
  BY DiesKeeps DEF Inv, Others
<1>2. /\ pc' = [pc EXCEPT ![s] = "down"] /\ deaths < MaxDeaths /\ deaths' = deaths + 1
      /\ UNCHANGED <<seen, bar, job>>
      /\ own' = IF s = "power" THEN [a \in Apps |-> FALSE] ELSE own
      /\ directory' = IF s = "manager" THEN {} ELSE directory
      /\ mode' = IF s = "power" THEN Balanced ELSE mode
  BY DEF Dies, Others, Goto
<1>3. /\ pc' \in [Processes -> Places] /\ pc'[s] = "down"
      /\ s # "power" => pc'["power"] = pc["power"]
  BY <1>2, ProcessFacts DEF Inv, TypeOK, Places, Servers
<1>4. TypeOK'
  <2>1. own' \in [Apps -> BOOLEAN]
    BY <1>2 DEF Inv, TypeOK
  <2>2. deaths' \in 0..MaxDeaths
    BY <1>2, DeathsAssumption DEF Inv, TypeOK
  <2>3. QED
    BY <1>1, <1>2, <1>3, <2>1, <2>2, ModesAssumption DEF Inv, TypeOK, BusTypes
<1>5. /\ (pc["power"] # "serve" => mode = Balanced)' /\ DOMAIN seen' \subseteq Threads
      /\ \A a \in Apps : own'[a] => own[a] /\ s # "power"
  BY <1>2, <1>3 DEF Inv, Knowledge
<1>6. ASSUME NEW q \in Clients
      PROVE  /\ pc'[q] = pc[q] /\ job'[q] = job[q]
             /\ reply'[q] = reply[q] \/ reply'[q] = "error"
             /\ q \in Apps /\ pc[q] = "ask" /\ s # "power" => reply'[q] = reply[q]
  <2>1. q \in Processes \ {s} /\ q \notin {"manager", "power", "bar"}
    BY ProcessFacts
  <2>2. ASSUME NEW r, Asks(q, s, r), q \in Apps, pc[q] = "ask"
        PROVE  s = "power"
    BY <2>1, <2>2 DEF Asks
  <2>3. QED
    BY <1>1, <2>1, <2>2 DEF Same
<1>7. KnowsPath("bar")'
  <2>1. CASE s = "bar"
    BY <1>3, <2>1, ProcessFacts DEF KnowsPath, Resolving
  <2>2. CASE s # "bar"
    BY <1>1, <2>2, ProcessFacts DEF Same, KnowsPath, Resolving, Inv, Knowledge, Servers
  <2>3. QED
    BY <2>1, <2>2
<1>8. ASSUME NEW q \in Clients
      PROVE  KnowsPath(q)'
  BY <1>6 DEF KnowsPath, Resolving, Inv, Knowledge
<1>9. ASSUME NEW t \in Threads
      PROVE  ThreadKnows(t)'
  BY <1>2, <1>3, <1>6, ProcessFacts DEF ThreadKnows, Reading, Inv, Knowledge
<1>10. ASSUME NEW a \in Apps
       PROVE  AppKnows(a)'
  <2>1. AppKnows(a) /\ a \in Clients
    BY ProcessFacts DEF Inv, Knowledge
  <2>2. ASSUME own'[a]
        PROVE  own[a] /\ s # "power" /\ UNCHANGED mode /\ pc'["power"] = pc["power"]
    BY <1>2, <1>3, <1>5, <2>2
  <2>3. QED
    BY <1>2, <1>6, <2>1, <2>2 DEF AppKnows
<1>11. QED
  BY <1>1, <1>4, <1>5, <1>7, <1>8, <1>9, <1>10 DEF Inv, Knowledge

-----------------------------------------------------------------------------
(* The theorems.                                                           *)

LEMMA InvInit == Init => Inv
<1> SUFFICES ASSUME Init
             PROVE  Inv
  OBVIOUS
<1> USE DEF Init, BusInit
<1>1. TypeOK
  <2>1. NoJob \in Jobs /\ None \in Answers /\ <<>> \in Seq(Requests)
    BY ModesAssumption DEF NoJob, Jobs, Answers
  <2>2. pc \in [Processes -> Places] /\ reply \in [Processes -> Answers]
    BY <2>1 DEF Processes, Places
  <2>3. bar \in [path : {None, "power"}, shown : Answers]
    BY ModesAssumption DEF IdleBar, Answers
  <2>4. QED
    BY <2>1, <2>2, <2>3, ModesAssumption, DeathsAssumption DEF TypeOK
<1>2. Outstanding
  BY DEF Outstanding
<1>3. Knowledge
  <2>1. /\ \A c \in Clients : pc[c] = "idle"
        /\ pc["bar"] = "down" /\ mode = Balanced /\ DOMAIN seen = {}
        /\ \A a \in Apps : ~own[a]
    BY ProcessFacts DEF Processes, Servers
  <2>2. QED
    BY <2>1, ProcessFacts DEF Knowledge, KnowsPath, Resolving, ThreadKnows, Reading, AppKnows
<1>4. QED
  BY <1>1, <1>2, <1>3 DEF Inv

LEMMA InvNext == Inv /\ [Next]_vars => Inv'
<1> SUFFICES ASSUME Inv, [Next]_vars
             PROVE  Inv'
  OBVIOUS
<1>1. CASE ManagerStarts /\ Others
  BY <1>1, ManagerStartsKeeps
<1>2. CASE ManagerServes /\ Others
  BY <1>2, ManagerServesKeeps
<1>3. CASE (PowerStarts \/ PowerBinds \/ PowerServes) /\ Others
  BY <1>3, PowerStartsKeeps, PowerBindsKeeps, PowerServesKeeps
<1>4. CASE \E s \in Servers : Dies(s) /\ Others
  BY <1>4, DiesKeepsInv
<1>5. CASE BarStarts \/ BarNext
  BY <1>5, BarCallsKeep, BarNotifiedKeeps
<1>6. ASSUME NEW c \in Clients,
             \/ c \in Threads /\ Begin(c, "power", Balanced)
             \/ c \in Threads /\ \E m \in Modes : Begin(c, "set", m)
             \/ c \in Apps /\ \E m \in Wished : Begin(c, "settings", m)
      PROVE  Inv'
  <2>1. CASE c \in Threads /\ Begin(c, "power", Balanced)
    BY <2>1, BeginKeeps, ModesAssumption
  <2>2. ASSUME c \in Threads, NEW m \in Modes, Begin(c, "set", m)
        PROVE  Inv'
    BY <2>2, BeginKeeps
  <2>3. ASSUME c \in Apps, NEW m \in Wished, Begin(c, "settings", m)
        PROVE  Inv'
    BY <2>3, BeginKeeps, WishedAreModes
  <2>4. QED
    BY <1>6, <2>1, <2>2, <2>3
<1>7. ASSUME NEW c \in Clients, ClientNext(c)
      PROVE  Inv'
  BY <1>7, GatewayResolvedKeeps, GatewayAsksModeKeeps, GatewayAnswersKeeps,
     FindsBarKeeps, SetsModeKeeps, NotifiesKeeps, AsksModeKeeps, ShowsKeeps, EndsKeeps
     DEF ClientNext
<1>8. CASE UNCHANGED vars
  BY <1>8 DEF vars, busVars, Inv, TypeOK, Outstanding, Asks, Knowledge, KnowsPath, Resolving,
     ThreadKnows, Reading, AppKnows
<1>9. QED
  BY <1>1, <1>2, <1>3, <1>4, <1>5, <1>6, <1>7, <1>8 DEF Next

\* Whatever the number of clients, of modes and of deaths: a connection in a server's
\* queue is the one its process waits for now, so no reply answers an earlier call
\* (libipc, binder.rs:39-75).
THEOREM OneTransactionEach == Spec => []Outstanding
<1>1. Inv => Outstanding
  BY DEF Inv
<1>2. QED
  BY InvInit, InvNext, <1>1, PTL DEF Spec

\* The places, requests and jobs are what they are meant to be; a lookup gives a name
\* that was registered.
THEOREM ServiceTypes == Spec => []TypeOK
<1>1. Inv => TypeOK
  BY DEF Inv
<1>2. QED
  BY InvInit, InvNext, <1>1, PTL DEF Spec

\* GET /api/power answers with a mode that powermanager had while the request ran
\* (apigateway main.rs:67-96).
THEOREM AnswersAreReal == Spec => []AnswerIsReal
<1>1. Inv => AnswerIsReal
  BY DEF Inv, Knowledge, ThreadKnows, Reading, AnswerIsReal
<1>2. QED
  BY InvInit, InvNext, <1>1, PTL DEF Spec

\* The settings application shows the mode it has set (settings main.rs:298-311) as
\* long as nobody sets another and powermanager lives.
THEOREM SettingsShowsWhatItSets == Spec => []SettingsShowsItsMode
<1>1. Inv => SettingsShowsItsMode
  BY DEF Inv, Knowledge, AppKnows, SettingsShowsItsMode
<1>2. QED
  BY InvInit, InvNext, <1>1, PTL DEF Spec
=============================================================================
