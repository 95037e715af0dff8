------------------------------ MODULE Services ------------------------------
(***************************************************************************)
(* The clients of the services: the threads of apigateway (one request     *)
(* each), the runs of the settings application, and the status bar, which  *)
(* serves notifications and is itself a client of powermanager.            *)
(* What they draw on their surfaces is in module SurfaceComposer.          *)
(***************************************************************************)
EXTENDS ServiceBus

CONSTANT Wished  \* modes that the settings application is run with

ASSUME WishedAreModes == Wished \subseteq Modes

VARIABLES
  bar,      \* the status bar: powermanager's path, the mode it shows
  job       \* what each client does, and what it has learnt

vars == <<busVars, bar, job>>

IdleBar == [path |-> None, shown |-> Balanced]
NoJob   == [kind |-> "power", arg |-> Balanced, path |-> None, bar |-> None,
            set |-> FALSE, answer |-> None]

Init ==
  /\ BusInit
  /\ bar = IdleBar
  /\ job = [c \in Clients |-> NoJob]

-----------------------------------------------------------------------------
(***************************************************************************)
(* The status bar resolves powermanager, binds, registers, and draws. Then *)
(* it serves one notification or waits a second, and draws again.          *)
(***************************************************************************)
BarFrame == UNCHANGED <<directory, mode, seen, own, deaths, job>>

BarStarts ==
  /\ pc["bar"] = "down" /\ Goto("bar", "resolve")
  /\ bar' = IdleBar
  /\ Call("bar", "manager", "lookup", "power")
  /\ BarFrame

ResolvedPath(p) == IF Failed(p) THEN None ELSE reply[p]

BarRegisters ==
  /\ pc["bar"] = "resolve" /\ Returned("bar") /\ Goto("bar", "register")
  /\ bar' = [bar EXCEPT !.path = ResolvedPath("bar")]
  /\ Call("bar", "manager", "register", "bar")
  /\ BarFrame

\* query_power_metrics: without a path, or without an answer, it shows the
\* mode "balanced". (The battery, which it asks for first, is left out here
\* and in the settings application: its failure changes nothing.)
Draw(b) ==
  IF b.path = None
    THEN Goto("bar", "loop") /\ bar' = [b EXCEPT !.shown = Balanced] /\ Forget("bar")
    ELSE Goto("bar", "mode") /\ bar' = b /\ Call("bar", b.path, "get", None)

BarDraws ==
  /\ pc["bar"] = "register" /\ Returned("bar") /\ Draw(bar)
  /\ BarFrame

BarShows ==
  /\ pc["bar"] = "mode" /\ Returned("bar") /\ Goto("bar", "loop")
  /\ bar' = [bar EXCEPT !.shown = IF Failed("bar") THEN Balanced ELSE reply["bar"]]
  /\ Forget("bar") /\ BarFrame

\* Mutant: powermanager is resolved once.
DrawAgain(b) == Draw(b)

\* An empty path is resolved anew before the bar is drawn.
Redraw(b) ==
  IF b.path = None
    THEN Goto("bar", "again") /\ bar' = b /\ Call("bar", "manager", "lookup", "power")
    ELSE Draw(b)

\* select times out.
BarWakes ==
  /\ pc["bar"] = "loop" /\ queue["bar"] = <<>> /\ Redraw(bar)
  /\ BarFrame

\* CMD_SHOW_NOTIFICATION: the text is answered, then it is drawn with the rest.
BarNotified ==
  /\ pc["bar"] = "loop" /\ queue["bar"] # <<>>
  /\ UNCHANGED bar /\ Goto("bar", "notified") /\ Serve("bar", "ok")
  /\ BarFrame

BarRedraws ==
  /\ pc["bar"] = "notified" /\ Redraw(bar)
  /\ BarFrame

BarResolved ==
  /\ pc["bar"] = "again" /\ Returned("bar")
  /\ Draw([bar EXCEPT !.path = ResolvedPath("bar")])
  /\ BarFrame

BarNext ==
  \/ BarRegisters \/ BarDraws \/ BarShows
  \/ BarWakes \/ BarNotified \/ BarRedraws \/ BarResolved

-----------------------------------------------------------------------------
(***************************************************************************)
(* apigateway: a thread for each request. It resolves the service anew;    *)
(* GET /api/power then asks for the battery and, on a second connection,   *)
(* for the mode; each other request is one transaction. Any failure is an  *)
(* error answer (503, 400 or 500).                                         *)
(***************************************************************************)
ClientFrame == UNCHANGED <<directory, mode, own, deaths, bar>>
Learn(c, r) == job' = [job EXCEPT ![c] = r]
Fails(c)    == Goto(c, "done") /\ Learn(c, [job[c] EXCEPT !.answer = "error"]) /\ Forget(c)

\* A request comes, or an application is run (see below).
Begin(c, kind, m) ==
  /\ pc[c] = "idle"
  /\ Learn(c, [NoJob EXCEPT !.kind = kind, !.arg = m])
  /\ seen' = IF kind # "power" THEN seen
             ELSE [t \in DOMAIN seen \cup {c} |->
                     IF t # c THEN seen[t]
                     ELSE IF pc["power"] = "serve" THEN {mode} ELSE {}]
  /\ Goto(c, "find") /\ Call(c, "manager", "lookup", "power")
  /\ UNCHANGED <<directory, mode, own, deaths, bar>>

GatewayResolved(c) ==
  /\ pc[c] = "find" /\ Returned(c)
  /\ IF ResolvedPath(c) = None
       THEN Fails(c)
       ELSE /\ UNCHANGED job
            /\ IF job[c].kind = "power"
                 THEN Goto(c, "battery") /\ Call(c, reply[c], "battery", None)
                 ELSE Goto(c, "ask") /\ Call(c, reply[c], "set", job[c].arg)
  /\ UNCHANGED seen /\ ClientFrame

GatewayAsksMode(c) ==
  /\ pc[c] = "battery" /\ Returned(c)
  /\ IF Failed(c)
       THEN Fails(c)
       ELSE Goto(c, "ask") /\ Call(c, "power", "get", None) /\ UNCHANGED job
  /\ UNCHANGED seen /\ ClientFrame

\* Mutant: without an answer the mode is "balanced", as the status bar has it.
GatewayDefaults(c) ==
  /\ pc[c] = "ask" /\ Returned(c)
  /\ Goto(c, "done") /\ Forget(c)
  /\ Learn(c, [job[c] EXCEPT !.answer = IF Failed(c) THEN Balanced ELSE reply[c]])
  /\ UNCHANGED seen /\ ClientFrame

GatewayAnswers(c) ==
  /\ pc[c] = "ask" /\ Returned(c)
  /\ Goto(c, "done") /\ Forget(c)
  /\ Learn(c, [job[c] EXCEPT !.answer = reply[c]])
  /\ UNCHANGED seen /\ ClientFrame

-----------------------------------------------------------------------------
(***************************************************************************)
(* The settings application resolves powermanager and the status bar, sets *)
(* the mode, tells the status bar if that succeeded, and then shows the    *)
(* battery and the mode.                                                   *)
(***************************************************************************)
\* A call to a service without a path is left out: its result is a failure.
CallIf(c, path, code, arg) ==
  IF path = None
    THEN reply' = [reply EXCEPT ![c] = "error"] /\ UNCHANGED queue
    ELSE Call(c, path, code, arg)

FindsBar(c) ==
  /\ pc[c] = "find" /\ Returned(c) /\ Goto(c, "findbar")
  /\ Learn(c, [job[c] EXCEPT !.path = ResolvedPath(c)])
  /\ Call(c, "manager", "lookup", "bar")
  /\ UNCHANGED seen /\ ClientFrame

SetsMode(c) ==
  /\ pc[c] = "findbar" /\ Returned(c) /\ Goto(c, "set")
  /\ Learn(c, [job[c] EXCEPT !.bar = ResolvedPath(c)])
  /\ CallIf(c, job[c].path, "set", job[c].arg)
  /\ UNCHANGED seen /\ ClientFrame

\* The result of the set is 0, or there is none.
Notifies(c) ==
  /\ pc[c] = "set" /\ Returned(c) /\ Goto(c, "notify")
  /\ Learn(c, [job[c] EXCEPT !.set = ~Failed(c), !.bar = None])
  /\ IF Failed(c) THEN Forget(c) ELSE CallIf(c, job[c].bar, "notify", job[c].arg)
  /\ UNCHANGED seen /\ ClientFrame

\* get_power_mode
AsksMode(c) ==
  /\ pc[c] = "notify" /\ Returned(c) /\ Goto(c, "ask")
  /\ CallIf(c, job[c].path, "get", None)
  /\ UNCHANGED <<seen, job>> /\ ClientFrame

Shows(c) ==
  /\ pc[c] = "ask" /\ Returned(c)
  /\ Goto(c, "done") /\ Forget(c)
  /\ Learn(c, [job[c] EXCEPT !.answer = IF Failed(c) THEN Balanced ELSE reply[c]])
  /\ UNCHANGED seen /\ ClientFrame

\* The connection is closed, the process ends.
Ends(c) ==
  /\ pc[c] = "done" /\ Goto(c, "gone")
  /\ Learn(c, NoJob)
  /\ seen' = Restrict(seen, DOMAIN seen \ {c})
  /\ own' = [a \in Apps |-> a # c /\ own[a]]
  /\ UNCHANGED <<queue, reply, directory, mode, deaths, bar>>

ClientNext(c) ==
  \/ c \in Threads /\ (GatewayResolved(c) \/ GatewayAsksMode(c) \/ GatewayAnswers(c))
  \/ c \in Apps /\ (\/ FindsBar(c) \/ SetsMode(c) \/ Notifies(c)
                    \/ AsksMode(c) \/ Shows(c))
  \/ Ends(c)

-----------------------------------------------------------------------------
Others == UNCHANGED <<bar, job>>

Next ==
  \/ ManagerStarts /\ Others
  \/ ManagerServes /\ Others
  \/ (PowerStarts \/ PowerBinds \/ PowerServes) /\ Others
  \/ \E s \in Servers : Dies(s) /\ Others
  \/ BarStarts \/ BarNext
  \/ \E c \in Clients :
       \/ c \in Threads /\ Begin(c, "power", Balanced)
       \/ c \in Threads /\ \E m \in Modes : Begin(c, "set", m)
       \/ c \in Apps /\ \E m \in Wished : Begin(c, "settings", m)
       \/ ClientNext(c)

Spec == Init /\ [][Next]_vars

\* A process that runs goes on; nobody need start one, or begin a request.
FairSpec ==
  /\ Spec
  /\ WF_vars(ManagerServes /\ Others)
  /\ WF_vars((PowerBinds \/ PowerServes) /\ Others)
  /\ WF_vars(BarNext)
  /\ \A c \in Clients : WF_vars(ClientNext(c))

-----------------------------------------------------------------------------
\* The mode in an answer of GET /api/power is one that powermanager had while
\* the request ran (apigateway main.rs:67-96), whoever sets it, and whichever
\* of the services dies and starts again between the three connections.
AnswerIsReal ==
  \A c \in Threads :
    pc[c] = "done" /\ job[c].kind = "power" /\ job[c].answer # "error"
      => job[c].answer \in seen[c]

\* The settings application shows the mode that it has set with success
\* (settings main.rs:298-311), unless another client has set one since or
\* powermanager has died.
SettingsShowsItsMode ==
  \A c \in Apps :
    pc[c] = "done" /\ job[c].set /\ own[c]
      => job[c].answer = job[c].arg

\* Every request is answered and every application gets to its end, although
\* no transaction has a time limit (binder.rs:39-75): a dead server fails its
\* callers, and no two servers wait for each other.
Answered == \A c \in Clients : pc[c] # "idle" ~> pc[c] = "gone"

\* Once powermanager serves and servicemanager knows it for good, the status
\* bar comes to show its mode and keeps doing so (statusbar main.rs:465-479),
\* also when the bar was there first and when either was started again.
PowerFound   == pc["manager"] = "serve" /\ pc["power"] = "serve" /\ "power" \in directory
BarFollows   == <>[](PowerFound /\ pc["bar"] # "down") => <>[](bar.shown = mode)
-----------------------------------------------------------------------------
(***************************************************************************)
(* The inductive invariant behind AnswerIsReal and SettingsShowsItsMode.   *)
(***************************************************************************)
Processes == Servers \cup Clients
Answers   == Modes \cup {None, "waiting", "error", "ok", "level", "power", "bar"}

Requests ==
  [from : Processes, code : {"register", "lookup", "get", "set", "battery", "notify"},
   arg : Modes \cup {None, "power", "bar"}]
Jobs ==
  [kind : {"power", "set", "settings"}, arg : Modes, path : {None, "power"},
   bar : {None, "bar"}, set : BOOLEAN, answer : Answers]

Places ==
  {"down", "serve", "register", "resolve", "mode", "loop", "notified", "again", "idle",
   "find", "findbar", "battery", "set", "notify", "ask", "done", "gone"}

TypeOK ==
  /\ pc \in [Processes -> Places]
  /\ queue \in [Servers -> Seq(Requests)]
  /\ reply \in [Processes -> Answers]
  /\ directory \subseteq {"power", "bar"}
  /\ mode \in Modes
  /\ own \in [Apps -> BOOLEAN]
  /\ deaths \in 0..MaxDeaths
  /\ bar \in [path : {None, "power"}, shown : Answers]
  /\ job \in [Clients -> Jobs]

\* Process p, where it is now, has made request r of server s.
Asks(p, s, r) ==
  \/ /\ s = "manager"
     /\ \/ p \in {"power", "bar"} /\ pc[p] = "register" /\ r.code = "register" /\ r.arg = p
        \/ p = "bar" /\ pc[p] \in {"resolve", "again"} /\ r.code = "lookup" /\ r.arg = "power"
        \/ p \in Clients /\ pc[p] = "find" /\ r.code = "lookup" /\ r.arg = "power"
        \/ p \in Apps /\ pc[p] = "findbar" /\ r.code = "lookup" /\ r.arg = "bar"
  \/ /\ s = "power"
     /\ \/ p = "bar" /\ pc[p] = "mode" /\ r.code = "get"
        \/ p \in Threads /\ pc[p] = "battery" /\ r.code = "battery"
        \/ p \in Threads /\ pc[p] = "ask" /\ job[p].kind = "power" /\ r.code = "get"
        \/ /\ p \in Threads /\ pc[p] = "ask" /\ job[p].kind # "power"
           /\ r.code = "set" /\ r.arg = job[p].arg
        \/ p \in Apps /\ pc[p] = "set" /\ r.code = "set" /\ r.arg = job[p].arg
        \/ p \in Apps /\ pc[p] = "ask" /\ r.code = "get"
  \/ s = "bar" /\ p \in Apps /\ pc[p] = "notify"

\* Each connection is the one that its process waits for now.
Outstanding ==
  \A s \in Servers :
    /\ \A i \in DOMAIN queue[s] :
         /\ reply[queue[s][i].from] = "waiting"
         /\ Asks(queue[s][i].from, s, queue[s][i])
    /\ \A i, j \in DOMAIN queue[s] : queue[s][i].from = queue[s][j].from => i = j

\* A lookup that returned gave the path of the service that was asked for.
Resolving(p) ==
  \/ p \in Clients /\ pc[p] = "find"
  \/ p = "bar" /\ pc[p] \in {"resolve", "again"}
KnowsPath(p) == Resolving(p) => reply[p] \in {"waiting", "error", None, "power"}

\* A GET /api/power that runs has seen the mode that powermanager has now.
Reading(t) == job[t].kind = "power" /\ pc[t] \in {"find", "battery", "ask", "done"}
ThreadKnows(t) ==
  /\ t \in DOMAIN seen <=> Reading(t)
  /\ pc[t] = "battery" => job[t].kind = "power"
  /\ Reading(t) =>
       /\ pc["power"] = "serve" => mode \in seen[t]
       /\ pc[t] = "ask" => reply[t] \in {"waiting", "error"} \cup seen[t]
       /\ pc[t] = "done" => job[t].answer \in {"error"} \cup seen[t]

\* The mode is an application's own from the moment that powermanager takes it; if
\* it set it with success, it has powermanager's path and reads the mode from there.
AppKnows(a) ==
  /\ pc[a] = "findbar" => reply[a] \in {"waiting", "error", None, "bar"}
  /\ pc[a] = "set" /\ job[a].path = None => reply[a] = "error"
  /\ pc[a] \in {"notify", "ask"} /\ job[a].set => job[a].path # None
  /\ own[a] => /\ pc["power"] = "serve" /\ mode = job[a].arg
               /\ pc[a] \in {"set", "notify", "ask", "done"}
               /\ pc[a] = "ask" /\ job[a].set => reply[a] \in {"waiting", job[a].arg}
               /\ pc[a] = "done" /\ job[a].set => job[a].answer = job[a].arg

Knowledge ==
  /\ pc["power"] # "serve" => mode = Balanced
  /\ DOMAIN seen \subseteq Threads
  /\ KnowsPath("bar") /\ \A c \in Clients : KnowsPath(c)
  /\ \A t \in Threads : ThreadKnows(t)
  /\ \A a \in Apps : AppKnows(a)
=============================================================================
