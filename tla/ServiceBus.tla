----------------------------- MODULE ServiceBus -----------------------------
(***************************************************************************)
(* The service processes and the transactions between them: libipc,        *)
(* servicemanager, and powermanager, which serve one connection after the  *)
(* other. A socket path stands for the service behind it: no service       *)
(* changes it.                                                             *)
(*                                                                         *)
(* A process that dies takes its sockets and its memory with it; init may  *)
(* start it again (module Supervisor says when). A request whose sender    *)
(* has died is not served here: what it could change, the sender's next    *)
(* start changes as well.                                                  *)
(***************************************************************************)
EXTENDS Naturals, Sequences, SequencesExt

CONSTANTS
  Threads,   \* threads of apigateway
  Apps,      \* runs of the settings application
  Modes,     \* power modes
  Balanced,  \* the mode powermanager starts with
  None,      \* the empty path, no answer yet, no notification
  MaxDeaths  \* bound: servers that die

Servers == {"manager", "power", "bar"}
Clients == Threads \cup Apps

\* A mode is told from a failure, and no process is two of these.
ASSUME ModesAssumption ==
  Balanced \in Modes /\ Modes \cap {None, "waiting", "error"} = {}
ASSUME DeathsAssumption == MaxDeaths \in Nat
ASSUME ProcessesAssumption ==
  Threads \cap Apps = {} /\ Clients \cap Servers = {}

VARIABLES
  pc,         \* where each process is
  queue,      \* connections to each server that it has not served yet
  reply,      \* what the last transaction of each process returned
  directory,  \* services registered with the servicemanager that runs
  mode,       \* powermanager's mode
  seen,       \* history: for each GET /api/power that runs, the modes since it began
  own,        \* history: the mode is the one that this application has set
  deaths

busVars == <<pc, queue, reply, directory, mode, seen, own, deaths>>

\* The status bar binds before it registers, the others after it.
Listening(s) == IF s = "bar" THEN pc[s] \notin {"down", "resolve"} ELSE pc[s] = "serve"
Returned(p)  == reply[p] # "waiting"
Failed(p)    == reply[p] = "error"
Goto(p, l)   == pc' = [pc EXCEPT ![p] = l]

\* Mutant: ipc_connect waits until somebody listens.
CallWaits(p, s, code, arg) ==
  /\ Listening(s)
  /\ queue' = [queue EXCEPT ![s] = Append(@, [from |-> p, code |-> code, arg |-> arg])]
  /\ reply' = [reply EXCEPT ![p] = "waiting"]

\* ipc_connect fails at once when nobody listens; ipc_send_transaction waits
\* for the answer, or for the end of the server.
Call(p, s, code, arg) ==
  IF Listening(s)
    THEN /\ queue' = [queue EXCEPT ![s] = Append(@, [from |-> p, code |-> code, arg |-> arg])]
         /\ reply' = [reply EXCEPT ![p] = "waiting"]
    ELSE reply' = [reply EXCEPT ![p] = "error"] /\ UNCHANGED queue

\* The answer is used up and no call is made.
Forget(p) == reply' = [reply EXCEPT ![p] = None] /\ UNCHANGED queue

Request(s)   == Head(queue[s])
Serve(s, r)  ==
  /\ queue' = [queue EXCEPT ![s] = Tail(@)]
  /\ reply' = [reply EXCEPT ![Request(s).from] = r]

BusInit ==
  /\ pc = [p \in Servers \cup Clients |-> IF p \in Servers THEN "down" ELSE "idle"]
  /\ queue = [s \in Servers |-> <<>>]
  /\ reply = [p \in Servers \cup Clients |-> None]
  /\ directory = {} /\ mode = Balanced
  /\ seen = <<>> /\ own = [a \in Apps |-> FALSE]
  /\ deaths = 0

-----------------------------------------------------------------------------
(***************************************************************************)
(* servicemanager                                                          *)
(***************************************************************************)
ManagerStarts ==
  /\ pc["manager"] = "down" /\ Goto("manager", "serve")
  /\ UNCHANGED <<queue, reply, directory, mode, seen, own, deaths>>

ManagerServes ==
  /\ pc["manager"] = "serve" /\ queue["manager"] # <<>>
  /\ LET name == Request("manager").arg
     IN IF Request("manager").code = "register"
          THEN directory' = directory \cup {name} /\ Serve("manager", "ok")
          ELSE /\ Serve("manager", IF name \in directory THEN name ELSE None)
               /\ UNCHANGED directory
  /\ UNCHANGED <<pc, mode, seen, own, deaths>>

-----------------------------------------------------------------------------
(***************************************************************************)
(* powermanager registers first, then it binds its socket. Without an      *)
(* answer it goes on alone and never registers again.                      *)
(***************************************************************************)
PowerStarts ==
  /\ pc["power"] = "down" /\ Goto("power", "register")
  /\ Call("power", "manager", "register", "power")
  /\ UNCHANGED <<directory, mode, seen, own, deaths>>

Notice(m) == seen' = [t \in DOMAIN seen |-> seen[t] \cup {m}]

PowerBinds ==
  /\ pc["power"] = "register" /\ Returned("power") /\ Goto("power", "serve")
  /\ Notice(Balanced)
  /\ Forget("power") /\ UNCHANGED <<directory, mode, own, deaths>>

\* Mutant: the mode is acknowledged and not kept.
PowerIgnores(c, m) ==
  /\ Notice(m)
  /\ own' = [a \in Apps |-> a = c] /\ UNCHANGED mode

PowerSets(c, m) ==
  /\ mode' = m
  /\ Notice(m)
  /\ own' = [a \in Apps |-> a = c]

PowerServes ==
  /\ pc["power"] = "serve" /\ queue["power"] # <<>>
  /\ LET r == Request("power")
     IN \/ /\ r.code = "set" /\ PowerSets(r.from, r.arg) /\ Serve("power", "ok")
        \/ /\ r.code = "get" /\ Serve("power", mode) /\ UNCHANGED <<mode, seen, own>>
        \/ /\ r.code = "battery" /\ Serve("power", "level") /\ UNCHANGED <<mode, seen, own>>
  /\ UNCHANGED <<pc, directory, deaths>>

-----------------------------------------------------------------------------
Waiters(s) == {queue[s][i].from : i \in DOMAIN queue[s]}

\* A process has at most one connection.
Without(q, p) ==
  IF \E i \in DOMAIN q : q[i].from = p
    THEN RemoveAt(q, CHOOSE i \in DOMAIN q : q[i].from = p)
    ELSE q

Dies(s) ==
  /\ pc[s] # "down" /\ deaths < MaxDeaths
  /\ deaths' = deaths + 1 /\ Goto(s, "down")
  /\ queue' = [t \in Servers |->
       IF t = s THEN <<>> ELSE Without(queue[t], s)]
  /\ reply' = [p \in DOMAIN reply |->
       IF p = s THEN None ELSE IF p \in Waiters(s) THEN "error" ELSE reply[p]]
  /\ own' = IF s = "power" THEN [a \in Apps |-> FALSE] ELSE own
  /\ directory' = IF s = "manager" THEN {} ELSE directory
  /\ mode' = IF s = "power" THEN Balanced ELSE mode
  /\ UNCHANGED seen
=============================================================================
