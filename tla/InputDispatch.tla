---------------------------- MODULE InputDispatch ----------------------------
(***************************************************************************)
(* Input events between inputflinger (services/inputflinger/src/main.rs)   *)
(* and the shells that listen to it (apps/launcher/src/main.rs).  Both     *)
(* sides are single-threaded servers of each other: inputflinger calls a   *)
(* listener while it answers the sender of an event, a shell calls         *)
(* inputflinger to register.  A process that dies is started again at once *)
(* (see Supervisor).  The calls that shells make to surfaceflinger are     *)
(* part of the step in which they are made: surfaceflinger calls nobody.   *)
(***************************************************************************)
EXTENDS Naturals, Sequences, SequencesExt

CONSTANTS
  Apps,        \* the shells, each with a listener socket of its own
  MaxCrashes   \* bound on the processes that die

ASSUME CrashAssumption == MaxCrashes \in Nat

VARIABLES
  flinger,    \* inputflinger: "down" before its bind; "idle" in accept(); in an
              \* event between two listeners ("dispatch"), with a call in a listener's
              \* backlog ("call") or accepted by it ("served"), and in the loop that
              \* removes dead listeners ("sweep")
  listeners,  \* s.listeners, a vector of paths
  turn,       \* the listener the loop is at
  dead,       \* dead_listeners, a vector of indices; in a sweep those still to remove
  unreached,  \* history: the listeners that this event did not reach
  app,        \* a shell: before it registers ("start"), in that call ("calling"), about
              \* to bind its socket ("bind"), in select() ("loop"), or in an event
  crashes     \* processes that died so far

vars == <<flinger, listeners, turn, dead, unreached, app, crashes>>

Indices == 1..Len(listeners)

TypeOK ==
  /\ flinger \in {"down", "idle", "dispatch", "call", "served", "sweep"}
  /\ listeners \in Seq(Apps)
  /\ turn \in 1..(Len(listeners) + 1)
  /\ dead \in Seq(Indices)
  /\ unreached \subseteq Apps
  /\ app \in [Apps -> {"start", "calling", "bind", "loop", "event"}]
  /\ crashes \in 0..MaxCrashes

Init ==
  /\ flinger = "down"
  /\ listeners = <<>>
  /\ turn = 1
  /\ dead = <<>>
  /\ unreached = {}
  /\ app = [a \in Apps |-> "start"]
  /\ crashes = 0

----------------------------------------------------------------------------
(* The launcher's side.                                                    *)

\* Mutant: the socket is bound before the shell registers.
BoundFirst(a) == app[a] \in {"calling", "bind", "loop", "event"}

\* The listener socket exists, so a connection to it waits in its backlog.
Bound(a) == app[a] \in {"loop", "event"}

\* register_input_listener: inputflinger refuses the connection or takes it.
Register(a) ==
  /\ app[a] = "start"
  /\ app' = [app EXCEPT ![a] = IF flinger = "down" THEN "bind" ELSE "calling"]
  /\ UNCHANGED <<flinger, listeners, turn, dead, unreached, crashes>>

\* setup_listener_socket, and the first frame.
Bind(a) ==
  /\ app[a] = "bind"
  /\ app' = [app EXCEPT ![a] = "loop"]
  /\ UNCHANGED <<flinger, listeners, turn, dead, unreached, crashes>>

AcceptEvent(a) ==
  /\ app[a] = "loop"
  /\ flinger = "call" /\ listeners[turn] = a
  /\ app' = [app EXCEPT ![a] = "event"]
  /\ flinger' = "served"
  /\ UNCHANGED <<listeners, turn, dead, unreached, crashes>>

\* The event is handled, the frame saved and the answer written, if somebody still
\* waits for it.
Answer(a) ==
  /\ app[a] = "event"
  /\ app' = [app EXCEPT ![a] = "loop"]
  /\ IF flinger = "served" /\ listeners[turn] = a
       THEN flinger' = "dispatch" /\ turn' = turn + 1
       ELSE UNCHANGED <<flinger, turn>>
  /\ UNCHANGED <<listeners, dead, unreached, crashes>>

----------------------------------------------------------------------------
(* inputflinger's side: main and handle_client.                            *)

FlingerBind ==
  /\ flinger = "down"
  /\ flinger' = "idle"
  /\ UNCHANGED <<listeners, turn, dead, unreached, app, crashes>>

\* Mutant: the path is pushed without a look at the list.
RegisterListenerAgain(a) ==
  /\ flinger = "idle" /\ app[a] = "calling"
  /\ listeners' = Append(listeners, a)
  /\ app' = [app EXCEPT ![a] = "bind"]
  /\ UNCHANGED <<flinger, turn, dead, unreached, crashes>>

\* CMD_REGISTER_LISTENER.
RegisterListener(a) ==
  /\ flinger = "idle" /\ app[a] = "calling"
  /\ listeners' = IF Contains(listeners, a) THEN listeners ELSE Append(listeners, a)
  /\ app' = [app EXCEPT ![a] = "bind"]
  /\ UNCHANGED <<flinger, turn, dead, unreached, crashes>>

\* CMD_SEND_INPUT_EVENT, from any client.
SendInputEvent ==
  /\ flinger = "idle"
  /\ flinger' = "dispatch"
  /\ turn' = 1
  /\ UNCHANGED <<listeners, dead, unreached, app, crashes>>

\* Mutant: the index is taken after it was counted up.
UnreachedOffByOne ==
  /\ dead' = Append(dead, turn + 1)
  /\ unreached' = unreached \cup {listeners[turn]}
  /\ turn' = turn + 1

\* A call to the listener at the loop's turn fails.
Unreached ==
  /\ dead' = Append(dead, turn)
  /\ unreached' = unreached \cup {listeners[turn]}
  /\ turn' = turn + 1

Connect ==
  /\ flinger = "dispatch" /\ turn \in Indices
  /\ IF Bound(listeners[turn])
       THEN flinger' = "call" /\ UNCHANGED <<turn, dead, unreached>>
       ELSE Unreached /\ UNCHANGED flinger
  /\ UNCHANGED <<listeners, app, crashes>>

DispatchDone ==
  /\ flinger = "dispatch" /\ turn \notin Indices
  /\ flinger' = "sweep"
  /\ turn' = 1
  /\ UNCHANGED <<listeners, dead, unreached, app, crashes>>

\* Mutant: the indices are removed in ascending order (no .rev()), so each removal
\* shifts the indices that follow.
SweepForward ==
  /\ flinger = "sweep" /\ dead # <<>>
  /\ listeners' = IF Head(dead) <= Len(listeners) THEN RemoveAt(listeners, Head(dead))
                                                 ELSE listeners
  /\ dead' = Tail(dead)
  /\ UNCHANGED <<flinger, turn, unreached, app, crashes>>

\* The dead listeners are removed from the last index to the first.
Sweep ==
  /\ flinger = "sweep" /\ dead # <<>>
  /\ listeners' = RemoveAt(listeners, Last(dead))
  /\ dead' = Front(dead)
  /\ UNCHANGED <<flinger, turn, unreached, app, crashes>>

\* The sender of the event has its answer.
Reply ==
  /\ flinger = "sweep" /\ dead = <<>>
  /\ flinger' = "idle"
  /\ unreached' = {}
  /\ UNCHANGED <<listeners, turn, dead, app, crashes>>

----------------------------------------------------------------------------
(* Processes that die.                                                     *)

Crash == crashes < MaxCrashes /\ crashes' = crashes + 1

\* A call into the dying shell fails: inputflinger counts it among the dead.
AppCrash(a) ==
  /\ Crash
  /\ app' = [app EXCEPT ![a] = "start"]
  /\ IF flinger \in {"call", "served"} /\ listeners[turn] = a
       THEN flinger' = "dispatch" /\ Unreached
       ELSE UNCHANGED <<flinger, turn, dead, unreached>>
  /\ UNCHANGED listeners

\* inputflinger's state is gone; shells in a call to it get an error and go on.
FlingerCrash ==
  /\ Crash
  /\ flinger # "down"
  /\ flinger' = "down" /\ listeners' = <<>>
  /\ turn' = 1 /\ dead' = <<>> /\ unreached' = {}
  /\ app' = [a \in Apps |-> IF app[a] = "calling" THEN "bind" ELSE app[a]]

----------------------------------------------------------------------------

Shell(a) == Register(a) \/ Bind(a) \/ AcceptEvent(a) \/ Answer(a)

Flinger ==
  \/ FlingerBind \/ SendInputEvent \/ Connect \/ DispatchDone \/ Sweep \/ Reply
  \/ \E a \in Apps : RegisterListener(a)

Next ==
  \/ Flinger
  \/ \E a \in Apps : Shell(a) \/ AppCrash(a)
  \/ FlingerCrash

Spec == Init /\ [][Next]_vars

\* Processes run, and the backlog of inputflinger's socket is first in, first out.
\* Nobody has to send an event.
FairSpec ==
  /\ Spec
  /\ WF_vars(FlingerBind \/ Connect \/ DispatchDone \/ Sweep \/ Reply)
  /\ \A a \in Apps : WF_vars(Shell(a)) /\ SF_vars(RegisterListener(a))

----------------------------------------------------------------------------
(* Properties.                                                             *)

\* However often a shell dies and registers again, it is listed, and gets each event,
\* once.
ListedOnce == IsInjective(listeners)

\* An event takes from the list the listeners it failed to reach, all of them and no
\* other: never one whose neighbour was unreachable.  Only inputflinger's death takes
\* the whole list.
UnreachedDropped ==
  [][/\ ToSet(listeners) \ ToSet(listeners') \subseteq unreached \/ flinger' = "down"
     /\ flinger = "sweep" /\ flinger' = "idle" => ToSet(listeners') \cap unreached = {}]_vars

\* Every event is answered, however the shells register, die and come back meanwhile:
\* no shell waits for inputflinger while inputflinger waits for it.
EventAnswered == flinger \in {"dispatch", "call", "served", "sweep"} ~> flinger \in {"idle", "down"}

\* No shell hangs in its registration.
RegistrationReturns == \A a \in Apps : app[a] = "calling" ~> app[a] # "calling"

----------------------------------------------------------------------------
(* The inductive invariant behind the safety properties.                   *)

\* The loop is at a listener while it calls one and past every index it found dead;
\* in no event it has none of them.
TurnPastDead ==
  /\ flinger \in {"call", "served"} => turn \in Indices
  /\ flinger \in {"dispatch", "call", "served"} => \A i \in DOMAIN dead : dead[i] < turn
  /\ flinger \in {"down", "idle"} => dead = <<>> /\ unreached = {}
  /\ flinger \in {"down", "idle", "sweep"} => turn = 1

\* The indices to remove ascend, so that the last of them is the largest.
DeadAscend == \A i, j \in DOMAIN dead : i < j => dead[i] < dead[j]

\* Of the listeners still listed, the unreached ones are those at a dead index.
DeadAreUnreached ==
  \A k \in Indices : (\E i \in DOMAIN dead : dead[i] = k) <=> listeners[k] \in unreached

Dispatching == ListedOnce /\ TurnPastDead /\ DeadAscend /\ DeadAreUnreached
=============================================================================
