--------------------------- MODULE SurfaceComposer ---------------------------
(***************************************************************************)
(* surfaceflinger without --wayland (services/surfaceflinger/src/main.rs)  *)
(* and the programs that draw.  A client asks once for a surface, then     *)
(* saves frames to out/surface_<id>.ppm and asks for a composition; the    *)
(* composer reads the files of all surfaces, the tallest first, and writes *)
(* the display.  It serves one request at a time.  The files are shared:   *)
(* a client may write one while the composer reads it for somebody else.   *)
(***************************************************************************)
EXTENDS Naturals, Sequences, SequencesExt

CONSTANTS
  Clients,      \* programs that draw
  Height,       \* Height[c]: the height c asks for
  Retrying,     \* the status bar, which looks for surfaceflinger until it finds it
  Nobody,       \* no client; a foreign program
  MaxId,        \* bound on the surfaces allocated by one composer
  MaxFrames,    \* bound on the frames a client draws
  MaxDeaths,    \* bound on the clients that die
  MaxRestarts   \* bound on the composers that die

ASSUME ClientAssumption ==
  /\ Height \in [Clients -> Nat \ {0}]
  /\ Retrying \subseteq Clients
  /\ Nobody \notin Clients

ASSUME BoundAssumption ==
  MaxId \in Nat /\ MaxFrames \in Nat /\ MaxDeaths \in Nat /\ MaxRestarts \in Nat

VARIABLES
  composer,  \* what the composer does: "down" before its bind, "idle" in accept(), at
             \* the header ("load") or the pixels ("pixels") of a layer
  job,       \* the composition: who asked, the layers left, the header read, the canvas
  surfaces,  \* Composer.surfaces
  nextId,    \* Composer.next_surface_id
  file,      \* file[k]: out/surface_<k>.ppm
  client,    \* the clients: where they are, whether they have surfaceflinger's path,
             \* their surface_id (0 is -1 in the code), their frame number
  display,   \* out/display_composited.ppm
  stale,     \* history: the ids that running clients kept from a composer that died
  deaths     \* deaths[x]: clients ("client") and composers ("composer") that died

vars == <<composer, job, surfaces, nextId, file, client, display, stale, deaths>>

Ids == 1..MaxId

\* A picture: none, half written, a client's n-th frame, or the top of one frame over
\* the rest of another.
Pictures == [is : {"none", "half", "whole", "torn"},
             by : Clients \cup {Nobody}, n : 0..MaxFrames]
Blank(k) == [is |-> k, by |-> Nobody, n |-> 0]

Surfaces == [id : Ids, height : {Height[c] : c \in Clients}]
Layers   == [id : Ids, height : {Height[c] : c \in Clients}, picture : Pictures]

Jobs == [for : Clients \cup {Nobody}, todo : Seq(Surfaces), header : Pictures,
         canvas : Seq(Layers)]
NoJob == [for |-> Nobody, todo |-> <<>>, header |-> Blank("none"), canvas |-> <<>>]

ClientRecords ==
  [at : {"start", "draw", "writing", "ask", "wait", "idle"},
   path : BOOLEAN, id : Ids \cup {0}, n : 0..MaxFrames]

TypeOK ==
  /\ composer \in {"down", "idle", "load", "pixels"}
  /\ job \in Jobs
  /\ surfaces \in Seq(Surfaces)
  /\ nextId \in 1..(MaxId + 1)
  /\ file \in [Ids -> Pictures]
  /\ client \in [Clients -> ClientRecords]
  /\ display \in Seq(Layers)
  /\ stale \subseteq Ids
  /\ deaths \in [client : 0..MaxDeaths, composer : 0..MaxRestarts]

Init ==
  /\ composer = "down"
  /\ job = NoJob
  /\ surfaces = <<>>
  /\ nextId = 1
  /\ file = [k \in Ids |-> Blank("none")]
  /\ client = [c \in Clients |-> [at |-> "start", path |-> FALSE, id |-> 0, n |-> 0]]
  /\ display = <<>>
  /\ stale = {}
  /\ deaths = [client |-> 0, composer |-> 0]

Goto(c, l) == client' = [client EXCEPT ![c].at = l]

----------------------------------------------------------------------------
(* The clients: launcher, status bar, applications.                        *)

\* When a program starts, and in the status bar's loop while it has no path.
LooksForComposer(c) ==
  \/ client[c].at = "start"
  \/ client[c].at = "idle" /\ ~client[c].path /\ c \in Retrying

\* surfaceflinger is not found, or is found and refuses the connection: the client
\* draws without a surface, in the second case for as long as it runs.
NoSurface(c) ==
  /\ LooksForComposer(c)
  /\ \E found \in BOOLEAN :
       client' = [client EXCEPT ![c].at = "draw", ![c].path = found]
  /\ UNCHANGED <<composer, job, surfaces, nextId, file, display, stale, deaths>>

\* canvas_save_ppm creates the file, or truncates it ...
StartFrame(c) ==
  /\ client[c].at \in {"draw", "idle"} /\ ~LooksForComposer(c)
  /\ client[c].n < MaxFrames
  /\ client' = [client EXCEPT ![c].at = "writing", ![c].n = @ + 1]
  /\ file' = IF client[c].id = 0 THEN file ELSE [file EXCEPT ![client[c].id] = Blank("half")]
  /\ UNCHANGED <<composer, job, surfaces, nextId, display, stale, deaths>>

\* ... and writes it.  Without a path, nobody is asked for a composition.
FinishFrame(c) ==
  /\ client[c].at = "writing"
  /\ Goto(c, IF client[c].path THEN "ask" ELSE "idle")
  /\ file' = IF client[c].id = 0 THEN file
             ELSE [file EXCEPT ![client[c].id] = [is |-> "whole", by |-> c, n |-> client[c].n]]
  /\ UNCHANGED <<composer, job, surfaces, nextId, display, stale, deaths>>

\* trigger_composite is refused; the error is dropped.
Refused(c) ==
  /\ client[c].at = "ask"
  /\ composer = "down"
  /\ Goto(c, "idle")
  /\ UNCHANGED <<composer, job, surfaces, nextId, file, display, stale, deaths>>

----------------------------------------------------------------------------
(* The composer: handle_client and composite_layers.                       *)

ComposerBind ==
  /\ composer = "down"
  /\ composer' = "idle"
  /\ UNCHANGED <<job, surfaces, nextId, file, client, display, stale, deaths>>

\* Mutant: an id is the length of the list, which a destroyed surface shortens.
AllocateByLength(c) ==
  /\ composer = "idle" /\ LooksForComposer(c) /\ nextId <= MaxId
  /\ surfaces' = Append(surfaces, [id |-> Len(surfaces) + 1, height |-> Height[c]])
  /\ nextId' = nextId + 1
  /\ client' = [client EXCEPT ![c].at = "draw", ![c].path = TRUE, ![c].id = Len(surfaces) + 1]
  /\ UNCHANGED <<composer, job, file, display, stale, deaths>>

\* Mutant: the counter is advanced before the id is taken from it.
AllocateAfterIncrement(c) ==
  /\ composer = "idle" /\ LooksForComposer(c) /\ nextId <= MaxId
  /\ surfaces' = Append(surfaces, [id |-> nextId + 1, height |-> Height[c]])
  /\ nextId' = nextId + 1
  /\ client' = [client EXCEPT ![c].at = "draw", ![c].path = TRUE, ![c].id = nextId + 1]
  /\ UNCHANGED <<composer, job, file, display, stale, deaths>>

\* CMD_ALLOC_SURFACE.
Allocate(c) ==
  /\ composer = "idle" /\ LooksForComposer(c) /\ nextId <= MaxId
  /\ surfaces' = Append(surfaces, [id |-> nextId, height |-> Height[c]])
  /\ nextId' = nextId + 1
  /\ client' = [client EXCEPT ![c].at = "draw", ![c].path = TRUE, ![c].id = nextId]
  /\ UNCHANGED <<composer, job, file, display, stale, deaths>>

\* CMD_DESTROY_SURFACE.  No program of the system sends it; any client may.  The first
\* surface of that id is removed; without one, nothing happens.
Destroy(k) ==
  /\ composer = "idle"
  /\ \E i \in DOMAIN surfaces :
       /\ surfaces[i].id = k /\ \A j \in 1..(i - 1) : surfaces[j].id # k
       /\ surfaces' = RemoveAt(surfaces, i)
  /\ UNCHANGED <<composer, job, nextId, file, client, display, stale, deaths>>

\* Mutant: of two surfaces of one height, the newer is drawn first.
DrawOrderUnstable(order) ==
  \A i, j \in DOMAIN surfaces : i < j =>
    LET s == surfaces[order[i]]  t == surfaces[order[j]]
    IN  s.height > t.height \/ (s.height = t.height /\ order[i] > order[j])

\* sort_by on the height, descending; the sort is stable.
DrawOrder(order) ==
  \A i, j \in DOMAIN surfaces : i < j =>
    LET s == surfaces[order[i]]  t == surfaces[order[j]]
    IN  s.height > t.height \/ (s.height = t.height /\ order[i] < order[j])

\* CMD_COMPOSITE, from a client or from a foreign program.  Without surfaces the
\* display is left as it is.
Composite(c) ==
  /\ composer = "idle"
  /\ c # Nobody => client[c].at = "ask"
  /\ IF surfaces = <<>>
       THEN /\ client' = IF c = Nobody THEN client ELSE [client EXCEPT ![c].at = "idle"]
            /\ UNCHANGED <<composer, job>>
       ELSE /\ composer' = "load"
            /\ \E order \in Bijection(DOMAIN surfaces, DOMAIN surfaces) :
                 /\ DrawOrder(order)
                 /\ job' = [NoJob EXCEPT !.for = c,
                              !.todo = [k \in DOMAIN surfaces |-> surfaces[order[k]]]]
            /\ client' = IF c = Nobody THEN client ELSE [client EXCEPT ![c].at = "wait"]
  /\ UNCHANGED <<surfaces, nextId, file, display, stale, deaths>>

Layer == Head(job.todo)

\* Mutant: a layer without a picture ends the loop (break for continue).
LoadHeaderBreaks ==
  /\ composer = "load" /\ job.todo # <<>>
  /\ IF file[Layer.id].is = "whole"
       THEN composer' = "pixels" /\ job' = [job EXCEPT !.header = file[Layer.id]]
       ELSE job' = [job EXCEPT !.todo = <<>>] /\ UNCHANGED composer
  /\ UNCHANGED <<surfaces, nextId, file, client, display, stale, deaths>>

\* load_ppm opens the file and reads the header.  An empty or missing file is an
\* error, and so is one that only has its header: the layer is left out.
LoadHeader ==
  /\ composer = "load" /\ job.todo # <<>>
  /\ IF file[Layer.id].is = "whole"
       THEN composer' = "pixels" /\ job' = [job EXCEPT !.header = file[Layer.id]]
       ELSE job' = [job EXCEPT !.todo = Tail(@)] /\ UNCHANGED composer
  /\ UNCHANGED <<surfaces, nextId, file, client, display, stale, deaths>>

\* read_exact: a file that was cut meanwhile is an error; one that was written again
\* meanwhile gives pixels of both frames.
LoadPixels ==
  LET now     == file[Layer.id]
      picture == IF now = job.header THEN now ELSE [now EXCEPT !.is = "torn"]
      layer   == [id |-> Layer.id, height |-> Layer.height, picture |-> picture]
  IN
  /\ composer = "pixels"
  /\ composer' = "load"
  /\ job' = [job EXCEPT !.todo = Tail(@), !.header = Blank("none"),
                        !.canvas = IF now.is = "whole" THEN Append(@, layer) ELSE @]
  /\ UNCHANGED <<surfaces, nextId, file, client, display, stale, deaths>>

\* The canvas is saved and the request answered.
Present ==
  /\ composer = "load" /\ job.todo = <<>>
  /\ composer' = "idle"
  /\ display' = job.canvas
  /\ job' = NoJob
  /\ client' = IF job.for = Nobody THEN client ELSE [client EXCEPT ![job.for].at = "idle"]
  /\ UNCHANGED <<surfaces, nextId, file, stale, deaths>>

----------------------------------------------------------------------------
(* Processes that die; init starts them again.                             *)

\* Its files and its surface stay.
ClientDies(c) ==
  /\ client[c].at # "start"
  /\ deaths.client < MaxDeaths
  /\ deaths' = [deaths EXCEPT !.client = @ + 1]
  /\ client' = [client EXCEPT ![c].at = "start", ![c].path = FALSE, ![c].id = 0]
  /\ job' = IF job.for = c THEN [job EXCEPT !.for = Nobody] ELSE job
  /\ UNCHANGED <<composer, surfaces, nextId, file, display, stale>>

\* Its surfaces are forgotten; who waits for it gets an error.  A display that was
\* being written is lost.
ComposerDies ==
  /\ composer # "down"
  /\ deaths.composer < MaxRestarts
  /\ deaths' = [deaths EXCEPT !.composer = @ + 1]
  /\ composer' = "down" /\ job' = NoJob /\ surfaces' = <<>> /\ nextId' = 1
  /\ client' = [c \in Clients |-> IF client[c].at = "wait"
                                    THEN [client[c] EXCEPT !.at = "idle"] ELSE client[c]]
  /\ display' \in {display} \cup
       IF composer = "load" /\ job.todo = <<>> THEN {<<>>} ELSE {}
  /\ stale' = stale \cup ({client[c].id : c \in Clients} \ {0})
  /\ UNCHANGED file

----------------------------------------------------------------------------

Client(c) == NoSurface(c) \/ StartFrame(c) \/ FinishFrame(c) \/ Refused(c)

Composer ==
  \/ ComposerBind
  \/ \E c \in Clients : Allocate(c)
  \/ \E k \in Ids : Destroy(k)
  \/ \E c \in Clients \cup {Nobody} : Composite(c)
  \/ LoadHeader \/ LoadPixels \/ Present

Next ==
  \/ Composer
  \/ \E c \in Clients : Client(c) \/ ClientDies(c)
  \/ ComposerDies

Spec == Init /\ [][Next]_vars

----------------------------------------------------------------------------
(* Properties.                                                             *)

Listed(c) == \E i \in DOMAIN surfaces : surfaces[i].id = client[c].id

\* The last frame the client finished.
Frame(c) == [is |-> "whole", by |-> c, n |-> client[c].n]

Shows(layers, c) ==
  \E k \in DOMAIN layers : layers[k].id = client[c].id /\ layers[k].picture = Frame(c)

\* x is drawn before y, and y covers it.
Below(x, y) == x.height > y.height \/ (x.height = y.height /\ x.id < y.id)

\* The composer never gives one id to two clients, however many surfaces are destroyed
\* or left behind by clients that died.
SurfaceIsOwn ==
  \A c, d \in Clients :
    client[c].id \notin stale \cup {0} /\ client[c].id = client[d].id => c = d

\* When the composer has answered a client's request, and until the client draws
\* again, the display shows its last frame, whole: no other program's composition, no
\* write that it raced and no half-written file of a dead client takes it away.
FrameShown ==
  \A c \in Clients :
    client[c].at = "idle" /\ Listed(c) /\ client[c].id \notin stale => Shows(display, c)

\* Later layers cover earlier ones: a lower one (the status bar) covers a higher one,
\* and the surface of a restarted program covers the one its predecessor left.
NewestOnTop ==
  \A i, j \in DOMAIN display : i < j => Below(display[i], display[j])

----------------------------------------------------------------------------
(* The inductive invariants behind the safety properties.                  *)

\* Every id a client holds was given out by the present composer, or is stale.
IdsAreSpent ==
  \A c \in Clients : client[c].id \notin stale \cup {0} => client[c].id < nextId

\* The list is in the order of allocation: no id in it is given out again.
ListAscends ==
  /\ \A i \in DOMAIN surfaces : surfaces[i].id < nextId
  /\ \A i, j \in DOMAIN surfaces : i < j => surfaces[i].id < surfaces[j].id
  /\ composer = "down" => surfaces = <<>>

Composing == composer \in {"load", "pixels"}

\* A composition keeps the order of its layers, whichever of them it leaves out.
LayersInOrder ==
  /\ \A i, j \in DOMAIN job.canvas : i < j => Below(job.canvas[i], job.canvas[j])
  /\ \A i, j \in DOMAIN job.todo : i < j => Below(job.todo[i], job.todo[j])
  /\ \A i \in DOMAIN job.canvas : \A j \in DOMAIN job.todo :
       Below(job.canvas[i], job.todo[j])
  /\ composer = "pixels" => job.todo # <<>>

\* A client waits in the composition that it asked for, and only there.
WaitsForIts ==
  /\ ~Composing => job.for = Nobody
  /\ \A c \in Clients : client[c].at = "wait" <=> job.for = c

\* Who has an id has surfaceflinger's path, so it asks for a composition of its frame.
IdHasPath ==
  \A c \in Clients :
    /\ client[c].id # 0 => client[c].path
    /\ client[c].at = "start" => ~client[c].path

\* c has an id of the present composer and finished its frame.
Drawn(c) ==
  client[c].id \notin stale \cup {0} /\ client[c].at \in {"ask", "wait", "idle"}

\* Nobody but its client writes the file of a surface.
FileKept == \A c \in Clients : Drawn(c) => file[client[c].id] = Frame(c)

\* A composition that goes on while a client waits for an answer, or has it, has that
\* client's frame before it, in hand or on its canvas.
LayerKept ==
  \A c \in Clients : Drawn(c) /\ client[c].at # "ask" /\ Composing =>
    /\ Listed(c) =>
         \/ \E k \in DOMAIN job.todo : job.todo[k].id = client[c].id
         \/ Shows(job.canvas, c)
    /\ composer = "pixels" /\ Layer.id = client[c].id => job.header = Frame(c)

Order   == ListAscends /\ LayersInOrder /\ NewestOnTop
Showing == WaitsForIts /\ IdHasPath /\ FileKept /\ LayerKept /\ FrameShown
=============================================================================
