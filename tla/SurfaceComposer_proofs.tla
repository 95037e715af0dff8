----------------------- MODULE SurfaceComposer_proofs -----------------------
(***************************************************************************)
(* Proofs about SurfaceComposer, for any number of clients, surfaces,      *)
(* frames and deaths: whose an id is, what the display shows and in which  *)
(* order.                                                                  *)
(***************************************************************************)
EXTENDS SurfaceComposer, SequenceTheorems, TLAPS

----------------------------------------------------------------------------
(* Sequences.                                                              *)

\* Vec::remove: what stays, and where it goes.
LEMMA RemoveAtElements ==
  ASSUME NEW S, NEW s \in Seq(S), NEW i \in 1..Len(s)
  PROVE  /\ RemoveAt(s, i) \in Seq(S)
         /\ Len(RemoveAt(s, i)) = Len(s) - 1
         /\ \A j \in 1..(Len(s) - 1) :
              RemoveAt(s, i)[j] = IF j < i THEN s[j] ELSE s[j + 1]
<1> DEFINE p == SubSeq(s, 1, i - 1)
           q == SubSeq(s, i + 1, Len(s))
<1>1. Len(s) \in Nat
  BY LenProperties
<1>2. /\ p \in Seq(S) /\ Len(p) = i - 1
      /\ \A j \in 1..(i - 1) : p[j] = s[j]
  <2>1. \A j \in 1..(i - 1) : s[j] \in S
    BY <1>1, ElementOfSeq
  <2>2. QED
    BY <1>1, <2>1, SubSeqProperties
<1>3. /\ q \in Seq(S) /\ Len(q) = Len(s) - i
      /\ \A j \in 1..(Len(s) - i) : q[j] = s[i + j]
  <2>1. \A j \in (i + 1)..Len(s) : s[j] \in S
    BY <1>1, ElementOfSeq
  <2>2. QED
    BY <1>1, <2>1, SubSeqProperties
<1>4. RemoveAt(s, i) = p \o q
  BY DEF RemoveAt
<1> HIDE DEF p, q
<1>5. /\ p \o q \in Seq(S) /\ Len(p \o q) = Len(p) + Len(q)
      /\ \A j \in 1..(Len(p) + Len(q)) :
           (p \o q)[j] = IF j <= Len(p) THEN p[j] ELSE q[j - Len(p)]
  BY <1>2, <1>3, ConcatProperties
<1>6. Len(p) + Len(q) = Len(s) - 1
  BY <1>1, <1>2, <1>3
<1>7. ASSUME NEW j \in 1..(Len(s) - 1)
      PROVE  (p \o q)[j] = IF j < i THEN s[j] ELSE s[j + 1]
  <2>1. ASSUME j < i
        PROVE  (p \o q)[j] = s[j]
    BY <1>1, <1>2, <1>5, <1>6, <2>1
  <2>2. ASSUME ~(j < i)
        PROVE  (p \o q)[j] = s[j + 1]
    <3>1. j - Len(p) \in 1..(Len(s) - i) /\ i + (j - Len(p)) = j + 1
      BY <1>1, <1>2, <2>2
    <3>2. (p \o q)[j] = q[j - Len(p)]
      BY <1>1, <1>2, <1>5, <1>6, <2>2
    <3>3. QED
      BY <1>3, <2>2, <3>1, <3>2
  <2>3. QED
    BY <2>1, <2>2, Zenon
<1>8. QED
  BY <1>4, <1>5, <1>6, <1>7

\* The surfaces in drawing order: a sequence of the same surfaces.
LEMMA SortedSurfaces ==
  ASSUME surfaces \in Seq(Surfaces),
         NEW order \in Bijection(DOMAIN surfaces, DOMAIN surfaces),
         NEW sorted, sorted = [k \in DOMAIN surfaces |-> surfaces[order[k]]]
  PROVE  /\ sorted \in Seq(Surfaces) /\ DOMAIN sorted = DOMAIN surfaces
         /\ \A k \in DOMAIN surfaces : order[k] \in DOMAIN surfaces /\ sorted[k] = surfaces[order[k]]
         /\ \A i \in DOMAIN surfaces : \E k \in DOMAIN surfaces : sorted[k] = surfaces[i]
<1>1. /\ order \in [DOMAIN surfaces -> DOMAIN surfaces]
      /\ \A i \in DOMAIN surfaces : \E k \in DOMAIN surfaces : order[k] = i
  BY DEF Bijection, Injection, Surjection
<1>2. /\ Len(surfaces) \in Nat /\ DOMAIN surfaces = 1..Len(surfaces)
      /\ \A k \in DOMAIN surfaces : surfaces[k] \in Surfaces
  BY LenProperties, ElementOfSeq
<1>3. sorted \in [1..Len(surfaces) -> Surfaces]
  BY <1>1, <1>2
<1>4. sorted \in Seq(Surfaces)
  BY <1>2, <1>3, SeqDef
<1>5. QED
  BY <1>1, <1>2, <1>4

----------------------------------------------------------------------------
(* Ids.                                                                    *)

\* The part of TypeOK that the ids need.
IdTypes == nextId \in Nat \ {0} /\ client \in [Clients -> ClientRecords]

OwnInv == IdTypes /\ IdsAreSpent /\ SurfaceIsOwn

\* A step after which each client has the id it had, or none, keeps the invariant.
LEMMA IdsKept ==
  ASSUME OwnInv, client' \in [Clients -> ClientRecords],
         \A c \in Clients : client'[c].id \in {0, client[c].id},
         UNCHANGED <<nextId, stale>>
  PROVE  OwnInv'
BY DEF OwnInv, IdTypes, IdsAreSpent, SurfaceIsOwn

LEMMA OwnInvInit == Init => OwnInv
<1> SUFFICES ASSUME Init PROVE OwnInv
  OBVIOUS
<1>1. IdTypes
  BY BoundAssumption DEF Init, IdTypes, ClientRecords
<1>2. \A c \in Clients : client[c].id = 0
  BY DEF Init
<1> QED
  BY <1>1, <1>2 DEF OwnInv, IdsAreSpent, SurfaceIsOwn

\* The new id was given to nobody by this composer.
LEMMA AllocateKeeps ==
  ASSUME OwnInv, NEW c \in Clients, Allocate(c)
  PROVE  OwnInv'
<1>1. nextId' = nextId + 1 /\ stale' = stale /\ nextId \in Ids
  BY BoundAssumption DEF Allocate, OwnInv, IdTypes, Ids
<1>2. /\ client' \in [Clients -> ClientRecords]
      /\ client'[c].id = nextId
      /\ \A d \in Clients \ {c} : client'[d] = client[d]
  BY <1>1 DEF Allocate, OwnInv, IdTypes, ClientRecords
<1>3. IdTypes'
  BY <1>1, <1>2 DEF OwnInv, IdTypes
<1>4. \A d \in Clients : client[d] \in ClientRecords /\ client[d].id \in Nat
  BY BoundAssumption DEF OwnInv, IdTypes, ClientRecords, Ids
<1>5. IdsAreSpent'
  <2> SUFFICES ASSUME NEW d \in Clients, client'[d].id \notin stale \cup {0}
               PROVE  client'[d].id < nextId + 1
    BY <1>1 DEF IdsAreSpent
  <2>1. CASE d = c
    BY <1>2, <1>3, <2>1 DEF OwnInv, IdTypes
  <2>2. CASE d # c
    BY <1>2, <1>4, <2>2 DEF OwnInv, IdTypes, IdsAreSpent
  <2> QED
    BY <2>1, <2>2
<1>6. \A d \in Clients \ {c} : client'[d].id \notin stale \cup {0} => client'[d].id # nextId
  BY <1>2, <1>4 DEF OwnInv, IdTypes, IdsAreSpent
<1>7. SurfaceIsOwn'
  BY <1>1, <1>2, <1>6 DEF OwnInv, SurfaceIsOwn
<1> QED
  BY <1>3, <1>5, <1>7 DEF OwnInv

\* The ids start again, and every id that is held becomes stale.
LEMMA ComposerDiesKeeps ==
  ASSUME OwnInv, ComposerDies
  PROVE  OwnInv'
<1>1. /\ client' \in [Clients -> ClientRecords]
      /\ \A c \in Clients : client'[c].id = client[c].id
  BY DEF ComposerDies, OwnInv, IdTypes, ClientRecords
<1>2. \A c \in Clients : client'[c].id \in stale' \cup {0}
  BY <1>1 DEF ComposerDies
<1> QED
  BY <1>1, <1>2 DEF ComposerDies, OwnInv, IdTypes, IdsAreSpent, SurfaceIsOwn

LEMMA OwnInvNext == OwnInv /\ [Next]_vars => OwnInv'
<1> SUFFICES ASSUME OwnInv, [Next]_vars PROVE OwnInv'
  OBVIOUS
<1>0. client \in [Clients -> ClientRecords]
  BY DEF OwnInv, IdTypes
<1>1. CASE UNCHANGED <<client, nextId, stale>>
  BY <1>0, <1>1, IdsKept
<1>2. ASSUME NEW c \in Clients, NoSurface(c) PROVE OwnInv'
  <2>1. PICK found \in BOOLEAN :
          client' = [client EXCEPT ![c].at = "draw", ![c].path = found]
    BY <1>2 DEF NoSurface
  <2>2. client' = [client EXCEPT ![c] = [client[c] EXCEPT !.at = "draw", !.path = found]]
    BY <2>1
  <2>3. client[c] \in ClientRecords
    BY <1>0
  <2>4. [client[c] EXCEPT !.at = "draw", !.path = found] \in ClientRecords
    BY <2>3 DEF ClientRecords
  <2>5. client' \in [Clients -> ClientRecords]
    BY <1>0, <2>2, <2>4
  <2>6. \A d \in Clients : client'[d].id = client[d].id
    BY <1>0, <2>1 DEF ClientRecords
  <2> QED
    BY <1>2, <2>5, <2>6, IdsKept DEF NoSurface
<1>3. ASSUME NEW c \in Clients, StartFrame(c) PROVE OwnInv'
  BY <1>0, <1>3, IdsKept, BoundAssumption DEF StartFrame, ClientRecords
<1>4. ASSUME NEW c \in Clients, FinishFrame(c) PROVE OwnInv'
  BY <1>0, <1>4, IdsKept DEF FinishFrame, Goto, ClientRecords
<1>5. ASSUME NEW c \in Clients, Refused(c) PROVE OwnInv'
  BY <1>0, <1>5, IdsKept DEF Refused, Goto, ClientRecords
<1>6. ASSUME NEW c \in Clients \cup {Nobody}, Composite(c) PROVE OwnInv'
  <2>1. /\ UNCHANGED <<nextId, stale>>
        /\ \/ UNCHANGED client
           \/ c \in Clients /\ \E l \in {"wait", "idle"} : client' = [client EXCEPT ![c].at = l]
    BY <1>6 DEF Composite
  <2>2. QED
    BY <1>0, <1>1, <2>1, IdsKept DEF ClientRecords
<1>7. CASE Present
  BY <1>0, <1>7, IdsKept DEF Present, ClientRecords
<1>8. ASSUME NEW c \in Clients, ClientDies(c) PROVE OwnInv'
  BY <1>0, <1>8, IdsKept DEF ClientDies, ClientRecords
<1>9. CASE ComposerBind \/ LoadHeader \/ LoadPixels \/ \E k \in Ids : Destroy(k)
  <2>1. UNCHANGED <<client, nextId, stale>>
    BY <1>9 DEF ComposerBind, LoadHeader, LoadPixels, Destroy
  <2>2. QED
    BY <1>1, <2>1
<1>10. CASE UNCHANGED vars
  BY <1>1, <1>10 DEF vars
<1> QED
  BY <1>2, <1>3, <1>4, <1>5, <1>6, <1>7, <1>8, <1>9, <1>10, AllocateKeeps, ComposerDiesKeeps
  DEF Next, Composer, Client

\* No id is given to two clients, whatever is destroyed and whoever dies.
THEOREM NoSharedSurface == Spec => []SurfaceIsOwn
<1>1. OwnInv => SurfaceIsOwn
  BY DEF OwnInv
<1> QED
  BY OwnInvInit, OwnInvNext, <1>1, PTL DEF Spec

----------------------------------------------------------------------------
(* Types.                                                                  *)

\* Who writes what.
LEMMA Writers ==
  ASSUME [Next]_vars
  PROVE  /\ \/ UNCHANGED <<surfaces, nextId>>
            \/ \E c \in Clients : Allocate(c)
            \/ \E k \in Ids : Destroy(k)
            \/ ComposerDies
         /\ \/ UNCHANGED file
            \/ \E c \in Clients : StartFrame(c) \/ FinishFrame(c)
         /\ UNCHANGED display \/ Present \/ ComposerDies
         /\ UNCHANGED stale \/ ComposerDies
         /\ UNCHANGED deaths \/ ComposerDies \/ \E c \in Clients : ClientDies(c)
         /\ \/ UNCHANGED job
            \/ \E c \in Clients \cup {Nobody} : Composite(c)
            \/ LoadHeader \/ LoadPixels \/ Present \/ ComposerDies
            \/ \E c \in Clients : ClientDies(c)
         /\ \/ UNCHANGED composer
            \/ ComposerBind \/ LoadHeader \/ LoadPixels \/ Present \/ ComposerDies
            \/ \E c \in Clients \cup {Nobody} : Composite(c)
<1>1. ASSUME NEW c \in Clients, Client(c)
      PROVE  /\ UNCHANGED <<composer, job, surfaces, nextId, display, stale, deaths>>
             /\ UNCHANGED file \/ StartFrame(c) \/ FinishFrame(c)
  BY <1>1 DEF Client, NoSurface, StartFrame, FinishFrame, Refused
<1>2. ASSUME NEW c \in Clients, ClientDies(c)
      PROVE  UNCHANGED <<composer, surfaces, nextId, file, display, stale>>
  BY <1>2 DEF ClientDies
<1>3. ASSUME NEW c \in Clients, Allocate(c)
      PROVE  UNCHANGED <<composer, job, file, display, stale, deaths>>
  BY <1>3 DEF Allocate
<1>4. ASSUME NEW k \in Ids, Destroy(k)
      PROVE  UNCHANGED <<composer, job, nextId, file, client, display, stale, deaths>>
  BY <1>4 DEF Destroy
<1>5. ASSUME NEW c \in Clients \cup {Nobody}, Composite(c)
      PROVE  UNCHANGED <<surfaces, nextId, file, display, stale, deaths>>
  BY <1>5 DEF Composite
<1>6. CASE ComposerBind
  BY <1>6 DEF ComposerBind
<1>7. CASE LoadHeader \/ LoadPixels
  BY <1>7 DEF LoadHeader, LoadPixels
<1>8. CASE Present
  BY <1>8 DEF Present
<1>9. CASE ComposerDies
  BY <1>9 DEF ComposerDies
<1>10. CASE UNCHANGED vars
  BY <1>10 DEF vars
<1>11. QED
  BY <1>1, <1>2, <1>3, <1>4, <1>5, <1>6, <1>7, <1>8, <1>9, <1>10 DEF Next, Composer
\* The list, of which a surface is removed or to which one is appended.
LEMMA ListTypes ==
  ASSUME TypeOK, [Next]_vars
  PROVE  surfaces' \in Seq(Surfaces) /\ nextId' \in 1..(MaxId + 1)
<1> USE BoundAssumption DEF TypeOK
<1>1. ASSUME NEW c \in Clients, Allocate(c)
      PROVE  surfaces' \in Seq(Surfaces) /\ nextId' \in 1..(MaxId + 1)
  <2>1. [id |-> nextId, height |-> Height[c]] \in Surfaces
    BY <1>1 DEF Allocate, Surfaces, Ids
  <2>2. surfaces' = Append(surfaces, [id |-> nextId, height |-> Height[c]])
    BY <1>1 DEF Allocate
  <2>3. surfaces' \in Seq(Surfaces)
    BY <2>1, <2>2, AppendProperties
  <2>4. QED
    BY <1>1, <2>3 DEF Allocate
<1>2. ASSUME NEW k \in Ids, Destroy(k)
      PROVE  surfaces' \in Seq(Surfaces) /\ nextId' \in 1..(MaxId + 1)
  <2>1. PICK i \in DOMAIN surfaces : surfaces' = RemoveAt(surfaces, i)
    BY <1>2 DEF Destroy
  <2>2. i \in 1..Len(surfaces)
    BY LenProperties
  <2>3. QED
    BY <1>2, <2>1, <2>2, RemoveAtElements DEF Destroy
<1>3. CASE ComposerDies
  BY <1>3, EmptySeq DEF ComposerDies
<1>4. QED
  BY <1>1, <1>2, <1>3, Writers

\* The pictures that the files hold.
LEMMA FileTypes ==
  ASSUME TypeOK, [Next]_vars
  PROVE  file' \in [Ids -> Pictures]
<1>1. ASSUME NEW c \in Clients, StartFrame(c)
      PROVE  file' \in [Ids -> Pictures]
  <2>1. Blank("half") \in Pictures
    BY BoundAssumption DEF Blank, Pictures
  <2>2. QED
    BY <1>1, <2>1 DEF StartFrame, TypeOK, ClientRecords
<1>2. ASSUME NEW c \in Clients, FinishFrame(c)
      PROVE  file' \in [Ids -> Pictures]
  <2>1. [is |-> "whole", by |-> c, n |-> client[c].n] \in Pictures
    BY DEF Pictures, TypeOK, ClientRecords
  <2>2. QED
    BY <1>2, <2>1 DEF FinishFrame, TypeOK, ClientRecords
<1>3. QED
  BY <1>1, <1>2, Writers DEF TypeOK

\* A composition, from its request to its answer.
LEMMA JobTypes ==
  ASSUME TypeOK, LayersInOrder, [Next]_vars
  PROVE  job' \in Jobs
<1>1. NoJob \in Jobs
  <2>1. Blank("none") \in Pictures
    BY BoundAssumption DEF Blank, Pictures
  <2>2. QED
    BY <2>1, EmptySeq DEF NoJob, Jobs
<1>2. ASSUME NEW c \in Clients \cup {Nobody}, Composite(c)
      PROVE  job' \in Jobs
  <2>1. CASE surfaces = <<>>
    BY <1>2, <2>1 DEF Composite, TypeOK
  <2>2. CASE surfaces # <<>>
    <3>1. PICK order \in Bijection(DOMAIN surfaces, DOMAIN surfaces) :
            job' = [NoJob EXCEPT !.for = c,
                      !.todo = [k \in DOMAIN surfaces |-> surfaces[order[k]]]]
      BY <1>2, <2>2 DEF Composite
    <3>2. [k \in DOMAIN surfaces |-> surfaces[order[k]]] \in Seq(Surfaces)
      BY SortedSurfaces DEF TypeOK
    <3>3. QED
      BY <1>1, <3>1, <3>2 DEF Jobs
  <2>3. QED
    BY <2>1, <2>2
<1>3. ASSUME job.todo # <<>>
      PROVE  /\ Layer \in Surfaces /\ Tail(job.todo) \in Seq(Surfaces)
             /\ file[Layer.id] \in Pictures
  <2>1. Layer \in Surfaces /\ Tail(job.todo) \in Seq(Surfaces)
    BY <1>3, HeadTailProperties DEF Layer, TypeOK, Jobs
  <2>2. QED
    BY <2>1 DEF TypeOK, Surfaces
<1>4. CASE LoadHeader
  BY <1>3, <1>4 DEF LoadHeader, TypeOK, Jobs
<1>5. CASE LoadPixels
  <2> DEFINE now     == file[Layer.id]
             picture == IF now = job.header THEN now ELSE [now EXCEPT !.is = "torn"]
             layer   == [id |-> Layer.id, height |-> Layer.height, picture |-> picture]
             canvas  == IF now.is = "whole" THEN Append(job.canvas, layer) ELSE job.canvas
  <2>1. job.todo # <<>>
    BY <1>5 DEF LoadPixels, LayersInOrder
  <2>2. picture \in Pictures
    BY <1>3, <2>1 DEF Pictures
  <2>3. layer \in Layers
    BY <1>3, <2>1, <2>2 DEF Layers, Surfaces
  <2>4. canvas \in Seq(Layers) /\ Blank("none") \in Pictures
    BY <1>1, <2>3, AppendProperties DEF TypeOK, Jobs, NoJob
  <2>5. job' = [job EXCEPT !.todo = Tail(@), !.header = Blank("none"), !.canvas = canvas]
    BY <1>5 DEF LoadPixels
  <2> HIDE DEF canvas
  <2>6. QED
    BY <1>3, <2>1, <2>4, <2>5 DEF TypeOK, Jobs
<1>6. CASE Present \/ ComposerDies
  BY <1>1, <1>6 DEF Present, ComposerDies
<1>7. ASSUME NEW c \in Clients, ClientDies(c)
      PROVE  job' \in Jobs
  BY <1>7 DEF ClientDies, TypeOK, Jobs
<1>8. QED
  BY <1>2, <1>4, <1>5, <1>6, <1>7, Writers DEF TypeOK

\* The clients' records are typed by the invariant about ids; the rest is simple.
LEMMA TypeStep ==
  ASSUME TypeOK, OwnInv, LayersInOrder, [Next]_vars
  PROVE  TypeOK'
<1>1. client' \in [Clients -> ClientRecords]
  BY OwnInvNext DEF OwnInv, IdTypes
<1>2. composer' \in {"down", "idle", "load", "pixels"}
  BY Writers DEF TypeOK, ComposerBind, LoadHeader, LoadPixels, Present, ComposerDies, Composite
<1>3. display' \in Seq(Layers)
  <2>1. CASE Present
    BY <2>1 DEF Present, TypeOK, Jobs
  <2>2. CASE ComposerDies
    <3>1. display' \in {display, <<>>}
      BY <2>2 DEF ComposerDies
    <3>2. QED
      BY <3>1, EmptySeq DEF TypeOK
  <2>3. QED
    BY <2>1, <2>2, Writers DEF TypeOK
<1>4. stale' \subseteq Ids
  <2>1. CASE ComposerDies
    <3>1. \A c \in Clients : client[c].id \in Ids \cup {0}
      BY DEF TypeOK, ClientRecords
    <3>2. QED
      BY <2>1, <3>1 DEF ComposerDies, TypeOK
  <2>2. QED
    BY <2>1, Writers DEF TypeOK
<1>5. deaths' \in [client : 0..MaxDeaths, composer : 0..MaxRestarts]
  <2>1. CASE ComposerDies
    BY <2>1, BoundAssumption DEF ComposerDies, TypeOK
  <2>2. ASSUME NEW c \in Clients, ClientDies(c)
        PROVE  deaths' \in [client : 0..MaxDeaths, composer : 0..MaxRestarts]
    BY <2>2, BoundAssumption DEF ClientDies, TypeOK
  <2>3. QED
    BY <2>1, <2>2, Writers DEF TypeOK
<1>6. QED
  BY <1>1, <1>2, <1>3, <1>4, <1>5, ListTypes, FileTypes, JobTypes DEF TypeOK

----------------------------------------------------------------------------
(* Order.                                                                  *)

\* The numbers in a surface and in a layer.
LEMMA Numbers ==
  /\ \A s \in Surfaces : s.id \in Nat /\ s.height \in Nat /\ s.id \in Ids
  /\ \A x \in Layers : x.id \in Nat /\ x.height \in Nat
<1>1. Ids \subseteq Nat
  BY BoundAssumption DEF Ids
<1>2. {Height[c] : c \in Clients} \subseteq Nat
  BY ClientAssumption
<1>3. QED
  BY <1>1, <1>2 DEF Surfaces, Layers

\* A new id is larger than all in the list; a removal leaves the order.
LEMMA ListStep ==
  ASSUME TypeOK, ListAscends, [Next]_vars
  PROVE  ListAscends'
<1> DEFINE l == Len(surfaces)
<1>1. /\ l \in Nat /\ DOMAIN surfaces = 1..l
      /\ \A i \in 1..l : surfaces[i] \in Surfaces /\ surfaces[i].id \in Nat
  <2>1. surfaces \in Seq(Surfaces)
    BY DEF TypeOK
  <2>2. /\ l \in Nat /\ DOMAIN surfaces = 1..l
        /\ \A i \in 1..l : surfaces[i] \in Surfaces
    BY <2>1, LenProperties, ElementOfSeq
  <2>3. QED
    BY <2>2, Numbers
<1>2. nextId \in Nat
  BY BoundAssumption DEF TypeOK
<1> HIDE DEF l
<1>3. ASSUME NEW c \in Clients, Allocate(c)
      PROVE  ListAscends'
  <2> DEFINE new == [id |-> nextId, height |-> Height[c]]
  <2>1. /\ surfaces' = Append(surfaces, new) /\ nextId' = nextId + 1
        /\ composer' = composer /\ composer = "idle"
    BY <1>3 DEF Allocate
  <2>2. /\ DOMAIN surfaces' = 1..(l + 1)
        /\ \A i \in 1..l : surfaces'[i] = surfaces[i]
        /\ surfaces'[l + 1].id = nextId
    <3>1. surfaces \in Seq(Surfaces \cup {new})
      BY SeqMonotonic DEF TypeOK
    <3>2. QED
      BY <1>1, <2>1, <3>1, AppendProperties, LenProperties DEF l
  <2>3. \A i \in 1..l : surfaces[i].id < nextId
    BY <1>1 DEF ListAscends
  <2>4. ASSUME NEW i \in 1..(l + 1)
        PROVE  surfaces'[i].id < nextId + 1
    BY <1>1, <1>2, <2>2, <2>3
  <2>5. ASSUME NEW i \in 1..(l + 1), NEW j \in 1..(l + 1), i < j
        PROVE  surfaces'[i].id < surfaces'[j].id
    <3>1. i \in 1..l
      BY <1>1, <2>5
    <3>2. CASE j = l + 1
      BY <2>2, <2>3, <3>1, <3>2
    <3>3. CASE j \in 1..l
      BY <1>1, <2>2, <2>5, <3>1, <3>3 DEF ListAscends
    <3>4. QED
      BY <1>1, <3>2, <3>3
  <2>6. QED
    BY <2>1, <2>2, <2>4, <2>5 DEF ListAscends
<1>4. ASSUME NEW k \in Ids, Destroy(k)
      PROVE  ListAscends'
  <2>1. PICK m \in 1..l : surfaces' = RemoveAt(surfaces, m)
    BY <1>1, <1>4 DEF Destroy
  <2>2. nextId' = nextId /\ composer' = composer /\ composer = "idle"
    BY <1>4 DEF Destroy
  <2>3. /\ DOMAIN surfaces' = 1..(l - 1)
        /\ \A j \in 1..(l - 1) :
             surfaces'[j] = IF j < m THEN surfaces[j] ELSE surfaces[j + 1]
    <3>1. surfaces \in Seq(Surfaces) /\ m \in 1..Len(surfaces)
      BY DEF l, TypeOK
    <3>2. QED
      BY <2>1, <3>1, RemoveAtElements, LenProperties DEF l
  <2>4. ASSUME NEW i \in 1..(l - 1)
        PROVE  surfaces'[i].id < nextId
    <3>1. i \in DOMAIN surfaces /\ i + 1 \in DOMAIN surfaces
      BY <1>1
    <3>2. surfaces'[i] \in {surfaces[i], surfaces[i + 1]}
      BY <2>3
    <3>3. QED
      BY <3>1, <3>2 DEF ListAscends
  <2>5. ASSUME NEW i \in 1..(l - 1), NEW j \in 1..(l - 1), i < j
        PROVE  surfaces'[i].id < surfaces'[j].id
    <3> DEFINE old(p) == IF p < m THEN p ELSE p + 1
    <3>1. old(i) \in 1..l /\ old(j) \in 1..l /\ old(i) < old(j)
      BY <1>1, <2>5
    <3>2. surfaces'[i] = surfaces[old(i)] /\ surfaces'[j] = surfaces[old(j)]
      BY <2>3
    <3> HIDE DEF old
    <3>3. QED
      BY <1>1, <3>1, <3>2 DEF ListAscends
  <2>6. QED
    BY <2>2, <2>3, <2>4, <2>5 DEF ListAscends
<1>5. CASE ComposerDies
  BY <1>5 DEF ComposerDies, ListAscends
<1>6. CASE UNCHANGED <<surfaces, nextId>>
  <2>1. composer' = "down" => composer = "down" \/ ComposerDies
    BY Writers DEF ComposerBind, LoadHeader, LoadPixels, Present, Composite
  <2>2. QED
    BY <1>5, <1>6, <2>1 DEF ListAscends
<1>7. QED
  BY <1>3, <1>4, <1>5, <1>6, Writers

\* A layer that leaves the list of layers is left out or put on top of the canvas.
LEMMA LayersStep ==
  ASSUME TypeOK, ListAscends, LayersInOrder, [Next]_vars
  PROVE  LayersInOrder'
<1>1. /\ job \in Jobs /\ job.todo \in Seq(Surfaces) /\ job.canvas \in Seq(Layers)
      /\ \A i \in DOMAIN job.canvas : job.canvas[i] \in Layers
      /\ \A i \in DOMAIN job.todo : job.todo[i] \in Surfaces
      /\ Len(job.todo) \in Nat /\ DOMAIN job.todo = 1..Len(job.todo)
      /\ Len(job.canvas) \in Nat /\ DOMAIN job.canvas = 1..Len(job.canvas)
  BY LenProperties, ElementOfSeq DEF TypeOK, Jobs
<1>2. ASSUME NEW c \in Clients \cup {Nobody}, Composite(c)
      PROVE  LayersInOrder'
  <2>1. CASE surfaces = <<>>
    BY <1>2, <2>1 DEF Composite, LayersInOrder
  <2>2. CASE surfaces # <<>>
    <3>1. PICK order \in Bijection(DOMAIN surfaces, DOMAIN surfaces) :
            /\ DrawOrder(order)
            /\ job' = [NoJob EXCEPT !.for = c,
                         !.todo = [k \in DOMAIN surfaces |-> surfaces[order[k]]]]
      BY <1>2, <2>2 DEF Composite
    <3> DEFINE sorted == [k \in DOMAIN surfaces |-> surfaces[order[k]]]
    <3>2. job'.todo = sorted /\ job'.canvas = <<>> /\ composer' = "load"
      BY <1>2, <2>2, <3>1 DEF NoJob, Composite
    <3>3. /\ DOMAIN sorted = DOMAIN surfaces
          /\ \A k \in DOMAIN surfaces : order[k] \in DOMAIN surfaces /\ sorted[k] = surfaces[order[k]]
      BY SortedSurfaces DEF TypeOK
    <3> HIDE DEF sorted
    <3>4. ASSUME NEW i \in DOMAIN sorted, NEW j \in DOMAIN sorted, i < j
          PROVE  Below(sorted[i], sorted[j])
      BY <3>1, <3>3, <3>4 DEF DrawOrder, ListAscends, Below
    <3>5. QED
      BY <3>2, <3>4 DEF LayersInOrder
  <2>3. QED
    BY <2>1, <2>2
<1>3. ASSUME job.todo # <<>>
      PROVE  /\ Len(job.todo) >= 1 /\ Layer = job.todo[1]
             /\ DOMAIN Tail(job.todo) = 1..(Len(job.todo) - 1)
             /\ \A i \in 1..(Len(job.todo) - 1) : Tail(job.todo)[i] = job.todo[i + 1]
  BY <1>1, <1>3, HeadTailProperties, LenProperties, EmptySeq DEF Layer
<1>4. ASSUME job.todo # <<>>, job'.todo = Tail(job.todo), job'.canvas = job.canvas,
             composer' = "load"
      PROVE  LayersInOrder'
  <2> DEFINE rest == Tail(job.todo)
             n == Len(job.todo)
  <2>1. /\ n \in Nat /\ DOMAIN job.todo = 1..n /\ DOMAIN rest = 1..(n - 1)
        /\ \A i \in 1..(n - 1) : rest[i] = job.todo[i + 1]
    BY <1>1, <1>3, <1>4
  <2>2. \A i \in 1..(n - 1) : i + 1 \in 1..n
    BY <2>1
  <2> HIDE DEF rest, n
  <2>3. \A i, j \in DOMAIN rest : i < j => Below(rest[i], rest[j])
    <3> SUFFICES ASSUME NEW i \in 1..(n - 1), NEW j \in 1..(n - 1), i < j
                 PROVE  Below(job.todo[i + 1], job.todo[j + 1])
      BY <2>1
    <3>1. i + 1 < j + 1
      BY <2>1
    <3>2. QED
      BY <2>1, <2>2, <3>1 DEF LayersInOrder
  <2>4. \A i \in DOMAIN job.canvas : \A j \in DOMAIN rest : Below(job.canvas[i], rest[j])
    BY <2>1, <2>2 DEF LayersInOrder
  <2>5. QED
    BY <1>4, <2>3, <2>4 DEF LayersInOrder, rest
<1>5. CASE LoadHeader
  <2>1. CASE file[Layer.id].is = "whole"
    BY <1>1, <1>5, <2>1 DEF LoadHeader, LayersInOrder, Jobs
  <2>2. CASE file[Layer.id].is # "whole"
    BY <1>1, <1>4, <1>5, <2>2 DEF LoadHeader, Jobs
  <2>3. QED
    BY <2>1, <2>2
<1>6. CASE LoadPixels
  <2>1. job.todo # <<>> /\ composer' = "load" /\ job'.todo = Tail(job.todo)
    BY <1>1, <1>6 DEF LoadPixels, LayersInOrder, Jobs
  <2>2. CASE job'.canvas = job.canvas
    BY <1>4, <2>1, <2>2
  <2>3. ASSUME NEW picture \in Pictures,
               job'.canvas = Append(job.canvas,
                 [id |-> Layer.id, height |-> Layer.height, picture |-> picture])
        PROVE  LayersInOrder'
    <3> DEFINE layer == [id |-> Layer.id, height |-> Layer.height, picture |-> picture]
               n == Len(job.canvas)
    <3>1. layer \in Layers
      BY <1>1, <1>3, <2>1 DEF Layers, Surfaces
    <3>2. /\ n \in Nat /\ DOMAIN job'.canvas = 1..(n + 1) /\ job'.canvas[n + 1] = layer
          /\ \A i \in 1..n : job'.canvas[i] = job.canvas[i]
      <4>1. job'.canvas = Append(job.canvas, layer)
        BY <2>3
      <4> HIDE DEF layer
      <4>2. QED
        BY <1>1, <3>1, <4>1, AppendProperties, LenProperties
    <3>3. \A i \in 1..n : Below(job.canvas[i], layer)
      BY <1>1, <1>3, <2>1 DEF LayersInOrder, Below
    <3>4. \A j \in 1..(Len(job.todo) - 1) : Below(layer, job.todo[j + 1])
      <4> SUFFICES ASSUME NEW j \in 1..(Len(job.todo) - 1)
                   PROVE  Below(job.todo[1], job.todo[j + 1])
        BY <1>3, <2>1 DEF Below
      <4>1. 1 \in DOMAIN job.todo /\ j + 1 \in DOMAIN job.todo /\ 1 < j + 1
        BY <1>1, <1>3, <2>1
      <4>2. QED
        BY <4>1 DEF LayersInOrder
    <3>5. /\ \A i, j \in DOMAIN job.canvas : i < j => Below(job.canvas[i], job.canvas[j])
          /\ DOMAIN job.canvas = 1..n
      BY <1>1 DEF LayersInOrder
    <3> HIDE DEF layer, n
    <3>6. \A i, j \in DOMAIN job'.canvas : i < j => Below(job'.canvas[i], job'.canvas[j])
      <4> SUFFICES ASSUME NEW i \in 1..(n + 1), NEW j \in 1..(n + 1), i < j
                   PROVE  Below(job'.canvas[i], job'.canvas[j])
        BY <3>2
      <4>1. i \in 1..n /\ (j \in 1..n \/ j = n + 1)
        BY <3>2
      <4>2. CASE j = n + 1
        BY <3>2, <3>3, <4>1, <4>2
      <4>3. CASE j \in 1..n
        BY <3>2, <3>5, <4>1, <4>3
      <4>4. QED
        BY <4>1, <4>2, <4>3
    <3>7. \A i \in 1..(Len(job.todo) - 1) : i + 1 \in DOMAIN job.todo
      BY <1>1
    <3>8. \A i, j \in DOMAIN job'.todo : i < j => Below(job'.todo[i], job'.todo[j])
      <4> SUFFICES ASSUME NEW i \in 1..(Len(job.todo) - 1), NEW j \in 1..(Len(job.todo) - 1), i < j
                   PROVE  Below(job.todo[i + 1], job.todo[j + 1])
        BY <1>3, <2>1
      <4>1. i + 1 < j + 1
        OBVIOUS
      <4>2. QED
        BY <3>7, <4>1 DEF LayersInOrder
    <3>9. \A i \in DOMAIN job'.canvas : \A j \in DOMAIN job'.todo :
            Below(job'.canvas[i], job'.todo[j])
      <4> SUFFICES ASSUME NEW i \in 1..(n + 1), NEW j \in 1..(Len(job.todo) - 1)
                   PROVE  Below(job'.canvas[i], job.todo[j + 1])
        BY <1>3, <2>1, <3>2
      <4>1. CASE i = n + 1
        BY <3>2, <3>4, <4>1
      <4>2. CASE i \in 1..n
        BY <3>2, <3>5, <3>7, <4>2 DEF LayersInOrder
      <4>3. QED
        BY <3>2, <4>1, <4>2
    <3>10. QED
      BY <2>1, <3>6, <3>8, <3>9 DEF LayersInOrder
  <2>4. QED
    <3> DEFINE now     == file[Layer.id]
               picture == IF now = job.header THEN now ELSE [now EXCEPT !.is = "torn"]
    <3>1. picture \in Pictures
      <4>1. 1 \in DOMAIN job.todo
        BY <1>1, <1>3, <2>1
      <4>2. now \in Pictures
        BY <1>1, <1>3, <2>1, <4>1, Numbers DEF TypeOK
      <4>3. QED
        BY <4>2 DEF Pictures
    <3>2. \/ job'.canvas = job.canvas
          \/ job'.canvas = Append(job.canvas,
               [id |-> Layer.id, height |-> Layer.height, picture |-> picture])
      BY <1>1, <1>6 DEF LoadPixels, Jobs
    <3>3. QED
      BY <2>2, <2>3, <3>1, <3>2
<1>7. CASE Present \/ ComposerDies
  BY <1>7 DEF Present, ComposerDies, NoJob, LayersInOrder
<1>8. ASSUME NEW c \in Clients, ClientDies(c)
      PROVE  LayersInOrder'
  BY <1>1, <1>8 DEF ClientDies, LayersInOrder, Jobs
<1>9. CASE UNCHANGED job
  <2>1. composer' = "pixels" => composer = "pixels" \/ LoadHeader
    BY Writers DEF ComposerBind, LoadPixels, Present, ComposerDies, Composite
  <2>2. QED
    BY <1>5, <1>9, <2>1 DEF LayersInOrder
<1>10. QED
  BY <1>2, <1>5, <1>6, <1>7, <1>8, <1>9, Writers

LEMMA OrderStep ==
  ASSUME TypeOK, Order, [Next]_vars
  PROVE  Order'
<1>1. NewestOnTop'
  <2>1. CASE Present
    BY <2>1 DEF Present, Order, LayersInOrder, NewestOnTop
  <2>2. CASE ComposerDies
    <3>1. display' \in {display, <<>>}
      BY <2>2 DEF ComposerDies
    <3>2. QED
      BY <3>1 DEF Order, NewestOnTop
  <2>3. QED
    BY <2>1, <2>2, Writers DEF Order, NewestOnTop
<1>2. QED
  BY <1>1, ListStep, LayersStep DEF Order

----------------------------------------------------------------------------
(* What is shown.                                                          *)

\* Whose steps change a client.
LEMMA ClientActs ==
  ASSUME TypeOK, [Next]_vars, NEW c \in Clients
  PROVE  \/ client'[c] = client[c]
         \/ Client(c) \/ Allocate(c) \/ Composite(c) \/ ClientDies(c)
         \/ Present /\ job.for = c
         \/ ComposerDies
<1> USE DEF TypeOK
<1>1. ASSUME NEW d \in Clients \ {c}, Client(d)
      PROVE  client'[c] = client[c]
  <2>1. CASE NoSurface(d)
    BY <2>1 DEF NoSurface
  <2>2. CASE StartFrame(d) \/ FinishFrame(d) \/ Refused(d)
    BY <2>2 DEF StartFrame, FinishFrame, Refused, Goto
  <2>3. QED
    BY <1>1, <2>1, <2>2 DEF Client
<1>2. ASSUME NEW d \in Clients \ {c}, Allocate(d) \/ ClientDies(d)
      PROVE  client'[c] = client[c]
  BY <1>2 DEF Allocate, ClientDies
<1>3. ASSUME NEW d \in (Clients \cup {Nobody}) \ {c}, Composite(d)
      PROVE  client'[c] = client[c]
  <2>1. \/ UNCHANGED client
        \/ d \in Clients /\ \E l \in {"wait", "idle"} : client' = [client EXCEPT ![d].at = l]
    BY <1>3 DEF Composite
  <2>2. QED
    BY <2>1
<1>4. CASE Present /\ job.for # c
  BY <1>4 DEF Present
<1>5. ASSUME NEW k \in Ids, Destroy(k)
      PROVE  UNCHANGED client
  BY <1>5 DEF Destroy
<1>6. CASE ComposerBind \/ LoadHeader \/ LoadPixels \/ UNCHANGED vars
  BY <1>6 DEF ComposerBind, LoadHeader, LoadPixels, vars
<1>7. QED
  BY <1>1, <1>2, <1>3, <1>4, <1>5, <1>6 DEF Next, Composer

\* What a step does to a client.
LEMMA ClientChange ==
  ASSUME TypeOK, Showing, [Next]_vars, NEW c \in Clients
  PROVE  \/ client'[c] = client[c]
         \/ client'[c].at \in {"start", "draw", "writing"}
         \/ FinishFrame(c)
         \/ Refused(c)
         \/ Composite(c) /\ client' = [client EXCEPT ![c].at = client'[c].at]
         \/ Present /\ job.for = c /\ client' = [client EXCEPT ![c].at = "idle"]
         \/ ComposerDies
<1> USE DEF TypeOK, ClientRecords
<1>1. ASSUME NoSurface(c)
      PROVE  client'[c].at = "draw"
  <2>1. PICK found \in BOOLEAN : client' = [client EXCEPT ![c].at = "draw", ![c].path = found]
    BY <1>1 DEF NoSurface
  <2>2. QED
    BY <2>1
<1>2. ASSUME StartFrame(c) \/ Allocate(c) \/ ClientDies(c)
      PROVE  client'[c].at \in {"start", "draw", "writing"}
  BY <1>2 DEF StartFrame, Allocate, ClientDies
<1>3. ASSUME Composite(c)
      PROVE  client'[c] = client[c] \/ client' = [client EXCEPT ![c].at = client'[c].at]
  <2>1. client' = client \/ \E l \in {"wait", "idle"} : client' = [client EXCEPT ![c].at = l]
    BY <1>3 DEF Composite
  <2>2. QED
    BY <2>1
<1>4. ASSUME Present, job.for = c
      PROVE  client' = [client EXCEPT ![c].at = "idle"]
  BY <1>4, ClientAssumption DEF Present
<1>5. QED
  BY <1>1, <1>2, <1>3, <1>4, ClientActs DEF Client

\* Who waits is who the composition is for.
LEMMA WaitsStep ==
  ASSUME TypeOK, Showing, [Next]_vars
  PROVE  WaitsForIts'
<1> USE ClientAssumption
<1>1. job \in Jobs /\ client \in [Clients -> ClientRecords]
  BY DEF TypeOK
<1>2. ASSUME NEW c \in Clients \cup {Nobody}, Composite(c)
      PROVE  WaitsForIts'
  <2>1. composer = "idle" /\ job.for = Nobody
    BY <1>2 DEF Composite, Showing, WaitsForIts, Composing
  <2>2. CASE surfaces = <<>>
    <3>1. /\ client' = IF c = Nobody THEN client ELSE [client EXCEPT ![c].at = "idle"]
          /\ c # Nobody => client[c].at = "ask"
          /\ UNCHANGED <<composer, job>>
      BY <1>2, <2>2 DEF Composite
    <3>2. \A d \in Clients : client'[d].at = "wait" <=> client[d].at = "wait"
      BY <1>1, <3>1 DEF ClientRecords
    <3>3. QED
      BY <3>1, <3>2 DEF Showing, WaitsForIts, Composing
  <2>3. CASE surfaces # <<>>
    <3>1. composer' = "load" /\ job'.for = c
      BY <1>2, <2>3 DEF Composite, NoJob
    <3>2. client' = IF c = Nobody THEN client ELSE [client EXCEPT ![c].at = "wait"]
      BY <1>2, <2>3 DEF Composite
    <3>3. QED
      BY <1>1, <2>1, <3>1, <3>2 DEF Showing, WaitsForIts, Composing, ClientRecords
  <2>4. QED
    BY <2>2, <2>3
<1>3. CASE LoadHeader \/ LoadPixels
  <2>1. client' = client /\ job'.for = job.for /\ Composing /\ Composing'
    BY <1>1, <1>3 DEF LoadHeader, LoadPixels, Jobs, Composing
  <2>2. QED
    BY <2>1 DEF Showing, WaitsForIts
<1>4. CASE Present
  BY <1>1, <1>4 DEF Present, NoJob, Showing, WaitsForIts, Composing, ClientRecords, Jobs
<1>5. CASE ComposerDies
  BY <1>1, <1>5 DEF ComposerDies, NoJob, Showing, WaitsForIts, Composing, ClientRecords
<1>6. ASSUME NEW c \in Clients, ClientDies(c)
      PROVE  WaitsForIts'
  BY <1>1, <1>6 DEF ClientDies, Showing, WaitsForIts, Composing, ClientRecords, Jobs
<1>7. ASSUME NEW c \in Clients, Allocate(c)
      PROVE  WaitsForIts'
  <2>1. /\ client[c].at # "wait"
        /\ client' = [client EXCEPT ![c].at = "draw", ![c].path = TRUE, ![c].id = nextId]
        /\ UNCHANGED <<composer, job>>
    BY <1>7 DEF Allocate, LooksForComposer
  <2>2. QED
    BY <1>1, <2>1 DEF Showing, WaitsForIts, Composing, ClientRecords
<1>8. ASSUME NEW c \in Clients, Client(c)
      PROVE  WaitsForIts'
  <2>1. client[c].at # "wait" /\ UNCHANGED <<composer, job>>
    BY <1>8 DEF Client, NoSurface, StartFrame, FinishFrame, Refused, LooksForComposer
  <2>2. client'[c].at # "wait" /\ \A d \in Clients \ {c} : client'[d] = client[d]
    <3>1. CASE NoSurface(c)
      BY <1>1, <3>1 DEF NoSurface, ClientRecords
    <3>2. CASE StartFrame(c) \/ FinishFrame(c) \/ Refused(c)
      BY <1>1, <3>2 DEF StartFrame, FinishFrame, Refused, Goto, ClientRecords
    <3>3. QED
      BY <1>8, <3>1, <3>2 DEF Client
  <2>3. QED
    BY <2>1, <2>2 DEF Showing, WaitsForIts, Composing
<1>9. CASE ComposerBind \/ UNCHANGED vars
  BY <1>9 DEF ComposerBind, vars, Showing, WaitsForIts, Composing
<1>10. ASSUME NEW k \in Ids, Destroy(k)
       PROVE  WaitsForIts'
  BY <1>10 DEF Destroy, Showing, WaitsForIts, Composing
<1>11. QED
  BY <1>2, <1>3, <1>4, <1>5, <1>6, <1>7, <1>8, <1>9, <1>10 DEF Next, Composer

\* The path is known before the id and forgotten with it.
LEMMA PathStep ==
  ASSUME TypeOK, Showing, [Next]_vars
  PROVE  IdHasPath'
<1> SUFFICES ASSUME NEW c \in Clients
             PROVE  /\ client'[c].id # 0 => client'[c].path
                    /\ client'[c].at = "start" => ~client'[c].path
  BY DEF IdHasPath
<1> USE DEF TypeOK, ClientRecords
<1>1. /\ client[c].id # 0 => client[c].path
      /\ client[c].at = "start" => ~client[c].path
  BY DEF Showing, IdHasPath
<1>2. CASE client'[c] = client[c]
  BY <1>1, <1>2
<1>3. ASSUME client'[c].id = client[c].id, client'[c].path = client[c].path,
             client'[c].at # "start"
      PROVE  /\ client'[c].id # 0 => client'[c].path
             /\ client'[c].at = "start" => ~client'[c].path
  BY <1>1, <1>3
<1>4. CASE NoSurface(c)
  <2>1. PICK found \in BOOLEAN : client' = [client EXCEPT ![c].at = "draw", ![c].path = found]
    BY <1>4 DEF NoSurface
  <2>2. client'[c].id = 0 /\ client'[c].at = "draw"
    BY <1>1, <1>4, <2>1 DEF NoSurface, LooksForComposer
  <2>3. QED
    BY <2>2
<1>5. CASE StartFrame(c) \/ FinishFrame(c) \/ Refused(c)
  <2>1. /\ client'[c].id = client[c].id /\ client'[c].path = client[c].path
        /\ client'[c].at # "start"
    BY <1>5 DEF StartFrame, FinishFrame, Refused, Goto
  <2>2. QED
    BY <1>3, <2>1
<1>6. CASE Allocate(c)
  BY <1>6 DEF Allocate
<1>7. CASE ClientDies(c)
  BY <1>7 DEF ClientDies
<1>8. ASSUME NEW l \in {"wait", "idle"}, client' = [client EXCEPT ![c].at = l]
      PROVE  /\ client'[c].id # 0 => client'[c].path
             /\ client'[c].at = "start" => ~client'[c].path
  <2>1. /\ client'[c].id = client[c].id /\ client'[c].path = client[c].path
        /\ client'[c].at # "start"
    BY <1>8
  <2>2. QED
    BY <1>3, <2>1
<1>9. ASSUME Composite(c)
      PROVE  client' = client \/ \E l \in {"wait", "idle"} : client' = [client EXCEPT ![c].at = l]
  BY <1>9 DEF Composite
<1>10. CASE ComposerDies
  <2>1. client'[c] = IF client[c].at = "wait" THEN [client[c] EXCEPT !.at = "idle"] ELSE client[c]
    BY <1>10 DEF ComposerDies
  <2>2. CASE client[c].at = "wait"
    <3>1. /\ client'[c].id = client[c].id /\ client'[c].path = client[c].path
          /\ client'[c].at # "start"
      BY <2>1, <2>2
    <3>2. QED
      BY <1>3, <3>1
  <2>3. QED
    BY <1>2, <2>1, <2>2
<1>11. CASE Present /\ job.for = c
  BY <1>8, <1>11, ClientAssumption DEF Present
<1>12. QED
  BY <1>2, <1>4, <1>5, <1>6, <1>7, <1>8, <1>9, <1>10, <1>11, ClientActs DEF Client

\* A client that has drawn is about to ask, waits or was answered, of the same surface as
\* before, and it has just finished the frame or had finished it before.
LEMMA DrawnBefore ==
  ASSUME TypeOK, Showing, [Next]_vars, NEW c \in Clients, Drawn(c)'
  PROVE  /\ client'[c].id = client[c].id /\ client[c].id \notin stale \cup {0}
         /\ client'[c].n = client[c].n
         /\ ~ComposerDies
         /\ \/ client'[c] = client[c]
            \/ FinishFrame(c) /\ client'[c].at = "ask"
            \/ Refused(c) /\ client'[c].at = "idle"
            \/ Composite(c) /\ client[c].at = "ask"
            \/ Present /\ job.for = c /\ client[c].at = "wait" /\ client'[c].at = "idle"
<1> USE DEF TypeOK, ClientRecords
<1>1. ~ComposerDies
  <2> SUFFICES ASSUME ComposerDies
               PROVE  FALSE
    OBVIOUS
  <2>1. client'[c].id = client[c].id
    BY DEF ComposerDies
  <2>2. QED
    BY <2>1 DEF ComposerDies, Drawn
<1>2. stale' = stale
  BY <1>1, Writers
<1>3. client'[c].at \notin {"start", "draw", "writing"}
  BY DEF Drawn
<1>4. CASE client'[c] = client[c]
  BY <1>1, <1>2, <1>4 DEF Drawn
<1>5. CASE FinishFrame(c)
  <2>1. /\ client'[c].id = client[c].id /\ client'[c].n = client[c].n
        /\ client[c].path => client'[c].at = "ask"
    BY <1>5 DEF FinishFrame, Goto
  <2>2. client[c].id # 0
    BY <2>1 DEF Drawn
  <2>3. QED
    BY <1>1, <1>2, <1>5, <2>1, <2>2 DEF Drawn, Showing, IdHasPath
<1>6. CASE Refused(c)
  BY <1>1, <1>2, <1>6 DEF Refused, Goto, Drawn
<1>7. CASE Composite(c) /\ client' = [client EXCEPT ![c].at = client'[c].at]
  <2>1. client[c].at = "ask"
    BY <1>7, ClientAssumption DEF Composite
  <2>2. client'[c].id = client[c].id /\ client'[c].n = client[c].n
    BY <1>7
  <2>3. QED
    BY <1>1, <1>2, <1>7, <2>1, <2>2 DEF Drawn
<1>8. CASE Present /\ job.for = c /\ client' = [client EXCEPT ![c].at = "idle"]
  <2>1. client[c].at = "wait"
    BY <1>8 DEF Showing, WaitsForIts
  <2>2. client'[c].id = client[c].id /\ client'[c].n = client[c].n /\ client'[c].at = "idle"
    BY <1>8
  <2>3. QED
    BY <1>1, <1>2, <1>8, <2>1, <2>2 DEF Drawn
<1>9. QED
  BY <1>1, <1>3, <1>4, <1>5, <1>6, <1>7, <1>8, ClientChange

\* Frame by frame, only the owner of a surface writes its file.
LEMMA FileStep ==
  ASSUME TypeOK, OwnInv, Showing, [Next]_vars
  PROVE  FileKept'
<1> SUFFICES ASSUME NEW c \in Clients, Drawn(c)'
             PROVE  file'[client'[c].id] = [is |-> "whole", by |-> c, n |-> client'[c].n]
  BY DEF FileKept, Frame
<1> USE DEF TypeOK, ClientRecords
<1> DEFINE k == client[c].id
<1>1. /\ client'[c].id = k /\ k \notin stale \cup {0} /\ client'[c].n = client[c].n
      /\ FinishFrame(c) \/ (Drawn(c) /\ ~StartFrame(c))
  <2>1. ~StartFrame(c)
    BY DEF StartFrame, Drawn
  <2>2. QED
    BY <2>1, DrawnBefore DEF Drawn, Refused, Composite
<1>2. k \in Ids
  BY <1>1
<1>3. CASE FinishFrame(c)
  BY <1>1, <1>2, <1>3 DEF FinishFrame
<1>4. CASE Drawn(c) /\ ~StartFrame(c) /\ ~FinishFrame(c)
  <2>1. file[k] = [is |-> "whole", by |-> c, n |-> client[c].n]
    BY <1>4 DEF Showing, FileKept, Frame
  <2>2. ASSUME NEW d \in Clients \ {c}, StartFrame(d) \/ FinishFrame(d)
        PROVE  file'[k] = file[k]
    <3>1. client[d].id # k
      BY <1>1 DEF OwnInv, SurfaceIsOwn
    <3>2. QED
      BY <1>2, <2>2, <3>1 DEF StartFrame, FinishFrame
  <2>3. file'[k] = file[k]
    BY <1>4, <2>2, Writers
  <2>4. QED
    BY <1>1, <2>1, <2>3
<1>5. QED
  BY <1>1, <1>3, <1>4

\* What a step leaves of a composition that goes on.
LEMMA Composition ==
  ASSUME TypeOK, [Next]_vars, Composing', ~LoadHeader, ~LoadPixels
  PROVE  \/ \E d \in Clients \cup {Nobody} : Composite(d) /\ surfaces # <<>>
         \/ /\ UNCHANGED <<composer, surfaces>>
            /\ job'.todo = job.todo /\ job'.canvas = job.canvas /\ job'.header = job.header
<1> USE DEF Composing
<1>1. ~ComposerBind /\ ~Present /\ ~ComposerDies
  BY DEF ComposerBind, Present, ComposerDies
<1>2. ASSUME NEW d \in Clients \cup {Nobody}, Composite(d)
      PROVE  surfaces # <<>>
  BY <1>2 DEF Composite
<1>3. UNCHANGED composer \/ \E d \in Clients \cup {Nobody} : Composite(d)
  BY <1>1, Writers
<1>4. ASSUME NEW d \in Clients, Allocate(d)
      PROVE  FALSE
  BY <1>4 DEF Allocate
<1>5. ASSUME NEW k \in Ids, Destroy(k)
      PROVE  FALSE
  BY <1>5 DEF Destroy
<1>6. UNCHANGED surfaces
  BY <1>1, <1>4, <1>5, Writers
<1>7. ASSUME NEW d \in Clients, ClientDies(d)
      PROVE  job'.todo = job.todo /\ job'.canvas = job.canvas /\ job'.header = job.header
  BY <1>7 DEF ClientDies, TypeOK, Jobs
<1>8. QED
  BY <1>1, <1>2, <1>3, <1>6, <1>7, Writers

\* A layer of a client that has drawn is never left out: its file is whole and stays so
\* between the header and the pixels.
LEMMA LayerStep ==
  ASSUME TypeOK, OwnInv, Order, Showing, [Next]_vars
  PROVE  LayerKept'
<1> DEFINE InTodo(c) == \E k \in DOMAIN job.todo : job.todo[k].id = client[c].id
<1> SUFFICES ASSUME NEW c \in Clients, Drawn(c)', client'[c].at # "ask", Composing'
             PROVE  /\ Listed(c)' => InTodo(c)' \/ Shows(job.canvas, c)'
                    /\ composer' = "pixels" /\ Layer'.id = client'[c].id
                         => job'.header = Frame(c)'
  BY DEF LayerKept
<1> USE DEF Composing
<1>1. client'[c].id = client[c].id /\ Frame(c)' = Frame(c)
  BY DrawnBefore DEF Frame
<1>2. /\ job \in Jobs /\ job.todo \in Seq(Surfaces) /\ job.canvas \in Seq(Layers)
      /\ Len(job.todo) \in Nat /\ DOMAIN job.todo = 1..Len(job.todo)
      /\ Len(job.canvas) \in Nat /\ DOMAIN job.canvas = 1..Len(job.canvas)
  BY LenProperties DEF TypeOK, Jobs
<1>3. ASSUME NEW d \in Clients \cup {Nobody}, Composite(d), surfaces # <<>>
      PROVE  /\ Listed(c)' => InTodo(c)'
             /\ composer' = "load"
  <2>1. PICK order \in Bijection(DOMAIN surfaces, DOMAIN surfaces) :
          job' = [NoJob EXCEPT !.for = d,
                    !.todo = [k \in DOMAIN surfaces |-> surfaces[order[k]]]]
    BY <1>3 DEF Composite
  <2> DEFINE sorted == [k \in DOMAIN surfaces |-> surfaces[order[k]]]
  <2>2. job'.todo = sorted /\ composer' = "load" /\ surfaces' = surfaces
    BY <1>3, <2>1 DEF NoJob, Composite
  <2>3. /\ DOMAIN sorted = DOMAIN surfaces
        /\ \A i \in DOMAIN surfaces : \E k \in DOMAIN surfaces : sorted[k] = surfaces[i]
    <3>1. \A i \in DOMAIN surfaces : \E k \in DOMAIN surfaces : order[k] = i
      BY DEF Bijection, Injection, Surjection
    <3>2. DOMAIN sorted = DOMAIN surfaces /\ \A k \in DOMAIN surfaces : sorted[k] = surfaces[order[k]]
      OBVIOUS
    <3>3. QED
      BY <3>1, <3>2, Zenon
  <2> HIDE DEF sorted
  <2>4. ASSUME Listed(c)'
        PROVE  InTodo(c)'
    <3>1. PICK i \in DOMAIN surfaces : surfaces[i].id = client[c].id
      BY <1>1, <2>2, <2>4 DEF Listed
    <3>2. PICK k \in DOMAIN surfaces : sorted[k] = surfaces[i]
      BY <2>3
    <3>3. QED
      BY <1>1, <2>2, <2>3, <3>1, <3>2
  <2>5. QED
    BY <2>2, <2>4
<1>4. ASSUME composer \in {"load", "pixels"},
             ~\E d \in Clients \cup {Nobody} : Composite(d)
      PROVE  /\ client'[c] = client[c] /\ Drawn(c) /\ client[c].at # "ask"
             /\ file[client[c].id] = Frame(c)
             /\ Listed(c) => InTodo(c) \/ Shows(job.canvas, c)
             /\ composer = "pixels" /\ Layer.id = client[c].id => job.header = Frame(c)
  <2>1. ~Refused(c) /\ ~Present
    BY <1>4 DEF Refused, Present
  <2>2. client'[c] = client[c] /\ client[c].id \notin stale \cup {0}
    BY <1>4, <2>1, DrawnBefore
  <2>3. Drawn(c) /\ client[c].at # "ask"
    BY <2>2 DEF Drawn
  <2>4. QED
    BY <1>4, <2>2, <2>3 DEF Showing, FileKept, LayerKept
<1>5. ASSUME job.todo # <<>>
      PROVE  /\ Layer = job.todo[1]
             /\ DOMAIN Tail(job.todo) = 1..(Len(job.todo) - 1)
             /\ \A i \in 1..(Len(job.todo) - 1) : Tail(job.todo)[i] = job.todo[i + 1]
             /\ InTodo(c) /\ Layer.id # client[c].id =>
                  \E k \in DOMAIN Tail(job.todo) : Tail(job.todo)[k].id = client[c].id
  <2>1. /\ Layer = job.todo[1]
        /\ DOMAIN Tail(job.todo) = 1..(Len(job.todo) - 1)
        /\ \A i \in 1..(Len(job.todo) - 1) : Tail(job.todo)[i] = job.todo[i + 1]
    BY <1>2, <1>5, HeadTailProperties, LenProperties DEF Layer
  <2>2. ASSUME InTodo(c), Layer.id # client[c].id
        PROVE  \E k \in DOMAIN Tail(job.todo) : Tail(job.todo)[k].id = client[c].id
    <3>1. PICK k \in 1..Len(job.todo) : job.todo[k].id = client[c].id
      BY <1>2, <2>2
    <3>2. k - 1 \in 1..(Len(job.todo) - 1) /\ k - 1 + 1 = k
      BY <1>2, <2>1, <2>2, <3>1
    <3>3. QED
      BY <2>1, <3>1, <3>2
  <2>3. QED
    BY <2>1, <2>2
<1>6. CASE LoadHeader
  <2>1. /\ composer = "load" /\ UNCHANGED <<surfaces, file, client>> /\ job.todo # <<>>
        /\ job'.canvas = job.canvas
    BY <1>2, <1>6 DEF LoadHeader, Jobs
  <2>2. ~\E d \in Clients \cup {Nobody} : Composite(d)
    BY <2>1 DEF Composite
  <2>3. CASE file[Layer.id].is = "whole"
    <3>1. job'.todo = job.todo /\ job'.header = file[Layer.id] /\ composer' = "pixels"
      BY <1>2, <1>6, <2>3 DEF LoadHeader, Jobs
    <3>2. Layer' = Layer
      BY <3>1 DEF Layer
    <3>3. QED
      BY <1>1, <1>4, <2>1, <2>2, <3>1, <3>2 DEF Listed, Shows
  <2>4. CASE file[Layer.id].is # "whole"
    <3>1. job'.todo = Tail(job.todo) /\ composer' = "load"
      BY <1>2, <1>6, <2>1, <2>4 DEF LoadHeader, Jobs
    <3>2. Layer.id # client[c].id
      BY <1>4, <2>1, <2>2, <2>4 DEF Frame
    <3>3. InTodo(c) => InTodo(c)'
      BY <1>1, <1>5, <2>1, <3>1, <3>2
    <3>4. QED
      BY <1>1, <1>4, <2>1, <2>2, <3>1, <3>3 DEF Listed, Shows
  <2>5. QED
    BY <2>3, <2>4
<1>7. CASE LoadPixels
  <2> DEFINE now     == file[Layer.id]
             picture == IF now = job.header THEN now ELSE [now EXCEPT !.is = "torn"]
             layer   == [id |-> Layer.id, height |-> Layer.height, picture |-> picture]
  <2>1. /\ composer = "pixels" /\ composer' = "load"
        /\ UNCHANGED <<surfaces, file, client>> /\ job.todo # <<>>
        /\ job'.todo = Tail(job.todo)
        /\ job'.canvas = IF now.is = "whole" THEN Append(job.canvas, layer) ELSE job.canvas
    BY <1>2, <1>7 DEF LoadPixels, Jobs, Order, LayersInOrder
  <2>2. ~\E d \in Clients \cup {Nobody} : Composite(d)
    BY <2>1 DEF Composite
  <2>3. /\ \A k \in DOMAIN job.canvas : k \in DOMAIN job'.canvas /\ job'.canvas[k] = job.canvas[k]
        /\ now.is = "whole" => \E k \in DOMAIN job'.canvas : job'.canvas[k] = layer
    <3>1. CASE now.is = "whole"
      <4>1. job.canvas \in Seq(Layers \cup {layer})
        BY <1>2, SeqMonotonic
      <4>2. job'.canvas = Append(job.canvas, layer)
        BY <2>1, <3>1
      <4> HIDE DEF layer
      <4>3. /\ DOMAIN job'.canvas = 1..(Len(job.canvas) + 1)
            /\ job'.canvas[Len(job.canvas) + 1] = layer
            /\ \A k \in 1..Len(job.canvas) : job'.canvas[k] = job.canvas[k]
        BY <4>1, <4>2, AppendProperties, LenProperties
      <4>4. QED
        BY <1>2, <4>3
    <3>2. QED
      BY <2>1, <3>1
  <2>4. Shows(job.canvas, c) => Shows(job.canvas, c)'
    BY <1>1, <2>3 DEF Shows
  <2>5. CASE Layer.id = client[c].id
    <3>1. now = Frame(c) /\ job.header = Frame(c)
      BY <1>4, <2>1, <2>2, <2>5
    <3>2. now.is = "whole" /\ layer.id = client[c].id /\ layer.picture = Frame(c)
      BY <2>5, <3>1 DEF Frame
    <3> HIDE DEF layer, now
    <3>3. QED
      BY <1>1, <2>1, <2>3, <3>2 DEF Shows
  <2>6. CASE Layer.id # client[c].id
    <3>1. InTodo(c) => InTodo(c)'
      BY <1>1, <1>5, <2>1, <2>6
    <3>2. QED
      BY <1>1, <1>4, <2>1, <2>2, <2>4, <3>1 DEF Listed
  <2>7. QED
    BY <2>5, <2>6
<1>8. CASE ~LoadHeader /\ ~LoadPixels
  <2>1. CASE \E d \in Clients \cup {Nobody} : Composite(d) /\ surfaces # <<>>
    BY <1>3, <2>1
  <2>2. CASE /\ UNCHANGED <<composer, surfaces>>
             /\ job'.todo = job.todo /\ job'.canvas = job.canvas /\ job'.header = job.header
    <3>1. ~\E d \in Clients \cup {Nobody} : Composite(d)
      BY <2>2 DEF Composite
    <3>2. Layer' = Layer
      BY <2>2 DEF Layer
    <3>3. QED
      BY <1>1, <1>4, <2>2, <3>1, <3>2 DEF Listed, Shows
  <2>3. QED
    BY <1>8, <2>1, <2>2, Composition
<1>9. QED
  BY <1>6, <1>7, <1>8

\* Who is answered is on the canvas that becomes the display; until it draws again no
\* composition leaves it out.
LEMMA ShownStep ==
  ASSUME TypeOK, OwnInv, Order, Showing, [Next]_vars
  PROVE  FrameShown'
<1> SUFFICES ASSUME NEW c \in Clients, client'[c].at = "idle", Listed(c)',
                    client'[c].id \notin stale'
             PROVE  Shows(display, c)'
  BY DEF FrameShown
<1>1. client'[c].id # 0 /\ Drawn(c)'
  <2>1. \A i \in DOMAIN surfaces' : surfaces'[i] \in Surfaces
    BY ListTypes, ElementOfSeq, LenProperties
  <2>2. client'[c].id # 0
    BY <2>1, BoundAssumption DEF Listed, Surfaces, Ids
  <2>3. QED
    BY <2>2 DEF Drawn
<1>2. /\ client'[c].id = client[c].id /\ client[c].id \notin stale \cup {0}
      /\ Frame(c)' = Frame(c) /\ ~ComposerDies
  BY <1>1, DrawnBefore DEF Frame
<1>3. Listed(c)
  <2>1. ASSUME NEW d \in Clients, Allocate(d)
        PROVE  Listed(c)
    <3> DEFINE new == [id |-> nextId, height |-> Height[d]]
    <3>1. surfaces' = Append(surfaces, new)
      BY <2>1 DEF Allocate
    <3>2. surfaces \in Seq(Surfaces \cup {new})
      BY SeqMonotonic DEF TypeOK
    <3>3. /\ DOMAIN surfaces' = 1..(Len(surfaces) + 1) /\ Len(surfaces) \in Nat
          /\ DOMAIN surfaces = 1..Len(surfaces)
          /\ \A i \in 1..Len(surfaces) : surfaces'[i] = surfaces[i]
          /\ surfaces'[Len(surfaces) + 1].id = nextId
      BY <3>1, <3>2, AppendProperties, LenProperties
    <3>4. client[c].id # nextId
      BY <1>2, BoundAssumption DEF OwnInv, IdTypes, IdsAreSpent
    <3> HIDE DEF new
    <3>5. QED
      BY <1>2, <3>3, <3>4 DEF Listed
  <2>2. ASSUME NEW k \in Ids, Destroy(k)
        PROVE  Listed(c)
    <3>1. PICK m \in DOMAIN surfaces : surfaces' = RemoveAt(surfaces, m)
      BY <2>2 DEF Destroy
    <3>2. /\ Len(surfaces) \in Nat /\ DOMAIN surfaces = 1..Len(surfaces)
          /\ DOMAIN surfaces' = 1..(Len(surfaces) - 1)
          /\ \A i \in 1..(Len(surfaces) - 1) :
               surfaces'[i] = IF i < m THEN surfaces[i] ELSE surfaces[i + 1]
      <4>1. surfaces \in Seq(Surfaces) /\ m \in 1..Len(surfaces)
        BY LenProperties DEF TypeOK
      <4>2. QED
        BY <3>1, <4>1, RemoveAtElements, LenProperties
    <3>3. PICK i \in 1..(Len(surfaces) - 1) : surfaces'[i].id = client[c].id
      BY <1>2, <3>2 DEF Listed
    <3>4. surfaces'[i] \in {surfaces[i], surfaces[i + 1]} /\ {i, i + 1} \subseteq DOMAIN surfaces
      BY <3>2
    <3>5. QED
      BY <3>3, <3>4 DEF Listed
  <2>3. QED
    BY <1>2, <2>1, <2>2, Writers DEF Listed
<1>4. CASE Present
  <2>1. composer = "load" /\ job.todo = <<>> /\ display' = job.canvas
    BY <1>4 DEF Present
  <2>2. Drawn(c) /\ client[c].at # "ask"
    <3>1. client'[c] = client[c] \/ client[c].at = "wait"
      BY <1>1, <1>4, DrawnBefore DEF Present, FinishFrame, Refused, Composite
    <3>2. QED
      BY <1>1, <1>2, <3>1 DEF Drawn
  <2>3. Shows(job.canvas, c)
    BY <1>3, <2>1, <2>2 DEF Showing, LayerKept, Composing
  <2>4. QED
    BY <1>2, <2>1, <2>3 DEF Shows
<1>5. CASE ~Present
  <2>1. display' = display
    BY <1>2, <1>5, Writers
  <2>2. surfaces # <<>> /\ composer # "down"
    BY <1>3 DEF Listed, Order, ListAscends
  <2>3. client'[c] = client[c]
    <3>1. ~Refused(c)
      BY <2>2 DEF Refused
    <3>2. ASSUME Composite(c)
          PROVE  client' = [client EXCEPT ![c].at = "wait"]
      BY <2>2, <3>2, ClientAssumption DEF Composite
    <3>3. ~Composite(c)
      BY <3>2 DEF TypeOK, ClientRecords
    <3>4. QED
      BY <1>1, <1>5, <3>1, <3>3, DrawnBefore
  <2>4. Shows(display, c)
    BY <1>2, <1>3, <2>3 DEF Showing, FrameShown
  <2>5. QED
    BY <1>2, <2>1, <2>4 DEF Shows
<1>6. QED
  BY <1>4, <1>5

----------------------------------------------------------------------------
(* Theorems.                                                               *)

\* What the composer's list, a composition and the clients know of each other, under
\* every interleaving of clients, compositions and deaths.
THEOREM ComposerCorrect == Spec => [](TypeOK /\ OwnInv /\ Order /\ Showing)
<1>1. Init => TypeOK /\ OwnInv /\ Order /\ Showing
  <2> SUFFICES ASSUME Init
               PROVE  TypeOK /\ OwnInv /\ Order /\ Showing
    OBVIOUS
  <2>1. Blank("none") \in Pictures
    BY BoundAssumption DEF Blank, Pictures
  <2>2. NoJob \in Jobs /\ surfaces \in Seq(Surfaces) /\ display \in Seq(Layers)
    BY <2>1, EmptySeq DEF Init, NoJob, Jobs
  <2>3. client \in [Clients -> ClientRecords]
    BY OwnInvInit DEF OwnInv, IdTypes
  <2>4. TypeOK
    BY <2>1, <2>2, <2>3, BoundAssumption DEF Init, TypeOK
  <2>5. Order
    BY DEF Init, NoJob, Order, ListAscends, LayersInOrder, NewestOnTop
  <2>6. Showing
    BY ClientAssumption
    DEF Init, NoJob, Showing, WaitsForIts, IdHasPath, FileKept, LayerKept, FrameShown,
        Drawn, Composing, Listed
  <2>7. QED
    BY <2>4, <2>5, <2>6, OwnInvInit
<1>2. /\ TypeOK /\ OwnInv /\ Order /\ Showing /\ [Next]_vars
      => (TypeOK /\ OwnInv /\ Order /\ Showing)'
  <2> SUFFICES ASSUME TypeOK, OwnInv, Order, Showing, [Next]_vars
               PROVE  TypeOK' /\ OwnInv' /\ Order' /\ Showing'
    OBVIOUS
  <2>1. TypeOK'
    BY TypeStep DEF Order
  <2>2. OwnInv' /\ Order'
    BY OwnInvNext, OrderStep
  <2>3. Showing'
    BY WaitsStep, PathStep, FileStep, LayerStep, ShownStep DEF Showing
  <2>4. QED
    BY <2>1, <2>2, <2>3
<1>3. QED
  BY <1>1, <1>2, PTL DEF Spec

\* The composer's list, its compositions, the files and the clients keep their types.
THEOREM ComposerTypes == Spec => []TypeOK
<1> QED
  BY ComposerCorrect, PTL

\* Who was answered is shown, whole, until it draws again: whoever asks for compositions,
\* destroys surfaces or dies meanwhile.
THEOREM AnsweredIsShown == Spec => []FrameShown
<1>1. Showing => FrameShown
  BY DEF Showing
<1>2. QED
  BY <1>1, ComposerCorrect, PTL

\* The status bar is above the applications and the newer surface above the older one of
\* its height, whichever layers a composition left out.
THEOREM LayersNewestOnTop == Spec => []NewestOnTop
<1>1. Order => NewestOnTop
  BY DEF Order
<1>2. QED
  BY <1>1, ComposerCorrect, PTL
=============================================================================
