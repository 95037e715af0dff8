---------------------------- MODULE Supply_proofs ----------------------------
(***************************************************************************)
(* For every number of revisions, versions, users, retries and crashes:    *)
(* what the cache holds, what a command has at hand, what is in place.     *)
(***************************************************************************)
EXTENDS Supply, TLAPS

Points == {"idle", "resolve", "download", "cache", "copying", "open", "approve"}

Processes ==
  [pc : Points, ver : Nat, url : Nat, file : Package \cup {None, Cut, Short},
   tries : Int, clash : BOOLEAN]

StoreOK ==
  /\ published \subseteq Package
  /\ store \in [Versions -> published \cup {None}]

CacheOK == cache \in [Versions -> published \cup {None, Cut}]

\* What a process knows at each point.
Knows(p) ==
  /\ p.pc \in {"resolve", "download", "cache", "copying", "open", "approve"}
       => p.ver \in Versions
  /\ p.pc = "resolve" => Offered # {}
  /\ p.pc \in {"download", "cache", "copying", "approve"} => p.file \in published

UsersOK ==
  /\ user \in [Users -> Processes]
  /\ \A u \in Users : Knows(user[u])

\* The inductive invariant.
SupplyInv == StoreOK /\ CacheOK /\ UsersOK /\ InstalledIsSound

-----------------------------------------------------------------------------
LEMMA VersionsArePositive == Versions \subseteq Nat \ {0}
  BY VersionsAreNat DEF Versions

LEMMA TopIsOffered ==
  ASSUME Offered # {}
  PROVE  Top \in Offered
<1>1. Offered \in SUBSET Versions
  BY DEF Offered
<1>2. \E v \in Offered : \A w \in Offered : v >= w
  BY <1>1, VersionsHaveTop
<1> QED
  BY <1>2 DEF Top, Max

LEMMA ProcessIs ==
  ASSUME NEW pc \in Points, NEW ver \in Nat, NEW url \in Nat,
         NEW file \in Package \cup {None, Cut, Short}
  PROVE  Process(pc, ver, url, file, 0, FALSE) \in Processes
<1>1. 0 \in Int
  OBVIOUS
<1> QED
  BY <1>1, Zenon DEF Process, Processes

LEMMA Literals ==
  /\ 0 \in Nat /\ None \in Package \cup {None, Cut, Short}
  /\ \A f \in Package : f \in Package \cup {None, Cut, Short}
  /\ \A v \in Versions : v \in Nat
  /\ "idle" \in Points /\ "resolve" \in Points /\ "download" \in Points
  /\ "cache" \in Points /\ "open" \in Points /\ "approve" \in Points
  BY VersionsAreNat DEF Points, Versions

\* What it takes to know enough, point by point.
LEMMA KnowsEnough ==
  ASSUME NEW p
  PROVE  /\ p.pc = "idle" => Knows(p)
         /\ p.pc = "resolve" /\ p.ver \in Versions /\ Offered # {} => Knows(p)
         /\ p.pc = "open" /\ p.ver \in Versions => Knows(p)
         /\ /\ p.pc \in {"download", "cache", "copying", "approve"}
            /\ p.ver \in Versions /\ p.file \in published
            => Knows(p)
  BY DEF Knows

LEMMA IdleIsProcess == IdleUser \in Processes /\ Knows(IdleUser)
<1>1. IdleUser \in Processes /\ IdleUser.pc = "idle"
  <2>1. IdleUser \in Processes
    BY Literals, ProcessIs, Zenon DEF IdleUser
  <2> QED
    BY <2>1 DEF Process, IdleUser
<1> QED
  BY <1>1, KnowsEnough

LEMMA SupplyInit == Init => SupplyInv
<1> SUFFICES ASSUME Init PROVE SupplyInv
  OBVIOUS
<1>1. StoreOK
  BY DEF Init, CacheInit, StoreOK
<1>2. CacheOK
  BY DEF Init, CacheInit, CacheOK
<1>3. UsersOK
  BY IdleIsProcess DEF Init, CacheInit, UsersOK
<1>4. InstalledIsSound
  BY DEF Init, CacheInit, InstalledIsSound
<1> QED
  BY <1>1, <1>2, <1>3, <1>4 DEF SupplyInv

-----------------------------------------------------------------------------
\* A publication takes no package back.
LEMMA PublishKeeps ==
  ASSUME SupplyInv, NEW p \in Package, Publish(p)
  PROVE  SupplyInv'
<1>1. Version(p) \in Versions /\ published' = published \cup {p}
  BY VersionsAreNat DEF Publish, Version, Versions, Package
<1>2. store' = [store EXCEPT ![Version(p)] = p] /\ store \in [Versions -> published \cup {None}]
  BY DEF Publish, SupplyInv, StoreOK
<1>3. StoreOK'
  BY <1>1, <1>2 DEF SupplyInv, StoreOK
<1>4. UNCHANGED <<cache, user, installed>>
  BY DEF Publish
<1>5. CacheOK'
  BY <1>1, <1>4 DEF SupplyInv, CacheOK
<1>6. UsersOK'
  <2>1. Offered' # {}
    BY <1>1, <1>2, NoPackages DEF Offered
  <2> QED
    BY <1>1, <1>4, <2>1 DEF SupplyInv, UsersOK, Knows
<1>7. InstalledIsSound'
  BY <1>1, <1>4 DEF SupplyInv, InstalledIsSound
<1> QED
  BY <1>3, <1>5, <1>6, <1>7 DEF SupplyInv

\* A process that moves alone, to a point whose knowledge it has.
LEMMA UserMoves ==
  ASSUME SupplyInv, NEW u \in Users, NEW p \in Processes, Set(u, p), Knows(p),
         UNCHANGED <<store, published>>
  PROVE  UsersOK'
<1>2. \A q : Knows(q)' <=> Knows(q)
  BY DEF Knows, Offered
<1>3. user' \in [Users -> Processes]
  BY DEF SupplyInv, UsersOK, Set
<1>4. \A w \in Users : user'[w] = p \/ user'[w] = user[w]
  BY DEF SupplyInv, UsersOK, Set
<1> QED
  BY <1>2, <1>3, <1>4 DEF SupplyInv, UsersOK, Knows

\* resolve_and_download: what is cached for the version asked is opened, or the latest
\* version is fetched for it.
LEMMA ResolveKnows ==
  ASSUME SupplyInv, NEW u \in Users, NEW v \in Versions, Offered # {}, Resolve(u, v),
         UNCHANGED <<store, published>>
  PROVE  UsersOK'
<1>1. v \in Nat /\ Top \in Offered /\ Top \in Nat
  BY TopIsOffered, VersionsArePositive DEF Offered
<1>2. CASE cache[CachePath(v)] # None
  <2> DEFINE p == Process("open", v, 0, None, 0, FALSE)
  <2>1. Set(u, p)
    BY <1>2 DEF Resolve
  <2>2. p \in Processes /\ p.pc = "open" /\ p.ver = v
    <3>1. p \in Processes
      BY <1>1, Literals, ProcessIs, Zenon
    <3> QED
      BY <3>1 DEF Process
  <2> HIDE DEF p
  <2>3. Knows(p)
    BY <1>1, <2>2, KnowsEnough
  <2> QED
    BY <2>1, <2>2, <2>3, UserMoves
<1>3. CASE ~(cache[CachePath(v)] # None)
  <2> DEFINE p == Process("download", v, Top, store[Top], 0, FALSE)
  <2>1. Set(u, p)
    BY <1>3 DEF Resolve
  <2>2. store[Top] \in published /\ store[Top] \in Package
    BY <1>1 DEF SupplyInv, StoreOK, Offered
  <2>3. p \in Processes /\ p.pc = "download" /\ p.ver = v /\ p.file = store[Top]
    <3>1. p \in Processes
      BY <1>1, <2>2, Literals, ProcessIs, Zenon
    <3> QED
      BY <3>1 DEF Process
  <2> HIDE DEF p
  <2>4. p.file \in published
    BY <2>2, <2>3
  <2>5. Knows(p)
    BY <1>1, <2>3, <2>4, KnowsEnough
  <2> QED
    BY <2>1, <2>3, <2>5, UserMoves
<1> QED
  BY <1>2, <1>3

\* A command that ends.
LEMMA EndKnows ==
  ASSUME SupplyInv, NEW u \in Users, End(u), UNCHANGED <<store, published>>
  PROVE  UsersOK'
  BY IdleIsProcess, UserMoves DEF End

LEMMA FileFacts ==
  ASSUME SupplyInv, NEW u \in Users
  PROVE  /\ user[u] \in Processes /\ Knows(user[u])
         /\ user[u].ver \in Nat /\ user[u].tries \in Int
         /\ user[u].file \in Package \cup {None, Cut, Short}
  BY DEF SupplyInv, UsersOK, Processes

LEMMA DownloadKnows ==
  ASSUME SupplyInv, NEW u \in Users, Download(u)
  PROVE  UsersOK'
<1>1. UNCHANGED <<store, published>>
  BY DEF Download
<1>2. PICK f \in {store[user[u].url], Short} :
        IF f = user[u].file THEN Set(u, Process("cache", user[u].ver, 0, f, 0, FALSE)) ELSE End(u)
  BY DEF Download
<1>3. CASE f = user[u].file
  <2> DEFINE p == Process("cache", user[u].ver, 0, f, 0, FALSE)
  <2>1. p \in Processes /\ p.pc = "cache" /\ p.ver = user[u].ver /\ p.file = user[u].file
    <3>1. p \in Processes
      BY <1>3, FileFacts, Literals, ProcessIs, Zenon
    <3> QED
      BY <1>3, <3>1 DEF Process
  <2>2. Set(u, p)
    BY <1>2, <1>3
  <2> HIDE DEF p
  <2>3. p.ver \in Versions /\ p.file \in published
    BY <2>1, FileFacts DEF Knows, Download, At
  <2>4. Knows(p)
    BY <2>1, <2>3, KnowsEnough
  <2> QED
    BY <1>1, <2>1, <2>2, <2>4, UserMoves
<1> QED
  BY <1>1, <1>2, <1>3, EndKnows

LEMMA DownloadFailsKnows ==
  ASSUME SupplyInv, NEW u \in Users, DownloadFails(u)
  PROVE  UsersOK'
<1>1. UNCHANGED <<store, published>>
  BY DEF DownloadFails
<1>2. CASE user[u].tries = Retries
  BY <1>1, <1>2, EndKnows DEF DownloadFails
<1>3. CASE user[u].tries # Retries
  <2> DEFINE p == [user[u] EXCEPT !.tries = @ + 1]
  <2>1. Set(u, p)
    BY <1>3 DEF DownloadFails
  <2>2. p \in Processes /\ p.pc = user[u].pc /\ p.ver = user[u].ver /\ p.file = user[u].file
    BY FileFacts DEF Processes
  <2> HIDE DEF p
  <2>3. Knows(p)
    BY <2>2, FileFacts DEF Knows
  <2> QED
    BY <1>1, <2>1, <2>2, <2>3, UserMoves
<1> QED
  BY <1>2, <1>3

-----------------------------------------------------------------------------
LEMMA CopyBeginsKeeps ==
  ASSUME SupplyInv, NEW u \in Users, CopyBegins(u)
  PROVE  SupplyInv'
<1> DEFINE v == user[u].ver
           p == Process("copying", v, 0, user[u].file, 0, Copying(v) # {})
<1>1. UNCHANGED <<store, published, installed>> /\ At(u, "cache")
  BY DEF CopyBegins
<1>2. v \in Versions /\ user[u].file \in published
  BY <1>1, FileFacts DEF At, Knows
<1>3. CacheOK'
  <2>1. cache' = [cache EXCEPT ![v] = Cut]
    BY DEF CopyBegins, CachePath
  <2> HIDE DEF v
  <2> QED
    BY <1>1, <1>2, <2>1 DEF SupplyInv, CacheOK
<1>4. UsersOK'
  <2>1. 0 \in Nat /\ 0 \in Int /\ "copying" \in Points /\ (Copying(v) # {}) \in BOOLEAN
    BY DEF Points
  <2>2. p \in Processes
    BY <2>1, FileFacts, Zenon DEF Process, Processes
  <2>3. p.pc = "copying" /\ p.ver = v /\ p.file = user[u].file
    BY Zenon DEF Process
  <2>4. Knows(p)
    BY <1>2, <2>3, KnowsEnough
  <2>5. \A w \in Users : user'[w] = IF w = u THEN p
                                    ELSE [user[w] EXCEPT !.clash = @ \/ w \in Copying(v)]
    BY DEF CopyBegins
  <2>6. user' \in [Users -> Processes]
    <3>1. ASSUME NEW q \in Processes, NEW b \in BOOLEAN
          PROVE  [q EXCEPT !.clash = b] \in Processes
      BY Zenon DEF Processes
    <3>2. ASSUME NEW w \in Users
          PROVE  [user[w] EXCEPT !.clash = @ \/ w \in Copying(v)] \in Processes
      <4>1. (user[w].clash \/ w \in Copying(v)) \in BOOLEAN
        OBVIOUS
      <4> QED
        BY <3>1, <4>1, FileFacts, Zenon
    <3> QED
      BY <2>2, <3>2, Zenon DEF CopyBegins
  <2>7. ASSUME NEW w \in Users PROVE Knows(user'[w])
    BY <2>4, <2>5, FileFacts, ZenonT(60) DEF Knows, Processes
  <2> QED
    BY <1>1, <2>6, <2>7 DEF UsersOK, Knows, Offered
<1> QED
  BY <1>1, <1>3, <1>4 DEF SupplyInv, StoreOK, InstalledIsSound

LEMMA CopyEndsKeeps ==
  ASSUME SupplyInv, NEW u \in Users, CopyEnds(u)
  PROVE  SupplyInv'
<1> DEFINE v == user[u].ver
           p == Process("open", v, 0, None, 0, FALSE)
<1>1. UNCHANGED <<store, published, installed>> /\ At(u, "copying")
  BY DEF CopyEnds
<1>2. v \in Versions /\ user[u].file \in published
  BY <1>1, FileFacts DEF At, Knows
<1>3. CacheOK'
  <2>1. PICK f \in {user[u].file, Cut} : cache' = [cache EXCEPT ![v] = f]
    BY DEF CopyEnds, CachePath
  <2> HIDE DEF v
  <2>2. f \in published \cup {Cut}
    BY <1>2
  <2> QED
    BY <1>1, <1>2, <2>1, <2>2 DEF SupplyInv, CacheOK
<1>4. UsersOK'
  <2>1. p \in Processes /\ p.pc = "open" /\ p.ver = v
    <3>1. p \in Processes
      BY FileFacts, Literals, ProcessIs, Zenon
    <3> QED
      BY <3>1 DEF Process
  <2>2. Set(u, p)
    BY DEF CopyEnds
  <2> HIDE DEF p
  <2>3. Knows(p)
    BY <1>2, <2>1, KnowsEnough
  <2> QED
    BY <1>1, <2>1, <2>2, <2>3, UserMoves
<1> QED
  BY <1>1, <1>3, <1>4 DEF SupplyInv, StoreOK, InstalledIsSound

LEMMA OpenKnows ==
  ASSUME SupplyInv, NEW u \in Users, Open(u)
  PROVE  UsersOK'
<1> DEFINE f == CachedFile(u)
           p == Process("approve", user[u].ver, 0, f, 0, FALSE)
<1>1. UNCHANGED <<store, published>> /\ Set(u, p) /\ f \in Package /\ At(u, "open")
  BY DEF Open, Readable
<1>2. user[u].ver \in Versions
  BY <1>1, FileFacts DEF At, Knows
<1>3. f \in published
  BY <1>1, <1>2, NoPackages DEF SupplyInv, CacheOK, CachedFile, CachePath
<1>4. p \in Processes /\ p.pc = "approve" /\ p.ver = user[u].ver /\ p.file = f
  <2>1. p \in Processes
    BY <1>1, FileFacts, Literals, ProcessIs, Zenon
  <2> QED
    BY <2>1 DEF Process
<1> HIDE DEF p
<1>5. Knows(p)
  BY <1>2, <1>3, <1>4, KnowsEnough
<1> QED
  BY <1>1, <1>4, <1>5, UserMoves

-----------------------------------------------------------------------------
\* The steps that touch neither the registry nor the cache.
LEMMA OthersKeep ==
  ASSUME SupplyInv, UNCHANGED <<store, published, cache>>, UsersOK', InstalledIsSound'
  PROVE  SupplyInv'
  BY DEF SupplyInv, StoreOK, CacheOK

LEMMA CacheStep ==
  ASSUME SupplyInv, CacheNext
  PROVE  SupplyInv'
<1>1. PICK u \in Users : Install(u) \/ Update(u) \/ Uninstall(u) \/ Working(u) \/ Crash(u)
  BY DEF CacheNext
<1>2. \A S : UNCHANGED <<published, installed>> => InstalledIsSound'
  BY DEF SupplyInv, InstalledIsSound
<1>3. CASE Install(u)
  <2>1. Asked[u] \cup {Top} \subseteq Versions
    BY <1>3, AskedAreVersions, TopIsOffered DEF Install, Offered
  <2>2. UsersOK'
    BY <1>3, <2>1, ResolveKnows DEF Install
  <2> QED
    BY <1>2, <1>3, <2>2, OthersKeep DEF Install
<1>4. CASE Update(u)
  <2>1. Top \in Versions /\ Top \in Nat /\ Offered # {}
    BY <1>4, TopIsOffered, VersionsArePositive DEF Update, Offered
  <2> DEFINE p == Process("resolve", Top, 0, None, 0, FALSE)
  <2>2. p \in Processes /\ p.pc = "resolve" /\ p.ver = Top
    <3>1. p \in Processes
      BY <2>1, Literals, ProcessIs, Zenon
    <3> QED
      BY <3>1 DEF Process
  <2>3. Set(u, p) /\ UNCHANGED <<store, published>>
    BY <1>4 DEF Update
  <2> HIDE DEF p
  <2>4. Knows(p)
    BY <2>1, <2>2, KnowsEnough
  <2>5. UsersOK'
    BY <2>2, <2>3, <2>4, UserMoves
  <2> QED
    BY <1>2, <1>4, <2>5, OthersKeep DEF Update
<1>5. CASE Uninstall(u)
  BY <1>5 DEF Uninstall, SupplyInv, StoreOK, CacheOK, UsersOK, InstalledIsSound, Knows, Offered
<1>6. CASE Crash(u)
  <2>1. UsersOK'
    BY <1>6, EndKnows DEF Crash
  <2> QED
    BY <1>2, <1>6, <2>1, OthersKeep DEF Crash
<1>7. CASE UpdateResolve(u)
  <2>1. user[u].ver \in Versions /\ Offered # {}
    BY <1>7, FileFacts DEF UpdateResolve, At, Knows
  <2>2. UsersOK'
    BY <1>7, <2>1, ResolveKnows DEF UpdateResolve
  <2> QED
    BY <1>2, <1>7, <2>2, OthersKeep DEF UpdateResolve
<1>8. CASE ResolveFails(u)
  <2>1. UsersOK'
    BY <1>8, EndKnows DEF ResolveFails
  <2> QED
    BY <1>2, <1>8, <2>1, OthersKeep DEF ResolveFails
<1>9. CASE Download(u)
  BY <1>2, <1>9, DownloadKnows, OthersKeep DEF Download
<1>10. CASE DownloadFails(u)
  BY <1>2, <1>10, DownloadFailsKnows, OthersKeep DEF DownloadFails
<1>11. CASE CopyBegins(u)
  BY <1>11, CopyBeginsKeeps
<1>12. CASE CopyEnds(u)
  BY <1>12, CopyEndsKeeps
<1>13. CASE Open(u)
  BY <1>2, <1>13, OpenKnows, OthersKeep DEF Open
<1>14. CASE Place(u)
  <2>1. user[u].file \in published /\ HashesMatch(user[u].file)
    BY <1>14, FileFacts DEF Place, Extracts, At, Knows
  <2>2. InstalledIsSound'
    BY <1>14, <2>1 DEF Place, InstalledIsSound
  <2>3. UsersOK'
    BY <1>14, EndKnows DEF Place
  <2> QED
    BY <1>14, <2>2, <2>3, OthersKeep DEF Place
<1>15. CASE InstallFails(u)
  <2>1. UsersOK'
    BY <1>15, EndKnows DEF InstallFails
  <2>2. InstalledIsSound'
    BY <1>15 DEF InstallFails, SupplyInv, InstalledIsSound
  <2> QED
    BY <1>15, <2>1, <2>2, OthersKeep DEF InstallFails
<1> QED
  BY <1>1, <1>3, <1>4, <1>5, <1>6, <1>7, <1>8, <1>9, <1>10, <1>11, <1>12, <1>13, <1>14,
     <1>15 DEF Working

\* What the developer does before he publishes concerns nobody else.
THEOREM SupplyCorrect == Spec => []SupplyInv
<1>1. SupplyInv /\ [Next]_vars => SupplyInv'
  <2> SUFFICES ASSUME SupplyInv, [Next]_vars PROVE SupplyInv'
    OBVIOUS
  <2>1. ASSUME UNCHANGED cacheVars PROVE SupplyInv'
    BY <2>1 DEF cacheVars, SupplyInv, StoreOK, CacheOK, UsersOK, InstalledIsSound, Knows, Offered
  <2>2. ASSUME PublishOpk PROVE SupplyInv'
    BY <2>2, PublishKeeps DEF PublishOpk, Readable
  <2> QED
    BY <2>1, <2>2, CacheStep DEF Next, vars
<1> QED
  BY SupplyInit, <1>1, PTL DEF Spec

-----------------------------------------------------------------------------
\* Nothing but packages as the registry held them is ever cached, besides what
\* a copy has not finished (registry.rs:437-456).
THEOREM OnlyPublishedIsCached == Spec => []CachedIsPublished
<1>1. SupplyInv => CachedIsPublished
  BY DEF SupplyInv, CacheOK, CachedIsPublished
<1> QED
  BY <1>1, SupplyCorrect, PTL

\* What is in place was published and is of one revision, whatever the tools, the
\* network and the cache have done (lib.rs:355-369).
THEOREM OnlySoundIsInstalled == Spec => []InstalledIsSound
<1>1. SupplyInv => InstalledIsSound
  BY DEF SupplyInv
<1> QED
  BY <1>1, SupplyCorrect, PTL
=============================================================================
