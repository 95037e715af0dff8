---------------------------- MODULE PackageCache ----------------------------
(***************************************************************************)
(* The registry client, the package cache of one user and the commands     *)
(* opk install <id>, opk update and opk uninstall that use them, for one   *)
(* application. The installation is one step here: what it promises (the   *)
(* new version in place, or the old one, or nothing if it fails before its *)
(* move) is AppStore, which module OpkInstall implements.                  *)
(*                                                                         *)
(* The registry itself is external: it keeps a file for each version and   *)
(* names the highest one as the latest.                                    *)
(***************************************************************************)
EXTENDS OpkFile, FiniteSetsExt

CONSTANTS
  Short,      \* a download that ended early
  Users,      \* opk processes
  Asked,      \* Asked[u]: the versions that u names with --version
  Retries,    \* downloads after the first one (3 in the code)
  MaxCrashes  \* bound: processes that die

\* A string that no manifest states is like a version that is never published.
ASSUME AskedAreVersions == Asked \in [Users -> SUBSET Versions]
ASSUME ShortIsNone == Short \notin Package \cup {None, Cut}
\* A set of versions that is not empty has a highest one.
ASSUME VersionsHaveTop ==
  \A S \in SUBSET Versions : S # {} => \E v \in S : \A w \in S : v >= w

VARIABLES
  store,      \* the registry: version -> file
  published,  \* every package that the registry ever held
  cache,      \* ~/.cache/orion/packages/<id>/<version>.opk
  user,       \* user[u]: a process
  installed,  \* the application in place
  crashes     \* processes that died so far

cacheVars == <<store, published, cache, user, installed, crashes>>

\* The version asked for, the version at the address, the file expected or at
\* hand, the failed attempts, another copy into the same file.
Process(pc, ver, url, file, tries, clash) ==
  [pc |-> pc, ver |-> ver, url |-> url, file |-> file, tries |-> tries, clash |-> clash]

IdleUser == Process("idle", 0, 0, None, 0, FALSE)

CacheInit ==
  /\ store = [v \in Versions |-> None] /\ published = {}
  /\ cache = [v \in Versions |-> None]
  /\ user = [u \in Users |-> IdleUser]
  /\ installed = None /\ crashes = 0

Offered   == {v \in Versions : store[v] # None}
Top       == Max(Offered)  \* pkg_info["latest"]["version"]
At(u, pc) == user[u].pc = pc
Set(u, r) == user' = [user EXCEPT ![u] = r]
End(u)    == Set(u, IdleUser)

\* publish_package uploads file p.
Publish(p) ==
  /\ store' = [store EXCEPT ![Version(p)] = p]
  /\ published' = published \cup {p}
  /\ UNCHANGED <<cache, user, installed, crashes>>

-----------------------------------------------------------------------------
(***************************************************************************)
(* resolve_and_download and its callers. A process has asked the registry  *)
(* once when it starts; if the answer is an error it ends where it began.  *)
(***************************************************************************)
CachePath(v) == v  \* <id>/<version>.opk

\* The answer is kept under the number that was asked for, v, whether or not the
\* registry has it; address and hash are always those of the latest version.
Resolve(u, v) ==
  Set(u, IF cache[CachePath(v)] # None
           THEN Process("open", v, 0, None, 0, FALSE)
           ELSE Process("download", v, Top, store[Top], 0, FALSE))

\* opk install <id> [--version v]: the latest version, or v, which nobody looks up: it
\* may be an old one, or one that is not published yet.
Install(u) ==
  /\ At(u, "idle") /\ Offered # {}
  /\ \E v \in Asked[u] \cup {Top} : Resolve(u, v)
  /\ UNCHANGED <<store, published, cache, installed, crashes>>

\* opk update asks for the latest version, and compares ...
Update(u) ==
  /\ At(u, "idle") /\ installed # None /\ Offered # {}
  /\ Version(installed) # Top
  /\ Set(u, Process("resolve", Top, 0, None, 0, FALSE))
  /\ UNCHANGED <<store, published, cache, installed, crashes>>

\* ... and resolve_and_download asks again, with that version as its number.
UpdateResolve(u) ==
  /\ At(u, "resolve")
  /\ Resolve(u, user[u].ver)
  /\ UNCHANGED <<store, published, cache, installed, crashes>>

\* Here the registry answers with an error.
ResolveFails(u) ==
  /\ At(u, "resolve") /\ End(u)
  /\ UNCHANGED <<store, published, cache, installed, crashes>>

\* Mutant: the hash of the download is not compared.
DownloadUnchecked(u) ==
  /\ At(u, "download")
  /\ \E f \in {store[user[u].url], Short} :
       Set(u, Process("cache", user[u].ver, 0, f, 0, FALSE))
  /\ UNCHANGED <<store, published, cache, installed, crashes>>

\* One attempt, into a temporary file that it empties first. A stream that
\* ends early may pass for a whole one. Its hash must be the expected one.
Download(u) ==
  /\ At(u, "download")
  /\ \E f \in {store[user[u].url], Short} :
       IF f = user[u].file
         THEN Set(u, Process("cache", user[u].ver, 0, f, 0, FALSE))
         ELSE End(u)
  /\ UNCHANGED <<store, published, cache, installed, crashes>>

\* Mutant: the attempts are counted and the count does not end them.
DownloadForEver(u) ==
  /\ At(u, "download")
  /\ Set(u, [user[u] EXCEPT !.tries = (@ + 1) % (Retries + 1)])
  /\ UNCHANGED <<store, published, cache, installed, crashes>>

DownloadFails(u) ==
  /\ At(u, "download")
  /\ IF user[u].tries = Retries
       THEN End(u)
       ELSE Set(u, [user[u] EXCEPT !.tries = @ + 1])
  /\ UNCHANGED <<store, published, cache, installed, crashes>>

Copying(v) == {w \in Users : At(w, "copying") /\ user[w].ver = v}

\* fs::copy empties the cached file in place, then writes it. Two copies at
\* once write into the same file.
CopyBegins(u) ==
  /\ At(u, "cache")
  /\ LET v == user[u].ver
         others == Copying(v)
     IN /\ cache' = [cache EXCEPT ![CachePath(v)] = Cut]
        /\ user' = [w \in Users |->
             IF w = u THEN Process("copying", v, 0, user[u].file, 0, others # {})
             ELSE [user[w] EXCEPT !.clash = @ \/ w \in others]]
  /\ UNCHANGED <<store, published, installed, crashes>>

CopyEnds(u) ==
  /\ At(u, "copying")
  /\ \E f \in {user[u].file} \cup (IF user[u].clash THEN {Cut} ELSE {}) :
       cache' = [cache EXCEPT ![CachePath(user[u].ver)] = f]
  /\ Set(u, Process("open", user[u].ver, 0, None, 0, FALSE))
  /\ UNCHANGED <<store, published, installed, crashes>>

-----------------------------------------------------------------------------
(***************************************************************************)
(* run_install on the cached file, and uninstall.                          *)
(***************************************************************************)
CachedFile(u) == cache[CachePath(user[u].ver)]

\* The package is read and shown to the user.
Open(u) ==
  /\ At(u, "open") /\ Readable(CachedFile(u))
  /\ Set(u, Process("approve", user[u].ver, 0, CachedFile(u), 0, FALSE))
  /\ UNCHANGED <<store, published, cache, installed, crashes>>

\* The extraction gives what was shown, and what was hashed.
Extracts(u) == CachedFile(u) = user[u].file /\ HashesMatch(user[u].file)

\* Mutant: what was extracted is not compared with checksums.sha256.
PlaceUnchecked(u) ==
  /\ At(u, "approve")
  /\ CachedFile(u) = user[u].file
  /\ installed' = user[u].file /\ End(u)
  /\ UNCHANGED <<store, published, cache, crashes>>

\* The user has agreed: the entries are extracted from the file as it is now,
\* their hashes are compared, and the directory is moved in place.
Place(u) ==
  /\ At(u, "approve")
  /\ Extracts(u)
  /\ installed' = user[u].file /\ End(u)
  /\ UNCHANGED <<store, published, cache, crashes>>

\* An error before the id of the application is known changes nothing (lib.rs:80);
\* after that, and before the move, it removes the version in place (lib.rs:85); an
\* error after the move brings that version back (lib.rs:89).
InstallFails(u) ==
  /\ \/ At(u, "open") /\ UNCHANGED installed
     \/ At(u, "open") /\ Readable(CachedFile(u)) /\ installed' = None
     \/ At(u, "approve") /\ installed' = None
     \/ At(u, "approve") /\ Extracts(u) /\ UNCHANGED installed
  /\ End(u)
  /\ UNCHANGED <<store, published, cache, crashes>>

Uninstall(u) ==
  /\ At(u, "idle") /\ installed # None
  /\ installed' = None
  /\ UNCHANGED <<store, published, cache, user, crashes>>

\* A process that is killed leaves the cached file as it is.
Crash(u) ==
  /\ ~At(u, "idle") /\ crashes < MaxCrashes
  /\ crashes' = crashes + 1 /\ End(u)
  /\ UNCHANGED <<store, published, cache, installed>>

Working(u) ==
  \/ UpdateResolve(u) \/ ResolveFails(u) \/ Download(u) \/ DownloadFails(u)
  \/ CopyBegins(u) \/ CopyEnds(u) \/ Open(u) \/ Place(u) \/ InstallFails(u)

CacheNext ==
  \E u \in Users : Install(u) \/ Update(u) \/ Uninstall(u) \/ Working(u) \/ Crash(u)
=============================================================================
