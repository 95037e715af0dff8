------------------------------- MODULE Supply -------------------------------
(***************************************************************************)
(* The way of a package from the developer's sources to the application in *)
(* place: PackageTools and PackageCache, joined by opk publish.            *)
(***************************************************************************)
EXTENDS PackageTools, PackageCache

CONSTANT MaxPublished  \* bound: packages published; then the developer stops

vars == <<toolVars, cacheVars>>

Init == ToolsInit /\ CacheInit

\* The package file is uploaded as it is.
PublishOpk ==
  /\ Readable(opk) /\ Publish(opk)
  /\ Cardinality(published') = MaxPublished => packer = IdlePacker /\ signer = IdleSigner
  /\ UNCHANGED toolVars

Next ==
  \/ /\ Cardinality(published) < MaxPublished
     /\ (ToolsNext /\ UNCHANGED cacheVars) \/ PublishOpk
  \/ CacheNext /\ UNCHANGED toolVars

Spec == Init /\ [][Next]_vars

\* An opk process that is scheduled goes on; nobody need start one.
FairSpec == Spec /\ \A u \in Users : WF_vars(Working(u) /\ UNCHANGED toolVars)

-----------------------------------------------------------------------------
\* Nothing is cached but packages as the registry held them, however often a
\* download broke off or the registry's file changed under it
\* (registry.rs:437-456). What a copy has not finished is the exception.
CachedIsPublished == \A v \in Versions : cache[v] \in {None, Cut} \cup published

\* What is in place was published, and packed from one revision: a source
\* edited while pack reads it, a sign over a newer pack, a broken download, a
\* cached file that a dead or a second process left unfinished or changed
\* during the installation, all end in an error (lib.rs:355-369).
InstalledIsSound == installed = None \/ (installed \in published /\ HashesMatch(installed))

\* Every command ends, whatever the network does (registry.rs:63-80).
CommandsEnd == \A u \in Users : []<>At(u, "idle")

\* What the manual says of opk install <id> --version v (kullanim_kilavuzu.md:40): it
\* installs v. So a version that the registry offers is the one that is fetched.
FetchesWhatIsAsked ==
  [][\A u \in Users :
       At(u, "idle") /\ At(u, "download")' /\ user'[u].ver \in Offered
         => user'[u].file = store[user'[u].ver]]_vars
=============================================================================
