# Orion OS: TLA+ specifications

Models of the parts of Orion OS (`src/`) that run concurrently, fail half way or must
survive a restart; TLC configurations that check them on small instances; and proofs,
checked by TLAPS, that hold for every instance.

| Module | What it is |
| --- | --- |
| `OpkInstall` | the installation pipeline and the uninstaller of the package kit, any number of `opk` processes |
| `AppStore` | what the package kit promises of an application nobody disturbs: it is one sound package or absent |
| `ScriptRun` | how one installation runs its scripts: child, waiter thread, mutex, timeout |
| `Supervisor` | PID 1: launch, reaping and respawn of services |
| `InputDispatch` | inputflinger and the shells that listen to it |
| `SurfaceComposer` | surfaceflinger (PPM mode) and the programs that draw |
| `OpkFile`, `PackageTools`, `PackageCache`, `Supply` | a package file; `opk pack`, `sign`; registry, cache, `opk install <id>`, `update`; the composition of the two |
| `ServiceBus`, `Services` | servicemanager, powermanager and the transactions of libipc; their clients: apigateway, settings, status bar |
| `Canvas`, `CanvasShapes` | libgraphics' drawing calls; what each should have painted |
| `MCOpkInstall`, `MCSupervisor`, `MCSurface`, `MCSupply`, `MCCanvas` | values of the constants for TLC |
| `OpkInstall_proofs`, `ScriptRun_proofs`, `Supervisor_proofs`, `InputDispatch_proofs`, `SurfaceComposer_proofs`, `Supply_proofs`, `Services_proofs`, `Canvas_proofs` | theorems and proofs |

`PROJECT.json` lists the runs, the source lines behind every definition, the hazards and
the properties that watch them.

## 1. Inventory

The system is a Linux userland. PID 1 starts the services of `init.rc`; services and
applications talk over Unix sockets with a one-request, one-answer protocol (libipc);
every service is a single-threaded loop of accept, handle, answer. Beside it stands the
Orion Package Kit, a set of command line programs that install applications.

**opk installation pipeline** (`mcpkg-pipeline/src/lib.rs`). State: `apps_root/<id>`,
`apps_root/<id>.backup`, a temporary staging directory, the desktop entries and icons, the
audit log. `run_install` calls `run_install_impl`, which compares the OS version, checks
that there is a signature (one that does not verify is a warning), asks the user, extracts into the
staging directory, verifies the hashes, runs pre-install, moves the old version to the
backup and the new one into place, runs post-install, writes the desktop entry and the
icon, and removes the backup. On any error `run_install` rolls back: it removes the
target, restores the backup if this installation made one, and removes the desktop entry
if this installation wrote one. *Hard:* partial failure after each call, a process that
dies, two processes on one application (nothing locks `apps_root`), scripts that hang.
*Correct if:* only checked and approved packages are ever in place, a failed update
leaves the old version, a success is complete, no step loses the last good copy, and all
of this looks atomic from outside.

**opk uninstaller** (`lifecycle.rs`). Works on the same directories: entry, icon, then
`remove_dir_all`. `list_installed` and `get_info` read them. *Hard:* an uninstall while
another process updates. *Correct if:* a success leaves nothing behind.

**Script runner** (`run_script_in_sandbox` and `wait_timeout` in `lib.rs`). A child in a
sandbox, a thread that waits for it, a channel with a 60 second timeout, a mutex around the child.
*Hard:* the timeout racing the end of the script; who holds the mutex. *Correct if:*
success means exit status zero, no script outlives its call, every call returns.

**init** (`core/init/src/main.rs`). State: the service table `G_SERVICES` under a mutex,
the process table of the kernel. Launches core, main and other services in order, then
loops in `waitpid(-1)`; a dead service that asks for it is respawned by a new thread two
seconds later. *Hard:* a child that dies before its pid is stored, pids that the kernel
reuses, a spawn that fails. *Correct if:* a pid in the table is never stale, no service
runs twice, no death is lost. It also mounts file systems and sets up the network (pure
I/O).

**inputflinger** (`services/inputflinger`) and **launcher** (`apps/launcher`). inputflinger
keeps a vector of listener sockets and the last event; a sender's event is delivered to
each listener in turn, synchronously, and unreachable listeners are dropped. The launcher
registers, binds its own socket and answers events. *Hard:* two servers that call each
other, indices collected in one loop and used in another, registration against bind,
restarts of either. *Correct if:* no deadlock, no listener is dropped for another's sake,
who registered gets events.

**servicemanager** (`services/servicemanager`): a map from name to socket, in memory; add,
get, list. **powermanager**: a constant battery level and a mode; registers, binds, serves.
**apigateway**: a thread for each HTTP request, which resolves a service and calls it, once
or twice. **settings**: sets the mode, tells the status bar, shows what it reads back.
**status bar** (`ui/statusbar`): a server for notifications and a client of powermanager.
*Hard:* services register once, at start, before they bind; a restart of servicemanager
forgets them all; calls have no timeout; a request of two connections may meet two
powermanagers; the status bar looks a service up again only while it has no path. *Correct
if:* an answer was true at some time during its request, every request ends, the status
bar comes to show the present mode.

**surfaceflinger**: the PPM compositor (`src/main.rs`) keeps surfaces, ids and layers;
clients write frames to files that it reads to compose. *Hard:* ids start again after a
restart, surfaces of dead clients stay, frames are read while they are written. *Correct if:* no
two clients have one surface, who was answered is on the display, the status bar is on top. The Wayland
compositor (`wl/`) has an IPC thread and an event loop that share state without a lock.

**registry client** and **package cache** (`registry.rs`, `mcpkg-cli`): ask the registry,
use the cached file if there is one, else download with retries, compare the hash, copy
into the cache. `opk update` asks the registry twice. *Hard:* a copy that stops half way or
that two processes make at once, a file that changes between its check and its use, a
package published between the two questions, a version that is asked for by number. *Correct
if:* only published packages of one revision get in place, the version asked for is the one
fetched (it is not: `SupplyVersion`), and every command ends.

**developer tools** (`developer.rs`). `pack` hashes the sources, then reads them again;
`sign` reads the package, reads it again to copy it, and renames. *Hard:* an editor, a
pack and a sign side by side. *Correct if:* what they spoil never gets in place.

**libgraphics**. A canvas in memory; lines and circles are loops that add up an error term. *Hard:* loops that
end only at exactly the right point, pixels off the canvas, rounding. *Correct if:* each call returns and paints its shape, no more.

**Bekci** (`bekci.rs`): a risk score and the audit log (SQLite). **mcpkg-core,
mcpkg-crypto**: parsers and wrappers. **mcpkg-sandbox**: kernel calls between fork and
exec. **libipc** (Rust and C): parcel encoding, one transaction per connection.
**libi18n, apprunner, dialer, diskboot**: tables, file serving, a notification,
straight-line boot code.

Interactions: init supervises every service; services and applications call servicemanager,
surfaceflinger, powermanager and inputflinger; inputflinger calls the applications, settings and dialer the status bar;
every shell draws with libgraphics into the files that surfaceflinger reads; the `opk` processes
share the file system with each other and with the launcher, which lists the desktop
entries. The package kit does not use the IPC.

## 2. Modules and code

### OpkInstall (lib.rs, lifecycle.rs)

An actor is an `opk` process; `proc[i].pc` names the next thing its code does. Every file
system call another process can see is a step of its own, so `exists()` and the `rename()`
after it are two steps. `dir`, `backup`, `desktop` and `icons` are the shared
file system, `staging[i]` the actor's `TempDir`; `hasBackup` and `createdDesktop` are the
flags `run_install` hands to `run_install_impl`. `choice` and `before` are history.

| Action | Code |
| --- | --- |
| `BeginInstall`, `CheckOs`, `Gatekeeper` | the manifest is read, the OS version compared, the signature looked for |
| `Approve`, `Decline` | the user's answer (asked, or given on the command line) |
| `Extract`, `VerifyHashes`, `PreInstall` | staging, its verification, its pre-install script |
| `CheckTarget`, `CheckBackup`, `DropStale`, `ToBackup`, `ToTarget` | the move |
| `PostInstall`, `WriteDesktop`, `WriteIcon`, `CheckDone`, `DropBackup` | the rest of `run_install_impl` |
| `RollbackTarget`, `RollbackRestore`, `RollbackDesktop` | the error branch of `run_install` |
| `BeginUninstall`, `UninstallDesktop`, `UninstallIcon`, `UninstallDir` | `uninstall` |
| `CallFails`, `BackupRemovalFails`, `RollbackCallFails`, `UninstallCallFails` | a system call fails; what happens follows the code (`?`, or ignored) |
| `Crash` | the process dies; its staging directory may remain on the disk but nobody ever reads it, so it is forgotten |

Abstractions. A directory is the package its files came from; `Partial` is one that
`remove_dir_all` left half removed. A package is abstracted to the stage it fails
(`Defect`). A signature that is present and does not verify is no defect, because the code
only warns and marks the package unsigned. A package whose manifest cannot be read fails
before anything changes and is not a step. `remove_dir_all` that succeeds is one step. The
audit log, the termination of the application's processes, cgroups, AppArmor and the purge
of user data are left out; no property reads them. The installer's desktop directory and the
uninstaller's are taken to be the same one (they are, unless `ORION_DESKTOP_DIR` is set).

Nothing in the code keeps two processes from one application, and calls fail, so what holds only where
neither happens is said per application: the history variable `disturbed` collects the applications on which
a command began beside another one (`Begin`) or a command of which met a fault (`Fault`), and they stay in it. No
action reads it. `OnlyVerifiedInPlace` is said of all applications, the rest of the properties of those not in
`disturbed`. That a command on one application is safe from what disturbs another is part of what they say.
`NoLossByUpdate` is what the documentation claims and so has no such exception.

### AppStore

`Install(a)` puts a sound package in place, `Remove(a)` removes the application. The mapping
`Installed` shows, while a command is between its move and its end, what a rollback would
bring back, and nothing for an application that is disturbed: from then on the code promises
only `OnlyVerifiedInPlace`, and the step that disturbs it is a `Remove`. An install that fails before its move is a `Remove`, too: the error branch deletes
the target whatever the stage was (finding `OpkEarlyFail`). The abstract specification
says what the code guarantees, not what it should: with that bug gone, `Remove` would be an
uninstall only.

### ScriptRun

The scripts of one installation, in sequence. The main thread's and the waiter's calls on
mutex, channel and child are steps. The timeout may come at any moment at which the channel
is empty. A script may end with either status or never. That the same `K` applies to pre- and
post-install scripts is an abstraction: the calls are alike.

### Supervisor

The main thread (`main`: launching, in `waitpid`, handling a death), the respawn threads
(`timers`), the mutex (`spawning` is the spawn in progress, and with it the lock) and the
kernel's process table (`child`, `owner`). `fork` and the store of the pid are two steps,
so a service may die in between. Assumptions: the kernel does not hand out again at once the
pid that `waitpid` has just freed (it allocates cyclically); services have unique names,
as in `init.rc`; a failed `spawn()` leaves no child.

### InputDispatch

`flinger` is where inputflinger is in its loop, `app[a]` where a shell is. A call is a
connection in a backlog, an accept and an answer; the caller waits. Both sides may die at
any moment and are started again at once, as `Supervisor` shows for services that are respawned.
The two loops of `CMD_SEND_INPUT_EVENT` go one index at a time: `Connect` and the answers
collect `dead`, `Sweep` removes from its end. `unreached` is history, the listeners that
this event could not reach, by name and not by index.
The shells' calls to surfaceflinger (they are in `SurfaceComposer`), `CMD_GET_LAST_EVENT` and the forwarding to the Wayland
compositor are not modelled: none of them calls back. A shell that is stopped without dying is not
modelled either; since calls have no timeout it would stop inputflinger.

### SurfaceComposer

`init.rc` starts surfaceflinger without `--wayland`, so this is the compositor that runs. It
serves one request at a time; `composer` is where it is in its loop and in `composite_layers`, `job` the
local variables of a composition. `client[c]` is a program: it looks for surfaceflinger, draws
(`StartFrame` truncates the file, `FinishFrame` completes it), asks, and waits. The status
bar looks again for as long as it has no path (`LooksForComposer`); the others do not. The
file of a surface is shared: `load_ppm` reads header and pixels in two steps, and a file
that is written again in between gives a `torn` picture, one that was truncated an error.

A foreign program (`Nobody`) may ask for a composition or destroy a surface at any time; no
program of the repository destroys one, but the request is served. A client that
dies leaves its surface and its file; a compositor that dies forgets its surfaces and starts again at id 1,
while the clients keep their ids. Such ids are in `stale`, a history variable, and the
properties do not speak of them: after a restart of surfaceflinger two programs do
draw into one file, until both have been started again. `FrameShown` without that exclusion is false.

Abstractions. A picture is who drew it, its number, and whether it is whole. The display is the
sequence of the layers that were drawn, without positions; it is written in one step, and only a death in the middle
loses it. Every `save` succeeds. The lookup in servicemanager finds a path or not, at random.

### OpkFile, PackageTools, PackageCache, Supply (developer.rs, registry.rs, mcpkg-cli)

A package is three marks: the revision of the sources that its entries are of, the
revision that its hashes are of, and whether its signature is blank, good or stale. Hashes and
signatures are ideal. `Cut` is a file that ends early, which the ZIP reader refuses.

| Action | Code |
| --- | --- |
| `Edit`, `PackHash`, `PackCreate`, `PackWrite` | an editor saves; `pack` hashes all, empties the output, reads all again and writes |
| `SignRead`, `SignCopy`, `SignRename` | `sign` computes the message, copies from a second open, renames |
| `PublishOpk` | `publish` uploads the file as it is |
| `Install`, `Update`, `UpdateResolve`, `ResolveFails` | the commands, up to `resolve_and_download`, which asks again |
| `Download`, `DownloadFails` | an attempt, the hash; the retries |
| `CopyBegins`, `CopyEnds` | `fs::copy` empties the cached file, then writes it; two at once may spoil it (`clash`) |
| `Open`, `Place` | `run_install` opens the cached file, asks, extracts from the same file, compares the hashes, moves |
| `InstallFails` | `run_install` ends with an error: before it knows the application (nothing changes), before the move (the version in place is removed), after the move (it is restored) |
| `Uninstall`, `Crash`, `ToolStops` | a process that is killed leaves what it has written |

The registry is external: it keeps the file last uploaded for each version and calls the
highest version the latest. `Asked[u]` are the versions a user names with `--version`: nobody looks
up whether the registry has them, they may be older than the latest or not published yet. The installation is one step with the outcomes that
`AppStore` allows; `OpkInstall` is where its steps are. `pack` and `sign` on files that a rename has
unlinked write into nothing (`linked`). Left out: the template and the keys of `opk init` and
`keygen`, the `verify` command, publishing keys and channels, Bekci's verdict and the audit log
(they can refuse, as `InstallFails` does), and the mock registry of the tests.

### ServiceBus, Services

`pc[p]` is where a process is, `queue[s]` the connections that server `s` has not served,
`reply[p]` what the last transaction of `p` returned. `Call` fails at once when nobody
listens; otherwise the caller waits for the answer or for the end of the server (`Dies`
fails all that wait, and takes back the connection that the dead server itself had in
another's queue). `ServiceBus` has the two servers, `Services` the status bar, which is server and client, and the
clients; each resolve, set, get and notification is a transaction of its own.
`seen` and `own` are history: the modes there were while a request ran, and whether the mode is
still the one an application has set.

Abstractions. The result of the battery request has no influence but in apigateway, where its
failure is an error, so the status bar and settings do not ask for it. Of apigateway the
power requests are modelled; the others are one transaction each, with services that are in other modules. Settings without
`--mode` skips to its last request. The dialer only sends a notification. Clients do not die; a
request of a dead server is not served (what it could change is changed when the server starts again).
A client that connects and sends nothing would stop a server; no program of the repository does.

### Canvas, CanvasShapes (libgraphics)

A call becomes a list of parts (`todo`): lines, circles and texts, which run one turn at a
time (`cur`), and sets of pixels. `LineNext` and `CircleNext` are the bodies of the
loops; `Put` is `set_pixel_raw` with its bounds. A colour is one channel. `CanvasShapes`
says for each call what the canvas must show when it returns, by distance and coordinates
and not by the code's increments. Two calls have no shape there, and no program makes them: a circle of radius 0 (it paints
four pixels beside its centre) and the outline of a rounded rectangle whose radius does not
fit (only the filled one limits it). Not modelled: `canvas_init` and `canvas_free`, null
pointers, the scaling of coordinates near the ends of `i32` (`NearLine` says from what size on a line is free of overflow), and text that is not UTF-8.

## 3. Runs

| Run | Instance | Question | Distinct states |
| --- | --- | --- | --- |
| `Opk` | 2 actors on 1 application, 4 packages, 1 failing call or crash | `TypeOK`, `OnlyVerifiedInPlace`, `Verified`, `BackupIsTransient`, `Consistent`, `RestoresAfterMove`, `CompletedInPlace`, `LastCopyKept`, `AtomicInstall` | 810,585 |
| `OpkEarlyFail` | 1 actor, every kind of package | *violation* of `FailedUpdateKeepsOldVersion` | |
| `OpkCrash` | 1 actor, 1 crash | *violation* of `NoLossByUpdate` | |
| `ScriptRun` | 3 scripts | `SuccessIsReal`, `NoScriptLeft`, `EndedIsReturned` | 148 |
| `ScriptHangs` | 3 scripts | *violation* of `TimeoutReturns` | |
| `InitServices` | 2 respawned services, 4 pids, 1 orphan, 1 failing spawn | `TrackedIsOwn`, `SingleInstance`, `NoDeathLost`, `Supervision`, `RespawnedUnlessAbandoned` | 5,130 |
| `Input` | 3 shells, 1 death | `ListedOnce`, `UnreachedDropped`, `EventAnswered`, `RegistrationReturns` | 13,525 |
| `Surface` | the status bar and an application, 3 ids, 2 frames each, 1 death of a client, 1 of the compositor | `SurfaceIsOwn`, `FrameShown`, `NewestOnTop` | 763,527 |
| `Supply` | 2 revisions and versions, 2 packages published, 2 processes of which one may name version 1, 1 retry, 1 killed process | `CachedIsPublished`, `InstalledIsSound`, `CommandsEnd` | 521,404 |
| `SupplyVersion` | 1 process that may name version 1, nobody dies | *violation* of `FetchesWhatIsAsked` | |
| `Services` | 3 servers, 1 thread, 1 application, 2 modes, 1 death | `AnswerIsReal`, `SettingsShowsItsMode`, `Answered`, `BarFollows` | 341,508 |
| `Canvas` | a canvas of 10 x 9, shapes on, across and beyond its edges | `NearLine`, `NearCircle`, `ShapeDrawn`, `CallEnds` | 71,545 |

Every action fires in a passing run; every property of a passing run is violated by a mutant
of the code, a definition beside the one it mutates. Mutants are the plausible mistakes: a dropped comparison, a wrong order, a missing
reset, an ignored exit status.

The violations are disagreements between the code and what the repository says of it:

* `OpkEarlyFail`: an update that is refused by the user, or fails its hash check, deletes
  the version that is installed.
* `OpkCrash`: an update whose post-install fails dies at that script, after both renames: the new, broken version is in
  place and the last whole copy in the backup. The very next install finds both and removes the backup
  before its own move. After a death between the two renames there is no target, so the backup is not touched.
* `ScriptHangs`: the waiter waits with the mutex held that the timeout needs, so the 60
  seconds never end a script.
* `SupplyVersion`: with versions 1 and 2 in the registry, `opk install <id> --version 1` downloads version 2 and
  caches it as 1, although `kullanim_kilavuzu.md` and `CLI_REFERENCE.md` offer to install the version that is named.

What the models also show, and no property asks for because neither code nor documentation promises more: a failed respawn is
not tried again; an event between a launcher's registration and its bind costs it its
registration; a cached file that a killed copy left cut is trusted for ever, so that the installation of that version fails until somebody deletes it.

### Bounds

* Opk. A step touches one actor and one application, and what two actors do to each other needs them on
  one application. One fault is allowed, at any step of either actor: histories without it and without an overlap are
  in the same run, and the conditional properties are about those. The packages are two good ones (an update, and a copy that can be lost), one that
  fails before its move and one that fails after it. The actors are interchangeable, and so are the good packages; `Alike` permutes
  them (all properties of the run are safety). `View` leaves out what was installed when a command began
  (`before`) once its application is disturbed, since then no action and no property reads it; without it the run has 2,835,775 states. That an application is not harmed by what disturbs another one is in the
  theorems, which have no bound, and not in the run. `OpkCrash` and `OpkEarlyFail` have a package for each defect.
* Supervisor. Four pids are one for each service, one for the orphan, and one that
  is free when a pid has just been reaped. One failing spawn is enough to reach every place
  after it.
* InputDispatch. Three listeners are the fewest for which the removal order matters with one
  survivor between. One death reaches every state of the dispatch at which it can come.
* SurfaceComposer. Two clients of different height, and a third id for the one that dies and comes
  back, which then has two surfaces of one height. Two frames are the fewest with which a picture can be torn.
* Supply. Two revisions are an old and a new version and a mixture of them; two processes are what it
  takes to copy into one file, and to change it under the other; one retry shows the loop of three. Version 1 is an old one, or one that the registry
  does not have; with both versions named the run passes as well (828,828 states).
  Once `MaxPublished` packages are out the developer stops, so that the registry does not change for ever.
* Services. One death, of any of the servers, at any step; a second powermanager is the one that starts
  again. Two modes are the least that can be confused.
* Canvas. Every call with `SomeCoords`, sizes and radii small and large, none, and negative ones. Slopes of all octants
  and of both parities occur; radii up to 8 reach both branches of the circle's loop in a row. The
  theorems are for all integers.
* ScriptRun. Scripts do not interact but by order, so three cover first, middle, last.

`MaxFaults`, `MaxFailures`, `MaxOrphans`, `MaxCrashes`, `MaxDeaths`, `MaxRestarts` and `MaxPublished` bound the environment, not the code;
`MaxId` and `MaxFrames` cap the two counters of `SurfaceComposer`.
The `timers` of the supervisor have no bound; `Supervision` shows that there is at most one per service.

### Fairness

* `ScriptRun`: weak fairness of each thread. Nothing makes a script end.
* `Supervisor`: weak fairness of the launch and of a spawn in progress; strong fairness of what
  competes for the mutex or for `waitpid`. The kernel returns zombies in order of death
  and contenders for the mutex come two seconds apart, so neither is passed over for
  ever. Nothing makes a service end.
* `InputDispatch`: weak fairness of every process, inputflinger's removal of dead listeners included; strong fairness of the answer to a
  registration, since the backlog of a socket is first in, first out. Nothing makes anybody
  send an event.
* `Supply`: weak fairness of each `opk` process that runs a command; every one of its system calls
  and HTTP requests returns (the code gives the requests 15 and 300 seconds).
  Nothing makes the developer or a user start anything.
* `Services`: weak fairness of servicemanager, powermanager, the status bar and each client, since each is a process or
  thread of its own that only waits for a connection or an answer. Nobody has to start, or start again.
* `Canvas`: weak fairness of the turns of a call, which run on the caller's thread.
* `OpkInstall`, `SurfaceComposer`: none; their properties are safety.

## 4. Theorems

All are for every value of the constants (any number of applications, packages, actors, services,
pids), from the named assumptions of the modules.

| Theorem | States |
| --- | --- |
| `TypeCorrect` | `Spec => []TypeOK`, under all faults |
| `VerifiedAlways`, `OnlyVerifiedPackages` | `Verified` and `OnlyVerifiedInPlace`, under all faults and interleavings |
| `ConsistentAlways` | `Spec => []Consistent` |
| `BackupsAreTransient`, `OldVersionRestored`, `SuccessIsComplete`, `LastCopySurvives` | the properties of run `Opk` about applications that nobody disturbs |
| `CommandsAreAtomic` | `Spec => AtomicInstall`: the pipeline implements `AppStore` |
| `HandoverAlways`, `ScriptTypes`, `SuccessIsAlwaysReal`, `NoScriptIsLeft` | `TypeOK`, `SuccessIsReal` and `NoScriptLeft`, for any number of scripts |
| `SupervisionCorrect`, `SupervisorTypes` | `Spec => [](TypeOK /\ Supervision)` |
| `NoServiceTwice`, `NoStalePid`, `NoDeathIsLost` | `SingleInstance`, `TrackedIsOwn`, `NoDeathLost` |
| `DispatchingAlways`, `DispatchTypesAlways`, `AlwaysListedOnce` | `TypeOK` and `ListedOnce`, for any number of shells and deaths |
| `ExactlyUnreachedDropped` | `Spec => UnreachedDropped`: the removal by index takes the right listeners |
| `NoSharedSurface` | `Spec => []SurfaceIsOwn`, for any number of clients, ids and deaths |
| `ComposerCorrect`, `ComposerTypes`, `AnsweredIsShown`, `LayersNewestOnTop` | `TypeOK`, `FrameShown` and `NewestOnTop`, for any number of clients, heights, frames and deaths |
| `OneTransactionEach`, `ServiceTypes` | `Outstanding` and `TypeOK` of `Services`: a queued connection is the one its process waits for |
| `AnswersAreReal`, `SettingsShowsWhatItSets` | `AnswerIsReal` and `SettingsShowsItsMode`, for any number of clients, modes and deaths |
| `LoopsOnTrack`, `LinesAreNear`, `CirclesAreNear` | `NearLine` and `NearCircle`, for any canvas, ends and radii |
| `ShapesDrawn` | `Spec => []ShapeDrawn`: every call paints its shape, for any canvas, arguments, bitmaps and glyphs |
| `SupplyCorrect`, `OnlyPublishedIsCached`, `OnlySoundIsInstalled` | `CachedIsPublished` and `InstalledIsSound`, for any number of revisions, versions, processes, retries and deaths |

None of the theorems has a hypothesis about the environment: any calls may fail, any process may die, any commands may
overlap. What is false of an application after such an event is stated of the applications outside `disturbed`.
`LastCopySurvives` is not that no copy is ever lost. `LastCopyKept` names the steps that destroy the last one: an uninstall, and the
rollback of an install that was refused (declined, or of a package that fails a stage before the move), which
is the flaw `OpkEarlyFail` shows. That leaves every update that gets past those stages, whatever its
post-install script does; and with a fault not even those, as `OpkCrash` shows.

**OnlyVerifiedPackages.** `OnlyVerifiedInPlace` is not inductive: a step at `ToTarget`
puts whatever is in the staging directory in place. `Verified` adds, for each actor, what
it knows at its stage (`StageKnowledge`): which defects are excluded, that staging holds its own package, that
the user approved. Two frame lemmas say that a step changes no
other actor and no other application; `ContentsMove` says that whatever appears in a directory was in the other
one or comes from the actor's staging.

**ConsistentAlways.** `ActorConsistent(i)` says at each program point what the actor's application
looks like as long as nobody has disturbed it: the directory before the move, the empty place in the middle of it, the
package after it, the backup exactly while `hasBackup`. The actor's own step re-establishes it (`OwnStep`, a case per
action) or disturbs the application (`DisturbedStep`); the others' steps leave it alone because an actor that works on
the same application has disturbed it when it began (`OtherStep`, from the frame lemmas and `OneCommandPerApp`).
`BackupIsTransient` is part of the invariant because a command that begins relies on it: there is no backup to trip over. A
corollary is that no command reaches `DropStale` on an application that nobody has disturbed. At a rollback without a
backup it says that the install was refused or is a first one whose post-install failed, from which `LastCopySurvives` follows.

**CommandsAreAtomic.** `Seen(i)` is what counts as installed of the application an actor works on.
Inside a command it does not change, or becomes `None` (`SeenWithin`); at the end it becomes the
command's package, which is sound because it passed the stages and its post-install (`SeenAtEnd`);
of other applications nothing changes (`SeenByOthers`), and of one that is disturbed nothing is seen any more (`DisturbedIsGone`).

**HandoverAlways.** Whoever reads or kills the child holds the mutex (`LockHeld`), there is a
waiter exactly for a child that was spawned and the channel holds only what that waiter read from the child
(`WaiterFollows`), and each stage of the main thread says what has become of the child
(`MainKnows`): after a receive or after its own kill and reap it has ended. So a success is the
child's own status, and a call that is over leaves nothing running. Both hold although a script that
hangs may block the call for ever (`ScriptHangs`): they say nothing about termination.

**SupervisionCorrect.** The table and the kernel agree but for the pid that `waitpid` has
returned and `handle_child_exit` has not seen yet (`TableAgrees`); during a spawn nobody else starts the same
service (`SpawnConsistent`, since there is at most one respawn thread per service and none while it is tracked: `TimersConsistent`).

**DispatchingAlways.** `dead` ascends strictly (`DeadAscend`) because every index that is added is the
loop's turn and all before it are smaller (`TurnPastDead`). A listener that is still listed is in
`unreached` exactly if its index is in `dead` (`DeadAreUnreached`); for the step of a sweep
this needs that the removed index is the largest, so that no other dead index shifts, and
`ListedOnce`, so that a name stands for one index. At the reply `dead` is
empty, and `UnreachedDropped` follows. With the indices removed in ascending order
(`SweepForward`) `DeadAreUnreached` breaks at the first removal.

**NoSharedSurface.** `SurfaceIsOwn` alone is not inductive: the id that `Allocate` gives out must be new.
`IdsAreSpent` says that ids in use are below the counter or `stale`; a death of the compositor makes every id
stale. Every other step leaves each client its id or takes it away (`IdsKept`).

**ComposerCorrect.** Two chains of invariants besides. *Order:* the list of surfaces ascends by id
because ids are given out in that order and removals keep it (`ListAscends`); a stable sort by
height therefore leaves newer surfaces after older ones, and a composition only moves a prefix of its
layers, with gaps, to its canvas (`LayersInOrder`). *Showing:* a client waits for the
one composition it has asked for (`WaitsForIts`); from the end of its drawing until its
next frame its file is whole and nobody else's (`FileKept`, which needs `SurfaceIsOwn`); so, from the
start of a composition to its end, the client's layer is still to do, in hand, or on the
canvas with its present frame (`LayerKept`). The compositions that others ask for while a client has its answer
are covered by the same conjunct, which is why it is not only about the client that waits.

**AnswersAreReal, SettingsShowsWhatItSets.** `Outstanding` says of every queued connection that its
process waits, at the place in its code where it makes this request, and that no process has two.
So an answer is the answer to the call that reads it, even if a server has died and come back in between. `Knowledge`
adds what processes know: a request in progress has seen powermanager's present mode
(`ThreadKnows`), so what it is answered was there; an application's mode
is its own from the moment powermanager takes it until somebody else's is taken or powermanager dies (`AppKnows`).

**LoopsOnTrack.** For a line at the point `i` steps along `x` and `j` along `y` of its start,
`LineInv` says that the error is `k + dx - dy` for `k = j * dx - i * dy`, and that `2 * k` stays
within the longer extent on either side. A flat line steps in `x` in every turn and never
in `y` beyond its end (`FlatTurn`), a steep one the other way round (`SteepTurn`), so the loop
stays in the box and meets its end. For a circle the code adds the increments of the next point, so
`d` counts four too many for each step so far, in `x` or in `y` (`Drift`): it steps inwards
too early, which is why a pixel may be one and a half inside the circle, not a half.

**ShapesDrawn.** The invariant is `LoopInv`, `CallInv` (a call is one a program can make), `Painting` and `Tracing`.

* `Painting`, for all calls but lines: what is painted has the colour that is *wanted* there, and what
  is wanted is painted or still *ahead*, in the loop that runs or in the parts that wait (`Exact`). `Wanted` is the
  shape where the shape is a set (boxes, rounded boxes, text, the dots of a bitmap, the rows of a
  gradient). Three groups of lemmas carry it: each call begins with parts that paint just what it wants
  (`RectDraws`, `BitmapDraws`, ...), each turn paints what it takes from what is ahead
  (`LineStepsExactly`, `TextStepsExactly`, `CircleStepsExactly`), and when nothing is ahead the shape is there (`PlainShown`).
  The code's own arithmetic is met in laws of their own: the row of bytes of a bitmap (`LitIsBit`), the quotient that
  truncates and the colour between two others (`QuotientLaws`, `ShadeLaws`), the pen of a text (`PenMoves`).
* Circles: `Wanted` is what all turns of the loop paint, by the rim of the circle: the `y` of the loop at each
  of its `x` (`Rim`, `Turns`). The rim falls by at most one and never rises, so it
  meets every column and row; it ends past the diagonal (`RimEnds`), and even the last pixel, painted past it,
  is about the circle (`RimOnCircle`, `NoFlatDiagonal`). From these `CircleIsShown` proves `CircleShape`: the pixels are
  in the band, nothing inside is missing, no column or row is skipped, all octants agree.
* `Tracing`, for lines: the loop has painted exactly one pixel, of the nearest, for each step behind it (`TracedTo`).

The prover cannot instantiate the induction theorems, which take an operator. What is said here of every
turn of a rim is proved from the least counterexample instead: a set of numbers that is not empty has a
smallest one (`SmallestNat`, from the well-foundedness of `<`), and `RimExists` proves in that way that the recursive
definition has a solution.
Numbers are unbounded here: the theorem is about calls whose arithmetic stays within `i32`.

**SupplyCorrect.** Neither property is inductive. `SupplyInv` adds that the registry
holds only published packages (`StoreOK`) and what a process knows at each stage of its command
(`Knows`): the file it expects, has downloaded or has shown was published. Publication only adds packages and offers
(`PublishKeeps`), so what others know stays true. Which version a user names does not matter here: the number is only
the name of the cached file.

Only model-checked: the liveness properties (`EndedIsReturned`, `RespawnedUnlessAbandoned`,
`EventAnswered`, `RegistrationReturns`, `CommandsEnd`, `Answered`, `BarFollows`, `CallEnds`), since liveness under
fairness and ENABLED are out of the prover's reach.

## 5. Not modelled

See the notes in `PROJECT.json` for each part. Pure I/O (mounts, sandbox calls), parsers and
wrappers of libraries are left out for good: the boot code of diskboot, seccomp and
namespaces, apprunner's file server, the table of libi18n, the TOML parsers, the mock registry.

Planned, in this order:

1. `WlTouch`: the two threads of the Wayland compositor, which share the touch position and the list of surfaces.
2. Pure algorithms against a reference definition: the Bekci score, the parcel's cursor
   arithmetic, the comparison of versions.
3. `SurfaceComposer` composed with `InputDispatch` for the launcher, and with `Services` for the status bar.
4. Proofs: that a call's turns are bounded by its arguments, as a variant that every turn lowers, which is
   the part of `CallEnds` that needs no fairness.
