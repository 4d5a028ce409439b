# A verification project for MTPDrive

MTPDrive is a macOS service that shows Android phones in Finder: a daemon owns
the MTP sessions, serves them as one NFSv3 volume on the loopback interface and
mounts it; a menu-bar app and a command line talk to the daemon over a local
socket. These modules model the daemon's core logic, TLC checks them on small
instances, and TLAPS proves the main results for every instance.

`PROJECT.json` holds the same information for tools: the components, the runs,
the mutants that show each property can fail, the source lines of every
definition, the findings, the hazards and the theorems.

## 1. Inventory

| Component (source) | State | Operations | Hard behaviour | What makes it correct |
|---|---|---|---|---|
| Handle table (`nfs.rs` 69-114) | two locked maps, an atomic counter | `intern`, `resolve` | concurrent first lookups, two maps filled one after the other | a number that was handed out resolves for good; one number for a node |
| Device cache (`device.rs` 54-368) | listings with two time stamps, object metadata, refresh tokens, epoch | store, merge, invalidate, remove, clear, begin/finish refresh | cancellation of refreshes, count validation | listings equal the phone's |
| Device session (`device.rs` 370-595, 854-1257) | gate semaphore, cache, event queue | list, metadata, read, mutations, background refresh, event listener | awaits between reading and updating the cache; lost events; lost answers | coherent while undisturbed; heals after a disturbance |
| Device registry (`device.rs` 599-852, 1259-1362) | map of open devices, generations | `refresh`, `invalidate_caches`, reclaiming a device from Image Capture | two refreshes at once, reconnection, operations with an old generation | one session for each device; no operation on a newer session with an older handle |
| Staging area (`staging.rs`) | staged files with a lock each, map of overlaid objects, local copies | create, stage, write, truncate, rename, remove, commit, delayed commit, flush | multi-request replacement with failures, writes during commits, delayed commits | clean means stored; the phone always has a complete copy; dirty files are committed |
| NFS namespace (`nfs.rs` 118-1475) | none of its own: handles, staging, listings | lookup, readdir, read, write, setattr, create, mkdir, remove, rmdir, rename | look-ups awaited before what they found is used, cookies into changing listings, a phone replugged meanwhile | a call changes what it names and nothing else; a read is of its handle's object; a traversal skips nothing that stays |
| Daemon (`daemon.rs`) and mount (`mount.rs`) | socket file, mounts on the path, mount state, pause flag | start, discovery, requests, mount, unmount, shutdown | leftovers of a crash, a start during a stop, overlapping mount commands, writes during shutdown | at most one daemon; the volume is its own and known to it; nothing staged is lost at shutdown |
| IPC (`ipc.rs`) | one connection for each request | request, answer, ping | the daemon ends before it answers; no timeout | a request ends |
| Log store (`logs.rs`) | ring of records, counter, rotated files | emit, after, rotation | an id is drawn before the ring's lock is taken; renames that fail | a polling reader sees every record once; the files continue each other |
| Settings (`settings.rs`) | JSON file, temporary file | load, save | concurrent saves, failures, restarts | the file is one change's; daemon, file and window agree |
| App (`application.rs`, `instance.rs`, `updater.rs`, `service.rs`) | window, polls, shown log, update state, socket and lock of the single instance | poll, launch, show, quit, settings, update | answers that arrive late, a daemon that is another one by then, processes that start while one leaves | the window gets the log; it shows what its worker does; one window, which a launch brings up |
| User interface (`views/settings.rs`, `tray.rs`, `theme.rs`) | | buttons | | of it only which update buttons there are is modelled |
| Command line, data model and wording, packaging, the vendored NFS/XDR library | | | | not the program's own core logic, or plain data |

The components meet as follows. NFS procedures resolve a file handle in the
handle table, then go to the staging area for files that are staged and to the
device manager for everything else. Every device operation cancels the
background refreshes, waits for the device's gate, talks to the phone, updates
the cache and lets go. The event listener and the background refreshes of a
device share its gate and its cache with the operations. A commit of a staged
file keeps the file's lock while it performs several device operations. The
discovery loop refreshes the registry and flushes the staging area. The daemon's
main thread and the tasks of control connections mount and unmount the volume; the
application polls the daemon for a snapshot and for log records, and has it save
the preferences.

## 2. Modules

| Module | Models | Kind |
|---|---|---|
| `NodeIds` | what the handle table promises | abstract specification |
| `HandleTable` | `nfs.rs` `HandleTable` | state machine, refines `NodeIds` |
| `DeviceCache` | `device.rs` `DeviceCache`, an operator for each method | pure operators |
| `DeviceSession` | one device: phone, gate, operations, refreshes, listener | state machine over `DeviceCache` |
| `WriteBack` | what staging promises for a file | abstract specification |
| `Staging` | `staging.rs`, and the NFS procedures that drive it | state machine, refines `WriteBack` |
| `Registry` | `device.rs` `DeviceManager::refresh` and what it calls | state machine |
| `Namespace` | `nfs.rs` procedures on names, over listings and staged files | state machine |
| `Service` | `daemon.rs` processes, `mount.rs`, control connections of `ipc.rs` | state machine |
| `LogStore` | `logs.rs` | state and steps, a part of `MenuBar` |
| `Preferences` | `settings.rs`, the `SetSettings` request | state and steps, a part of `MenuBar` |
| `Updater` | `updater.rs`, the update messages of `application.rs` | state and steps, a part of `MenuBar` |
| `MenuBar` | `application.rs`, `instance.rs`, `service.rs`, with the three above | state machine that composes them |
| `Bounds` | how many events of each kind the application's model has | bounds |
| `*_proofs` | theorems on the module of that name; `DeviceSession_proofs` also has the lemmas on `DeviceCache`, `MenuBar_proofs` those on the modules it composes | TLAPS proofs |
| `FoldFacts` | folds, counting and least numbers, for sets and functions | lemmas the proofs share |
| `MC*` | values for TLC | |

In all state machines an action is what one actor does between two awaits (or
between two lock operations, in the handle table). What the code does in one
poll of a future is one step; whatever can happen at an await is another
actor's step.

**HandleTable.** `by_inode` and `by_handle` are the two maps, `writer` the
holder of the write lock of `by_handle`, `pc` and `want` the position of every
thread in `intern`. `Draw` and `Publish` are the two insertions, so that the
state between them is visible to the other threads. `issued` is a history
variable: what callers have been told.

**DeviceCache.** A cache is a record of listings, object metadata, registered
refreshes, the epoch and the cancelled tokens. A refresh token is an
`Arc<AtomicBool>` in the code; here the task that owns it stands for it. Of the
two time stamps of a listing only what the code asks of them is kept (`age`,
`full`). `CachedBelow` is the `pending` work list of `invalidate_object` and
`remove_object`, as the least set it computes.

**DeviceSession.** `device` is the phone; `gate` the semaphore with one permit.
A foreground operation is `Begin` (cancel the refreshes), the wait for the gate,
one of `FetchListing`, `FetchMetadata`, `ReadBytes`, `Mutate`, `Fails` (the
phone's answer), and `Apply` (update the cache and let go). A background refresh
is `ServeStale` (register and spawn), `TaskOpens` (the phone sends the handles
and their number), `TaskValidates` or `TaskScans`, `TaskFinishes`; it can be
dropped, cancelled or fail on the way. The listener is `ObjectRemoved`,
`StoreEvent`, and `ObjectChanged`, `FetchObject`, `MergeObject` with the gate
free in between, as in `apply_event`. `PhoneChanges` is the phone's own user;
whether the phone announces a change is its choice. `known` (the phone as of
the last finished operation) and `disturbed` (something happened the cache may
have missed) are history variables.

**Staging.** `file` holds the `StagedState` of each file, `files` and `origins`
the two maps of the area, `disk` the local copies, `lock` the `Mutex` of each
state, `timers` the delayed commits. The jobs are NFS calls, delayed commits and
the flush of the discovery loop. A commit is the sequence of actions from
`BeginCommit` to `Finish` or `Abort`, one for each MTP request of
`replace_remote`, each of which may fail. `committed` is the newest version a
commit has answered for; `crossed` are objects an NFS call has renamed or
removed on the phone while another call was staging them; `inPlace` are the files
whose object the phone has refused to rename, so that a commit replaces it in
place. In `WriteBack` these are `refused`, and only for them there is `Withdraw`, by which
the phone's copy goes before the new one comes.

**Registry.** `devices` is the registry, `job` one refresh of the discovery loop
(`Discovery`) and those of IPC requests (`Client`). A refresh is `Scan` (the USB
list, which may fail: `ScanFails`), `ListConnected` (the registered sessions the list does not show),
`ProbeAnswers` or `ProbeFails` for each of them, `ProbesDone`, then for each
candidate `Pick` and `OpenAnswers`, `Register`, or one of the failures, and
`Finish`. `Reclaim` to `GraceEnds` are `reclaim_image_capture` under its lock.
`port` and `attachment` say where each phone is plugged in and how often it
has been; a session belongs to one attachment. The operating system gives
the interface of a phone to one holder (`Held`): Image Capture, or a session the
daemon still refers to. A candidate is what the code knows of a device: vendor
and product, location, and a serial number that the list may or may not show.
The IPC request also drops all listings first (`Clear` of `DeviceCache`).

**Namespace.** `phone` has the objects, `staged`, `files` and `origins` the staged
files and the maps of the staging area; the operators from `Find` to `Denoted` say
what a name stands for in the listing with the staged files laid over it. A call
(`job`) has a position for each await of its procedure: what it has found is in its
`node` and `victim`, and other calls, a `Commit` or a `Replug` may come before it acts
on it (`Creates`, `MakesFolder`, `RemoveObject`, `Write`, `Read` and what it answers,
`TargetFound` to `RenameFails`). Documents (`doc`) are what the user would call "this
file": a document keeps its identity when it is renamed, staged, committed, or gets a
new handle. `aimed` are the documents a call has named, `alone` whether anything has
changed besides it. `reader` reads a directory in pages with the cookie of the last entry
it has got. The listing is computed afresh for each page, and in the steps of
`directory_entries`: `FirstPage` or `NextPage` takes what the phone lists, `TakesFiles` the
files that are staged then, `AsksFile` asks each of them, which waits for the lock its
commit holds, and `ShowsPage` answers; anything may happen in between. `watch`
records what has happened to the directory meanwhile. `Replug`
makes the phone another session whose objects have other handles (`Renumbering`): that a
handle of the earlier session denotes another object now is what the code's generation
check has to refuse.

**Service.** A daemon is a process from `Start` to its end: `LooksForSocket` to
`BindsSocket` are `ensure_single_instance` and the binding, `MountsAtStart` to `Exits`
the rest of `run`. The flush at its end is `LeavesLoop`, which takes the ids of the
staged files, and a `FlushesNext` for each, between which the server goes on accepting
writes (`Written`) and delayed commits are made (`Saved`); then `UnmountsAtEnd`.
`LoopFails` is the early return by an error of `accept` or of the signal: the volume,
the socket file and the server stay, and the process with them (`hung`).
`socket` is who has bound the file that is there; `mounts` is the stack on the
volume's path, which may hold somebody else's volume (0) at first. A look at the mounts
that fails shows none (`Finds`). A mount or unmount procedure is a `call`
of the main thread or of a connection: `Looks`, `Decides`, the three steps of
`unmount`, `Prepares`, `MountCommand`, `MountWrites`, and the failures. `unsaved` are
the files with data the phone does not have; of these `late` are those written when
the flush had passed them already, or whose commit has failed in it.

**MenuBar** composes three modules, each with variables and steps of its own. In
`LogStore` an `emit` is `Draw`, `Push` and `Write`, between which other threads run;
rotation renames the files from the oldest on, any of which may fail. In `Preferences`
files are inodes with content, so that two saves that have the same temporary file open
are told apart from two that have not; `Opens`, `Writes`, `Renames`, `Remembers` are
the steps of a save. In `Updater` the worker's steps are `Checks` to `Names`, what it says
is queued, and `Hears` is the window's message handler. `MenuBar` adds the poll
(`Tick`, `Snapshot`, `Logs`, `ServiceUpdated`), the processes of the application with
lock and socket file, and the daemon's end and start, which takes the memory of one and
leaves the files.

## 3. Plan

The order was the importance of what can go wrong for the user's files: the device
session and its cache, the staging area, the handle table, the registry; then the
names, the daemon's processes and its volume, the application with the log and the
preferences. Proofs follow the models that are stable: the handle table, the session,
the daemons, the application's window, preferences and update worker, the registry, the
staging area with its refinement, the log, and the names.

What remains, in the order in which it would pay:

1. `Staging` with moves between directories and lost answers.
2. `Namespace` and `Staging` composed, so that a rename meets the steps of a commit, not
   a commit as one step.
3. Abstract specifications of the registry and of the log, and their refinement.

## 4. Runs

TLC finishes each run within three minutes. A deadlock is no error in any of
them: the bounds stop the system, and an idle daemon does nothing.

| Run | Instance | Question and result |
|---|---|---|
| `handle_table` | 3 threads, 2 nodes besides the root | Holds: numbers resolve at once and for good, `NodeIds` is implemented, every `intern` returns. |
| `session_coherent` | a folder, a file in it, a handle for a new file; one operation at a time but two in all, one refresh, one queued event, no disturbance | Holds: `Coherent`. |
| `session_heals` | 2 files in the root, 2 refresh tasks, 1 foreground operation, 1 change by the phone's user, reset or USB error, announced or not | Holds under fairness: `RefreshEnds`, `HealsEventually`. |
| `session_starved_scan` | as before, one file changing again and again with events | `HealsEventually` is violated, see finding 1. |
| `staging_replaces` | 2 files, 6 handles, 2 concurrent calls or delayed commits and the flush, 2 calls, 2 failures of any requests, the first rename included; the phone renames | Holds: `CleanMeansStored`, `OneOverlay`, `StableSurvives`, `LeftoverPerFailure`, and `StoreSpec`, the refinement of `WriteBack`. |
| `staging_commits` | the same with 1 concurrent call, a phone that cannot rename, 1 failing deletion | Holds under fairness: `Committed`. |
| `staging_stuck` | the same with a failing upload | `Committed` is violated, see finding 2. |
| `registry` | a phone plugged in twice, at two ports, with a serial number that is not always shown; discovery and one IPC refresh; one failing request, listing or kill, or one claim by Image Capture; the phone comes back only after its dead session is gone | Holds: `OneSession`, `OncePerCooldown`, `GenerationsGrow`, and under fairness `DeadRemoved`, `ServedAtLast`, `ErrorClears`. |
| `registry_quick_replug` | the same, no failures, the phone may come back at once | `DeadRemoved` is violated, see finding 3. |
| `namespace` | two storages, a folder, two files; two calls at once and a directory reader with pages of two entries, each answer made in steps; one replug with new handles, one failing request, commits at any time | Holds: `Traversed`, `NoBystander`, `ReadsOwn`, `RenamesExactly`. |
| `service` | three daemons, the first of which has left its socket and perhaps its mount, or somebody else's volume on the path; two connections; two files; crashes, failures, ejections, writes, three of these and of the calls in all | Holds: `OneDaemon`, `VolumeKnown`, `ReusesOwn`, `NothingLost`, and under fairness `StartEnds`. |
| `menu_bar` | two processes of the application, a daemon that stops and starts, three log records, two changes of preferences, two presses of an update button | Holds: `NothingSkipped`, `FilesContinue`, `SettingsAgree`, `BusyWhileWorking`, `OnlyVerified`, `OneWindow`, and under fairness `FetchedAtLast`, `Shows`. |

**Bounds.** `MaxChanges`, `MaxOps` and `MaxEvents` bound the disturbances, the
foreground operations (a listing of an existing directory is free) and the
queue of events; `MaxFailures` and `MaxCalls` the failing requests and the
changing NFS calls. They are large enough for the cases the hazards name: an
operation between the listener's fetch and its merge, a refresh that overlaps an
operation and is cancelled by it, a count check after an unannounced
replacement, two first writes to one object, a write in the middle of a commit,
a failure in the middle of a replacement and a second one in its undoing, a refused
rename of the old object and a failure of what replaces it in place. Two
identifiers of files and six handles suffice for two objects with a temporary
and a backup each. Handles and identifiers are interchangeable within what
`SYMMETRY` uses (jobs only, and only in the run without liveness).
`session_coherent` has no disturbance because `Coherent` says nothing after one;
`session_heals` is the run in which the phone's user acts.

`MaxPlugs`, `MaxMishaps` and `MaxRefreshes` bound what happens to the registry from
outside; after that the phone stays plugged in or away for good, which is what its
liveness properties speak of. One phone suffices for the races of two refreshes;
its candidates with and without a serial number have different keys, and those at
two ports different locations. Phones of one model are not in this instance (see
7). `QuickReplug = FALSE` is an assumption about the phone's user that
`registry_quick_replug` shows to be necessary.

`namespace` has four object handles, three of which are taken at first, and two
renumberings that give every object the handle of another: two calls suffice for the
races of a look-up with a change. With pages of two entries (`Page = 2`) the first answer
has only "." and "..", so that names come on later pages, between and during which
something happens. Folders lie in a storage's root only. `service` needs three
daemons (a leftover, one that stops, one that starts); its bounds allow two calls and two
writes, one crash, failure and ejection each, but three of these together: a shutdown and two
writes, to a file the flush has passed and to one it has not. `menu_bar` likewise
has four events in all: with two stops and two launches a daemon or the application is
replaced, a ring of three records, files of one record and answers of two make every limit
bite (`FilesContinue` allows one full file less for each failed renaming, so the run has files to
lose). In these two the sum is bounded because each property is about what two or three
events do to each other; the theorems of `Service_proofs` and `MenuBar_proofs` hold
for any bounds. One exception was found that way: `ReusesOwn` needs `stacked`, which
takes six events to matter.

**Fairness.** In `DeviceSession` the gate is tokio's semaphore, which serves
waiters first come first served: an operation, refresh or listener that waits
again and again finds it free gets it, hence SF for their steps. Time passes
(WF on `Age`, `FullAge`), and Finder reads the directories it shows again and
again (WF on `ServeStale`); for a directory nobody reads nothing is claimed.
Foreground operations are not fair, so they may stop, and `MaxOps` makes them
stop: every one of them cancels all refreshes, and with a foreground operation
in every refresh the cache would not be refreshed in the background at all (the
operation's own listings are fresh then). In `Staging` a lock is tokio's mutex,
also first come first served (SF); requests are answered or fail (WF, by SF);
the discovery loop never ends, so flushes are repeated. In `Registry` the same
holds for scans; requests are answered or fail, and the cooldown passes (WF).
Refreshes by IPC come from outside and are not fair until they have begun. In
`Service` the main thread and the tasks of connections go on, and the commands they
start return (WF for each); calls, crashes, ejections and writes come from outside. In
`MenuBar` the window's timer goes on and a request for the snapshot or the log is
answered or fails (WF on `Tick` and `Poll`); nothing is assumed of saves, of the worker or
of processes that start.

**Mutants.** Each property of a passing run comes with a change of one
definition, as a plausible bug would make it, under which TLC finds the property
violated: for instance an `upload_file` that leaves the listing alone
(`Coherent`), a periodic full scan that never happens (`HealsEventually`), a
commit without the file's lock (`StoreSpec`), a replacement that deletes the old
object first (`StableSurvives`).

## 5. Findings

1. `session_starved_scan`: the periodic full scan can be put off for ever.
   Merging an event counts as a full load (`device.rs` 262, 272), so with one
   chatty file in a directory a missed change elsewhere in it stays unseen.
2. `staging_stuck`: if the in-place replacement fails after deleting the
   original, every later commit of the file fails.
3. `registry_quick_replug`: a phone that is unplugged and plugged in again
   between two listings matches its own dead session; it is never probed nor
   opened again until a listing misses the phone.

Besides these, the properties that hold have exceptions, each written into the
property by name. They are what the code does. Two of them contradict what the repository
says, although no run is made of them. `settings.rs` 86 says that `save` "Atomically saves
preferences": two saves at once share a temporary file, which is what
`overlapped` exempts. And `src/README.md` 160-162 says that the service replaces stale
mounts "while avoiding volumes it did not create", while `mount` (`mount.rs` 38-46)
unmounts whatever is mounted on its path when the daemon starts; in `Service` somebody
else's volume (0) is unmounted like a leftover. The exceptions are:

- *Session.* A refresh that is cancelled after its last check publishes if another one
  of its directory has been registered meanwhile (`device.rs` 149); it holds the gate, so
  what it publishes is what the phone held. The metadata of objects below a deleted
  folder whose listing is not cached stay (`device.rs` 308).
- *Staging.* When the phone refuses, or fails, to rename the old object, the commit
  deletes it before it uploads again (`staging.rs` 431-449), as its comment says; until an
  upload succeeds the phone may hold no copy (`inPlace`). Finding 2 is what can come of it.
- *Namespace.* A listing is made over several awaits (`nfs.rs` 676-705). A new file whose
  first commit ends between the phone's listing and the question to the file is in neither part
  of the answer, and a name that was there throughout is not shown; entries that go
  away while an answer is made, or before the cookie between two, likewise make it skip others
  (`shrunk`), and entries that come make it repeat some (`grown`).
  A file that was renamed while staged, and not committed since, is lost
  when its old name on the phone is removed. A WRITE or SETATTR begun in one session of
  the phone and done in the next, and a commit of a file staged in the earlier one,
  act on whatever has its handle now (`OfEarlierSession`). A staged file that is renamed into
  another storage keeps its own, and a document of which a commit of a file staged in an earlier
  session has left two copies is not renamed as one (`Single`). A listing that fails counts as one without the name. RMDIR
  does not ask for staged files in the folder, and RENAME removes a folder at the new
  name before it looks whether the source is in it.
- *Service.* Two daemons started at the same moment over a leftover socket may both serve
  (`raced`), and one that starts while another stops may fail over the file that is gone
  already. Overlapping mount procedures can stack volumes and leave the wrong state
  (`disturbed`, `stacked`); the state stays Mounting when the directory cannot be made or the
  command not be started. The final flush takes the ids of the staged files once and commits them one by one
  (`staging.rs` 322-335) while the server accepts writes: what is written to a file it has
  passed or did not know of, or while the volume is being unmounted, may be lost, and so may a
  file whose commit fails (`late`). A daemon whose loop ends by an error neither
  flushes nor unmounts, and its process stays with its server (`hung`, `OneDaemon` does not count
  it).
- *MenuBar.* Two saves at once share the temporary file: the settings file can be empty or
  torn, and a daemon does not start on it; the older of two changes can be the one that stays;
  a save can be refused although its value is in the file (`overlapped`, `refused`). Of a
  restarted daemon no record is shown until its ids are above those shown before, and a
  record that was pushed after one with a higher id is passed over (`missable`). A launch
  while the process with the window leaves brings up none.

## 6. Proofs

TLAPS checks them for every value of the constants that satisfies the named
assumptions of the modules: sentinels differ from values, folders are objects,
what the phone holds at first lies in directories that are there, handles and
identifiers of files are finitely many, bounds are natural numbers. Every safety and action
property that a run checks is the subject of a theorem, and so are both refinements.

The prover cannot use the library's induction theorems (they take an operator). `FoldFacts`
states induction on natural numbers and on finite sets for sets and functions instead (`Reaches`,
`LargestOf`) and derives what the proofs need of the community modules' folds: that a fold over a
set or a sequence satisfies its recursion (`FoldExists`, `LeftFoldExists`). The listing that
READDIR pages through and the concatenation of the log files are such folds.

**HandleTable.** The inductive invariant `IInv` says that the two maps are
inverse to each other, except for the one number whose second insertion is under
way under the lock, and that what was issued is in both. `TypeCorrect`,
`IssuedAlwaysResolves` and `MapsAreInverse` follow. `ImplementsNodeIds` shows the
refinement: a step of `intern` that returns is an `Issue`, everything else
stutters.

**DeviceCache** (in `DeviceSession_proofs`). One lemma for each method: it maps a cache to a cache, and what
becomes of the listings. `CachedBelowIsLeast` is the only thing needed of the
work list.

**DeviceSession.** `Coherent` alone is not inductive: while an operation holds
the gate the phone has changed already and the cache has not. The invariant
`IInv` has three parts.

- `TInv`: types, and that the phone's answer is of the kind that was asked for.
- `Holders` (theorem `GateIsExclusive`): the gate belongs to the operation
  between the answer and the update of the cache, or to the refresh with an open
  listing, and to nobody else.
- `Semantics`, as long as nothing has disturbed the cache:
  `Mixed`: an entry of a cached listing is what the phone held when the last
  operation finished or what it holds now, except in listings of deleted
  directories; the two phones are equal unless an operation holds the gate, and
  then differ by what that operation has `Done`; objects form a `Forest`, so that
  what is below something that is gone is gone, too; queued removals are about
  objects that are gone; and a refresh has read what the phone holds (`Scanned`).

The interesting steps are `Mutate` (`MutationForest`, `MutationDone`: a deletion
takes exactly what is below the object), `Apply` (`ApplyMixed`: for each kind of
operation the update repairs every listing the operation has made wrong), the
removal events (`GoneBelow`: what is cached below an object that is gone is
gone), and the listener's late merge (`UpsertKept`). Then `CoherentAlways` is
`Spec => []Coherent`. TLC has checked `Semantics` on nested folders beforehand.

**Service.** Everything but liveness is proved for any number of daemons, connections and
events. `OneInv` (`Alone`): unless two daemons were started at the same moment, the one that
serves has bound the file that is there, nobody serves while another is about to remove or to
bind it, and who waits for an answer waits for the one that serves. The invariant is needed
because the removal of the file is blind: only that nobody serves at that time makes it
harmless. `OneDaemonAlways` follows. `VolInv` builds on it: procedures are about daemons that
serve (`Engaged`); a daemon that has mounted finds its own volume or none (`Owned`, unless
volumes were stacked); while procedures follow one another none finds what it has looked for
changed (`Orderly`), and a daemon with no procedure under way knows what is mounted (`Knows`).
`VolumeKnownAlways` and `ReusesOwnAlways` follow; `NothingLostEver` has an invariant of
its own, `Flushed`: during the flush what is unsaved is late or still to be looked at.

**MenuBar.** `LockInv`: the lock has one holder, and the socket is its own while it runs.
`UpdateInv` lists the situations in which the window's update state, its task and the words not
heard yet can be together (`Quiet`, `Checking`, `Downloading`, `Verifying`): each step of the
task or of the window leads from one to another, so that there is one task at most, and an image
is only named after it was verified. `SettingsAgreeAlways` has `SavingInv`: until two changes
overlap there is one request at most, and `Stage` says for each of its steps what is in its
temporary file, in the settings file, in the daemon's memory and in the window; the two files are
different inodes (`FilesApart`), which is why a save that fails or a daemon that ends in its
middle leaves the settings file whole. It holds for any number of changes.

The log's `NothingSkipped` needs to know where its records are. `RingInv`: what the running
daemon has emitted is in its ring, in order, or among the `missable`. `PollInv`: the records of an
answer are one daemon's, and if that daemon still runs none after the one asked for is left out
before one of them. `TakenInv`: the window's last id is a record's that it has, and of the running
daemon it has all up to there, but for the missable ones and those below an id it has of an earlier
daemon. All that a step does to the log is one of two things, `LogGoes` (a record that is pushed
has the highest number so far, or is missable) and `LogAgain` (another daemon begins), so that the
reader's part has to be looked at for these two only.

`FilesContinue` says that the files in a row have the last records written without a gap.
`FileInv` has a mark for each number (`Marks`): the file of that number has the records from the
mark of the next higher number to its own, or is absent and the marks are equal. Renaming moves
marks, and in the middle of a rotation that fails they still fit. The file that is written to ends
with the last record and no file is newer (`EndsAt`); a file that has been renamed is full, and
an absent number is there for a failure (`Holes`), which gives the bound on what is lost. That the
sink is never `Gone` is a part of it.

**Registry.** For any number of phones, ports and overlapping refreshes. The steps that neither
open nor register a session are `Calm`: they leave the sessions what they were, or fewer, and
what is not alive does not come back (`DeadStays`), since plugging in begins a new attachment.
So the sessions need an invariant for two actions only, `OpenAnswers` and `Register`. It is
`Exclusive`: a refresh that has opened a phone that is still there is the only one, no
registered session of it is alive and all that ever were are older. It is kept because a phone
opens only while nobody else holds its interface, and the generation is drawn at that moment.
`GenerationsGrowAlways` follows, and `OneSessionAlways` with `PresentAlive`: what is registered
for a phone that is plugged in is alive, as long as a phone does not come back before its dead
session was noticed (`~QuickReplug`, an assumption of that theorem alone).
`OncePerCooldownAlways` rests on `LockInv`, the lock of `last_image_capture_reclaim`;
`TypeCorrect` on what is kept of a listing being one entry for each device
(`UniqueIsDistinct`).

**Staging.** For any number of files, objects and jobs. `TypeInv` has besides the types what a
commit may rely on between its requests: it holds the lock of its file, which stays dirty, and
knows whether the phone has an object of it (`Commits`). `DataInv` adds what relates the phone to
the area: an object with a file over it is found through it (`Origins`); a temporary object is
nobody else's, so that no other job renames or removes it (`Private`); what `stage_existing` has
read is still so unless somebody has overlaid or changed the object since (`Reading`); the
temporary object is the version being committed (`Copying`); a clean file is on the phone as it
is in the area (`Clean`), and no object is older than what was answered for (`Stable`). `Stable`
needs `Replacing`: the fallback that deletes before it uploads is only taken for a file whose
object the phone has refused to rename. The properties are about files that can be found and
whose object nobody has changed while it was being staged (`Sound`); `Grows` shows that no
step makes a file sound again, so that a step has to keep them for the files it touches only.
All theorems hold on every phone, whether it renames or not, and whatever requests fail.
For the refinement each step `Turns` one file as `WriteBack` allows (opened, written,
stored, refused, withdrawn, removed) and `Keeps` the others. `LeftoverPerFailureAlways` counts: a temporary or backup
object is either one that a commit under way is going to rename or delete (`Holding`, which says
for each position of a commit which ones) or a lost one (`Lost`), and an object becomes lost only in a
step that also takes a failure from the bound (`LostBy`). The invariant `LeftInv` adds that
there are backups only where renaming works (`Renamer`).

**Namespace.** For any number of objects, names, staged files, calls and replugs, and any page
size. `StateInv` has besides the types (`StateOK`) that folders lie in a storage's root and files
in folders that are there (`Forest`), that no handle is of a session to come (`Past`), and that
a call has at each position what it needs there (`Fits`).

- *Traversed.* What an answer under way will have (`Coming`) is in the directory while nothing
  goes away, and is all of it while nothing changes (`ReadOn`). `Reading` relates the reader's cookie, the entries
  before it in the listing as it is now (`Before`), and the names it has got: while entries before the cookie have not become fewer,
  the cookie is at most two beyond them, and a name that has always been there is either beyond
  the last one or seen. It rests on `ByNameLists`, that the listing has each entry once and in
  order, and on a lemma that counts (`Counts`): in such a list the entries up to the k-th name are
  k, unless two have the same name.
- *NoBystander* and *ReadsOwn.* `AimInv`: an object with a staged file over it is found through it
  and has its document (`Origins`), and what a call has looked up is still `At` the handle it
  keeps, or nothing is (`Aims`). `Settled` shows that a step never puts another document at a handle
  that somebody knows, as a new object gets a handle nobody knows; only a replug does, and then the
  generations differ. What a step removes is then among the documents its call has named or in a
  folder it has named (`Doomed`).
- *RenamesExactly.* `LookInv` is about renamings that nothing has interfered with: between its
  steps the phone's object is still where it was found and called what it was called, or, after the
  first of two requests, in its new directory, and the directory it goes to is there. The step
  that removes what was at the new name is the one to look at (`DirectoryStays`: no removal of
  something found in a directory takes the directory). That the document is then at its
  new name and not at the old one needs `Single`: nothing else stands for it.

**Only model-checked.** The liveness properties (`InternReturns`, `RefreshEnds`,
`HealsEventually`, `Committed`, `DeadRemoved`, `ServedAtLast`, `ErrorClears`, `StartEnds`,
`FetchedAtLast`, `Shows`): fairness and ENABLED are out of the prover's reach.
Nothing else is. No module uses recursion; the least fixed points `Below` and `CachedBelow` are
defined as intersections, which keeps them within reach.

## 7. What is left out, and why

- *DeviceSession.* One device with one storage: operations of two storages meet
  only at the gate and in `clear`. The change time stamp for the NFS client
  (`mark_changed`), the list of storages and storage sizes are data no property
  here is about. MTP object handles are not reused within a session, which the
  protocol grants. Metadata of single objects is not claimed to heal: it has no
  expiry and no refresh, so that a change that was missed stays in it. The answer of `create_folder`'s
  second listing may be missing; other partial answers do not occur.
- *Staging.* One directory; a move only differs in where the temporary object is
  put. A failed request has had no effect (lost answers of deletes and renames are
  modelled in `DeviceSession`). A failed upload leaves nothing behind, as the MTP
  library deletes partial objects. Errors of the local disk are left out, such as one after
  which a part of a write is in the local copy but the file is not marked
  (`staging.rs` 269-275). The retention of old local copies at startup
  is left out. Clients see a new node only after the call that made it has
  returned, and do not touch the daemon's own `.mtpdrive-*` objects. The
  removal of an existing destination by RENAME is in `Namespace`.
  The safety properties exclude files whose object another call has renamed or
  removed while it was being staged (`crossed`); the NFS client usually
  serialises such calls, and the hazard is listed.
- *Registry.* What failures are logged (`open_failures`), storage sizes, the
  order of summaries and the change time stamp. Between the last answer of a new
  session and its insertion, and between a probe's failure and the removal, the code
  takes only uncontended locks; they are one step. Other operations and the
  event listener refer to a session for moments after its removal, which is no
  more than a refused opening. Two phones of one model without usable serial
  numbers are one device to `Matches`: the second is not opened while the first
  is registered, which the code accepts.
- *Namespace.* Read-only storages, Finder's metadata names (they are in `Staging`),
  attributes and file system statistics, the cookie verifier, the levels of devices and
  storages and their names, and the mapping of errors to NFS status. The steps of staging and
  of a commit are atomic here; they are in `Staging`. So is a look-up of one name, which in the
  code asks the staged files and then the phone; a listing is not.
- *Service.* The `no_mount` option, opening Finder, the snapshot, the choice of a port, the
  application that starts a daemon. Commands that finish after the process that started them
  has ended.
- *MenuBar.* The error banner, the tray, the login item, themes and navigation, the progress
  of a download, `LogStore::clear` (it has no caller), `logs --follow` of the command line, a
  lock that cannot be taken for another reason than that somebody has it, a curl that outlives
  its process. The ring and the file may have records in different order; no property
  compares them. That the file that is
  written to has been rotated out of the numbered ones (`Gone`) is in the model, and proved not to
  happen.
- *Not modelled*: the command line, which sends one request and prints the answer; plain data,
  wording and formatting; widgets and layout; packaging; and the vendored NFS server library,
  which only decodes requests and runs each on a task of its own.
