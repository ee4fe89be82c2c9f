# APFS for Windows: TLA+ models, model checking and proofs

Specifications of the programs that carry the state of *APFS for Windows*:
`apfs_mount_service`, which decides what is mounted where, the command lines and
the manager window that tell it so, and `apfs_winfs_worker`, which turns file
system calls into commits of an APFS image. Every definition is translated from
the source; `PROJECT.json` maps each one to its lines.

## 1. Inventory

| Part | State it keeps | Operations | Interacts with |
|---|---|---|---|
| Mount policy (`apfs_mount_service.cpp` 206-267, 814-1280, 1415-1824) | the mount table in `mounts.json`: target name, drive letter, read-only, raw-write and enabled flags | `add_mount`, `remove_mount`, `set_mount`, `set_enabled`, `set_policy`, `clear_mounts`; discovery: alias canonicalization and merge of new volumes | the service's loop and command line processes read, change and rewrite the same file |
| Mount service main loop (`apfs_mount_service.cpp` 2385-2858) | worker handles (configuration, process, time of the last start), stop and resync events, status reported to Windows | start, stop, crash and restart by the service manager, control socket, sync, supervision | starts and kills workers; gets device events on a thread of its own |
| Service command line (`apfs_mount_service.cpp` 1826-2055) | how far one command has got | edits `mounts.json` itself, else sends the request to the service and waits for an answer | the file, the socket; three-second time-outs on both sides |
| Mount manager (`apfs_mount_manager.cpp`) | the table it shows, the command it waits for | one command at a time on a row it shows, discovery, refresh | runs the command line, kills it after 30 s |
| Worker: image commit (`apfs_winfs_worker.cpp` 1643-2413) | the target image, temporary copies and backups named after the process, the read session | copy-and-commit of one mutation, replacement of the target, cleaning, reloading, recovery at start | a crash at any point; the next worker recovers |
| Worker: open files (`apfs_winfs_worker.cpp` 875-1554, 2991-3345) | one context per open file: path, size, staged data, dirty and delete flags | create, overwrite, write, resize, flush, rename, link, delete, cleanup, close | WinFsp serializes structural calls and locks data calls per file; all share one read session |
| Worker: directories (`apfs_winfs_worker.cpp` 706-955, 1140-1269, 1563-1616, 1991-2175) | the tree on the volume, the path in each context, the marker of a listing | create, open, rename, move, replace, delete at any depth; list in several calls | the reader resolves without case, the writer by exact names |
| Worker: metadata (`apfs_winfs_worker.cpp` 78-222, 557-602, 2344-2901) | attributes, permissions, extended attributes and link target of an inode, copies of some of it in contexts | basic info, security, extended attributes, reparse points | the image commit; contexts of other links of the file |
| SAK APFS core, LZFSE (vendored) | the APFS structures on disk | read a container, commit one mutation | used by the worker, the service's discovery, the probe |
| Probe, self tests, scripts | none | print, test, install, certify | |

Hard behaviour: three kinds of process edit `mounts.json` with no lock and no
atomic replace; a command may be carried out after its sender has given up;
discovery takes seconds between its read and its write; disks come and go at any
time under two names each; workers outlive a crashed service; a worker can die
at any instruction of a commit, and another process decides from file names and
times what to recover; several handles of one file stage data and remember
names, sizes and attributes that other handles change; what WinFsp has been told
about a directory may be old when it acts on it.

What makes each part correct:

* policy: a letter is given out once, a saved policy survives discovery, aliases of one region collapse to one entry whatever their order, discovery settles;
* service: never two workers for one region or one name, mounts converge to what the file asks for, a stop leaves nothing behind;
* commands: success means applied once, a refusal means never applied, no race makes a table start over from nothing, every command ends;
* image commit: after any crash the target is the old or the new image, what was acknowledged stays, recovery always finds one of the two;
* open files: what a handle has flushed is what a later open reads, no call of one handle undoes a call of another;
* directories: a tree stays a tree, a path that is kept does not come to mean another file, a listing omits nothing that stays;
* metadata: what can be listed can be written back, names stay distinct for Windows, a symbolic link has a target and a protected attribute stays.

## 2. The modules

| Module | What it is | Code |
|---|---|---|
| `MountPolicy` | the mount table as a function from target names to entries, and every operation on it as an operator: requests, canonicalization, merge | `apfs_mount_service.cpp` 206-267, 814-1280, 1415-1824 |
| `MountService` | the service process, its workers, `mounts.json`, the disks and the command line; extends `MountPolicy` | `apfs_mount_service.cpp` 1826-2055, 2385-2858 |
| `ControlClients` | command line processes, the socket, the manager, and the service as the other side of both; extends `MountPolicy` | `apfs_mount_service.cpp` 206-267, 1415-2054, 2721-2769; `apfs_mount_manager.cpp` 92-105, 289-640 |
| `DiscoveryLists` | canonicalization and merge as the code has them: two loops over lists of entries in some order | `apfs_mount_service.cpp` 814-1246 |
| `Volume` | the content of a volume (names, inodes, data) and the writer's one-commit mutations | `partition_apfs_writer.cpp`, where the worker calls it |
| `AtomicVolume` | abstract specification: a stored volume that changes by one whole mutation at a time | what the documents promise of an interrupted commit |
| `ImageCommit` | the worker's commits into an image file, its crashes and its recovery; extends `Volume` | `apfs_winfs_worker.cpp` 612-704, 1199-1302, 1643-1880 |
| `FileHandles` | the contexts of open files and the callbacks that use them; extends `Volume` | `apfs_winfs_worker.cpp` 520-550, 875-1351, 1521-1642, 2903-2920, 2991-3380 |
| `Directories` | the tree, paths, the callbacks that change the tree or list it | `apfs_winfs_worker.cpp` 520-550, 766-806, 875-955, 1140-1269, 1563-1616, 1991-2175; reader 2225-2275; writer 1735-1747, 19095-19420, 20534-20698 |
| `Metadata` | attributes, permissions, extended attributes and link target of one file under several open links | `apfs_winfs_worker.cpp` 78-222, 557-602, 2344-2901; writer 19465-19640, 22042-22065 |
| `MCMountService`, `MCControlClients`, `MCDiscoveryLists`, `MCImageCommit`, `MCFileHandles`, `MCDirectories`, `MCMetadata` | instances for TLC: disks, tables, volumes, trees and sets of requests | |
| `MountPolicyProofs`, `MountServiceProofs`, `ControlClientsProofs`, `DiscoveryListsProofs`, `ImageCommitProofs`, `FileHandlesProofs`, `MetadataProofs`, `DirectoriesProofs` | theorems and their proofs; `MountPolicyProofs` holds the lemmas about `MountPolicy` that the next three cite, `FileHandlesProofs` begins with those about `Volume` | |

### State and steps

**MountService.** `file` is the table in `mounts.json`, or `Torn` between the
truncation and the write of `QIODevice::Truncate`. `pc` is where `serviceMain`
stands: waiting for its events, serving a connection, or at one of the points of
a sync (read, scan, save, check, stop, start) and of the supervision that
follows. Those points are the places between which another process, a disk or a
worker can act; what the code does without such a place in between is one step.
`workers` are the `WorkerHandle`s, `procs` the processes themselves: a worker
process that its service has lost (`orphans`) has no handle. `intent` is a
history variable: the policy a request has last saved for a region.

**ControlClients** opens what `MountService` takes as one step of "the command
line". `pc` is where each writer of the file stands, the service among them. A
process starts with rights to write the file or without (`elevated`); a refused
direct edit becomes a connection in `queue` unless the command has no request
(`FallsBack`), and `sent` and `answer` are the two directions of the socket. A
process that waits too long ends with outcome "unknown": the code exits as if
refused, but its message says that no answer came. `TruncateConfig` and
`FillConfig` are the two moments of `writeMountConfig`; what two overlapping
writes leave is one of the tables or something that does not parse. `shown` and
`managed` are the manager: rows it shows may be gone by the time their command
runs.

**DiscoveryLists** computes what `MountPolicy` states. The code walks lists and
keeps the first of several candidates; the table has none of that order. A step
is one round of a loop: `NormalizeEntry` takes the next entry of the file,
`MergeNext` the next volume of the scan; `work` is the list being built, `used`
the letters taken so far. Disks change between passes only, as a pass works on
one scan.
`ListsComputeTables` says that both agree, which is what makes the table a
faithful state of `MountService`.

**ImageCommit.** `target` is the image, `temps` the files beside it (copies in
the making and backups, each with the process identifier and time in its name),
`pc` where the worker stands. `ReplaceFileW` is two steps, because it moves the
image to the backup before it moves the copy to the image; it can fail at
either, and the worker can die at every step. `Recover` takes the newest backup
whose process is gone if there is no image, falls back to older ones when a
rename fails, and `Clean` removes what is left of processes that are gone.
`worker` loses its identifier when it dies; the identifier may be given to a new
worker or to another process. `Durable` is what would be found after a crash
now.

**FileHandles.** `ctx` is the `FileContext` of each handle. A handle that
created or overwrote its file stages its writes until a flush; any other reads
the file (`ReadForChange`), lets go of `ioMutex_`, and commits the whole file
(`CommitChange`). A commit is one step that is carried out or fails, because
`ImageCommit` shows it to be atomic. `Lookup` finds a name of another case when
there is no exact one, and the writer's `Written` does not: that difference is
in the code. `view` is a history variable: what the successful calls on a
handle say the file contains, or `Shared` once another link of its file is open
as well.

**Directories.** `tree` gives each inode its parent, name and kind. Three walks
down a path are kept apart as in the code: the reader's (`ReaderWalks`:
first record of a key), the writer's (`Walks`: exact names), and the
worker's last component (`Resolve`: exact, else first of the key). The `Legal...`
operators are the writer's own checks, which decide whatever the worker has
found; a renamed directory is compared exactly where everything else is compared
by key. A replacing rename of a file may end between its two commits. A context
keeps a path and no inode; `node` in it is what the path meant when it was
resolved. `ReadDirectory` sorts anew on each call and goes on after the marker:
a page is what comes first, in the order of the names, of what is left. Two
history variables say where a path can be trusted: `apart`, as long as no
directory has held two names of one key, and `exact` in a context, as long as it
was opened and renamed by the stored spelling.

**Metadata.** `file` is one inode under two open hard links. A context copies
the flags, the type and the size, and takes them again from the volume after its
own commits. `BeginSetEa`/`EndSetEa` and `BeginReparse`/`EndReparse` are the two
halves between which the mutex is free; `eaLock` is the lock that `setEa` alone
holds across them. `Listed`, `Validated`, `Mutable` and `MayConvert` are the rules
for names, aliases, protected attributes and the change of a file into a link.

### How the modules meet

`MountService` and `ControlClients` share `MountPolicy`: both apply the same
requests to the same table, one with the syncs and workers, the other with the
wire. `MountService` treats a worker as a process that mounts, gives up or dies;
`ImageCommit` treats the service as whatever starts a worker again.
`FileHandles` uses the operators of `Volume` that `ImageCommit` commits;
`FileHandles`, `Directories` and `Metadata` look at one volume from three sides
(data and links of one directory, the tree, the attributes of one inode), each
with commits of one step, which `ImageCommit` justifies.

## 3. The runs

### Properties that hold

| Run | Properties | What it shows |
|---|---|---|
| `service_control` | `TypeOK`, `OneWorkerPerRegion`, `WorkerInv`, `LettersUnique`, `SavedPolicyPreserved`, `StoppedLeavesNoWorker` | while only the service edits the table, no interleaving of requests, syncs, disks, worker exits and stops, and no crash and restart, makes the running service mount a region twice, give a letter out twice, lose a policy or leave a worker when it stops |
| `service_liveness` | `Converges`, `StopCompletes` | once requests, disks and faults cease, the mounts become what the file asks for and stay so; a stop is carried out |
| `control_clients` | `TypeOK`, `AnswersAreTrue`, `TableKept`, `CommandsEnd` | with processes killed, the service stopped and writes that fail: an answer never lies, no race or torn file makes an edit start from an empty table, every command and connection ends |
| `discovery_lists` | `ListsComputeTables`, `SecondPassIsIdle`, `OneEntryPerRegion` | lists in every order give the table of `MountPolicy`; a second pass over the same disks changes nothing; aliases collapse |
| `image_commit` | `TypeOK`, `ImageNeverLost`, `CommitInv`, `RestingKeepsNoCopy`, `OldOrNew`, `AnsweredIsStored` | two threads, every mutation, failures of the writer, of both moves and of removals, two crashes anywhere: `AtomicVolume` is implemented, an answered call is durable, a worker at rest leaves no copy behind |
| `image_recovery` | `Recovers`, `CallsEnd` | also with failing recoveries and reused process identifiers a worker serves the image again, and no call waits forever |
| `handles` | `TypeOK`, `ReadsSeeWrites`, `FlushedIsStored`, `CleanupStores`, `NoOrphans`, `LinksSeen` | a handle that has its file for itself reads back what it wrote across staging, flushing, truncation, renames, links and failed commits; nothing to flush means stored; closing stores; with several hard links open, inodes and names stay matched and a new link is counted in every alias |
| `directories` | `TypeOK`, `TreeInv`, `OnlyWhatWasOpened`, `ListsWhatStays` | whatever two handles create, rename, move, replace and delete, also after an answer to `CanDelete` has become old: every entry hangs from the root once, a handle changes the inode it was opened on, a listing shows all that stayed |
| `metadata` | `TypeOK`, `ListedWritesBack`, `SymlinkHasTarget`, `AttributesAsAsked`, `NoNewCollision`, `ProtectedStays`, `LinksAreMadeOfEmptyFiles` | with commits that fail and handles of two links between each other's halves of a call: attributes read can be written back, no two names collide for Windows, protected ones stay, and a file with data never becomes a link |

### Statements of the documents that the code does not meet

Each of these runs ends with a counterexample; `PROJECT.json` quotes the text.

| Run | Property | The counterexample |
|---|---|---|
| `lost_update` | `SavedPolicyPreserved` | the command line saves a policy during the service's scan; the sync writes the table it read before |
| `rename_replace` | `ReplacedNameSurvives` | the worker dies after the first of the two commits of a replacing rename |
| `case_fold` | `NamesApart` | "a" is opened as "A", overwritten and flushed; the writer inserts a second record of one key |

### Limits of what holds

Some properties hold only with the constants or the premises of their runs, and
the limits are worth knowing:

* `OldOrNew` needs `MaxReuse = 0` and `MaxRenameFailures = 0`. When the
  identifier of the dead worker belongs to another process by now, recovery
  skips its backup and takes a leftover of an earlier commit
  (`apfs_winfs_worker.cpp` 1683). When the newest backup cannot be renamed, the
  loop goes on to an older one that could not be removed earlier (1687).
* `LettersUnique` and `Converges` are checked without requests that add, remove
  or clear mounts while a worker runs. A rediscovered volume gets the letter of
  its running worker even if another entry holds it by now, and the letter of a
  worker that has not mounted yet is not reserved against other new volumes
  (`apfs_mount_service.cpp` 1219): two saved entries then share a letter, and
  one of the volumes never mounts.
* `OneWorkerPerRegion` needs one disk event: a disk that arrives between the
  resolution of aliases and the check of targets (2474) gets a worker for each
  of its names. It also speaks of the running service's workers only: a service
  restarted after a crash starts a second worker beside the one that lives on.
* A process that dies, or whose write fails unnoticed, between truncating
  `mounts.json` and writing it (259-265) leaves a file that no later sync can
  read and no edit but `clear_mounts` repairs; the properties of the table are
  stated for a readable file. A failed write is still answered with success.
* `AnswersAreTrue` says nothing of a client that has given up: its request may
  be carried out later, and it has exited with the code of a refusal.
* `OnlyWhatWasOpened` and `ListsWhatStays` have as premises that names of one
  key are apart, so far, in every directory, and that the handle was opened
  under the spelling on the disk. A handle opened as `\B\a` is not found below
  `\b` when `\b` is renamed, and its path may later reach another file. A volume
  from macOS may have both cases, and a directory renamed over a name that
  differs in case only makes both (`partition_apfs_writer.cpp` 19286).
* `AttributesAsAsked` ends for a handle when another link of its file is opened:
  a call that finds nothing to change compares with its own, old context (2446).

### Bounds

* Service: two disks, one of them known under two names; three letters; one
  request, one change of the disks, one worker fault, one stop and one crash.
  `FirstUsed` gives the combinations that may come together: in
  `service_control` a crash with a request, or the request with a disk, a fault
  and a stop; in `service_liveness` an edit with a disk, or with a fault and a
  stop. Any two actors so meet at any point of a sync.
* Control: two processes, two volumes, two letters of which one is in use, one
  fault (a kill, a stop, or a failed write). Two processes and the service are three
  writers of one file; a process that waits, one that edits and a service that
  ends are the longest chain a property speaks of.
* Discovery: three disks and an image under five names, two of them of one disk;
  every list of up to three of the names, in every order, with several choices
  of running workers and used letters; three passes.
* Image: three names, two contents, three inodes, two threads, three calls,
  three process identifiers, two crashes. One crash leaves a backup, the second
  one finds it; a third would meet the same files.
* Handles: two handles, two names, two inodes, files of one byte of two
  kinds, one failing commit. One byte distinguishes an empty file, a stale and a
  new content, and a gap; `case_fold` uses two bytes.
* Directories: two handles, three inodes, names `A`, `a`, `b` of two keys, six
  paths of up to three names, and three first trees: `/a/b/a`, where a move can
  cut off; `/A` and `/b`, of which one can be renamed to the key of the other and
  where a third entry can be created; `/a/b` and `/b`, two files of which one can
  replace the other.
* Metadata: two handles, six attribute names (two that differ in case only, one
  without a Windows name, one of the file system, the link target and its twin),
  six lists of requests, two first files. A commit may fail at any time, without
  a bound.
* `CHECK_DEADLOCK FALSE` stands in `handles`, `directories` and `metadata`: with
  no file or inode left nothing can be opened or created, and a call that
  changes nothing is no step. All other systems keep going.

### Fairness

* `MainLoop`: the service's thread is scheduled. `RestartService`: the service
  manager restarts a crashed service, as `configureServiceRecoveryPolicy` asks
  (600-626). `CliWrites`: a process that has begun to write ends its write or
  dies. `WorkerMounts`/`WorkerGivesUp`: a started worker mounts or ends.
  `CooldownElapses`: time passes.
* `ClientStep`, `ServiceStep`: each process and the service's loop are
  scheduled, and their waits end after three seconds (1826-1894, 2732-2769). A
  stopped service need not start again.
* `Starting` and `Committing`: a worker is started again and its threads run;
  `OtherProcessExits`: a foreign process with a reused identifier ends some time.

Crashes, failures, kills, requests, disk events and edits are never fair.

## 4. What is proved

TLAPS proves, for every value of the constants (any number of disks, names,
processes, threads, calls, handles, inodes, and any bound):

| Theorem | Statement |
|---|---|
| `MountServiceProofs!TypeCorrect` | `Spec => []TypeOK` |
| `MountServiceProofs!WorkerInvHolds` | `Spec => []WorkerInv` |
| `MountServiceProofs!OneWorker` | `Spec => []OneWorkerPerTarget` |
| `MountServiceProofs!StopKillsWorkers` | `Spec => []StoppedLeavesNoWorker` |
| `MountServiceProofs!RegionsServedOnce` | `Spec /\ [][NoArrivalBeforeCheck]_vars => []OneWorkerPerRegion` |
| `MountServiceProofs!OneWorkerEachRegion` | `OneNameEach`: `Spec => []OneWorkerPerRegion` |
| `MountServiceProofs!LettersStayApart` | `OnlySettings`: `Spec => []LettersUnique` |
| `MountServiceProofs!PoliciesKept` | `OnlyTheService`, `OneNameEach`: `Spec => []SavedPolicyPreserved` |
| `DiscoveryListsProofs!TablesComputed` | `Spec => ListsComputeTables` |
| `DiscoveryListsProofs!PassesSettle` | `Spec => SecondPassIsIdle` |
| `DiscoveryListsProofs!RegionsListedOnce` | `Spec => []OneEntryPerRegion` |
| `ControlClientsProofs!TypeCorrect` | `Spec => []TypeOK` |
| `ControlClientsProofs!Truthful` | `Spec => []AnswersAreTrue` |
| `ControlClientsProofs!TablesKept` | `Spec => []TableKept` |
| `DirectoriesProofs!TreeKept` | `Spec => []TreeInv` |
| `DirectoriesProofs!DirectoryTypes` | `Spec => []TypeOK` |
| `DirectoriesProofs!ListingsComplete` | `Spec => []ListsWhatStays` |
| `DirectoriesProofs!OnlyTheOpened` | `Spec => OnlyWhatWasOpened` |
| `ImageCommitProofs!TypeCorrect` | `Spec => []TypeOK` |
| `ImageCommitProofs!CommitInvHolds` | `Spec => []CommitInv` |
| `ImageCommitProofs!ImageKept` | `Spec => []ImageNeverLost` |
| `ImageCommitProofs!NothingKept` | `Spec => []RestingKeepsNoCopy` |
| `ImageCommitProofs!AnswersStored` | `Spec => AnsweredIsStored` |
| `ImageCommitProofs!CommitsAreAtomic` | `MaxReuse = 0 /\ MaxRenameFailures = 0`: `Spec => OldOrNew`, the refinement of `AtomicVolume` |
| `FileHandlesProofs!TypeCorrect` | `Spec => []TypeOK` |
| `FileHandlesProofs!InodesKept` | `Spec => []NoOrphans` |
| `FileHandlesProofs!NewLinksSeen` | `Spec => LinksSeen` |
| `FileHandlesProofs!HandlesReadWrites` | `DistinctKeys`: `Spec => []ReadsSeeWrites` |
| `FileHandlesProofs!FlushedStays` | `DistinctKeys`: `Spec => []FlushedIsStored` |
| `FileHandlesProofs!CleanupKept` | `DistinctKeys`: `Spec => CleanupStores` |
| `MetadataProofs!TypeCorrect` | `Spec => []TypeOK` |
| `MetadataProofs!LinksHaveTargets` | `Spec => []SymlinkHasTarget` |
| `MetadataProofs!AttributesStay` | `Spec => []AttributesAsAsked` |
| `MetadataProofs!ListsWriteBack` | `Spec => []ListedWritesBack` |
| `MetadataProofs!NamesStayDistinct` | `Spec => NoNewCollision` |
| `MetadataProofs!ProtectedStay` | `Spec => ProtectedStays` |
| `MetadataProofs!LinksWereEmpty` | `Spec => LinksAreMadeOfEmptyFiles` |

The assumptions are the named `ASSUME`s of the modules: constants of the right
kind, `None` outside of them, a finite order of the names that a directory lists, and first tables, trees, volumes and files that are
well formed. TLC evaluates them in every run. Eight theorems have a hypothesis
besides, seven of them on the constants; each is needed, and TLC has a behaviour
without it:

* `MaxReuse = 0` and `MaxRenameFailures = 0`: otherwise recovery may put an older
  backup in place (section 3, limits). The constants of `image_commit` have it.
* `NoArrivalBeforeCheck`: while a sync is between its scan and its check of
  targets, disks only leave. With two names of a region in the table and a disk
  that arrives just then, both names get a worker (section 3, limits).
* `OneNameEach`: the first tables have one name for each region, and `add_mount`
  is not called for a name whose region has another. Two names of a disk that is
  away hold two policies, of which canonicalization keeps one when it is back.
* `OnlyTheService`: no direct edits of the command line. `lost_update` shows what
  they do to policies.
* `OnlySettings`: `OnlyTheService`, requests of the service that set a letter, a
  policy or the enabled flag, and first tables with distinct letters. Two edits
  that remove a mount below its running worker suffice to give a letter twice.
  The constants of `service_control` have the last three.
* `DistinctKeys`: no two names have one key. A file that is opened in another
  case is written under that case, and `case_fold` shows the second record.
  The constants of `handles` have it. The types, `NoOrphans` and
  `LinksSeen` do not need it.

*Policy.* `MountPolicyProofs` holds what the others cite: canonicalization, merge
and requests, which pick entries and letters by `CHOOSE`, give tables again. Each
entry after canonicalization comes from one old entry (`CanonicalEntry`), under
its own name or the one the scan gives its region, and none is taken twice; what
counts as new has no entry under any name (`NewRegionHasNoEntry`). So a pass
leaves one entry for each region that is there (`DiscoveryResolves`), no region
loses all of its entries, and one that had its region for itself is kept as it is.
Two new volumes get two letters because each skips as many free letters as there
are volumes ahead of it (`ChoicesDiffer`), a count that needs finite sets.

*Lists.* With one round of a loop in a step, what the loops compute is an
invariant and needs no induction over lists. `Collected` says of the first loop
that each candidate is an entry's, that each entry seen has one for its region,
a partition its own, and that no region has two; after the last entry that
determines the canonical table (`CollectedIsCanonical`), whatever the order was.
`TableInv` says of the second that the list is the final table without the
regions still to do. The two ways to choose a letter meet in it: the code takes
the largest free one, the table the k-th largest for the k-th volume; they agree
because the letters handed out are always the largest of those that were free,
as many as volumes were served (`NextLetter`). `Settled` is what a pass leaves:
canonical names, one entry for each region that is there, and every volume
listed unless no letter is left. The next pass over the same disks then keeps
each entry and adds none.

*Service.* `OneWorkerPerTarget` is not inductive: a start adds a process without
looking at the processes there are. `WorkerInv` says why none can be there: each
process of the running service has the handle of its target, handles are unique
per target, and by the time a sync starts workers every remaining handle agrees
with the table, so `HasWorker` is a test of the target; what supervision restarts
has exited. `StopKillsWorkers` adds that a service that reports "stopped" has no
handles and starts nothing, so that every live process is one of the orphans.

For regions the same argument needs that the table from which workers start has
one name for each (`RegionInv`): stopping compares whole configurations, so what
remains when workers start has names of that table only. `DiscoveryResolves`
gives it at the scan; it stays true until the check if no disk arrives, which
would make two names of one region that the scan could not compare both wanted.

While the service is the only writer, the loop works on what the file holds or
on what it has just written (`WriterInv`). `LetterInv` adds to distinct letters
that every region with a worker has an entry: an entry that discovery adds then
never has a worker to copy the letter from, and a letter it chooses is in use by
nobody. `PolicyInv` says of each table, in the file or on its way there, that it
holds the policies last asked for, apart from the names being changed; it needs
one entry for each region, because with two the pass may keep the other one.

*Commands.* `AnswersAreTrue` speaks of ends, so the invariant says at every point
of a process how often its table has been written: never up to the fill, once
after it, and, for a process in the queue, only by the service while it stands at
that process. It needs that a process is in the queue at most once and only
with a request that has not been answered. `TableKept` is carried by the same
claim for tables in the making: what a writer holds was computed from a file
that parsed, so it contains what nobody was told to take out; a process that
finds `Torn` computes nothing.

*Directories.* A tree is `Rooted` when each parent is a directory that is there
and each non-empty set of entries has one whose parent is outside of it. For the
move of a directory `i` into `to`, a closed set with `to` and without `i`, which
`~IsOrContains` provides, gives the member whose parent is outside; the other
changes are simpler. The lemmas hold for any inodes that pass the writer's
checks, so they do not depend on how a path was resolved: that is why an old
answer of `CanDelete` or a wrong spelling cannot break the tree.

What a path means is stated without a walk: `Leads(t, p, i)` if there is a chain
of entries from the root to `i` whose names are `p`. In a sound tree a path leads
to one inode (`OneInode`) and an inode has one path (`OnePath`): two chains that
end at one entry go up together, and the one that is at the root first ends both,
or the entries between would hold each other. From this follow what a change does
to other paths (`KeptByAdding`, `KeptByRemoving`, `KeptByMoving`: only the path
that was moved and those below it change), that the reader finds what the writer
finds while the names of one key are apart (`ReaderAgrees`), and `PathInv`: the
name of a handle leads to what was opened under it. That needs `NamesInv`, that
two handles have two names, and with `Unused` and `UnusedBelow` the sharing rules
of WinFsp. With `PathInv`, `OnlyWhatWasOpened` is a matter of one step. `ListInv`
says of a name that has been there from the first call on and was not shown that
it comes after the marker and that the listing has not ended.

*Image.* `TypeOK` is not inductive on its own (the head of an empty list of
mutations is no mutation, and a backup without content is no image), nor is
`ImageNeverLost`: `CommitInv` says at each point of a commit which files there
are. The finished copy is there until it is moved; the backup is there while
there is no image; recovery leaves an image or backups. It needs no assumption
on process identifiers: wrong choices of recovery lose a generation and
never the image.

What recovery restores depends on the order of the copies. `StoreInv` says that,
as long as no identifier was reused and no rename failed, the image is newer than
every backup and no two backups are of one time, so that the newest backup is the
image the worker died with; `ProcsInv` says that every other process with an
identifier is gone, so that recovery sees them all. With both, `Durable` changes
in the step that moves the finished copy only, or in the one that finds it
again, and that step is one mutation of `AtomicVolume`. `RestInv` names the files
there may be at each point of a commit in which nothing failed; `AnswerInv`
carries the mutation of the caller from the writer to the answer.

*Open files.* `Consistent`, that inodes with data are those with names and the
next inode is new, is kept by every legal mutation of the writer
(`WrittenConsistent` and the lemmas after it), whatever the worker has resolved:
that gives `NoOrphans`. Types need that a change was read for with a size that
fits. For the data, the invariant says of each handle that its path still leads to its inode (`OpenInv`);
that, if nobody else has the file, what the calls said is staged, or stored, or
in hand for a change that has been read for (`OwnInv`); and that two handles with
one inode have both been marked as shared (`Apart`): without it a write through
one link would break the claim of the other.

*Metadata.* `SymlinkHasTarget` is inductive with the types. `NoNewCollision`
needs that the names a call has read are those there are when it commits
(`CallInv`): every other step that changes names holds the lock, except for the
ones that change content-critical names, which the property and the list leave
out. The list itself is checked entry by entry, and the argument is by the
smallest counterexample: of the entries that would make two names collide the
first one finds the other name there, and is refused. `MetadataProofs!SmallestNat`
and `LargestNat`, which cite the well-foundedness of the naturals for a set, serve
where an induction over the list would.

Only model-checked:

* liveness and everything that depends on fairness: `Converges`, `StopCompletes`,
  `CommandsEnd`, `Recovers`, `CallsEnd`. Every other property of a run that holds
  is stated by a theorem, seven of them only under a hypothesis
  listed above.

## 5. What is not modelled

* Service: decoding MBR and GPT and the arithmetic in it (discovery starts from
  the regions the scan reports); installation, recovery policy and logs, which
  are sequences of calls to Windows; commands that only print.
* Manager: window, tray icon, single instance, texts.
* Image: raw devices, which the writer changes in place; two living workers on
  one image; directory, metadata and attribute commits as calls of their own
  (they take the modelled path); the disk layout below a whole mutation.
* Open files: read-only mounts (every change is refused at its first line); a
  reload that fails after the commit was stored, which answers an error for a
  stored change (`ImageCommit` has it); stages in files, which only raw devices
  use. That WinFsp keeps one context for all opens of a name, renames no
  directory over open files and calls nothing but `Close` after `Cleanup` is an
  assumption (`MayOpen`, `InUse`, `Unused`, `UnusedBelow`).
* Directories and metadata: times, security descriptors beyond the mode, the
  text of reparse buffers, how alias names are spelled, hard links across
  directories, failing commits of directories (`ImageCommit` and `FileHandles`
  have them).
* Probe, scripts, self tests, LZFSE, the inside of the SAK core beyond the checks
  that the modules name.

## 6. Plan

Done, in this order because the service decides whether bytes have one writer
and the commit whether they survive: `MountPolicy`, `MountService`,
`DiscoveryLists`, `Volume`, `AtomicVolume`, `ImageCommit`, `FileHandles`; then
`Metadata`, `Directories` and `ControlClients`, with the proofs of the last two.

Then the proofs of `FileHandles`, `Metadata` and all of `Directories`, and
`OldOrNew` step by step.

Then the properties of `MountService` that relate regions, letters and policies,
and `DiscoveryLists` against the operators of `MountPolicy`, for which its loops
became steps.

Later, models: `WorkerFleet` (two workers on one image after an orphaned start,
`ImageCommit` twice over one set of files) and `RawCommit` (the writer's order of
block writes on a device and what a reader finds after an interruption).
