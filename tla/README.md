# A TLA+ model of the Aos core library

This directory holds TLA+ modules for parts of the Aos core library, TLC
configurations that check them on small instances, and proofs of some of their
properties that TLAPS checks. Paths below are relative to `src/core/` of the
repository. `PROJECT.json` lists components, runs, theorems and hazards, and for
each definition the source lines it models.

## The system

The library implements three services of an edge unit. The communication manager
(CM) takes a *desired status* from the cloud, downloads the update items it
names, has the service managers (SM) of the nodes run their instances and reports
a *unit status* back. The identity and access manager (IAM) keeps certificates,
permissions and the provisioning of nodes. All of them use the common tools:
threads, timers, containers, a space allocator.

| Component | State | Operations | Hard part | Correct when |
|---|---|---|---|---|
| Desired status handler, `cm/updatemanager` | update state, current and pending status, cancel flag; state and status in storage | Start, Stop, ProcessDesiredStatus, worker thread | a new status, Stop or a crash at any step of an update that works unlocked | what is launched was downloaded; the newest status wins and survives a restart |
| Unit status handler, `cm/updatemanager` | the status being built, connection and processing flags, delta timer | full status, five listeners, connect, disconnect, timer callback | the full status is collected without the lock by two threads | the cloud ends up with every part as it is |
| Image manager, `cm/imagemanager` | items in storage, blobs on disk, `mInProgress`, `mCancel` | download, install, cancel, remove outdated items, remove item | long operations without the lock; the timer and the space allocator remove under them; retries without end | one version installed, what is reported is there, cancels arrive |
| Thread pool, `common/tools/thread.hpp` | queue, pending counter, shutdown flag | AddTask, workers, Wait, Shutdown, Run | two condition variables, notifications outside the lock | no task or wakeup is lost, Wait means done |
| Timer, `common/tools/timer.*` | registered timers, threads | Start, Stop, Restart, service thread | threads started with the first timer and joined with the last | a registered timer fires, Stop does not hang |
| Space allocator, `common/spaceallocator` | allocation count, outdated items, limits | allocate, free, accept, release, resize, add and restore outdated items | locks of allocator and partition against the lock of the item remover | what was promised is accounted for |
| SM image manager, `sm/imagemanager` | items in storage, blobs and layers on disk, digests in progress | install, remove, cleaning thread, removal for the allocator | pool threads install items that share layers while space is reclaimed | an installed item is whole, the storage can be read |
| SM launcher, `sm/launcher` | instances in memory, in storage and in the runtimes, launch flag | launch, Start, Stop, reboot thread, offline TTL | a launch works in a pool without the lock; every other thread waits for it | what runs is known, what is stored can be started again, every call ends |
| CM launcher, `cm/launcher` | nodes, statuses expected, five change flags | run instances, worker, node infos and statuses, Stop | a balancing gives the lock up to wait for nodes; three condition variables | requests return, every change is balanced |
| CM node info provider | node states with a timeout for the SM connection | | | |
| IAM certificate handler, provision manager | keys and certificates per module | create key, apply, renew, provision | limits, partial failure | storage and database agree |
| Others (crypto, PKCS #11, OCI, monitoring, parsers, interface headers) | mostly data | | | |

**Interactions.** The cloud calls `ProcessDesiredStatus`. The worker of the desired status
handler calls the image manager (download, install), the unit config, the node
handler and the launcher, and `SendFullUnitStatus` when an update ends; its API
threads call `ImageManager::Cancel`. The launcher, image manager and node info
provider call listeners of the unit status handler, whose delta timer runs on
the invocation threads of the timer service, a thread pool. The image manager
allocates space and is called back by the allocator to remove items. The CM
launcher sends requests to nodes; the SM launcher of a node takes them, has the
SM image manager remove and install items in its pool, and reports statuses, which
come back to the CM launcher as messages.

## Modules

| Module | Models |
|---|---|
| `DesiredStatusHandler` | the desired status handler with its storage, the worker thread, crashes |
| `ImageManagerGate` | `StartAction`, `StopAction`, `Cancel`: the gate of the image manager, and the abstract specification of when an operation may run |
| `UpdateManager` | the desired status handler composed with the gate |
| `ImageManager` | what downloads, installs, the timer and the space allocator do to stored items and blobs, behind the gate |
| `UnitStatusHandler` | the unit status handler, the connection, the delta timer |
| `ThreadPool` | the thread pool |
| `SpaceAllocator` | the partition of the space allocator, as operations of the module that uses it |
| `SmImageManager` | the SM image manager on top of `SpaceAllocator` |
| `SmLauncher` | the SM launcher with its pools, the reboot thread and the offline TTL timer |
| `CmLauncher` | the CM launcher with its node manager |
| `*Proofs` | proofs about the module of that name |
| `MC*` | constants and symmetry for TLC |

State variables carry the names of the C++ members. The mutexes are not
variables: what runs under one is one step, and where a locked section has to be
split (because a crash or an unlocked reader can see the middle) a predicate says
who holds it (`LockFree`). What a thread does without the lock is as many steps
as there are accesses to shared state. A condition variable is the position of
the thread blocked on it ("asleep", "blocked", "timed"), and a notification moves
that thread; a notification nobody waits for is lost, as in the code.

* **DesiredStatusHandler.** A status is an opaque value. `ProcessDesiredStatus`
  is three steps, split where it writes the storage, so that a crash can fall
  between them. The worker is `WaitSleep` ... `Finish`; `BeginAction` and
  `ActionReturn` stand for the unlocked calls into the other components.
  `ResumedUpdateIsDownloaded` and `OnlyDownloadedProceeds` use two ghosts:
  `prepared`, the status whose download completed last, and `mixed`, how a
  status came to be paired with the progress of another one.
* **ImageManager.** An operation is a sequence of loops over a read of the
  storage (`phase`, `todo`), one item per step. The blobs of an item are there,
  intact, or not. The timer holds `mMutex` from `RemoveOutdatedItems` to
  `WipeOrphanedBlobs`; its reads and removals are separate steps because the
  operations do not hold `mMutex`. `RemoveItem` is the call of the space
  allocator when its own limit is exceeded. `Corrupt` damages blobs between
  operations.
* **UnitStatusHandler.** A part of the status is absent, new (what its provider
  has) or old. `SendFullUnitStatus` runs in two threads, one step per access to
  `mUnitStatus`.
* **ThreadPool.** One step per section between locking and unlocking.
  `AddOversizedTask` is the `AddTask` whose `Capture` fails after the push.
* **UpdateManager** extends `DesiredStatusHandler` and instantiates
  `ImageManagerGate`: download and finalization are calls into the gate, and the
  cancels of Stop and of a new status are calls of its `Cancel`.
* **SpaceAllocator** and **SmImageManager.** Whether a size fits is left open, so
  an allocation succeeds, fails, or first has any number of the oldest outdated
  items removed, each of which may fail; the allocator has no limit of its own.
  The two mutexes are variables here (`imMutex`, `partMutex`), since threads hold
  one while they wait for the other. A blob file is absent, bad, good, or the link
  of an unpacked layer. An installation is one step per access to shared state;
  the blob download runs in its own steps, so two threads can be at one file.
  A layer is marked by the digest of its blob and unpacked to the directory of its
  diff ID (`DiffID`), as in the code (`sm/imagemanager/imagemanager.cpp:660`, `:596`),
  so blobs of one diff ID share a directory and have marks of their own. Unpacking is one
  step, and equal diff IDs are equal contents. The unpacked size may be unknown: nothing
  is allocated then, and `CreateLayerMetadata` resizes a null Space (`:565`), which ends
  the process (`ResizeNoSpace`). Storing an item that needs room is one step for each of
  removing the old item, adding the new one, removing the orphans and freeing, so a crash
  can fall between them; removals and additions themselves do not fail. `Restart` is the
  end of the process, orderly or by a crash, and a new one: files and storage stay,
  memory goes. Stop and Start of one object is not modelled: Start (`:83-115`) never
  lowers `mClose`, so the cleaning thread would end at once. The manifest and config
  blobs of an item are one digest. The history `disturbed` names the installing threads
  that lost a layer they had come to.
* **SmLauncher.** The version of an instance stands for all its parameters. A task
  of a pool is one step, in any order. The runtimes, the image manager and the
  network manager are external: a call succeeds or fails, and the failures of
  `AddTask`, of the runtime lookup and of the networks are failures of the task.
  The storage does not fail. TTLs expire together. After a crash nothing runs until
  Start. Requests come only while the launcher runs. The histories `failed`,
  `broken` and `left` name the instances and items a property excuses; `raced` says
  that a launch began while Stop was using the pool. An expired instance that its runtime
  does not stop may stay active, and the TTL timer is then armed again and again.
* **CmLauncher.** Every step holds `mUpdateMutex`; `balancing` is the owner of
  `mBalancingMutex`, which is kept over the waits. A balancing fails or sends
  requests to some nodes and waits until all have answered or the timeout ends the
  wait. Nodes join, leave, connect and disconnect, and a status may be rejected.
  `dirty` remembers the changes no balancing has seen, `unnoticed` that a node
  became connected without a notification.

## What is checked

| Run | Instance | Distinct states | Shows |
|---|---|---|---|
| `update_manager` | 3 statuses, downloads that may retry for ever | 114 744 | what proceeds was downloaded (`OnlyDownloadedProceeds`), a new status cancels (`NewStatusCancels`, `CanceledUpdateStops`), storage lets a restart resume the newest status (`StorageFollowsState`, `AcceptedIsDurable`), the cancel of Stop reaches the download (`StopReachesDownload`), Stop ends and a status is picked up (`UMStopTerminates`, `UMPendingIsPickedUp`) |
| `image_manager` | 2 callers, 3 update items, 2 of them versions of one | 3 439 636 | exclusion, no lost wakeup, `OneVersionInstalled`, `ReportedIsDownloaded`, `InstalledIsIntact`, `InstallConverges` |
| `unit_status` | 2 parts, 2 threads, 2 callback threads | 285 671 | `QuietMeansReported`, `DeltaIsScheduled`, `DeltaIsSent` |
| `thread_pool` | 3 workers, 3 tasks (1 oversized), queue of 2 | 43 859 | the counter, wakeups, Wait, Shutdown |
| `sm_image_manager` | 2 installing threads, 4 items (2 versions with a common layer, a service with another blob of its diff ID, a component), 3 calls | 3 465 482 | `CountCoversSpaces`, `LayerInstallExclusive`, `StoreBounded`, `LayersUnlessDisturbed` |
| `sm_launcher` | 2 instances of a service, a preinstalled component, 2 calls | 430 494 | `RunsKnown`, `StoredIsInstalled`, `CallsEnd`, `OfflineStops` |
| `cm_launcher` | 2 nodes, 3 calls and messages | 208 994 | only known nodes are waited for (`CLTypeOK`), `RunReturns`, `ChangesAreBalanced` |

**Bounds.** Three statuses are one being worked on, one pending and one that replaces it;
crashes and restarts are unbounded. Two versions of an item and another item let
one item of a request fail while the other succeeds and an old version stand
next to a new one. Two callers are the one in progress and the one blocked. Two
parts suffice for a status that is cleared between them. Three workers and two
tasks that fit leave a worker asleep while another is woken. In `ThreadPool`
`MaxDropped` and `MaxEmpty` bound the ghost counters, in the guards of `Shutdown`
and `AddOversizedTask`. `MaxCalls` bounds the calls, messages and faults from
outside in `SmImageManager` (requests and restarts), `SmLauncher` and
`CmLauncher`: three calls are two installations and a removal, restart or third
installation while they run; two are a launch and a Stop, a crash, a disconnect or
a second launch; three are a request, and a node that leaves, connects or changes
under it, before a Stop. Limits of one version and two stored items let the store
overflow in both ways, an outdated list of one lets it be full; that a later outdated
item cannot be removed after an earlier one was needs a list of two, and is covered by
the theorem `CountSafe` only. All sized blobs of the run are layers. Those three runs do
not check for deadlock: the calls run out, and in `SmImageManager` the lock cycle
described below is reachable.

**Fairness.** The worker of the desired status handler has strong fairness: it is one
thread, it is scheduled, and it gets `mMutex` when that is free again and again.
A call that holds the lock runs to its end (weak fairness). In `UpdateManager` a
download need not end by itself; it ends only when it sees `mCancel`, since the
code retries for as long as the cloud does not answer. Threads inside the unit
status handler go on and a registered timer fires; pool threads and their tasks
end. In `CmLauncher` the requesting thread and the worker have strong fairness: each
takes `mBalancingMutex` in turn and gets it when it is free again and again; no
fairness is assumed of nodes, so a wait for statuses ends by its timeout and a wait
for connections need not end. In `SmLauncher` every thread and every task of a pool
goes on (weak fairness), and an armed timer fires; the thread in Stop has strong
fairness, since a runtime that never stops an expired instance has the timer fire again
at least a millisecond after each handling, and Stop, which is notified, gets `mMutex`
in between. Nothing is assumed of the cloud, of crashes or of listeners: where
notifications without end would defeat a timeout, that is a stated premise of the
property (`UMPendingIsPickedUp`, `DeltaIsSent`, `WaitReturns`).

## Disagreements found

Each is a run whose single property TLC refutes.

* `resume_race`: a status that arrives after Start has resumed an update and
  before the worker picks it up is installed or launched without a download
  (`desiredstatushandler.cpp:194`).
* `dropped_status`: the cancel meant for the old status stays in `mCancel` when
  the old download ends by itself, and cancels the download of the new status,
  whose update then ends in None (`imagemanager.cpp:1420`).
* `reconnect_unanswered`: `mIsStatusProcessing` stays set after a failed full
  status, and is still set after one that went to a lost connection; the next
  connection gets no full status (`unitstatushandler.cpp:373`).
* `canceled_installed`: a cancel during the verification of stored items marks an
  intact installed item as failed (`imagemanager.cpp:731`).
* `cm_lost_wakeup`: a status that `UpdateRunningInstances` rejects makes its node
  connected and returns before the notification, so a thread in
  `WaitAllNodesConnected` sleeps on (`cm/launcher/launcher.cpp:627`).

A crash between the two stores of `ProcessDesiredStatus` is the other way to run
a status that was not downloaded; `OnlyDownloadedProceeds` names it as its second
exception. `SmImageManager` has two states from which threads never get out:
`Partition::Allocate` waits for the image manager's mutex under the partition's while
`RemoveUpdateItem`, the cleaning thread or `StoreUpdateItem` wait the other way round,
and `AddOutdatedItem` on a full list calls back into the mutex its caller holds. The
second, and the first by way of `RemoveUpdateItem`, take four calls (an item is
installed and removed, another installed, and one more removed); the run allows three
and reaches the cycle through the cleaning thread and the store. No text of the repository is refuted by
them, so they have no run of their own.

Blobs of one diff ID are the exception in `LayersUnlessDisturbed`: while one
installation is past its layer, that of the other blob may clear the common directory
(`:602`) or remove it on an error (`:726`), and the first item is stored all the same;
items stored earlier lose the directory, too, until `HandleItemsIntegrity` finds them
broken. The other half of the exception is RemoveOrphans, which takes the layers of an
item not yet stored. Without either half TLC refutes the property. Other known
weaknesses are premises or exceptions of properties, or
are listed as hazards in `PROJECT.json`.

## What is proved

Every safety property that a passing run checks is a theorem: all invariants, and the
action properties `CanceledUpdateStops` and `LayersUnlessDisturbed`. The theorems hold for
every value of the constants that satisfies the named assumptions of the modules:
special values (`NoStatus`, `Absent`, `NoThread`, `None`, ...) are not members of the
sets they are used beside, the threads are finite in number, bounds are natural numbers
and limits of arrays positive, there is an item, an item starts with a manifest that is
no layer, a unit status has a part, requests name instances, and the cloud connection
does not run in the worker of the desired status handler. The runs evaluate them.

No property is inductive by itself. For each component the proof states an invariant as
a conjunction of named parts, shows that the initial states have it and that each action
keeps it, one step per action and part, and reads the properties off. TLC has checked
the invariants on the instances of the runs (that of `SmImageManager` with two calls,
that of `SmLauncher` with three, 6 046 678 states).

* **DesiredStatusHandlerProofs**: `TypeCorrect`, `DownloadedSafe`, `CancelSafe`,
  `StorageSafe`, `DurableSafe`. `OnlyDownloadedProceeds` is not inductive: a crash takes the
  memory away, so the pairing of status and progress has to hold in storage as
  well. The invariant `IInv` adds where the worker can be in which state
  (`WorkerInv`), what the flags say about each other (`FlagsInv`), that storage
  is ahead of memory only by the Downloading of a newer status (`StorageInv`), and
  that stored state and stored status belong together (`PairingInv`). `CanceledSafe`
  is an action property: of the steps that change the state of an update under way, only
  `PassPending` does not look at the cancel flag, and `PairingInv` says when it may meet it.
* **UpdateManagerProofs**: `ImplementsHandler`, every step of the composition is a
  step of the desired status handler or leaves it alone, so `HandlerSafe` carries
  the handler's theorems over. `StopReaches` needs `ReachInv`: the worker is in the
  image manager only in an action that calls it, and a download that has not started
  yet is canceled by Stop like one that runs.
* **ImageManagerProofs**: `GateExclusion` and `GateWakeup` hold of the gate, for any
  number of callers; the parts of `GateInv` need each other, since exclusion rests on
  `mInProgress` telling the truth. `ImplementsGate` shows each step of the image manager
  to be a step of its gate or none, and carries both results over (`Exclusion`,
  `Wakeup`). `OneVersionSafe` needs `VersionInv`: while other versions are being
  removed, those still installed are in `todo`; after that none is left, so what
  is installed then meets no other version. `TypeCorrect`, `ReportSafe`, `IntactSafe`
  and `ConvergenceSafe` rest on `StateInv`. An operation works on what it has read
  before (`storedItems`), so `SyncInv` says how far that is still true beside the timer
  and `TimerInv` what the timer may take: never what is or may become installed.
  `RemovedInv` is the link between the two calls: a download that ends well leaves no
  requested item marked as removed, so the timer leaves alone what the install that
  follows relies on. `IntactInv` and `InstallInv` follow the loops of the download and
  of the install, with the items still to visit excepted.
* **UnitStatusHandlerProofs**: `TypeCorrect`, `DeltaSafe`, `QuietSafe`. A part that is
  held is sent by whatever is under way, so `HeldInv` says which threads and timers
  still count; a part the cloud does not know is either to be collected or held as it
  is now, so `KnownInv` says who has still to set it, and `FreshInv` that what is
  collected does not get out of date unnoticed. OnConnect sends nothing while a
  status is in the making: for the worker's status both facts have to survive a lost
  connection (`HeldByUpdateInv`, `FreshByUpdateInv`).
* **ThreadPoolProofs**: `TypeCorrect`, `CountSafe`, `WaitSafe`, `WakeupSafe`.
  `AwaitedInv` says where the tasks of a Wait are (queued or with a thread); with
  the counter, a zero count leaves none.
* **CmLauncherProofs**: `TypeCorrect`, with the part that only known nodes are
  waited for, and `DownExpectsNothing`. The two need each other: a Start builds the
  list of nodes anew, so nothing may be expected from before.
* **SmLauncherProofs**: `SLTypeCorrect`, `RunsSafe`, `StoredSafe`. What a task, a mark
  or a crash does depends on how far the launch has got, so the invariant says what it
  has done by then. `LockInv` and `PoolInv`: the launch and the offline TTL handler
  exclude each other by `mLaunchInProgress`, the launch and Stop because
  the second `Run` of a pool fails. `TaskInv`: the pool holds only tasks of the
  present phase. `StopInv`: when the pool has run dry, what was to be stopped is
  stopped and inactive, or has failed. `KeepInv`: the launch removes no item that an
  instance to start needs, and what it does not stop keeps its version. `SyncInv` and
  `FirstInv`: storage and memory agree on the services once these were launched, and the
  first launch is that of the storage. `ItemsInv`: later launches have their items
  before they remember an instance. A crash keeps only storage and items, so
  `StoredIsInstalled` has to hold between any two of these steps.
* **SmImageManagerProofs**: `CountSafe`: a Space is handed out with a count of its own
  and given back with one; the count may be too high (`ResizeSpace` counts twice) but
  never too low, whatever the number of threads. `LayerExclusion` needs `MarkInv`: a
  thread inside `InstallLayer` has its digest in `mInProgressBlobs`, and no other removes
  it. `SMTypeCorrect` and `StoreSafe` rest on `StoreInv`: the thread that is about to
  store an item holds `mMutex`, so the item is still not stored (`HolderInv`), and an
  item is stored once; between removing the old item and adding the new one there is room
  (`RoomFor`). `LayersSafe`, an action property, rests on `LayerInv`: a layer an
  undisturbed thread has installed stays valid, because another thread that comes to the
  same blob finds it valid and leaves it, and one that comes to another blob of its
  directory disturbs the thread when it removes anything there (`IntactInv`); the layer
  about to be linked is unpacked (`UnpackedInv`), and an item is stored after its last
  part (`LastInv`). The lemmas before them say what `Keep`, `Drop`, `Put` and `Oldest` do to a
  sequence. `Keep` is `Array::Erase` for all positions but a given set: it is defined by
  the rank of a position instead of a recursion, so that it can be reasoned about.

Only model-checked: everything about liveness (`UMStopTerminates`,
`UMPendingIsPickedUp`, `DeltaIsSent`, `ShutdownEnds`, `QueuedIsTaken`, `WaitReturns`,
`RunReturns`, `ChangesAreBalanced`, `CallsEnd`, `OfflineStops`), which is out of the
prover's reach, and the five refutations, which are single behaviours.

## Not modelled

* Failures of the storage (logged and ignored by the code), of thread creation
  and of subscriptions.
* Sizes, partial downloads, checksums and decryption of blobs; the blobs of
  different items are disjoint in the CM image manager. With sizes go the limits of
  single allocators.
* The arrays `usedBlobs` and `usedLayers` of the SM image manager
  (`sm/imagemanager/imagemanager.hpp:116`): with more stored items than they have room
  for, RemoveOrphans would take files in use.
* Full arrays in the listeners of the unit status handler
  (`unitstatushandler.cpp:230-233`, `262-265`, `304-309`, `318-321`, `354-357`), which
  return without starting the timer, and the empty entry that `SetUnitConfigStatus` has
  added when its provider fails (`392-398`).
* Calls of `InstallUpdateItems` of the CM image manager that no download of the same
  items precedes. The code accepts any list at any time (`imagemanager.cpp:196-233`);
  that the list was downloaded is an assumption on the caller (`prepared`), which the
  desired status handler keeps except in the cases `resume_race` and the crash above.
* Whether a desired status needs an update, and the contents of statuses.
* What a balancing decides (runtimes, resources, priorities, the unit's instance
  storage): a search over data with unit tests of its own, in which no second
  thread takes part.
* The registration and the threads of the timer service, and with it the join of its
  threads under the locks of its users.
* The components with status `not_modelled` in `PROJECT.json`, each with the reason.
  By far most of the repository's lines are of that kind: crypto providers, generated
  and vendored headers of mbedTLS and PKCS #11, parsers, containers and interfaces,
  which hold data and no protocol between threads or nodes.

## Plan

Done: the update manager and its composition, the two image managers, the space
allocator, the thread pool, both launchers. Left, in this order:

1. Proofs: the safety part of `CmLauncher` beyond its types, that is who holds
   `mBalancingMutex` at each step and what a rejected status leaves behind.
2. `Timer`: registration, the service thread and its invocation threads, composed
   with a user that stops it under its own lock.
3. The node info provider, which feeds `CmLauncher`.
4. `CertHandler` and `ProvisionManager`: the limit of certificates per module and
   partial failure.

## Running

    tlc -config MCUpdateManager.cfg UpdateManager
    tlapm DesiredStatusHandlerProofs.tla

and likewise for the other pairs in `PROJECT.json`.
