---------------------------- MODULE ImageManager ----------------------------
(***************************************************************************)
(* What the operations of the CM image manager do to the stored items and  *)
(* to the blobs in the install path (cm/imagemanager/imagemanager.cpp),     *)
(* behind the gate of ImageManagerGate.                                     *)
(*                                                                         *)
(* A download or an install works without mMutex, one item at a time.       *)
(* Meanwhile the timer removes outdated items, holding mMutex, and the      *)
(* space allocator has items removed to make room.  Storage and blobs       *)
(* survive a crash.  Reads and writes of the storage do not fail.           *)
(***************************************************************************)
EXTENDS ImageManagerGate

CONSTANT Pairs  \* the update items there are: pairs of an item ID and a version

\* Lists of update items: a desired status names one version of an item.
Requests == {r \in SUBSET Pairs : \A p, q \in r : p[1] = q[1] => p = q}

\* "none" is an item the storage does not have.
ItemStates == {"none", "Downloading", "Pending", "Installed", "Removed", "Failed"}

NoItem == << >>

VARIABLES
    stored,         \* mStorage: item and version -> state
    blobs,          \* the items whose blobs are all in the install path, intact
    kind,           \* the operation in progress, or the last one
    request,        \* its itemsInfo
    prepared,       \* request has been downloaded and not been installed yet
    phase,          \* where the operation is
    storedItems,    \* what ProcessDownloadRequest knows of the storage
    todo,           \* items the present loop still has to visit
    mCurrentItem,   \* the item ProcessDownloadRequest downloads
    done,           \* items whose status is Pending or Installed so far
    timer,          \* where RemoveOutdatedItems is; it holds mMutex if not "idle"
    outdated,       \* items it has found outdated
    used,           \* items its CleanupOrphanedBlobs has found in the storage
    raced           \* ghost: what the timer took away during the operation

gate == <<mInProgress, mCancel, op>>
operation == <<kind, request, prepared, phase, storedItems, todo, mCurrentItem,
               done>>
timerVars == <<timer, outdated, used>>
imVars == <<gate, stored, blobs, operation, timerVars, raced>>

NoItems == [p \in Pairs |-> "none"]

Phases == {"idle", "pending", "cleanup", "verify", "process", "load",
           "different", "integrity", "install", "remove", "orphans", "return"}

ImageManagerTypeOK ==
    /\ GateTypeOK
    /\ stored \in [Pairs -> ItemStates]
    /\ blobs \subseteq Pairs
    /\ kind \in {"download", "install"}
    /\ request \in Requests
    /\ prepared \in BOOLEAN
    /\ phase \in Phases
    /\ storedItems \in [Pairs -> ItemStates]
    /\ todo \subseteq Pairs
    /\ mCurrentItem \in Pairs \cup {NoItem}
    /\ done \subseteq request
    /\ timer \in {"idle", "remove", "read", "wipe"}
    /\ outdated \subseteq Pairs
    /\ used \subseteq Pairs
    /\ raced \subseteq request

ImageManagerInit ==
    /\ GateInit
    /\ stored = NoItems
    /\ blobs = {}
    /\ kind = "download"
    /\ request = {}
    /\ prepared = FALSE
    /\ phase = "idle"
    /\ storedItems = NoItems
    /\ todo = {}
    /\ mCurrentItem = NoItem
    /\ done = {}
    /\ timer = "idle"
    /\ outdated = {}
    /\ used = {}
    /\ raced = {}

InState(states) == {p \in Pairs : stored[p] \in states}

SameItem(p) == {q \in Pairs : q[1] = p[1] /\ q # p}

\* Storage().UpdateItemState: an item that is not there is not found.
UpdateItemState(p, state) ==
    stored' = [stored EXCEPT ![p] = IF @ = "none" THEN @ ELSE state]

RemoveStored(p) == stored' = [stored EXCEPT ![p] = "none"]

-----------------------------------------------------------------------------
(* The beginning and the end of an operation.                              *)

BeginDownload(r) ==
    /\ kind' = "download"
    /\ request' = r
    /\ prepared' = FALSE
    /\ phase' = IF r = {} THEN "pending" ELSE "cleanup"
    /\ todo' = IF r = {} THEN InState({"Pending"})
                         ELSE InState({"Downloading", "Pending"}) \ r
    /\ done' = {}
    /\ UNCHANGED <<storedItems, mCurrentItem>>

\* FinalizeUpdate of the desired status handler installs what was downloaded.
BeginInstall ==
    /\ prepared
    /\ kind' = "install"
    /\ phase' = "different"
    /\ todo' = InState({"Installed"}) \cap UNION {SameItem(p) : p \in request}
    /\ done' = request
    /\ UNCHANGED <<request, prepared, storedItems, mCurrentItem>>

Begin(c) ==
    /\ timer = "idle"
    /\ StartAction(c)
    /\ IF op'[c] = "running"
       THEN raced' = {} /\ (BeginInstall \/ \E r \in Requests : BeginDownload(r))
       ELSE UNCHANGED <<operation, raced>>
    /\ UNCHANGED <<stored, blobs, timerVars>>

End(c) ==
    /\ timer = "idle"
    /\ phase = "return"
    /\ \E result \in {"ok", "canceled"} :
           /\ StopAction(c, result)
           /\ prepared' = (kind = "download" /\ result = "ok")
    /\ phase' = "idle"
    /\ storedItems' = NoItems
    /\ mCurrentItem' = NoItem
    /\ todo' = {}
    /\ done' = {}
    /\ raced' = {}
    /\ UNCHANGED <<stored, blobs, kind, request, timerVars>>

\* The next loop of an operation, over the items its condition selects.
NextLoop(from, to, selected) ==
    /\ phase = from /\ todo = {}
    /\ phase' = to
    /\ todo' = selected
    /\ UNCHANGED <<gate, stored, blobs, kind, request, prepared, mCurrentItem,
                   done, timerVars, raced>>

-----------------------------------------------------------------------------
(* DownloadUpdateItems.                                                    *)

RemovePendingItems ==
    /\ phase = "pending"
    /\ \E p \in todo : RemoveStored(p) /\ todo' = todo \ {p}
    /\ UNCHANGED <<gate, blobs, kind, request, prepared, phase, storedItems,
                   mCurrentItem, done, timerVars, raced>>

\* A stale item goes with its index blob.
CleanupDownloadingItems ==
    /\ phase = "cleanup"
    /\ \E p \in todo : /\ RemoveStored(p)
                       /\ blobs' = blobs \ {p}
                       /\ todo' = todo \ {p}
    /\ UNCHANGED <<gate, kind, request, prepared, phase, storedItems,
                   mCurrentItem, done, timerVars, raced>>

\* DownloadItem: mCancel is read before the first blob; a blob that is there and
\* intact is not loaded again; loading one takes mMutex for a moment.
DownloadItem(c, p, result) ==
    \/ /\ result = "canceled"
       /\ SeeCancel(c)
       /\ UNCHANGED blobs
    \/ /\ result = "failed"
       /\ ~mCancel /\ p \notin blobs /\ timer = "idle"
       /\ UNCHANGED <<gate, blobs>>
    \/ /\ result = "ok"
       /\ ~mCancel /\ (p \in blobs \/ timer = "idle")
       /\ blobs' = blobs \cup {p}
       /\ UNCHANGED gate

\* Mutant: only the requested items are verified.
VerifyRequested ==
    /\ NextLoop("cleanup", "verify", InState({"Installed", "Pending"}) \cap request)
    /\ storedItems' = stored

StartVerify ==
    /\ NextLoop("cleanup", "verify", InState({"Installed", "Pending"}))
    /\ storedItems' = stored

VerifyStoredItems(c, p, result) ==
    /\ phase = "verify" /\ op[c] = "running"
    /\ p \in todo
    /\ DownloadItem(c, p, result)
    /\ todo' = todo \ {p}
    /\ IF result = "ok"
       THEN /\ done' = done \cup ({p} \cap request)
            /\ UNCHANGED <<stored, storedItems>>
       ELSE /\ UpdateItemState(p, "Failed")
            /\ storedItems' = [storedItems EXCEPT ![p] =
                                   IF stored[p] = "none" THEN @ ELSE "Failed"]
            /\ UNCHANGED done
    /\ phase' = IF result = "canceled" THEN "return" ELSE phase
    /\ UNCHANGED <<kind, request, prepared, mCurrentItem, timerVars, raced>>

StartProcess == NextLoop("verify", "process", request) /\ UNCHANGED storedItems

SkipVerifiedItem(p) ==
    /\ phase = "process"
    /\ p \in todo /\ storedItems[p] \in {"Installed", "Pending"}
    /\ todo' = todo \ {p}
    /\ UNCHANGED <<gate, stored, blobs, kind, request, prepared, phase, storedItems,
                   mCurrentItem, done, timerVars, raced>>

Drop(items, f) == [q \in Pairs |-> IF q \in items THEN "none" ELSE f[q]]

\* One other version of the item that did not get anywhere, if there is one, is
\* removed, and the requested version is added, or taken back if it is Removed.
\* If it has left the storage since that was read, the item is passed over.
ProcessDownloadRequest(p) ==
    /\ phase = "process"
    /\ p \in todo /\ storedItems[p] \notin {"Installed", "Pending"}
    /\ LET old == {q \in SameItem(p) :
                       storedItems[q] \in {"Pending", "Failed", "Downloading"}}
           lost == storedItems[p] = "Removed" /\ stored[p] = "none"
       IN  /\ \E drop \in IF old = {} THEN {{}} ELSE {{q} : q \in old} :
                  /\ storedItems' = Drop(drop, storedItems)
                  /\ stored' =
                         IF storedItems[p] \in {"none", "Removed"} /\ ~lost
                         THEN [Drop(drop, stored) EXCEPT ![p] = "Downloading"]
                         ELSE Drop(drop, stored)
           /\ IF lost
              THEN todo' = todo \ {p} /\ UNCHANGED <<phase, mCurrentItem>>
              ELSE phase' = "load" /\ mCurrentItem' = p /\ UNCHANGED todo
    /\ UNCHANGED <<gate, blobs, kind, request, prepared, done, timerVars, raced>>

\* Mutant: only an item in state Downloading becomes Pending.
LoadItemOnce(c, result) ==
    LET p == mCurrentItem
    IN  /\ phase = "load" /\ op[c] = "running"
        /\ DownloadItem(c, p, result)
        /\ IF result = "ok" /\ stored[p] # "Downloading"
           THEN UNCHANGED stored
           ELSE UpdateItemState(p, IF result = "ok" THEN "Pending" ELSE "Failed")
        /\ done' = IF result = "ok" THEN done \cup {p} ELSE done
        /\ todo' = todo \ {p}
        /\ mCurrentItem' = NoItem
        /\ phase' = IF result = "canceled" THEN "return" ELSE "process"
        /\ UNCHANGED <<kind, request, prepared, storedItems, timerVars, raced>>

\* The download of the requested item and the state it ends in.
LoadItem(c, result) ==
    LET p == mCurrentItem
    IN  /\ phase = "load" /\ op[c] = "running"
        /\ DownloadItem(c, p, result)
        /\ UpdateItemState(p, IF result = "ok" THEN "Pending" ELSE "Failed")
        /\ done' = IF result = "ok" THEN done \cup {p} ELSE done
        /\ todo' = todo \ {p}
        /\ mCurrentItem' = NoItem
        /\ phase' = IF result = "canceled" THEN "return" ELSE "process"
        /\ UNCHANGED <<kind, request, prepared, storedItems, timerVars, raced>>

StartOrphans ==
    /\ \E from \in {"pending", "process", "remove"} : NextLoop(from, "orphans", {})
    /\ UNCHANGED storedItems

\* A blob is kept as long as an item in the storage uses it, whatever its state.
CleanupOrphanedBlobs ==
    /\ phase = "orphans"
    /\ blobs' = blobs \ InState({"none"})
    /\ phase' = "return"
    /\ storedItems' = NoItems
    /\ UNCHANGED <<gate, stored, kind, request, prepared, todo, mCurrentItem,
                   done, timerVars, raced>>

-----------------------------------------------------------------------------
(* InstallUpdateItems.                                                     *)

\* Mutant: the other version stays.
KeepDifferentVersions ==
    /\ phase = "different"
    /\ \E q \in todo : todo' = todo \ {q}
    /\ UNCHANGED <<gate, stored, blobs, kind, request, prepared, phase,
                   storedItems, mCurrentItem, done, timerVars, raced>>

RemoveDifferentVersions ==
    /\ phase = "different"
    /\ \E q \in todo : RemoveStored(q) /\ todo' = todo \ {q}
    /\ UNCHANGED <<gate, blobs, kind, request, prepared, phase, storedItems,
                   mCurrentItem, done, timerVars, raced>>

StartIntegrity ==
    /\ NextLoop("different", "integrity", request)
    /\ storedItems' = stored

VerifyBlobsIntegrity ==
    /\ phase = "integrity"
    /\ \E p \in todo :
           /\ IF storedItems[p] = "none" \/ p \notin blobs
              THEN RemoveStored(p) /\ done' = done \ {p}
              ELSE UNCHANGED <<stored, done>>
           /\ todo' = todo \ {p}
    /\ UNCHANGED <<gate, blobs, kind, request, prepared, phase, storedItems,
                   mCurrentItem, timerVars, raced>>

StartInstall ==
    /\ NextLoop("integrity", "install", request \ InState({"none", "Installed"}))
    /\ UNCHANGED storedItems

SetItemsToInstalled ==
    /\ phase = "install"
    /\ \E p \in todo : UpdateItemState(p, "Installed") /\ todo' = todo \ {p}
    /\ UNCHANGED <<gate, blobs, kind, request, prepared, phase, storedItems,
                   mCurrentItem, done, timerVars, raced>>

\* Mutant: an installed item is not set to Removed when it is no longer wanted.
RemoveUninstalled ==
    /\ NextLoop("install", "remove",
                Pairs \ (request \cup InState({"none", "Removed", "Installed"})))
    /\ UNCHANGED storedItems

StartRemove ==
    /\ NextLoop("install", "remove",
                Pairs \ (request \cup InState({"none", "Removed"})))
    /\ UNCHANGED storedItems

SetItemsToRemoved ==
    /\ phase = "remove"
    /\ \E q \in todo : UpdateItemState(q, "Removed") /\ todo' = todo \ {q}
    /\ UNCHANGED <<gate, blobs, kind, request, prepared, phase, storedItems,
                   mCurrentItem, done, timerVars, raced>>

-----------------------------------------------------------------------------
(* The other threads.                                                      *)

\* Which of the removed items are outdated depends on when they were removed.
RemoveOutdatedItems ==
    /\ timer = "idle"
    /\ outdated' \in (SUBSET InState({"Removed"})) \ {{}}
    /\ timer' = "remove"
    /\ UNCHANGED <<gate, stored, blobs, operation, used, raced>>

RemoveOutdatedItem(p) ==
    /\ timer = "remove" /\ p \in outdated
    /\ RemoveStored(p)
    /\ outdated' = outdated \ {p}
    /\ timer' = IF outdated' = {} THEN "read" ELSE timer
    /\ raced' = raced \cup ({p} \cap request)
    /\ UNCHANGED <<gate, blobs, operation, used>>

ReadUsed ==
    /\ timer = "read"
    /\ used' = Pairs \ InState({"none"})
    /\ timer' = "wipe"
    /\ UNCHANGED <<gate, stored, blobs, operation, outdated, raced>>

WipeOrphanedBlobs ==
    /\ timer = "wipe"
    /\ blobs' = blobs \cap used
    /\ raced' = raced \cup (request \ used)
    /\ timer' = "idle"
    /\ used' = {}
    /\ UNCHANGED <<gate, stored, operation, outdated>>

\* A blob exceeds the limit of the space allocator, which has a Removed item
\* removed.  The call comes from within the download.
RemoveItem(p) ==
    /\ \/ phase = "verify" /\ ~(todo \subseteq blobs)
       \/ phase = "load" /\ mCurrentItem \notin blobs
    /\ timer = "idle"
    /\ stored[p] = "Removed"
    /\ RemoveStored(p)
    /\ blobs' = {q \in blobs \ {p} : stored[q] # "none"}
    /\ UNCHANGED <<gate, operation, timerVars, raced>>

CancelOperation ==
    /\ timer = "idle"
    /\ Cancel
    /\ UNCHANGED <<stored, blobs, operation, timerVars, raced>>

\* The process dies; Init removes the orphaned blobs.
Restart ==
    /\ GateRestart
    /\ blobs' = blobs \ InState({"none"})
    /\ phase' = "idle"
    /\ storedItems' = NoItems
    /\ todo' = {}
    /\ mCurrentItem' = NoItem
    /\ done' = {}
    /\ timer' = "idle"
    /\ outdated' = {}
    /\ used' = {}
    /\ raced' = {}
    /\ UNCHANGED <<stored, kind, request, prepared>>

\* A blob is damaged on the disk, while nothing is going on.
Corrupt(p) ==
    /\ phase = "idle" /\ timer = "idle"
    /\ p \in blobs
    /\ blobs' = blobs \ {p}
    /\ UNCHANGED <<gate, stored, operation, timerVars, raced>>

-----------------------------------------------------------------------------
CallOrReturn(c) ==
    /\ Call(c) \/ Return(c)
    /\ UNCHANGED <<stored, blobs, operation, timerVars, raced>>

Downloading ==
    \/ RemovePendingItems
    \/ CleanupDownloadingItems
    \/ StartVerify
    \/ \E c \in Callers, p \in Pairs, result \in Results :
           VerifyStoredItems(c, p, result)
    \/ StartProcess
    \/ \E p \in Pairs : SkipVerifiedItem(p) \/ ProcessDownloadRequest(p)
    \/ \E c \in Callers, result \in Results : LoadItem(c, result)
    \/ StartOrphans
    \/ CleanupOrphanedBlobs

Installing ==
    \/ RemoveDifferentVersions
    \/ StartIntegrity
    \/ VerifyBlobsIntegrity
    \/ StartInstall
    \/ SetItemsToInstalled
    \/ StartRemove
    \/ SetItemsToRemoved

ImageManagerNext ==
    \/ \E c \in Callers : CallOrReturn(c) \/ Begin(c) \/ End(c)
    \/ Downloading
    \/ Installing
    \/ RemoveOutdatedItems
    \/ \E p \in Pairs : RemoveOutdatedItem(p)
    \/ ReadUsed
    \/ WipeOrphanedBlobs
    \/ \E p \in Pairs : RemoveItem(p) \/ Corrupt(p)
    \/ CancelOperation
    \/ Restart

ImageManagerSpec == ImageManagerInit /\ [][ImageManagerNext]_imVars

-----------------------------------------------------------------------------
\* IsUpdateItemsRequired of the desired status handler, asked of the storage.
IsUpdateItemsRequired(r) == InState({"Installed"}) # r

\* Two versions of an item are never installed side by side, not even between
\* the steps of an install or after a crash in it ("in order to have only one
\* update item version on the system", imagemanager.md:158).
OneVersionInstalled ==
    \A p, q \in InState({"Installed"}) : p[1] = q[1] => p = q

\* When a download returns, each item it reports as Pending or Installed is
\* stored in such a state and has its blobs, unless the timer has taken it away
\* in the meantime (VerifyStoredItems, ProcessDownloadRequest against
\* RemoveOutdatedItems).
ReportedIsDownloaded ==
    phase = "return" /\ kind = "download" =>
        \A p \in done \ raced : stored[p] \in {"Pending", "Installed"} /\ p \in blobs

\* A download that was not canceled leaves no damaged item in state Installed,
\* requested or not (VerifyStoredItems).
InstalledIsIntact ==
    phase = "return" /\ kind = "download" /\ request # {}
        /\ (\A c \in Callers : op[c] # "seen")
            => InState({"Installed"}) \subseteq blobs

\* When an install returns, what it reports is what the update manager will find
\* in the storage: the same desired status needs no further update exactly when
\* no item failed, and what is reported as installed has its blobs, whatever
\* the timer did during the download or does now.
InstallConverges ==
    phase = "return" /\ kind = "install" =>
        /\ IsUpdateItemsRequired(request) <=> done # request
        /\ done \subseteq blobs

\* "existing installed update items that have all valid blobs remains in
\* installed state" in a download (imagemanager.md:144).
InstalledStaysInstalled ==
    [][\A p \in blobs : /\ phase \in {"cleanup", "verify", "process", "load"}
                        /\ stored[p] = "Installed"
                        => stored'[p] = "Installed"]_imVars
=============================================================================
