--------------------------- MODULE SmImageManager ---------------------------
(***************************************************************************)
(* The image manager of the service manager (sm/imagemanager) on top of the *)
(* space allocator. Threads of the launch pool install update items blob by *)
(* blob, a thread removes items, and the cleaning thread drops what expired *)
(* or broke and every file no stored item refers to.                        *)
(*                                                                         *)
(* A blob file is "none", "bad" (partial or damaged), "ok" or "link" (the   *)
(* file that stands for an unpacked layer). The manifest and the config     *)
(* blobs of an item are one digest, the first of its Parts; only it has no  *)
(* size in its descriptor and is downloaded without allocating space. A     *)
(* layer is marked by its digest and unpacked to the directory of its diff  *)
(* ID, which blobs of the same content packed differently share.            *)
(***************************************************************************)
EXTENDS SpaceAllocator

CONSTANTS
    Installers,   \* threads of the launch pool
    Parts,        \* Parts[i]: the digests of item i, in installation order
    Layers,       \* digests that are layers of services
    DiffID,       \* DiffID[d]: the diff ID of layer d, which names its directory
    MaxVersions,  \* cMaxNumItemVersions
    MaxStored,    \* cMaxNumStoredUpdateItems
    MaxCalls      \* bound on requests and restarts

ASSUME ThreadsAre == Threads = Installers \union {"remover", "cleaner"}
ASSUME NotInstallers == Installers \intersect {"remover", "cleaner"} = {}
ASSUME ItemsExist == Items # {}
ASSUME PartsAssumption ==
    \A i \in Items : Len(Parts[i]) \in Nat \ {0} /\ Parts[i][1] \notin Layers
ASSUME BoundsArePositive ==
    MaxVersions \in Nat \ {0} /\ MaxStored \in Nat \ {0} /\ MaxCalls \in Nat

VARIABLES
    imMutex,                \* owner of ImageManager::mMutex between two steps
    store,                  \* the storage: <<[item, state]>>, by mTimestamp
    blobs,                  \* the blob files
    layers,                 \* the layers' directories: "none", "part" or "full"
    mInProgressBlobs,
    mProcessOutdatedItems,
    mClose,
    pc,                     \* what each thread does next
    job,                    \* the item each thread works on
    pos,                    \* index of the part an installer is at
    disturbed,              \* history: installers that lost a layer they had come to
    calls                   \* requests and restarts so far

imVars == <<imMutex, store, blobs, layers, mInProgressBlobs,
            mProcessOutdatedItems, mClose, pc, job, pos, disturbed, calls>>
smVars == <<saVars, imVars>>

files == <<blobs, layers, disturbed>>
control == <<mInProgressBlobs, mProcessOutdatedItems, mClose, calls>>

Digests == UNION {{Parts[i][k] : k \in 1 .. Len(Parts[i])} : i \in Items}
PartsOf(i) == {Parts[i][k] : k \in 1 .. Len(Parts[i])}
Manifest(i) == Parts[i][1]
Digest(t) == Parts[job[t]][pos[t]]
LayerDirs == {DiffID[d] : d \in Layers}
DirOf(t) == DiffID[Digest(t)]
Sized(d) == \A i \in Items : Manifest(i) # d

ImFree == imMutex = NoThread

StoredItems == {store[k].item : k \in 1 .. Len(store)}
StateOf(i) == LET k == CHOOSE n \in 1 .. Len(store) : store[n].item = i
              IN  store[k].state
HasState(i, s) == i \in StoredItems /\ StateOf(i) = s

\* The storage without some items, and with an item written with the time of now.
Drop(st, items) == Keep(st, {k \in 1 .. Len(st) : st[k].item \notin items})
Put(st, i, s) == Append(Drop(st, {i}), [item |-> i, state |-> s])

\* ValidateBlob and ValidateLayer of every part (ValidateUpdateItem).
PartValid(d, bs, ls) ==
    IF d \in Layers THEN bs[d] = "link" /\ ls[DiffID[d]] = "full" ELSE bs[d] = "ok"
Valid(i) == \A d \in PartsOf(i) : PartValid(d, blobs, layers)

\* The layers thread t has come to in its call, past WaitForInProgressBlob.
Reached(t) ==
    LET last == IF pc[t] = "idle" THEN 0
                ELSE IF pc[t] = "wait" THEN pos[t] - 1 ELSE pos[t]
    IN  {Parts[job[t]][k] : k \in 1 .. last} \intersect Layers

\* Every step of RemoveOrphans: the files of the items in st whose manifest can be
\* loaded stay, all others go, those of a running installation too.
Used(st) == UNION {PartsOf(st[k].item) :
                    k \in {n \in 1 .. Len(st) : blobs[Manifest(st[n].item)] = "ok"}}

RemoveOrphans(st) ==
    /\ blobs' = [d \in Digests |-> IF d \in Used(st) THEN blobs[d] ELSE "none"]
    /\ layers' = [p \in LayerDirs |->
                     IF \E d \in Used(st) \intersect Layers : DiffID[d] = p
                     THEN layers[p] ELSE "none"]
    /\ disturbed' = disturbed \union
                       {t \in Installers : ~(Reached(t) \subseteq Used(st))}

SMInit ==
    /\ SAInit
    /\ imMutex = NoThread
    /\ store = <<>>
    /\ blobs = [d \in Digests |-> "none"]
    /\ layers = [p \in LayerDirs |-> "none"]
    /\ mInProgressBlobs = {}
    /\ mProcessOutdatedItems = TRUE
    /\ mClose = FALSE
    /\ pc = [t \in Threads |-> "idle"]
    /\ job = [t \in Threads |-> CHOOSE i \in Items : TRUE]
    /\ pos = [t \in Installers |-> 1]
    /\ disturbed = {}
    /\ calls = 0

\* Thread t goes on at the step named l.
Goto(t, l) == pc' = [pc EXCEPT ![t] = l]

-----------------------------------------------------------------------------
\* InstallUpdateItem

Install(t, i) ==
    /\ pc[t] = "idle"
    /\ calls < MaxCalls
    /\ calls' = calls + 1
    /\ job' = [job EXCEPT ![t] = i]
    /\ pos' = [pos EXCEPT ![t] = 1]
    /\ disturbed' = disturbed \ {t}
    /\ Goto(t, "wait")
    /\ UNCHANGED <<saVars, imMutex, store, blobs, layers, mInProgressBlobs,
                   mProcessOutdatedItems, mClose>>

\* Mutant: nobody waits for an installation of the same blob.
MarkAtOnce(t) ==
    /\ pc[t] = "wait"
    /\ ImFree
    /\ mInProgressBlobs' = mInProgressBlobs \union {Digest(t)}
    /\ Goto(t, IF Digest(t) \in Layers THEN "layer" ELSE "unmark")
    /\ UNCHANGED <<saVars, imMutex, store, files, mProcessOutdatedItems, mClose,
                   job, pos, calls>>

WaitForInProgressBlob(t) ==
    /\ pc[t] = "wait"
    /\ ImFree
    /\ Digest(t) \notin mInProgressBlobs
    /\ mInProgressBlobs' = mInProgressBlobs \union {Digest(t)}
    /\ Goto(t, IF Digest(t) \in Layers THEN "layer" ELSE "unmark")
    /\ UNCHANGED <<saVars, imMutex, store, files, mProcessOutdatedItems, mClose,
                   job, pos, calls>>

\* ReleaseInProgressBlob. InstallBlob declares its DeferRelease inside the block
\* of the if, so the mark of a blob goes before its installation starts; that of
\* a layer goes when InstallLayer returns.
ReleaseInProgressBlob(t, from, to) ==
    /\ pc[t] = from
    /\ ImFree
    /\ mInProgressBlobs' = mInProgressBlobs \ {Digest(t)}
    /\ Goto(t, to)
    /\ UNCHANGED <<saVars, imMutex, store, files, mProcessOutdatedItems, mClose,
                   job, pos, calls>>

\* InstallLayer: nothing to do when the layer is there and valid.
CheckLayer(t) ==
    /\ pc[t] = "layer"
    /\ Goto(t, IF PartValid(Digest(t), blobs, layers) THEN "layerDone" ELSE "check")
    /\ UNCHANGED <<saVars, imMutex, store, files, control, job, pos>>

\* InstallBlob up to the download: a valid file is kept, any other one removed, and
\* GetBlobURL finds where to download it from or fails.
CheckBlob(t) ==
    /\ pc[t] = "check"
    /\ IF blobs[Digest(t)] = "ok"
       THEN /\ Goto(t, IF Digest(t) \in Layers THEN "clear" ELSE "next")
            /\ UNCHANGED blobs
       ELSE /\ \E found \in BOOLEAN :
                  Goto(t, IF ~found THEN "release"
                          ELSE IF Sized(Digest(t)) THEN "alloc" ELSE "download")
            /\ blobs' = [blobs EXCEPT ![Digest(t)] = "none"]
    /\ UNCHANGED <<saVars, imMutex, store, layers, control, job, pos, disturbed>>

\* Where an allocation goes on: that of the download, that of the unpacked layer,
\* and those of ResizeSpace for the metadata and for the link.
AfterAlloc == [alloc |-> "download", ualloc |-> "unpack",
               malloc |-> "packed", lalloc |-> "linked"]
Allocating(t) == pc[t] \in DOMAIN AfterAlloc

\* The threads that have come to another blob of the directory thread t works in, t
\* itself among them when its item has two.
Sharing(t) ==
    {u \in Installers :
        \E d \in Reached(u) : d # Digest(t) /\ DiffID[d] = DirOf(t)}

RemoveLayer(t) ==
    /\ layers' = [layers EXCEPT ![DirOf(t)] = "none"]
    /\ disturbed' = disturbed \union Sharing(t)

\* DownloadBlob and UnpackLayer on error: the path is removed, the space released.
OnError(t) ==
    IF pc[t] \in {"alloc", "fetch"}
    THEN blobs' = [blobs EXCEPT ![Digest(t)] = "none"] /\ UNCHANGED <<layers, disturbed>>
    ELSE RemoveLayer(t) /\ UNCHANGED blobs

AllocateSpace(t) ==
    /\ Allocating(t)
    /\ \/ AllocateFits(t) /\ Goto(t, AfterAlloc[pc[t]]) /\ UNCHANGED files
       \/ AllocateFails /\ Goto(t, "release") /\ OnError(t)
       \/ StartReclaim(t) /\ UNCHANGED <<pc, files>>
    /\ UNCHANGED <<imMutex, store, control, job, pos>>

\* RemoveItem, called by the partition that reclaims space for thread t: it waits
\* for mMutex with the partition's mutex held.
RemoveItem(t) ==
    /\ Allocating(t)
    /\ ImFree
    /\ ReclaimItem(t)
    /\ store' = Drop(store, {NextOutdated})
    /\ RemoveOrphans(Drop(store, {NextOutdated}))
    /\ UNCHANGED <<imMutex, control, pc, job, pos>>

\* RemoveItem when the storage does not answer: the item is gone from the storage,
\* the orphans stay.
RemoveItemFails(t) ==
    /\ Allocating(t)
    /\ ImFree
    /\ ReclaimFails(t)
    /\ store' = Drop(store, {NextOutdated})
    /\ Goto(t, "release")
    /\ OnError(t)
    /\ UNCHANGED <<imMutex, control, job, pos>>

FinishReclaim(t) ==
    /\ Allocating(t)
    /\ \/ EndReclaim(t, TRUE) /\ Goto(t, AfterAlloc[pc[t]]) /\ UNCHANGED files
       \/ EndReclaim(t, FALSE) /\ Goto(t, "release") /\ OnError(t)
    /\ UNCHANGED <<imMutex, store, control, job, pos>>

\* The download starts.
Download(t) ==
    /\ pc[t] = "download"
    /\ blobs' = [blobs EXCEPT ![Digest(t)] = "bad"]
    /\ Goto(t, "fetch")
    /\ UNCHANGED <<saVars, imMutex, store, layers, control, job, pos, disturbed>>

\* Another thread downloads to the same path.
SharedDownload(t) ==
    \E u \in Installers \ {t} : pc[u] = "fetch" /\ Digest(u) = Digest(t)

\* The download ends. A file that was unlinked stays away; one that two downloads
\* write may be damaged.
Fetched(t) ==
    /\ pc[t] = "fetch"
    /\ \/ /\ IF blobs[Digest(t)] = "none"
             THEN UNCHANGED blobs
             ELSE \E s \in {"ok"} \union (IF SharedDownload(t) THEN {"bad"} ELSE {}) :
                     blobs' = [blobs EXCEPT ![Digest(t)] = s]
          /\ EndSpace(t)
          /\ Goto(t, "validate")
          /\ UNCHANGED <<layers, disturbed>>
       \/ OnError(t) /\ Goto(t, "release") /\ UNCHANGED saVars
    /\ UNCHANGED <<imMutex, store, control, job, pos>>

ValidateBlob(t) ==
    /\ pc[t] = "validate"
    /\ Goto(t, IF blobs[Digest(t)] # "ok" THEN "release"
               ELSE IF Digest(t) \in Layers THEN "clear" ELSE "next")
    /\ UNCHANGED <<saVars, imMutex, store, files, control, job, pos>>

\* UnpackLayer: clear the layer's directory, allocate, unpack. Without the unpacked
\* size, which GetUnpackedLayerSize may not find out, nothing is allocated.
ClearLayer(t) ==
    /\ pc[t] = "clear"
    /\ RemoveLayer(t)
    /\ \E l \in {"ualloc", "unsized"} : Goto(t, l)
    /\ UNCHANGED <<saVars, imMutex, store, blobs, control, job, pos>>

\* What another thread has unpacked and described there meanwhile stays valid.
Unpacked(t) ==
    /\ blobs[Digest(t)] = "ok"
    /\ layers' = [layers EXCEPT ![DirOf(t)] = IF @ = "full" THEN "full" ELSE "part"]
    /\ UNCHANGED blobs

UnpackLayer(t) ==
    /\ pc[t] \in {"unpack", "unsized"}
    /\ \/ /\ pc[t] = "unpack"
          /\ Unpacked(t)
          /\ Goto(t, "meta")
          /\ UNCHANGED disturbed
       \/ OnError(t) /\ Goto(t, "release")
    /\ UNCHANGED <<saVars, imMutex, store, control, job, pos>>

\* The first half of ResizeSpace, for the metadata (its two files are one here) and
\* then for the link.
Resize(t) ==
    /\ pc[t] \in {"meta", "link"}
    /\ FreeSpace
    /\ Goto(t, IF pc[t] = "meta" THEN "malloc" ELSE "lalloc")
    /\ UNCHANGED <<imMutex, store, files, control, job, pos>>

\* CreateLayerMetadata, which fails when the unpacked layer was removed meanwhile
\* and may fail anyway; then the packed layer goes.
CreateLayerMetadata(t) ==
    /\ pc[t] = "packed"
    /\ \/ /\ layers[DirOf(t)] # "none"
          /\ FreeSpace
          /\ layers' = [layers EXCEPT ![DirOf(t)] = "full"]
          /\ blobs' = [blobs EXCEPT ![Digest(t)] = "none"]
          /\ Goto(t, "link")
          /\ UNCHANGED disturbed
       \/ OnError(t) /\ Goto(t, "release") /\ UNCHANGED saVars
    /\ UNCHANGED <<imMutex, store, control, job, pos>>

\* The file that stands for the layer is written; it is left as it is on an error.
LinkLayer(t) ==
    /\ pc[t] = "linked"
    /\ \/ /\ EndSpace(t)
          /\ blobs' = [blobs EXCEPT ![Digest(t)] = "link"]
          /\ Goto(t, "layerDone")
          /\ UNCHANGED <<layers, disturbed>>
       \/ /\ \E s \in {"none", "bad"} : blobs' = [blobs EXCEPT ![Digest(t)] = s]
          /\ RemoveLayer(t)
          /\ Goto(t, "release")
          /\ UNCHANGED saVars
    /\ UNCHANGED <<imMutex, store, control, job, pos>>

\* An error: the space is released and InstallUpdateItem returns.
ReleaseSpace(t) ==
    /\ pc[t] = "release"
    /\ EndSpace(t)
    /\ Goto(t, IF Digest(t) \in Layers THEN "layerFailed" ELSE "idle")
    /\ UNCHANGED <<imMutex, store, files, control, job, pos>>

\* Mutant: the parts are counted from one too few.
NextPartLate(t) ==
    /\ pc[t] = "next"
    /\ IF pos[t] <= Len(Parts[job[t]])
       THEN pos' = [pos EXCEPT ![t] = @ + 1] /\ Goto(t, "wait")
       ELSE Goto(t, "store") /\ UNCHANGED pos
    /\ UNCHANGED <<saVars, imMutex, store, files, control, job>>

\* The next part. The manifest is loaded once it is installed.
NextPart(t) ==
    /\ pc[t] = "next"
    /\ IF pos[t] = 1 /\ blobs[Digest(t)] # "ok"
       THEN Goto(t, "idle") /\ UNCHANGED pos
       ELSE IF pos[t] < Len(Parts[job[t]])
            THEN pos' = [pos EXCEPT ![t] = @ + 1] /\ Goto(t, "wait")
            ELSE Goto(t, "store") /\ UNCHANGED pos
    /\ UNCHANGED <<saVars, imMutex, store, files, control, job>>

\* The oldest of some stored items, removed ones first (RemoveOldUpdateItems).
Oldest(items) ==
    LET removed == {i \in items : StateOf(i) = "removed"}
        among   == IF removed # {} THEN removed ELSE items
        n       == CHOOSE k \in 1 .. Len(store) :
                       /\ store[k].item \in among
                       /\ \A m \in 1 .. k - 1 : store[m].item \notin among
    IN  store[n].item

Versions(id) == {i \in StoredItems : ItemID[i] = id}

\* Mutant: only the versions of the item are counted.
VersionsOnly(i) ==
    IF Cardinality(Versions(ItemID[i])) >= MaxVersions
    THEN {Oldest(Versions(ItemID[i]))} ELSE {}

\* RemoveOldItemVersions and CropUpdateItems: what has to make room for item i.
MakesRoom(i) ==
    IF Cardinality(Versions(ItemID[i])) >= MaxVersions
    THEN {Oldest(Versions(ItemID[i]))}
    ELSE IF Len(store) >= MaxStored THEN {Oldest(StoredItems)} ELSE {}

\* StoreUpdateItem: a version that is stored already, removed or not, is written
\* again; a new one may need room.
StoreUpdateItem(t) ==
    /\ pc[t] = "store"
    /\ ImFree
    /\ IF job[t] \in StoredItems \/ MakesRoom(job[t]) = {}
       THEN /\ store' = Put(store, job[t], "installed")
            /\ Goto(t, "idle")
            /\ UNCHANGED imMutex
       ELSE /\ imMutex' = t
            /\ Goto(t, "storing")
            /\ UNCHANGED store
    /\ UNCHANGED <<saVars, files, control, job, pos>>

\* With mMutex held until the end: the item that makes room goes from the storage, and
\* a removed one from the partition's list too.
RemoveOldUpdateItems(t) ==
    /\ pc[t] = "storing"
    /\ LET old == MakesRoom(job[t])
           removed == {i \in old : StateOf(i) = "removed"}
       IN  /\ removed # {} => PartitionFree
           /\ store' = Drop(store, old)
           /\ RestoreOutdatedItem(removed)
    /\ Goto(t, "adding")
    /\ UNCHANGED <<partMutex, mAllocationCount, space, taken, imMutex, files, control,
                   job, pos>>

AddUpdateItem(t) ==
    /\ pc[t] = "adding"
    /\ store' = Put(store, job[t], "installed")
    /\ Goto(t, "orphans")
    /\ UNCHANGED <<saVars, imMutex, files, control, job, pos>>

RemoveOldFiles(t) ==
    /\ pc[t] = "orphans"
    /\ RemoveOrphans(store)
    /\ Goto(t, "freeing")
    /\ UNCHANGED <<saVars, imMutex, store, control, job, pos>>

FreeRemovedSize(t) ==
    /\ pc[t] = "freeing"
    /\ FreeSpace
    /\ imMutex' = NoThread
    /\ Goto(t, "idle")
    /\ UNCHANGED <<store, files, control, job, pos>>

-----------------------------------------------------------------------------
\* RemoveUpdateItem

RemoveUpdateItem(i) ==
    /\ pc["remover"] = "idle"
    /\ ImFree
    /\ calls < MaxCalls
    /\ i \in StoredItems
    /\ calls' = calls + 1
    /\ imMutex' = "remover"
    /\ job' = [job EXCEPT !["remover"] = i]
    /\ Goto("remover", "outdate")
    /\ UNCHANGED <<saVars, store, files, mInProgressBlobs, mProcessOutdatedItems,
                   mClose, pos>>

\* AddOutdatedItem. When the list is full it asks for the oldest item to be removed
\* and RemoveItem waits for mMutex, which this very thread holds.
AddOutdatedItem ==
    /\ pc["remover"] = "outdate"
    /\ PartitionFree
    /\ IF OutdatedFull(job["remover"], mOutdatedItems)
       THEN /\ partMutex' = "remover"
            /\ Goto("remover", "stuck")
            /\ UNCHANGED <<imMutex, store, mOutdatedItems>>
       ELSE /\ mOutdatedItems' = OutdatedWith(job["remover"], mOutdatedItems)
            /\ store' = Put(store, job["remover"], "removed")
            /\ imMutex' = NoThread
            /\ Goto("remover", "idle")
            /\ UNCHANGED partMutex
    /\ UNCHANGED <<mAllocationCount, space, taken, files, control, job, pos>>

-----------------------------------------------------------------------------
\* ProcessOutdatedItems

\* The periodic timer.
TimerTick ==
    /\ ImFree
    /\ ~mProcessOutdatedItems
    /\ ~mClose
    /\ mProcessOutdatedItems' = TRUE
    /\ UNCHANGED <<saVars, imMutex, store, files, mInProgressBlobs, mClose, pc, job,
                   pos, calls>>

ProcessOutdatedItems ==
    /\ pc["cleaner"] = "idle"
    /\ ImFree
    /\ mClose \/ mProcessOutdatedItems
    /\ mInProgressBlobs = {}
    /\ IF mClose
       THEN Goto("cleaner", "off") /\ UNCHANGED <<imMutex, mProcessOutdatedItems>>
       ELSE /\ imMutex' = "cleaner"
            /\ mProcessOutdatedItems' = FALSE
            /\ Goto("cleaner", "cleaning")
    /\ UNCHANGED <<saVars, store, files, mInProgressBlobs, mClose, job, pos,
                   calls>>

\* The removed items whose TTL is over: any number of the oldest ones.
Expired(k) == {store[n].item : n \in {m \in 1 .. k : store[m].state = "removed"}}

\* HandleItemsIntegrity
Broken == {i \in StoredItems : StateOf(i) = "installed" /\ ~Valid(i)}

CleanItems ==
    /\ pc["cleaner"] = "cleaning"
    /\ PartitionFree
    /\ \E k \in 0 .. Len(store) :
          LET gone == Expired(k) \union Broken
          IN  /\ store' = Drop(store, gone)
              /\ RemoveOrphans(Drop(store, gone))
              /\ RestoreOutdatedItem(Expired(k))
    /\ imMutex' = NoThread
    /\ Goto("cleaner", "idle")
    /\ UNCHANGED <<partMutex, mAllocationCount, space, taken, control, job, pos>>

Stop ==
    /\ ImFree
    /\ ~mClose
    /\ mClose' = TRUE
    /\ UNCHANGED <<saVars, imMutex, store, files, mInProgressBlobs,
                   mProcessOutdatedItems, pc, job, pos, calls>>

\* The list after UpdateOutdatedItems has added the removed items one by one: of
\* every ID the version that was removed last.
Outdated ==
    LET removed == {k \in 1 .. Len(store) : store[k].state = "removed"}
        last == {k \in removed : \A m \in removed :
                    m > k => ItemID[store[m].item] # ItemID[store[k].item]}
    IN  Keep([k \in 1 .. Len(store) |-> store[k].item], last)

\* The process ends, and Start in a new one: the storage and the files are what is
\* left. With too many removed items Start locks itself up as RemoveUpdateItem does.
NewProcess ==
    /\ mAllocationCount' = 0
    /\ space' = {}
    /\ taken' = 0
    /\ mInProgressBlobs' = {}
    /\ mProcessOutdatedItems' = TRUE
    /\ mClose' = FALSE
    /\ disturbed' = {}
    /\ LET outdated == Outdated
       IN  IF Len(outdated) <= MaxOutdated
           THEN /\ mOutdatedItems' = outdated
                /\ partMutex' = NoThread
                /\ imMutex' = NoThread
                /\ pc' = [t \in Threads |-> "idle"]
           ELSE /\ mOutdatedItems' = SubSeq(outdated, 1, MaxOutdated)
                /\ partMutex' = "remover"
                /\ imMutex' = "remover"
                /\ pc' = [t \in Threads |->
                            IF t = "remover" THEN "stuck" ELSE "idle"]
    /\ UNCHANGED <<store, job, pos>>

\* A crash or an end of the process at any time.
Restart ==
    /\ calls < MaxCalls
    /\ calls' = calls + 1
    /\ NewProcess
    /\ UNCHANGED <<blobs, layers>>

\* CreateLayerMetadata resizes the Space that UnpackLayer has not allocated: the end
\* of the process.
ResizeNoSpace(t) ==
    /\ pc[t] = "unsized"
    /\ Unpacked(t)
    /\ NewProcess
    /\ UNCHANGED calls

InstallStep(t) ==
    \/ WaitForInProgressBlob(t)
    \/ ReleaseInProgressBlob(t, "unmark", "check")
    \/ ReleaseInProgressBlob(t, "layerDone", "next")
    \/ ReleaseInProgressBlob(t, "layerFailed", "idle")
    \/ CheckLayer(t) \/ CheckBlob(t)
    \/ AllocateSpace(t) \/ RemoveItem(t) \/ RemoveItemFails(t) \/ FinishReclaim(t)
    \/ Download(t) \/ Fetched(t) \/ ValidateBlob(t)
    \/ ClearLayer(t) \/ UnpackLayer(t) \/ Resize(t)
    \/ CreateLayerMetadata(t) \/ LinkLayer(t) \/ ReleaseSpace(t)
    \/ NextPart(t) \/ StoreUpdateItem(t) \/ RemoveOldUpdateItems(t)
    \/ AddUpdateItem(t) \/ RemoveOldFiles(t) \/ FreeRemovedSize(t)

SMNext ==
    \/ \E t \in Installers :
          InstallStep(t) \/ ResizeNoSpace(t) \/ \E i \in Items : Install(t, i)
    \/ \E i \in Items : RemoveUpdateItem(i)
    \/ AddOutdatedItem
    \/ TimerTick \/ ProcessOutdatedItems \/ CleanItems
    \/ Stop \/ Restart

SMSpec == SMInit /\ [][SMNext]_smVars

-----------------------------------------------------------------------------
InstallerSteps == {"idle", "wait", "unmark", "layer", "layerDone", "layerFailed",
    "check", "alloc", "download", "fetch", "validate", "clear", "ualloc", "unpack",
    "unsized", "meta", "malloc", "packed", "link", "lalloc", "linked", "release",
    "next", "store", "storing", "adding", "orphans", "freeing"}

\* Steps outside InstallLayer past its WaitForInProgressBlob.
Outside == {"idle", "wait", "unmark", "next", "store", "storing", "adding", "orphans",
    "freeing"}

\* The states, and that an installing thread stands at a part its item has, through
\* the errors, waits and repeated allocations of InstallUpdateItem.
SMTypeOK ==
    /\ SATypeOK
    /\ imMutex \in Threads \union {NoThread}
    /\ store \in Seq([item : Items, state : {"installed", "removed"}])
    /\ blobs \in [Digests -> {"none", "bad", "ok", "link"}]
    /\ layers \in [LayerDirs -> {"none", "part", "full"}]
    /\ mInProgressBlobs \subseteq Digests
    /\ mProcessOutdatedItems \in BOOLEAN
    /\ mClose \in BOOLEAN
    /\ pc \in [Threads -> InstallerSteps \union
                  {"outdate", "stuck", "cleaning", "off"}]
    /\ \A t \in Installers : pc[t] \in InstallerSteps
    /\ job \in [Threads -> Items]
    /\ pos \in [Installers -> Nat]
    /\ \A t \in Installers : pos[t] \in 1 .. Len(Parts[job[t]])
    /\ disturbed \subseteq Installers
    /\ calls \in 0 .. MaxCalls

\* Thread t is inside InstallLayer, past WaitForInProgressBlob.
InLayer(t) ==
    /\ pc[t] \notin Outside
    /\ Digest(t) \in Layers

\* No two threads install the same layer at a time, whichever items they install
\* (WaitForInProgressBlob and ReleaseInProgressBlob of InstallLayer).
LayerInstallExclusive ==
    \A t, u \in Installers :
        InLayer(t) /\ InLayer(u) /\ Digest(t) = Digest(u) => t = u

\* The storage never holds more versions of an item, nor more items, than the arrays
\* it is read into (GetUpdateItem and GetAllUpdateItems).
StoreBounded ==
    /\ Len(store) <= MaxStored
    /\ \A i \in StoredItems : Cardinality(Versions(ItemID[i])) <= MaxVersions

\* An item that becomes installed has all its layers unpacked and linked, however
\* its installation interleaved with others, unless during its call RemoveOrphans took
\* a layer it had come to, or another thread the directory of one, working on another
\* blob of that diff ID (StoreUpdateItem checks no file; the marks are by digest).
LayersUnlessDisturbed ==
    [][\A i \in Items :
          /\ ~HasState(i, "installed")
          /\ HasState(i, "installed")'
          => \E t \in Installers :
                /\ job[t] = i
                /\ pc[t] \in {"store", "adding"}
                /\ pc'[t] # pc[t]
                /\ \/ t \in disturbed
                   \/ \A d \in PartsOf(i) \intersect Layers :
                          PartValid(d, blobs, layers)']_smVars
=============================================================================
