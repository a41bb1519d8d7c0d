------------------------- MODULE ImageManagerProofs -------------------------
(***************************************************************************)
(* Proofs about the image manager, for any update items, any number of     *)
(* callers, any timing of the timer, of cancels and of crashes.             *)
(*                                                                         *)
(* That only one version of an item is ever installed is not inductive: it  *)
(* rests on the order of the loops of an install.  VersionInv says what the *)
(* loop over the different versions has left to do and that the later loops *)
(* find nothing of it.                                                      *)
(***************************************************************************)
EXTENDS ImageManager, TLAPS

Installed == InState({"Installed"})

\* The other versions of the requested items.
Different == UNION {SameItem(p) : p \in request}

VersionInv ==
    /\ stored \in [Pairs -> ItemStates]
    /\ request \in Requests
    /\ OneVersionInstalled
    /\ phase = "different" => Installed \cap Different \subseteq todo
    /\ phase \in {"integrity", "install"} => Installed \cap Different = {}
    /\ phase = "install" => todo \subseteq request

-----------------------------------------------------------------------------
(* The gate, of any number of callers and cancels. The three parts of its  *)
(* invariant need each other: exclusion rests on mInProgress telling the   *)
(* truth.                                                                  *)

GateInv == GateTypeOK /\ MutualExclusion /\ NoLostWakeup

\* GateInit establishes the invariant.
LEMMA GateInitInv == GateInit => GateInv
  BY DEF GateInit, GateInv, GateTypeOK, MutualExclusion, NoLostWakeup, Results

\* Each step keeps the invariant.
LEMMA GateStepInv == GateInv /\ [GateNext]_gateVars => GateInv'
<1> SUFFICES ASSUME GateInv, [GateNext]_gateVars PROVE GateInv'
  OBVIOUS
<1> USE DEF GateInv, GateTypeOK, MutualExclusion, NoLostWakeup, Results
<1>1. ASSUME NEW c \in Callers, Call(c) PROVE GateInv'
  BY <1>1 DEF Call
<1>2. ASSUME NEW c \in Callers, StartAction(c) PROVE GateInv'
  <2>1. CASE mCancel
    <3>1. /\ op[c] = "starting" /\ op' = [op EXCEPT ![c] = "canceled"]
          /\ mCancel' = FALSE /\ UNCHANGED mInProgress
      BY <1>2, <2>1 DEF StartAction
    <3>2. NoLostWakeup'
      BY <2>1, <3>1
    <3>3. GateTypeOK' /\ MutualExclusion'
      BY <3>1
    <3> QED
      BY <3>2, <3>3
  <2>2. CASE ~mCancel /\ ~mInProgress
    BY <1>2, <2>2 DEF StartAction
  <2>3. CASE ~mCancel /\ mInProgress
    <3>1. /\ op[c] = "starting" /\ op' = [op EXCEPT ![c] = "blocked"]
          /\ UNCHANGED <<mInProgress, mCancel>>
      BY <1>2, <2>3 DEF StartAction
    <3>2. NoLostWakeup'
      BY <2>3, <3>1
    <3>3. GateTypeOK' /\ MutualExclusion'
      BY <3>1
    <3> QED
      BY <3>2, <3>3
  <2> QED
    BY <2>1, <2>2, <2>3
<1>3. ASSUME NEW c \in Callers, SeeCancel(c) PROVE GateInv'
  BY <1>3 DEF SeeCancel
<1>4. ASSUME NEW c \in Callers, NEW result \in Results, StopAction(c, result)
      PROVE  GateInv'
  <2>1. op[c] \in {"running", "seen"}
    BY <1>4 DEF StopAction
  <2>2. \A d \in Callers \ {c} : op[d] \notin {"running", "seen"}
    BY <2>1
  <2>3. op' = [d \in Callers |->
                  IF d = c THEN result
                  ELSE IF op[d] = "blocked" THEN "starting" ELSE op[d]]
    BY <1>4 DEF StopAction, NotifyAll
  <2> QED
    BY <1>4, <2>2, <2>3 DEF StopAction
<1>5. ASSUME NEW c \in Callers, Return(c) PROVE GateInv'
  BY <1>5 DEF Return
<1>6. CASE Cancel
  BY <1>6 DEF Cancel, NotifyAll
<1>7. CASE GateRestart
  BY <1>7 DEF GateRestart
<1>8. CASE UNCHANGED gateVars
  BY <1>8 DEF gateVars
<1> QED
  BY <1>1, <1>2, <1>3, <1>4, <1>5, <1>6, <1>7, <1>8 DEF GateNext, GateStep

\* The invariant holds in every reachable state.
LEMMA GateInvariance == GateSpec => []GateInv
  BY GateInitInv, GateStepInv, PTL DEF GateSpec

\* Two downloads or installs never run at a time, for any number of callers.
THEOREM GateExclusion == GateSpec => []MutualExclusion
  BY GateInvariance, PTL DEF GateInv

\* No caller sleeps in StartAction while the manager is free or canceled.
THEOREM GateWakeup == GateSpec => []NoLostWakeup
  BY GateInvariance, PTL DEF GateInv

\* Each step of the image manager is a step of its gate or leaves it alone.
LEMMA StepIsGateStep == [ImageManagerNext]_imVars => [GateNext]_gateVars
<1> SUFFICES ASSUME ImageManagerNext PROVE [GateNext]_gateVars
  BY DEF imVars, gate, gateVars
<1> USE DEF gate, gateVars
<1>1. ASSUME NEW c \in Callers, CallOrReturn(c) \/ Begin(c) \/ End(c)
      PROVE  [GateNext]_gateVars
  BY <1>1 DEF CallOrReturn, Begin, End, GateNext, GateStep, Results
<1>2. ASSUME NEW c \in Callers, NEW p \in Pairs, NEW result \in Results,
             VerifyStoredItems(c, p, result) \/ LoadItem(c, result)
      PROVE  [GateNext]_gateVars
  BY <1>2 DEF VerifyStoredItems, LoadItem, DownloadItem, Results, GateNext, GateStep
<1>3. ASSUME NEW c \in Callers, NEW result \in Results, LoadItem(c, result)
      PROVE  [GateNext]_gateVars
  BY <1>3 DEF LoadItem, DownloadItem, Results, GateNext, GateStep
<1>4. CASE \/ RemovePendingItems \/ CleanupDownloadingItems \/ StartVerify
           \/ StartProcess
           \/ (\E p \in Pairs : SkipVerifiedItem(p) \/ ProcessDownloadRequest(p))
           \/ StartOrphans \/ CleanupOrphanedBlobs
  BY <1>4 DEF RemovePendingItems, CleanupDownloadingItems, StartVerify,
     StartProcess, SkipVerifiedItem, ProcessDownloadRequest, StartOrphans,
     CleanupOrphanedBlobs, NextLoop
<1>5. CASE Installing
  BY <1>5 DEF Installing, RemoveDifferentVersions, StartIntegrity,
     VerifyBlobsIntegrity, StartInstall, SetItemsToInstalled, StartRemove,
     SetItemsToRemoved, NextLoop
<1>6. CASE \/ RemoveOutdatedItems \/ (\E p \in Pairs : RemoveOutdatedItem(p))
           \/ ReadUsed \/ WipeOrphanedBlobs
           \/ (\E p \in Pairs : RemoveItem(p) \/ Corrupt(p))
  BY <1>6 DEF RemoveOutdatedItems, RemoveOutdatedItem, ReadUsed,
     WipeOrphanedBlobs, RemoveItem, Corrupt
<1>7. CASE CancelOperation \/ Restart
  BY <1>7 DEF CancelOperation, Restart, GateNext
<1> QED
  BY <1>1, <1>2, <1>3, <1>4, <1>5, <1>6, <1>7 DEF ImageManagerNext, Downloading

\* The image manager implements its gate.
THEOREM ImplementsGate == ImageManagerSpec => GateSpec
<1>1. ImageManagerInit => GateInit
  BY DEF ImageManagerInit
<1> QED
  BY <1>1, StepIsGateStep, PTL DEF ImageManagerSpec, GateSpec

\* A download and an install never work on items and blobs at the same time.
THEOREM Exclusion == ImageManagerSpec => []MutualExclusion
  BY ImplementsGate, GateExclusion, PTL

\* No operation sleeps in StartAction while the manager is free or canceled.
THEOREM Wakeup == ImageManagerSpec => []NoLostWakeup
  BY ImplementsGate, GateWakeup, PTL

-----------------------------------------------------------------------------
(* One version.                                                            *)

\* A step that installs nothing and goes on in the same loop, or in none that
\* the invariant speaks of, keeps it.
LEMMA Uninstalling ==
    ASSUME VersionInv,
           stored' \in [Pairs -> ItemStates],
           Installed' \subseteq Installed,
           \/ UNCHANGED <<request, phase, todo>>
           \/ request' \in Requests /\ phase' \notin {"different", "integrity", "install"}
    PROVE  VersionInv'
<1>1. OneVersionInstalled'
  BY DEF VersionInv, OneVersionInstalled, Installed
<1>2. CASE UNCHANGED <<request, phase, todo>>
  <2>1. Different' = Different
    BY <1>2 DEF Different, SameItem
  <2> QED
    BY <1>1, <1>2, <2>1 DEF VersionInv
<1>3. CASE request' \in Requests /\ phase' \notin {"different", "integrity", "install"}
  BY <1>1, <1>3 DEF VersionInv
<1> QED
  BY <1>2, <1>3

\* The beginning and the end of an operation keep the invariant.
LEMMA OperationVersion ==
    ASSUME VersionInv, NEW c \in Callers, CallOrReturn(c) \/ Begin(c) \/ End(c)
    PROVE  VersionInv'
<1>1. stored' = stored
  BY DEF CallOrReturn, Begin, End
<1>2. Installed' = Installed /\ stored' \in [Pairs -> ItemStates]
  BY <1>1 DEF Installed, InState, VersionInv
<1>3. CASE CallOrReturn(c)
  BY <1>2, <1>3, Uninstalling DEF CallOrReturn, operation
<1>4. CASE End(c)
  BY <1>2, <1>4, Uninstalling DEF End, VersionInv
<1>5. CASE Begin(c)
  <2>1. CASE UNCHANGED operation
    BY <1>2, <2>1, Uninstalling DEF operation
  <2>2. CASE \E r \in Requests : BeginDownload(r)
    <3>1. request' \in Requests /\ phase' \in {"pending", "cleanup"}
      BY <2>2 DEF BeginDownload
    <3> QED
      BY <1>2, <3>1, Uninstalling
  <2>3. CASE BeginInstall
    <3>1. request' = request /\ phase' = "different"
          /\ todo' = Installed \cap Different
      BY <2>3 DEF BeginInstall, Installed, Different
    <3>2. Different' = Different
      BY <3>1 DEF Different, SameItem
    <3>3. OneVersionInstalled'
      BY <1>2 DEF VersionInv, OneVersionInstalled, Installed
    <3> QED
      BY <1>2, <3>1, <3>2, <3>3 DEF VersionInv
  <2> QED
    BY <1>5, <2>1, <2>2, <2>3 DEF Begin
<1> QED
  BY <1>3, <1>4, <1>5

\* A download installs nothing.
LEMMA DownloadingVersion ==
    ASSUME VersionInv, Downloading PROVE VersionInv'
<1> USE DEF VersionInv, Installed, InState, ItemStates
<1>1. CASE RemovePendingItems \/ CleanupDownloadingItems
  BY <1>1, Uninstalling
  DEF RemovePendingItems, CleanupDownloadingItems, RemoveStored
<1>2. CASE StartVerify \/ StartProcess \/ StartOrphans \/ CleanupOrphanedBlobs
  BY <1>2, Uninstalling
  DEF StartVerify, StartProcess, StartOrphans, CleanupOrphanedBlobs, NextLoop
<1>3. ASSUME NEW c \in Callers, NEW p \in Pairs, NEW result \in Results,
             VerifyStoredItems(c, p, result)
      PROVE  VersionInv'
  BY <1>3, Uninstalling DEF VerifyStoredItems, UpdateItemState
<1>4. ASSUME NEW p \in Pairs, ProcessDownloadRequest(p) PROVE VersionInv'
  <2>1. stored' \in [Pairs -> ItemStates] /\ Installed' \subseteq Installed
    BY <1>4 DEF ProcessDownloadRequest, Drop
  <2>2. UNCHANGED request /\ phase' \notin {"different", "integrity", "install"}
    BY <1>4 DEF ProcessDownloadRequest
  <2> QED
    BY <2>1, <2>2, Uninstalling
<1>5. ASSUME NEW c \in Callers, NEW result \in Results, LoadItem(c, result)
      PROVE  VersionInv'
  BY <1>5, Uninstalling DEF LoadItem, UpdateItemState
<1>6. CASE \E p \in Pairs : SkipVerifiedItem(p)
  BY <1>6, Uninstalling DEF SkipVerifiedItem
<1> QED
  BY <1>1, <1>2, <1>3, <1>4, <1>5, <1>6 DEF Downloading

\* An install makes room for a version before it installs it.
LEMMA InstallingVersion ==
    ASSUME VersionInv, Installing PROVE VersionInv'
<1>1. CASE RemoveDifferentVersions
  <2> PICK q \in todo : RemoveStored(q) /\ todo' = todo \ {q}
    BY <1>1 DEF RemoveDifferentVersions
  <2>1. stored' \in [Pairs -> ItemStates] /\ Installed' \subseteq Installed
        /\ q \notin Installed'
    BY DEF VersionInv, Installed, InState, ItemStates, RemoveStored
  <2>2. Different' = Different /\ request' = request
        /\ phase = "different" /\ phase' = "different"
    BY <1>1 DEF RemoveDifferentVersions, Different, SameItem
  <2>3. OneVersionInstalled'
    BY <2>1 DEF VersionInv, OneVersionInstalled, Installed
  <2> QED
    BY <2>1, <2>2, <2>3 DEF VersionInv
<1>2. CASE StartIntegrity \/ StartInstall
  <2>1. stored' = stored /\ request' = request
    BY <1>2 DEF StartIntegrity, StartInstall, NextLoop
  <2>2. Installed' = Installed /\ Different' = Different
        /\ (OneVersionInstalled' <=> OneVersionInstalled)
    BY <2>1 DEF Installed, InState, Different, SameItem, OneVersionInstalled
  <2>3. Installed \cap Different = {} /\ phase' \in {"integrity", "install"}
        /\ (phase' = "install" => todo' \subseteq request)
    BY <1>2 DEF StartIntegrity, StartInstall, NextLoop, VersionInv
  <2> QED
    BY <2>1, <2>2, <2>3 DEF VersionInv
<1>3. CASE VerifyBlobsIntegrity
  <2>1. stored' \in [Pairs -> ItemStates] /\ Installed' \subseteq Installed
    BY <1>3 DEF VerifyBlobsIntegrity, RemoveStored, VersionInv, Installed, InState,
       ItemStates
  <2>2. Different' = Different /\ request' = request
        /\ phase = "integrity" /\ phase' = "integrity"
    BY <1>3 DEF VerifyBlobsIntegrity, Different, SameItem
  <2>3. OneVersionInstalled'
    BY <2>1 DEF VersionInv, OneVersionInstalled, Installed
  <2> QED
    BY <2>1, <2>2, <2>3 DEF VersionInv
<1>4. CASE SetItemsToInstalled
  <2> PICK p \in todo : UpdateItemState(p, "Installed") /\ todo' = todo \ {p}
    BY <1>4 DEF SetItemsToInstalled
  <2>1. Different' = Different /\ request' = request /\ phase' = "install"
        /\ p \in request /\ Installed \cap Different = {} /\ p \in Pairs
    BY <1>4 DEF SetItemsToInstalled, Different, SameItem, VersionInv, Requests
  <2>2. stored' \in [Pairs -> ItemStates] /\ Installed' \subseteq Installed \cup {p}
    BY <2>1 DEF VersionInv, Installed, InState, ItemStates, UpdateItemState
  <2>3. \A q \in Installed : q[1] = p[1] => q = p
    BY <2>1 DEF Different, SameItem, Installed, InState
  <2>4. OneVersionInstalled'
    BY <2>2, <2>3 DEF VersionInv, OneVersionInstalled, Installed
  <2>5. p \notin Different
    BY <2>1 DEF Different, SameItem, VersionInv, Requests
  <2> QED
    BY <1>4, <2>1, <2>2, <2>4, <2>5 DEF VersionInv, SetItemsToInstalled
<1>5. CASE StartRemove \/ SetItemsToRemoved
  BY <1>5, Uninstalling
  DEF StartRemove, SetItemsToRemoved, NextLoop, UpdateItemState, VersionInv,
      Installed, InState, ItemStates
<1> QED
  BY <1>1, <1>2, <1>3, <1>4, <1>5 DEF Installing

\* The timer, the space allocator, a cancel and a crash install nothing.
LEMMA OthersVersion ==
    ASSUME VersionInv,
           \/ RemoveOutdatedItems \/ (\E p \in Pairs : RemoveOutdatedItem(p))
           \/ ReadUsed \/ WipeOrphanedBlobs
           \/ (\E p \in Pairs : RemoveItem(p) \/ Corrupt(p))
           \/ CancelOperation \/ Restart
    PROVE  VersionInv'
<1> USE DEF VersionInv, Installed, InState, ItemStates
<1>1. CASE RemoveOutdatedItems \/ ReadUsed \/ WipeOrphanedBlobs \/ CancelOperation
  BY <1>1, Uninstalling
  DEF RemoveOutdatedItems, ReadUsed, WipeOrphanedBlobs, CancelOperation, operation
<1>2. CASE \E p \in Pairs : RemoveOutdatedItem(p) \/ RemoveItem(p) \/ Corrupt(p)
  BY <1>2, Uninstalling
  DEF RemoveOutdatedItem, RemoveItem, Corrupt, RemoveStored, operation
<1>3. CASE Restart
  BY <1>3, Uninstalling DEF Restart
<1> QED
  BY <1>1, <1>2, <1>3

\* Two versions of an item are never installed side by side, whatever crashes,
\* cancels and timers do between the steps of an install.
THEOREM OneVersionSafe == ImageManagerSpec => []OneVersionInstalled
<1>1. ImageManagerInit => VersionInv
  BY DEF ImageManagerInit, VersionInv, NoItems, ItemStates, Requests,
     OneVersionInstalled, InState
<1>2. VersionInv /\ [ImageManagerNext]_imVars => VersionInv'
  <2> SUFFICES ASSUME VersionInv, [ImageManagerNext]_imVars PROVE VersionInv'
    OBVIOUS
  <2>1. CASE UNCHANGED imVars
    BY <2>1, Uninstalling DEF imVars, operation, VersionInv, Installed, InState
  <2>2. CASE ImageManagerNext
    BY <2>2, OperationVersion, DownloadingVersion, InstallingVersion, OthersVersion
    DEF ImageManagerNext
  <2> QED
    BY <2>1, <2>2
<1>3. VersionInv => OneVersionInstalled
  BY DEF VersionInv
<1> QED
  BY <1>1, <1>2, <1>3, PTL DEF ImageManagerSpec
-----------------------------------------------------------------------------
(* The items and their blobs.                                              *)

\* An operation has seen mCancel and is about to return.
Seen == \E c \in Callers : op[c] = "seen"

\* The items that are in the storage, whatever their state.
Present == {p \in Pairs : stored[p] # "none"}

Good == {"Installed", "Pending"}

\* Which operation is in which phase, and what its loop visits.
PhaseInv ==
    /\ phase = "pending" => request = {}
    /\ phase \in {"pending", "cleanup", "verify", "process", "load"} => kind = "download"
    /\ phase \in {"different", "integrity", "install", "remove"} => kind = "install"
    /\ prepared => phase = "idle" \/ kind = "install"
    /\ kind = "install" /\ phase # "idle" => prepared
    /\ phase \in {"process", "load", "integrity", "install"} => todo \subseteq request
    /\ phase = "load" => mCurrentItem \in todo

\* The timer's list is empty unless it works on it; what it is about to keep are at
\* least the items that are or may become Installed.
TimerInv ==
    /\ timer # "remove" => outdated = {}
    /\ timer = "wipe" => /\ Installed \subseteq used
                         /\ kind = "install" => Present \subseteq used

\* What a download has read of a requested item is still so, unless the item was
\* taken away.
Sync(p) ==
    \/ stored[p] = storedItems[p]
    \/ stored[p] = "none" /\ (p \in raced \/ storedItems[p] = "Removed")

SyncInv ==
    /\ phase \in {"pending", "cleanup"} => done = {}
    /\ phase = "verify" =>
           /\ \A p \in request : Sync(p)
           /\ \A p \in (todo \cap request) \cup done : storedItems[p] \in Good
           /\ todo \cap done = {}
    /\ phase = "process" =>
           \A p \in todo : Sync(p) /\ (p \in done => storedItems[p] \in Good)
    /\ phase = "load" =>
           /\ \A p \in todo \ {mCurrentItem} :
                  Sync(p) /\ (p \in done => storedItems[p] \in Good)
           /\ mCurrentItem \notin done
           /\ \/ stored[mCurrentItem] \in {"Downloading", "Failed"}
              \/ stored[mCurrentItem] = "none" /\ mCurrentItem \in raced

ReportInv ==
    kind = "download" /\ phase # "idle" =>
        \A p \in done \ raced : stored[p] \in Good /\ p \in blobs

\* A download leaves no requested item in state Removed, so the timer leaves what is
\* to be installed alone.
RemovedInv ==
    /\ kind = "download" /\ phase \in {"process", "load", "orphans", "return"} =>
           \A p \in request :
               stored[p] = "Removed" =>
                   Seen \/ (phase \in {"process", "load"} /\ p \in todo)
    /\ prepared => \A p \in request : stored[p] # "Removed" /\ p \notin outdated

IntactInv ==
    /\ phase = "verify" => Installed \subseteq blobs \cup todo
    /\ kind = "download" /\ request # {} /\ ~Seen
           /\ phase \in {"process", "load", "orphans", "return"}
           => Installed \subseteq blobs

\* A requested item is reported as installed exactly if it is there with its blobs.
Settled(p) == IF p \in done THEN stored[p] # "none" /\ p \in blobs
                            ELSE stored[p] = "none"

InstallInv ==
    /\ phase = "different" => done = request
    /\ phase = "integrity" =>
           /\ \A p \in todo : storedItems[p] = stored[p] /\ p \in done
           /\ \A p \in request \ todo : Settled(p)
    /\ kind = "install" /\ phase \in {"install", "remove", "orphans", "return"} =>
           \A p \in request : Settled(p)
    /\ phase = "install" => \A p \in request \ todo : stored[p] \in {"none", "Installed"}
    /\ kind = "install" /\ phase \in {"remove", "orphans", "return"} =>
           \A p \in request : stored[p] \in {"none", "Installed"}
    /\ phase = "remove" =>
           /\ todo \cap request = {}
           /\ \A q \in Pairs \ (request \cup todo) : stored[q] \in {"none", "Removed"}
    /\ kind = "install" /\ phase \in {"orphans", "return"} =>
           \A q \in Pairs \ request : stored[q] \in {"none", "Removed"}

StateInv ==
    /\ ImageManagerTypeOK /\ PhaseInv /\ TimerInv /\ SyncInv /\ ReportInv
    /\ RemovedInv /\ IntactInv /\ InstallInv

\* The beginning and the end of an operation keep the invariant. A download that ends
\* well has not seen a cancel, because no second operation works beside it.
LEMMA OperationState ==
    ASSUME GateInv, GateInv', StateInv, NEW c \in Callers,
           CallOrReturn(c) \/ Begin(c) \/ End(c)
    PROVE  StateInv'
<1> USE DEF GateInv, GateTypeOK, StateInv, ImageManagerTypeOK, PhaseInv, TimerInv, SyncInv,
            ReportInv, RemovedInv, IntactInv, InstallInv, InState, Installed, Present,
            Good, Sync, Settled, Seen, timerVars, gate, ItemStates, Requests, Phases,
            MutualExclusion
<1>1. CASE CallOrReturn(c)
  BY <1>1 DEF CallOrReturn, Call, Return, Results, operation
<1>2. CASE End(c)
  BY <1>2 DEF End, StopAction, NotifyAll, NoItems
<1>3. CASE Begin(c)
  <2>1. timer = "idle" /\ UNCHANGED <<stored, blobs, timer, outdated, used>>
    BY <1>3 DEF Begin
  <2>2. \A d \in Callers : op[d] = "seen" <=> op'[d] = "seen"
    BY <1>3 DEF Begin, StartAction
  <2>3. CASE UNCHANGED <<operation, raced>>
    BY <2>1, <2>2, <2>3 DEF operation
  <2>4. CASE raced' = {} /\ BeginInstall
    BY <2>1, <2>4 DEF BeginInstall
  <2>5. ASSUME NEW r \in Requests, raced' = {}, BeginDownload(r) PROVE StateInv'
    BY <2>1, <2>5 DEF BeginDownload
  <2> QED
    BY <1>3, <2>3, <2>4, <2>5 DEF Begin
<1> QED
  BY <1>1, <1>2, <1>3

\* The steps of a download keep the invariant.
LEMMA DownloadingState ==
    ASSUME GateInv, GateInv', StateInv, Downloading PROVE StateInv'
<1> USE DEF GateInv, GateTypeOK, StateInv, ImageManagerTypeOK, PhaseInv, TimerInv, SyncInv,
            ReportInv, RemovedInv, IntactInv, InstallInv, InState, Installed, Present,
            Good, Sync, Settled, Seen, timerVars, gate, ItemStates, Requests, Phases,
            MutualExclusion
<1>1. CASE RemovePendingItems
  BY <1>1 DEF RemovePendingItems, RemoveStored
<1>2. CASE CleanupDownloadingItems
  BY <1>2 DEF CleanupDownloadingItems, RemoveStored
<1>3. CASE StartVerify
  BY <1>3 DEF StartVerify, NextLoop
<1>4. ASSUME NEW c \in Callers, NEW p \in Pairs, NEW result \in Results,
             VerifyStoredItems(c, p, result)
      PROVE  StateInv'
  <2>1. CASE result = "ok"
    <3>1. /\ phase = "verify" /\ p \in todo /\ todo' = todo \ {p}
          /\ blobs' = blobs \cup {p} /\ done' = done \cup ({p} \cap request)
          /\ UNCHANGED <<gate, stored, storedItems, kind, request, prepared, phase,
                         mCurrentItem, timerVars, raced>>
      BY <1>4, <2>1 DEF VerifyStoredItems, DownloadItem
    <3> QED
      BY <3>1
  <2>2. CASE result # "ok"
    <3>1. /\ phase = "verify" /\ p \in todo /\ todo' = todo \ {p}
          /\ stored' = [stored EXCEPT ![p] = IF @ = "none" THEN @ ELSE "Failed"]
          /\ storedItems' = [storedItems EXCEPT ![p] =
                                 IF stored[p] = "none" THEN @ ELSE "Failed"]
          /\ UNCHANGED <<blobs, done, kind, request, prepared, mCurrentItem, timerVars,
                         raced>>
      BY <1>4, <2>2 DEF VerifyStoredItems, DownloadItem, UpdateItemState
    <3>2. CASE result = "canceled"
      <4>1. phase' = "return" /\ Seen'
        BY <1>4, <3>2 DEF VerifyStoredItems, DownloadItem, SeeCancel
      <4> QED
        BY <3>1, <4>1
    <3>3. CASE result # "canceled"
      <4>1. UNCHANGED <<phase, gate>>
        BY <1>4, <2>2, <3>3 DEF VerifyStoredItems, DownloadItem
      <4> QED
        BY <3>1, <4>1
    <3> QED
      BY <3>2, <3>3
  <2> QED
    BY <2>1, <2>2
<1>5. CASE StartProcess
  BY <1>5 DEF StartProcess, NextLoop
<1>6. ASSUME NEW p \in Pairs, SkipVerifiedItem(p) PROVE StateInv'
  BY <1>6 DEF SkipVerifiedItem
<1>7. ASSUME NEW p \in Pairs, ProcessDownloadRequest(p) PROVE StateInv'
  <2> DEFINE lost == storedItems[p] = "Removed" /\ stored[p] = "none"
             taken == storedItems[p] \in {"none", "Removed"} /\ ~lost
  <2>1. PICK drop \in SUBSET SameItem(p) :
            /\ storedItems' = Drop(drop, storedItems)
            /\ stored' = IF taken THEN [Drop(drop, stored) EXCEPT ![p] = "Downloading"]
                                  ELSE Drop(drop, stored)
    BY <1>7 DEF ProcessDownloadRequest
  <2>2. /\ phase = "process" /\ p \in todo /\ p \in request
        /\ storedItems[p] \notin Good
        /\ UNCHANGED <<gate, blobs, kind, request, prepared, done, timerVars, raced>>
    BY <1>7 DEF ProcessDownloadRequest
  <2>3. drop \cap request = {} /\ p \notin drop
    BY <2>1, <2>2 DEF SameItem
  <2>4. /\ \A q \in request \ {p} : stored'[q] = stored[q]
        /\ \A q \in request : storedItems'[q] = storedItems[q]
        /\ taken => stored'[p] = "Downloading"
        /\ ~taken => stored'[p] = stored[p]
        /\ \A q \in Pairs : stored'[q] = stored[q] \/ stored'[q] = "none"
                               \/ stored'[q] = "Downloading"
        /\ stored' \in [Pairs -> ItemStates] /\ storedItems' \in [Pairs -> ItemStates]
    BY <2>1, <2>2, <2>3 DEF Drop
  <2>5. p \notin done /\ Sync(p)
    BY <2>2
  <2>6. CASE lost
    <3>1. todo' = todo \ {p} /\ UNCHANGED <<phase, mCurrentItem>>
      BY <1>7, <2>6 DEF ProcessDownloadRequest
    <3> QED
      BY <2>2, <2>4, <2>5, <2>6, <3>1
  <2>7. CASE ~lost
    <3>1. phase' = "load" /\ mCurrentItem' = p /\ UNCHANGED todo
      BY <1>7, <2>7 DEF ProcessDownloadRequest
    <3>2. stored'[p] \in {"Downloading", "Failed"} \/ (stored'[p] = "none" /\ p \in raced)
      BY <2>2, <2>4, <2>5, <2>7
    <3> QED
      BY <2>2, <2>4, <2>5, <3>1, <3>2
  <2> QED
    BY <2>6, <2>7
<1>8. ASSUME NEW c \in Callers, NEW result \in Results, LoadItem(c, result)
      PROVE  StateInv'
  BY <1>8 DEF LoadItem, DownloadItem, SeeCancel, UpdateItemState
<1>9. CASE StartOrphans
  BY <1>9 DEF StartOrphans, NextLoop
<1>10. CASE CleanupOrphanedBlobs
  BY <1>10 DEF CleanupOrphanedBlobs, NoItems
<1> QED
  BY <1>1, <1>2, <1>3, <1>4, <1>5, <1>6, <1>7, <1>8, <1>9, <1>10 DEF Downloading

\* The steps of an install keep the invariant.
LEMMA InstallingState ==
    ASSUME GateInv, GateInv', StateInv, Installing PROVE StateInv'
<1> USE DEF GateInv, GateTypeOK, StateInv, ImageManagerTypeOK, PhaseInv, TimerInv, SyncInv,
            ReportInv, RemovedInv, IntactInv, InstallInv, InState, Installed, Present,
            Good, Sync, Settled, Seen, timerVars, gate, ItemStates, Requests, Phases,
            MutualExclusion
<1>1. CASE RemoveDifferentVersions
  BY <1>1 DEF RemoveDifferentVersions, RemoveStored
<1>2. CASE StartIntegrity
  BY <1>2 DEF StartIntegrity, NextLoop
<1>3. CASE VerifyBlobsIntegrity
  <2>1. PICK p \in todo :
            /\ IF storedItems[p] = "none" \/ p \notin blobs
               THEN RemoveStored(p) /\ done' = done \ {p}
               ELSE UNCHANGED <<stored, done>>
            /\ todo' = todo \ {p}
    BY <1>3 DEF VerifyBlobsIntegrity
  <2>2. /\ phase = "integrity" /\ kind = "install" /\ p \in Pairs /\ p \in done
        /\ storedItems[p] = stored[p]
        /\ UNCHANGED <<gate, blobs, kind, request, prepared, phase, storedItems,
                       mCurrentItem, timerVars, raced>>
    BY <1>3 DEF VerifyBlobsIntegrity
  <2>3. CASE storedItems[p] = "none" \/ p \notin blobs
    BY <2>1, <2>2, <2>3 DEF RemoveStored
  <2>4. CASE ~(storedItems[p] = "none" \/ p \notin blobs)
    BY <2>1, <2>2, <2>4
  <2> QED
    BY <2>3, <2>4
<1>4. CASE StartInstall
  BY <1>4 DEF StartInstall, NextLoop
<1>5. CASE SetItemsToInstalled
  BY <1>5 DEF SetItemsToInstalled, UpdateItemState
<1>6. CASE StartRemove
  BY <1>6 DEF StartRemove, NextLoop
<1>7. CASE SetItemsToRemoved
  BY <1>7 DEF SetItemsToRemoved, UpdateItemState
<1> QED
  BY <1>1, <1>2, <1>3, <1>4, <1>5, <1>6, <1>7 DEF Installing

\* The timer, the space allocator, a damaged blob, a cancel and a crash keep the
\* invariant.
LEMMA OthersState ==
    ASSUME GateInv, GateInv', StateInv,
           \/ RemoveOutdatedItems \/ (\E p \in Pairs : RemoveOutdatedItem(p))
           \/ ReadUsed \/ WipeOrphanedBlobs
           \/ (\E p \in Pairs : RemoveItem(p) \/ Corrupt(p))
           \/ CancelOperation \/ Restart
    PROVE  StateInv'
<1> USE DEF GateInv, GateTypeOK, StateInv, ImageManagerTypeOK, PhaseInv, TimerInv, SyncInv,
            ReportInv, RemovedInv, IntactInv, InstallInv, InState, Installed, Present,
            Good, Sync, Settled, Seen, timerVars, gate, ItemStates, Requests, Phases,
            MutualExclusion
<1>1. CASE RemoveOutdatedItems
  BY <1>1 DEF RemoveOutdatedItems, operation
<1>2. ASSUME NEW p \in Pairs, RemoveOutdatedItem(p) PROVE StateInv'
  BY <1>2 DEF RemoveOutdatedItem, RemoveStored, operation
<1>3. CASE ReadUsed
  BY <1>3 DEF ReadUsed, operation
<1>4. CASE WipeOrphanedBlobs
  BY <1>4 DEF WipeOrphanedBlobs, operation
<1>5. ASSUME NEW p \in Pairs, RemoveItem(p) PROVE StateInv'
  BY <1>5 DEF RemoveItem, RemoveStored, operation
<1>6. ASSUME NEW p \in Pairs, Corrupt(p) PROVE StateInv'
  BY <1>6 DEF Corrupt, operation
<1>7. CASE CancelOperation
  BY <1>7 DEF CancelOperation, Cancel, NotifyAll, operation
<1>8. CASE Restart
  BY <1>8 DEF Restart, GateRestart, NoItems
<1> QED
  BY <1>1, <1>2, <1>3, <1>4, <1>5, <1>6, <1>7, <1>8

\* The invariant holds throughout, together with that of the gate.
THEOREM StateInvariance == ImageManagerSpec => [](GateInv /\ StateInv)
<1>1. ImageManagerInit => GateInv /\ StateInv
  <2> SUFFICES ASSUME ImageManagerInit PROVE GateInv /\ StateInv
    OBVIOUS
  <2>1. GateInv
    BY GateInitInv DEF ImageManagerInit
  <2> QED
    BY <2>1 DEF ImageManagerInit, GateInv, StateInv, ImageManagerTypeOK, PhaseInv,
       TimerInv, SyncInv, ReportInv, RemovedInv, IntactInv, InstallInv, Installed,
       InState, NoItems, ItemStates, Requests, Phases
<1>2. GateInv /\ StateInv /\ [ImageManagerNext]_imVars => (GateInv /\ StateInv)'
  <2> SUFFICES ASSUME GateInv, StateInv, [ImageManagerNext]_imVars
               PROVE  GateInv' /\ StateInv'
    OBVIOUS
  <2>1. GateInv'
    BY StepIsGateStep, GateStepInv
  <2>2. CASE UNCHANGED imVars
    BY <2>1, <2>2 DEF imVars, gate, operation, timerVars, GateInv, StateInv,
       ImageManagerTypeOK, PhaseInv, TimerInv, SyncInv, ReportInv, RemovedInv,
       IntactInv, InstallInv, Installed, Present, InState, Sync, Settled, Seen
  <2>3. CASE ImageManagerNext
    BY <2>1, <2>3, OperationState, DownloadingState, InstallingState, OthersState
    DEF ImageManagerNext
  <2> QED
    BY <2>1, <2>2, <2>3
<1> QED
  BY <1>1, <1>2, PTL DEF ImageManagerSpec

\* Every variable of the image manager keeps its type; in particular only requested
\* items are reported or excused.
THEOREM TypeCorrect == ImageManagerSpec => []ImageManagerTypeOK
<1>1. StateInv => ImageManagerTypeOK
  BY DEF StateInv
<1> QED
  BY <1>1, StateInvariance, PTL

\* What a download reports is stored and has its blobs, unless the timer took it away
\* meanwhile: whatever was removed for space, canceled or damaged before.
THEOREM ReportSafe == ImageManagerSpec => []ReportedIsDownloaded
<1>1. StateInv => ReportedIsDownloaded
  BY DEF StateInv, ReportInv, ReportedIsDownloaded, Good
<1> QED
  BY <1>1, StateInvariance, PTL

\* A download that was not canceled leaves no damaged item in state Installed.
THEOREM IntactSafe == ImageManagerSpec => []InstalledIsIntact
<1>1. StateInv => InstalledIsIntact
  BY DEF StateInv, IntactInv, InstalledIsIntact, Installed, Seen
<1> QED
  BY <1>1, StateInvariance, PTL

\* When an install returns, the same desired status needs no further update exactly
\* when no item failed, and what is reported as installed has its blobs.
THEOREM ConvergenceSafe == ImageManagerSpec => []InstallConverges
<1>1. ASSUME StateInv, phase = "return", kind = "install"
      PROVE  /\ IsUpdateItemsRequired(request) <=> done # request
             /\ done \subseteq blobs
  <2>1. done \subseteq request /\ request \subseteq Pairs
    BY <1>1 DEF StateInv, ImageManagerTypeOK, Requests
  <2>2. \A p \in Pairs : stored[p] = "Installed" <=> p \in done
    BY <1>1, <2>1 DEF StateInv, InstallInv, Settled
  <2>3. InState({"Installed"}) = done
    BY <2>1, <2>2 DEF InState
  <2> QED
    BY <1>1, <2>1, <2>3 DEF StateInv, InstallInv, Settled, IsUpdateItemsRequired
<1>2. StateInv => InstallConverges
  BY <1>1 DEF InstallConverges
<1> QED
  BY <1>2, StateInvariance, PTL
=============================================================================
