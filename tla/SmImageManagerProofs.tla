------------------------ MODULE SmImageManagerProofs ------------------------
(***************************************************************************)
(* Proofs about the image manager of the service manager and the space     *)
(* allocator, for any items, layers and installing threads: the mark in    *)
(* mInProgressBlobs excludes two installations of a layer, the count of    *)
(* allocations covers the spaces handed out, the storage stays within its  *)
(* bounds, and an item is stored with its layers unless it lost one.       *)
(***************************************************************************)
EXTENDS SmImageManager, FiniteSetTheorems, FunctionTheorems, SequenceTheorems, TLAPS

\* The count of allocations, with what its proof needs of the types.
SpaceInv ==
    /\ mAllocationCount \in Nat
    /\ space \subseteq Threads
    /\ CountCoversSpaces

\* A layer that is being installed is marked; a blob's short mark is no layer's.
MarkInv ==
    /\ DOMAIN pc = Threads /\ DOMAIN job = Threads /\ DOMAIN pos = Installers
    /\ \A t \in Installers : pc[t] = "unmark" => Digest(t) \notin Layers
    /\ \A t \in Installers : InLayer(t) => Digest(t) \in mInProgressBlobs
    /\ LayerInstallExclusive

-----------------------------------------------------------------------------
\* Finite sets of threads.
LEMMA SpaceSets ==
  ASSUME NEW S \in SUBSET Threads
  PROVE  /\ IsFiniteSet(S) /\ Cardinality(S) \in Nat
         /\ \A t \in Threads : Cardinality(S \union {t}) <= Cardinality(S) + 1
         /\ \A t \in S : Cardinality(S \ {t}) = Cardinality(S) - 1
<1>1. IsFiniteSet(S) /\ Cardinality(S) \in Nat
  BY ThreadsFinite, FS_Subset, FS_CardinalityType
<1>2. ASSUME NEW t \in Threads PROVE Cardinality(S \union {t}) <= Cardinality(S) + 1
  BY <1>1, FS_AddElement
<1>3. ASSUME NEW t \in S PROVE Cardinality(S \ {t}) = Cardinality(S) - 1
  BY <1>1, FS_RemoveElement
<1> QED
  BY <1>1, <1>2, <1>3

\* An allocation that succeeds is counted.
LEMMA AllocateCounts ==
  ASSUME SpaceInv, NEW t \in Threads,
         mAllocationCount' = mAllocationCount + 1, space' = space \union {t}
  PROVE  SpaceInv'
<1>1. Cardinality(space) \in Nat /\ Cardinality(space') <= Cardinality(space) + 1
  BY SpaceSets DEF SpaceInv
<1>2. space' \subseteq Threads
  BY DEF SpaceInv
<1>3. IsFiniteSet(space') /\ Cardinality(space') \in Nat
  BY <1>2, SpaceSets
<1> QED
  BY <1>1, <1>2, <1>3 DEF SpaceInv, CountCoversSpaces

\* A space that is accepted or released is counted down once.
LEMMA EndSpaceCounts ==
  ASSUME SpaceInv, NEW t \in Threads, EndSpace(t)
  PROVE  SpaceInv'
<1>1. CASE t \in space
  <2>1. Cardinality(space) \in Nat /\ Cardinality(space \ {t}) = Cardinality(space) - 1
    BY <1>1, SpaceSets DEF SpaceInv
  <2>2. Cardinality(space \ {t}) \in Nat
    BY SpaceSets DEF SpaceInv
  <2>3. mAllocationCount' = mAllocationCount - 1 /\ mAllocationCount' \in Nat
    BY <1>1, <2>1, <2>2 DEF EndSpace, Done, SpaceInv, CountCoversSpaces
  <2> QED
    BY <1>1, <2>1, <2>2, <2>3 DEF EndSpace, SpaceInv, CountCoversSpaces
<1>2. CASE t \notin space
  BY <1>2 DEF EndSpace, saVars, SpaceInv, CountCoversSpaces
<1> QED
  BY <1>1, <1>2

\* Whatever else a step does, it keeps the count when it changes neither it nor the spaces.
LEMMA SpaceKept ==
  ASSUME SpaceInv, UNCHANGED <<mAllocationCount, space>>
  PROVE  SpaceInv'
  BY DEF SpaceInv, CountCoversSpaces

\* Every step of an installation keeps the count.
LEMMA InstallStepCounts ==
  ASSUME SpaceInv, NEW t \in Threads, InstallStep(t)
  PROVE  SpaceInv'
<1>1. CASE AllocateSpace(t)
  <2>1. CASE AllocateFits(t)
    BY <2>1, AllocateCounts DEF AllocateFits
  <2>2. CASE AllocateFails
    BY <2>2, SpaceKept DEF AllocateFails, saVars
  <2>3. CASE StartReclaim(t)
    BY <2>3, SpaceKept DEF StartReclaim
  <2> QED
    BY <1>1, <2>1, <2>2, <2>3 DEF AllocateSpace
<1>2. CASE FinishReclaim(t)
  <2>1. CASE EndReclaim(t, TRUE)
    BY <2>1, AllocateCounts DEF EndReclaim
  <2>2. CASE EndReclaim(t, FALSE)
    BY <2>2, SpaceKept DEF EndReclaim
  <2> QED
    BY <1>2, <2>1, <2>2 DEF FinishReclaim
<1>3. CASE RemoveItem(t) \/ RemoveItemFails(t)
  BY <1>3, SpaceKept DEF RemoveItem, RemoveItemFails, ReclaimItem, ReclaimFails
<1>4. CASE Fetched(t) \/ LinkLayer(t) \/ ReleaseSpace(t)
  <2>1. EndSpace(t) \/ UNCHANGED saVars
    BY <1>4 DEF Fetched, LinkLayer, ReleaseSpace
  <2> QED
    BY <2>1, EndSpaceCounts, SpaceKept DEF saVars
<1>5. CASE Resize(t) \/ CreateLayerMetadata(t) \/ FreeRemovedSize(t)
  <2>1. UNCHANGED saVars
    BY <1>5 DEF Resize, CreateLayerMetadata, FreeRemovedSize, FreeSpace
  <2> QED
    BY <2>1, SpaceKept DEF saVars
<1>6. CASE \/ WaitForInProgressBlob(t)
           \/ ReleaseInProgressBlob(t, "unmark", "check")
           \/ ReleaseInProgressBlob(t, "layerDone", "next")
           \/ ReleaseInProgressBlob(t, "layerFailed", "idle")
           \/ CheckLayer(t) \/ CheckBlob(t) \/ Download(t) \/ ValidateBlob(t)
           \/ ClearLayer(t) \/ UnpackLayer(t) \/ NextPart(t) \/ StoreUpdateItem(t)
           \/ AddUpdateItem(t) \/ RemoveOldFiles(t)
  <2>1. UNCHANGED saVars
    BY <1>6 DEF WaitForInProgressBlob, ReleaseInProgressBlob, CheckLayer, CheckBlob,
       Download, ValidateBlob, ClearLayer, UnpackLayer, NextPart, StoreUpdateItem,
       AddUpdateItem, RemoveOldFiles
  <2> QED
    BY <2>1, SpaceKept DEF saVars
<1>7. CASE RemoveOldUpdateItems(t)
  BY <1>7, SpaceKept DEF RemoveOldUpdateItems
<1> QED
  BY <1>1, <1>2, <1>3, <1>4, <1>5, <1>6, <1>7 DEF InstallStep

\* Every step keeps the count.
LEMMA StepCounts == SpaceInv /\ [SMNext]_smVars => SpaceInv'
<1> SUFFICES ASSUME SpaceInv, [SMNext]_smVars PROVE SpaceInv'
  OBVIOUS
<1>1. CASE \E t \in Installers : InstallStep(t)
  <2>1. Installers \subseteq Threads
    BY ThreadsAre
  <2> QED
    BY <1>1, <2>1, InstallStepCounts
<1>2. CASE \/ \E t \in Installers, i \in Items : Install(t, i)
           \/ \E i \in Items : RemoveUpdateItem(i)
           \/ TimerTick \/ ProcessOutdatedItems \/ Stop
  <2>1. UNCHANGED saVars
    BY <1>2 DEF Install, RemoveUpdateItem, TimerTick, ProcessOutdatedItems, Stop
  <2> QED
    BY <2>1, SpaceKept DEF saVars
<1>3. CASE AddOutdatedItem \/ CleanItems
  BY <1>3, SpaceKept DEF AddOutdatedItem, CleanItems
<1>4. CASE Restart \/ \E t \in Installers : ResizeNoSpace(t)
  <2>1. NewProcess
    BY <1>4 DEF Restart, ResizeNoSpace
  <2> QED
    BY <2>1, FS_EmptySet DEF NewProcess, SpaceInv, CountCoversSpaces
<1>5. CASE UNCHANGED smVars
  BY <1>5, SpaceKept DEF smVars, saVars
<1> QED
  BY <1>1, <1>2, <1>3, <1>4, <1>5 DEF SMNext

\* For any threads, items and number of allocations in flight: while a Space is
\* outstanding Partition::Allocate does not take its count for zero.
THEOREM CountSafe == SMSpec => []CountCoversSpaces
<1>1. SMInit => SpaceInv
  BY FS_EmptySet DEF SMInit, SAInit, SpaceInv, CountCoversSpaces
<1>2. SpaceInv => CountCoversSpaces
  BY DEF SpaceInv
<1> QED
  BY <1>1, <1>2, StepCounts, PTL DEF SMSpec

-----------------------------------------------------------------------------
\* A step of thread t that touches no mark and does not enter InstallLayer: it
\* leaves, or was inside.
LEMMA LocalStep ==
  ASSUME MarkInv, NEW t \in Threads, NEW l, Goto(t, l),
         l # "unmark", l \in Outside \/ pc[t] \notin Outside,
         UNCHANGED <<mInProgressBlobs, job, pos>>
  PROVE  MarkInv'
<1>1. \A u \in Installers : Digest(u)' = Digest(u)
  BY DEF Digest
<1>2. /\ DOMAIN pc' = Threads /\ pc'[t] = l
      /\ \A u \in Threads \ {t} : pc'[u] = pc[u]
  BY DEF Goto, MarkInv
<1>3. Installers \subseteq Threads
  BY ThreadsAre
<1>4. \A u \in Installers : InLayer(u)' => InLayer(u)
  BY <1>1, <1>2, <1>3 DEF InLayer, Outside
<1>5. \A u \in Installers : pc'[u] = "unmark" => pc[u] = "unmark"
  BY <1>2, <1>3
<1> QED
  BY <1>1, <1>2, <1>4, <1>5 DEF MarkInv, LayerInstallExclusive

\* A step of a thread that is no installer, with the marks as they are.
LEMMA OtherStep ==
  ASSUME MarkInv, DOMAIN pc' = Threads, DOMAIN job' = Threads,
         UNCHANGED <<mInProgressBlobs, pos>>,
         \A u \in Installers : pc'[u] = pc[u] /\ job'[u] = job[u]
  PROVE  MarkInv'
<1>1. \A u \in Installers : Digest(u)' = Digest(u)
  BY DEF Digest
<1>2. \A u \in Installers : InLayer(u)' <=> InLayer(u)
  BY <1>1 DEF InLayer, Outside
<1> QED
  BY <1>1, <1>2 DEF MarkInv, LayerInstallExclusive

\* WaitForInProgressBlob lets a thread in only when the digest is not marked.
LEMMA MarkStep ==
  ASSUME MarkInv, NEW t \in Installers, WaitForInProgressBlob(t)
  PROVE  MarkInv'
<1>1. \A u \in Installers : Digest(u)' = Digest(u)
  BY DEF Digest, WaitForInProgressBlob
<1>2. Installers \subseteq Threads
  BY ThreadsAre
<1>3. /\ DOMAIN pc' = Threads /\ DOMAIN job' = Threads /\ DOMAIN pos' = Installers
      /\ pc'[t] = IF Digest(t) \in Layers THEN "layer" ELSE "unmark"
      /\ \A u \in Threads \ {t} : pc'[u] = pc[u]
  BY <1>2 DEF Goto, MarkInv, WaitForInProgressBlob
<1>4. \A u \in Installers \ {t} : InLayer(u)' <=> InLayer(u)
  BY <1>1, <1>2, <1>3 DEF InLayer, Outside
<1>5. /\ mInProgressBlobs' = mInProgressBlobs \union {Digest(t)}
      /\ Digest(t) \notin mInProgressBlobs
  BY DEF WaitForInProgressBlob
<1>6. \A u \in Installers : InLayer(u)' => Digest(u)' \in mInProgressBlobs'
  BY <1>1, <1>4, <1>5 DEF MarkInv
<1>7. \A u \in Installers \ {t} : InLayer(u) => Digest(u) # Digest(t)
  BY <1>5 DEF MarkInv
<1>8. LayerInstallExclusive'
  BY <1>1, <1>4, <1>7 DEF MarkInv, LayerInstallExclusive
<1>9. \A u \in Installers : pc'[u] = "unmark" => Digest(u)' \notin Layers
  BY <1>1, <1>2, <1>3 DEF MarkInv
<1> QED
  BY <1>3, <1>6, <1>8, <1>9 DEF MarkInv

\* ReleaseInProgressBlob takes the mark of no other thread's layer away.
LEMMA UnmarkStep ==
  ASSUME MarkInv, NEW t \in Installers, NEW from, NEW to,
         ReleaseInProgressBlob(t, from, to),
         \/ from = "unmark" /\ to = "check"
         \/ from \in {"layerDone", "layerFailed"} /\ to \in {"next", "idle"}
  PROVE  MarkInv'
<1>1. \A u \in Installers : Digest(u)' = Digest(u)
  BY DEF Digest, ReleaseInProgressBlob
<1>2. Installers \subseteq Threads
  BY ThreadsAre
<1>3. /\ DOMAIN pc' = Threads /\ DOMAIN job' = Threads /\ DOMAIN pos' = Installers
      /\ pc[t] = from /\ pc'[t] = to
      /\ \A u \in Threads \ {t} : pc'[u] = pc[u]
  BY <1>2 DEF Goto, MarkInv, ReleaseInProgressBlob
<1>4. \A u \in Installers \ {t} : InLayer(u)' <=> InLayer(u)
  BY <1>1, <1>2, <1>3 DEF InLayer, Outside
<1>5. ~InLayer(t)'
  <2>1. CASE from = "unmark"
    BY <1>1, <1>3, <2>1 DEF MarkInv, InLayer, Outside
  <2>2. CASE to \in {"next", "idle"}
    BY <1>3, <2>2 DEF InLayer, Outside
  <2> QED
    BY <2>1, <2>2
<1>6. \A u \in Installers \ {t} : InLayer(u) => Digest(u) # Digest(t)
  <2>1. CASE from = "unmark"
    BY <1>3, <2>1 DEF MarkInv, InLayer, Outside
  <2>2. CASE from \in {"layerDone", "layerFailed"}
    BY <1>3, <2>2 DEF MarkInv, InLayer, Outside, LayerInstallExclusive
  <2> QED
    BY <2>1, <2>2
<1>7. \A u \in Installers : InLayer(u)' => Digest(u)' \in mInProgressBlobs'
  BY <1>1, <1>4, <1>5, <1>6 DEF MarkInv, ReleaseInProgressBlob
<1>8. LayerInstallExclusive'
  BY <1>1, <1>4, <1>5 DEF MarkInv, LayerInstallExclusive
<1>9. \A u \in Installers : pc'[u] = "unmark" => Digest(u)' \notin Layers
  BY <1>1, <1>2, <1>3 DEF MarkInv
<1> QED
  BY <1>3, <1>7, <1>8, <1>9 DEF MarkInv

\* A thread that begins a part is outside every layer.
LEMMA PartStep ==
  ASSUME MarkInv, NEW t \in Installers, pc[t] \in {"idle", "next"}, Goto(t, "wait"),
         mInProgressBlobs' = mInProgressBlobs,
         DOMAIN job' = Threads, DOMAIN pos' = Installers,
         \A u \in Installers \ {t} : job'[u] = job[u] /\ pos'[u] = pos[u]
  PROVE  MarkInv'
<1>1. \A u \in Installers \ {t} : Digest(u)' = Digest(u)
  BY DEF Digest
<1>2. Installers \subseteq Threads
  BY ThreadsAre
<1>3. /\ DOMAIN pc' = Threads /\ pc'[t] = "wait"
      /\ \A u \in Threads \ {t} : pc'[u] = pc[u]
  BY <1>2 DEF Goto, MarkInv
<1>4. ~InLayer(t)' /\ \A u \in Installers \ {t} : InLayer(u)' <=> InLayer(u)
  BY <1>1, <1>2, <1>3 DEF InLayer, Outside
<1>5. \A u \in Installers : pc'[u] = "unmark" => Digest(u)' \notin Layers
  BY <1>1, <1>2, <1>3 DEF MarkInv
<1> QED
  BY <1>1, <1>3, <1>4, <1>5 DEF MarkInv, LayerInstallExclusive

\* The steps of an installation keep the marks.
LEMMA InstallStepMarks ==
  ASSUME MarkInv, NEW t \in Installers, InstallStep(t)
  PROVE  MarkInv'
<1> USE DEF control, Outside
<1>0. t \in Threads
  BY ThreadsAre
<1>1. CASE WaitForInProgressBlob(t)
  BY <1>1, MarkStep
<1>2. CASE \/ ReleaseInProgressBlob(t, "unmark", "check")
           \/ ReleaseInProgressBlob(t, "layerDone", "next")
           \/ ReleaseInProgressBlob(t, "layerFailed", "idle")
  BY <1>2, UnmarkStep
<1>3. CASE CheckLayer(t)
  BY <1>0, <1>3, LocalStep DEF CheckLayer
<1>4. CASE CheckBlob(t)
  BY <1>0, <1>4, LocalStep DEF CheckBlob
<1>5. ASSUME Allocating(t)
      PROVE  /\ pc[t] \notin Outside
             /\ AfterAlloc[pc[t]] \notin {"unmark"}
  BY <1>5 DEF Allocating, AfterAlloc
<1>6. CASE AllocateSpace(t)
  <2>1. UNCHANGED <<mInProgressBlobs, job, pos>> /\ Allocating(t)
    BY <1>6 DEF AllocateSpace
  <2>2. CASE Goto(t, AfterAlloc[pc[t]]) \/ Goto(t, "release")
    BY <1>0, <1>5, <2>1, <2>2, LocalStep
  <2>3. CASE UNCHANGED pc
    BY <2>1, <2>3, OtherStep DEF MarkInv
  <2> QED
    BY <1>6, <2>2, <2>3 DEF AllocateSpace
<1>7. CASE RemoveItem(t)
  BY <1>7, OtherStep DEF RemoveItem, MarkInv
<1>8. CASE RemoveItemFails(t)
  BY <1>0, <1>5, <1>8, LocalStep DEF RemoveItemFails
<1>9. CASE FinishReclaim(t)
  <2>1. UNCHANGED <<mInProgressBlobs, job, pos>> /\ Allocating(t)
    BY <1>9 DEF FinishReclaim
  <2>2. Goto(t, AfterAlloc[pc[t]]) \/ Goto(t, "release")
    BY <1>9 DEF FinishReclaim
  <2> QED
    BY <1>0, <1>5, <2>1, <2>2, LocalStep
<1>10. CASE Download(t)
  BY <1>0, <1>10, LocalStep DEF Download
<1>11. CASE Fetched(t)
  <2>1. UNCHANGED <<mInProgressBlobs, job, pos>> /\ pc[t] = "fetch"
    BY <1>11 DEF Fetched
  <2>2. Goto(t, "validate") \/ Goto(t, "release")
    BY <1>11 DEF Fetched
  <2> QED
    BY <1>0, <2>1, <2>2, LocalStep
<1>12. CASE ValidateBlob(t)
  BY <1>0, <1>12, LocalStep DEF ValidateBlob
<1>13. CASE ClearLayer(t)
  BY <1>0, <1>13, LocalStep DEF ClearLayer
<1>14. CASE UnpackLayer(t)
  BY <1>0, <1>14, LocalStep DEF UnpackLayer
<1>15. CASE Resize(t)
  BY <1>0, <1>15, LocalStep DEF Resize
<1>16. CASE CreateLayerMetadata(t)
  BY <1>0, <1>16, LocalStep DEF CreateLayerMetadata
<1>17. CASE LinkLayer(t)
  BY <1>0, <1>17, LocalStep DEF LinkLayer
<1>18. CASE ReleaseSpace(t)
  BY <1>0, <1>18, LocalStep DEF ReleaseSpace
<1>19. CASE NextPart(t)
  <2>1. UNCHANGED <<mInProgressBlobs, job>> /\ pc[t] = "next"
    BY <1>19 DEF NextPart
  <2>2. CASE Goto(t, "idle") /\ UNCHANGED pos
    BY <1>0, <2>1, <2>2, LocalStep
  <2>3. CASE pos' = [pos EXCEPT ![t] = @ + 1] /\ Goto(t, "wait")
    BY <2>1, <2>3, PartStep DEF MarkInv
  <2>4. CASE Goto(t, "store") /\ UNCHANGED pos
    BY <1>0, <2>1, <2>4, LocalStep
  <2> QED
    BY <1>19, <2>2, <2>3, <2>4 DEF NextPart
<1>20. CASE StoreUpdateItem(t)
  <2>1. UNCHANGED <<mInProgressBlobs, job, pos>>
    BY <1>20 DEF StoreUpdateItem
  <2>2. Goto(t, "idle") \/ Goto(t, "storing")
    BY <1>20 DEF StoreUpdateItem
  <2> QED
    BY <1>0, <2>1, <2>2, LocalStep
<1>21. CASE RemoveOldUpdateItems(t)
  BY <1>0, <1>21, LocalStep DEF RemoveOldUpdateItems
<1>22. CASE AddUpdateItem(t)
  BY <1>0, <1>22, LocalStep DEF AddUpdateItem
<1>23. CASE RemoveOldFiles(t)
  BY <1>0, <1>23, LocalStep DEF RemoveOldFiles
<1>24. CASE FreeRemovedSize(t)
  BY <1>0, <1>24, LocalStep DEF FreeRemovedSize
<1> QED
  BY <1>1, <1>2, <1>3, <1>4, <1>6, <1>7, <1>8, <1>9, <1>10, <1>11, <1>12, <1>13,
     <1>14, <1>15, <1>16, <1>17, <1>18, <1>19, <1>20, <1>21, <1>22, <1>23, <1>24
     DEF InstallStep

\* Every step keeps the marks.
LEMMA StepMarks == MarkInv /\ [SMNext]_smVars => MarkInv'
<1> SUFFICES ASSUME MarkInv, [SMNext]_smVars PROVE MarkInv'
  OBVIOUS
<1> USE DEF control
<1>1. CASE \E t \in Installers : InstallStep(t)
  BY <1>1, InstallStepMarks
<1>2. CASE \E t \in Installers, i \in Items : Install(t, i)
  <2> PICK t \in Installers, i \in Items : Install(t, i)
    BY <1>2
  <2>1. /\ pc[t] = "idle" /\ Goto(t, "wait") /\ mInProgressBlobs' = mInProgressBlobs
        /\ job' = [job EXCEPT ![t] = i] /\ pos' = [pos EXCEPT ![t] = 1]
    BY DEF Install
  <2> QED
    BY <2>1, PartStep, ThreadsAre DEF MarkInv
<1>3. /\ \A u \in Installers : u # "remover" /\ u # "cleaner" /\ u \in Threads
      /\ "remover" \in Threads /\ "cleaner" \in Threads
  BY ThreadsAre, NotInstallers
<1>4. CASE \E i \in Items : RemoveUpdateItem(i)
  BY <1>3, <1>4, OtherStep DEF RemoveUpdateItem, Goto, MarkInv
<1>5. CASE AddOutdatedItem
  <2>1. Goto("remover", "stuck") \/ Goto("remover", "idle")
    BY <1>5 DEF AddOutdatedItem
  <2>2. UNCHANGED <<mInProgressBlobs, job, pos>>
    BY <1>5 DEF AddOutdatedItem
  <2> QED
    BY <1>3, <2>1, <2>2, OtherStep DEF Goto, MarkInv
<1>6. CASE TimerTick \/ Stop
  BY <1>6, OtherStep DEF TimerTick, Stop, MarkInv
<1>7. CASE ProcessOutdatedItems
  <2>1. Goto("cleaner", "off") \/ Goto("cleaner", "cleaning")
    BY <1>7 DEF ProcessOutdatedItems
  <2>2. UNCHANGED <<mInProgressBlobs, job, pos>>
    BY <1>7 DEF ProcessOutdatedItems
  <2> QED
    BY <1>3, <2>1, <2>2, OtherStep DEF Goto, MarkInv
<1>8. CASE CleanItems
  BY <1>3, <1>8, OtherStep DEF CleanItems, Goto, MarkInv
<1>9. CASE Restart \/ \E t \in Installers : ResizeNoSpace(t)
  <2>0. NewProcess
    BY <1>9 DEF Restart, ResizeNoSpace
  <2>1. \A u \in Installers : pc'[u] = "idle"
    BY <1>3, <2>0 DEF NewProcess
  <2>2. DOMAIN pc' = Threads /\ DOMAIN job' = Threads /\ DOMAIN pos' = Installers
    BY <2>0 DEF NewProcess, MarkInv
  <2> QED
    BY <2>1, <2>2 DEF MarkInv, InLayer, Outside, LayerInstallExclusive
<1>10. CASE UNCHANGED smVars
  BY <1>10, OtherStep DEF smVars, imVars, MarkInv
<1> QED
  BY <1>1, <1>2, <1>4, <1>5, <1>6, <1>7, <1>8, <1>9, <1>10 DEF SMNext

\* For any number of threads of the launch pool and any items that share layers: no
\* two threads install the same layer at a time, because a layer's mark in
\* mInProgressBlobs lasts as long as InstallLayer and the shorter mark of a blob is
\* never a layer's.
THEOREM LayerExclusion == SMSpec => []LayerInstallExclusive
<1>1. SMInit => MarkInv
  <2> SUFFICES ASSUME SMInit PROVE MarkInv
    OBVIOUS
  <2>1. \A t \in Installers : pc[t] = "idle"
    BY ThreadsAre DEF SMInit
  <2> QED
    BY <2>1 DEF SMInit, MarkInv, InLayer, Outside, LayerInstallExclusive
<1>2. MarkInv => LayerInstallExclusive
  BY DEF MarkInv
<1> QED
  BY <1>1, <1>2, StepMarks, PTL DEF SMSpec

-----------------------------------------------------------------------------
(* Keep, by counting.                                                      *)

\* The position of element n of Keep.
KeepAt(ks, n) == CHOOSE k \in ks : Cardinality(ks \intersect 1 .. k) = n

\* The k-th position of a set of positions exists and is unique.
LEMMA Ranks ==
  ASSUME NEW N \in Nat, NEW ks \in SUBSET (1 .. N)
  PROVE  /\ IsFiniteSet(ks) /\ Cardinality(ks) \in Nat /\ Cardinality(ks) <= N
         /\ ks # 1 .. N => Cardinality(ks) < N
         /\ \A n \in 1 .. Cardinality(ks) :
                KeepAt(ks, n) \in ks /\ Cardinality(ks \intersect 1 .. KeepAt(ks, n)) = n
         /\ \A k \in ks : /\ Cardinality(ks \intersect 1 .. k) \in 1 .. Cardinality(ks)
                          /\ KeepAt(ks, Cardinality(ks \intersect 1 .. k)) = k
         /\ \A j, k \in ks :
                j < k => Cardinality(ks \intersect 1 .. j) < Cardinality(ks \intersect 1 .. k)
<1> DEFINE rank == [k \in ks |-> Cardinality(ks \intersect 1 .. k)]
<1>1. IsFiniteSet(1 .. N) /\ Cardinality(1 .. N) = N
  BY FS_Interval
<1>2. /\ IsFiniteSet(ks) /\ Cardinality(ks) \in Nat /\ Cardinality(ks) <= N
      /\ ks # 1 .. N => Cardinality(ks) < N
  <2>1. /\ IsFiniteSet(ks) /\ Cardinality(ks) <= N
        /\ Cardinality(1 .. N) = Cardinality(ks) => 1 .. N = ks
    BY <1>1, FS_Subset
  <2>2. Cardinality(ks) \in Nat
    BY <2>1, FS_CardinalityType
  <2> QED
    BY <1>1, <2>1, <2>2
<1>3. ASSUME NEW k \in ks
      PROVE  Cardinality(ks \intersect 1 .. k) \in 1 .. Cardinality(ks)
  <2>1. k \in ks \intersect 1 .. k
    OBVIOUS
  <2>2. IsFiniteSet(ks \intersect 1 .. k) /\ Cardinality(ks \intersect 1 .. k) <= Cardinality(ks)
    BY <1>2, FS_Intersection
  <2>3. Cardinality(ks \intersect 1 .. k) \in Nat /\ Cardinality(ks \intersect 1 .. k) # 0
    BY <2>1, <2>2, FS_CardinalityType, FS_EmptySet
  <2> QED
    BY <1>2, <2>2, <2>3
<1>4. ASSUME NEW j \in ks, NEW k \in ks, j < k
      PROVE  Cardinality(ks \intersect 1 .. j) < Cardinality(ks \intersect 1 .. k)
  <2>1. ks \intersect 1 .. j \in SUBSET (ks \intersect 1 .. k)
    BY <1>4
  <2>2. k \in ks \intersect 1 .. k /\ k \notin ks \intersect 1 .. j
    BY <1>4
  <2>3. IsFiniteSet(ks \intersect 1 .. k)
    BY <1>2, FS_Intersection
  <2>4. /\ Cardinality(ks \intersect 1 .. j) <= Cardinality(ks \intersect 1 .. k)
        /\ Cardinality(ks \intersect 1 .. j) # Cardinality(ks \intersect 1 .. k)
    BY <2>1, <2>2, <2>3, FS_Subset
  <2> QED
    BY <1>3, <2>4
<1>5. \A j, k \in ks : rank[j] = rank[k] => j = k
  BY <1>3, <1>4
<1>6. rank \in Injection(ks, 1 .. Cardinality(ks))
  BY <1>3, <1>5, Fun_IsInj
<1>7. IsFiniteSet(1 .. Cardinality(ks)) /\ Cardinality(1 .. Cardinality(ks)) = Cardinality(ks)
  BY <1>2, FS_Interval
<1>8. rank \in Surjection(ks, 1 .. Cardinality(ks))
  BY <1>6, <1>7, FS_Injection
<1>9. \A n \in 1 .. Cardinality(ks) : \E k \in ks : Cardinality(ks \intersect 1 .. k) = n
  <2>1. ASSUME NEW f \in Surjection(ks, 1 .. Cardinality(ks))
        PROVE  \A n \in 1 .. Cardinality(ks) : \E k \in ks : f[k] = n
    BY Fun_SurjectionProperties
  <2>2. \A n \in 1 .. Cardinality(ks) : \E k \in ks : rank[k] = n
    BY <1>8, <2>1
  <2> QED
    BY <2>2
<1>10. \A n \in 1 .. Cardinality(ks) :
           KeepAt(ks, n) \in ks /\ Cardinality(ks \intersect 1 .. KeepAt(ks, n)) = n
  BY <1>9 DEF KeepAt
<1>11. \A k \in ks : KeepAt(ks, Cardinality(ks \intersect 1 .. k)) = k
  BY <1>3, <1>5, <1>10
<1> QED
  BY <1>2, <1>3, <1>4, <1>10, <1>11

\* What Keep leaves of a sequence: the elements at the positions, each once, in order.
LEMMA KeepFacts ==
  ASSUME NEW S, NEW s \in Seq(S), NEW ks \in SUBSET (1 .. Len(s))
  PROVE  /\ Keep(s, ks) \in Seq(S)
         /\ Len(Keep(s, ks)) = Cardinality(ks) /\ Cardinality(ks) \in Nat
         /\ Cardinality(ks) <= Len(s) /\ (ks # 1 .. Len(s) => Cardinality(ks) < Len(s))
         /\ \A n \in 1 .. Cardinality(ks) :
                KeepAt(ks, n) \in ks /\ Keep(s, ks)[n] = s[KeepAt(ks, n)]
         /\ \A m, n \in 1 .. Cardinality(ks) : KeepAt(ks, m) = KeepAt(ks, n) => m = n
         /\ \A k \in ks : \E n \in 1 .. Cardinality(ks) : KeepAt(ks, n) = k
<1>1. Len(s) \in Nat /\ \A k \in 1 .. Len(s) : s[k] \in S
  OBVIOUS
<1>2. /\ Cardinality(ks) \in Nat /\ Cardinality(ks) <= Len(s)
      /\ ks # 1 .. Len(s) => Cardinality(ks) < Len(s)
      /\ \A n \in 1 .. Cardinality(ks) :
             KeepAt(ks, n) \in ks /\ Cardinality(ks \intersect 1 .. KeepAt(ks, n)) = n
      /\ \A k \in ks : /\ Cardinality(ks \intersect 1 .. k) \in 1 .. Cardinality(ks)
                       /\ KeepAt(ks, Cardinality(ks \intersect 1 .. k)) = k
  BY <1>1, Ranks
<1>4. Keep(s, ks) = [n \in 1 .. Cardinality(ks) |-> s[KeepAt(ks, n)]]
  BY DEF Keep, KeepAt
<1>5. \A n \in 1 .. Cardinality(ks) : s[KeepAt(ks, n)] \in S
  BY <1>1, <1>2
<1>6. Keep(s, ks) \in Seq(S) /\ Len(Keep(s, ks)) = Cardinality(ks)
  BY <1>2, <1>4, <1>5
<1>7. \A m, n \in 1 .. Cardinality(ks) : KeepAt(ks, m) = KeepAt(ks, n) => m = n
  <2> SUFFICES ASSUME NEW m \in 1 .. Cardinality(ks), NEW n \in 1 .. Cardinality(ks),
                      KeepAt(ks, m) = KeepAt(ks, n)
               PROVE  m = n
    OBVIOUS
  <2>1. /\ Cardinality(ks \intersect 1 .. KeepAt(ks, m)) = m
        /\ Cardinality(ks \intersect 1 .. KeepAt(ks, n)) = n
    BY <1>2
  <2> QED
    BY <2>1
<1>8. \A k \in ks : \E n \in 1 .. Cardinality(ks) : KeepAt(ks, n) = k
  BY <1>2
<1> QED
  BY <1>2, <1>4, <1>6, <1>7, <1>8

-----------------------------------------------------------------------------
(* The storage as a sequence of records with different items.              *)

Records == [item : Items, state : {"installed", "removed"}]

ItemsIn(st) == {st[k].item : k \in 1 .. Len(st)}
Unique(st) == \A j, k \in 1 .. Len(st) : st[j].item = st[k].item => j = k
Has(st, i, s) == \E k \in 1 .. Len(st) : st[k].item = i /\ st[k].state = s

\* Drop removes the items and nothing else.
LEMMA DropFacts ==
  ASSUME NEW st \in Seq(Records), Unique(st), NEW gone
  PROVE  /\ Drop(st, gone) \in Seq(Records) /\ Unique(Drop(st, gone))
         /\ ItemsIn(Drop(st, gone)) = ItemsIn(st) \ gone
         /\ \A i, s : Has(Drop(st, gone), i, s) => Has(st, i, s)
         /\ Len(Drop(st, gone)) \in Nat /\ Len(Drop(st, gone)) <= Len(st)
         /\ ItemsIn(st) \intersect gone # {} => Len(Drop(st, gone)) < Len(st)
<1> DEFINE ks == {k \in 1 .. Len(st) : st[k].item \notin gone}
           dr == Keep(st, ks)
<1>1. Drop(st, gone) = dr
  BY DEF Drop
<1>2. /\ dr \in Seq(Records)
      /\ Len(dr) = Cardinality(ks) /\ Cardinality(ks) \in Nat
      /\ Cardinality(ks) <= Len(st) /\ (ks # 1 .. Len(st) => Cardinality(ks) < Len(st))
      /\ \A n \in 1 .. Cardinality(ks) : KeepAt(ks, n) \in ks /\ dr[n] = st[KeepAt(ks, n)]
      /\ \A m, n \in 1 .. Cardinality(ks) : KeepAt(ks, m) = KeepAt(ks, n) => m = n
      /\ \A k \in ks : \E n \in 1 .. Cardinality(ks) : KeepAt(ks, n) = k
  <2>1. ks \in SUBSET (1 .. Len(st))
    OBVIOUS
  <2> HIDE DEF ks
  <2> QED
    BY <2>1, KeepFacts
<1>3. ItemsIn(st) \intersect gone # {} => ks # 1 .. Len(st)
  BY DEF ItemsIn
<1>4. \A k \in ks : k \in 1 .. Len(st) /\ st[k].item \notin gone
  OBVIOUS
<1>5. \A k \in 1 .. Len(st) : st[k].item \notin gone => k \in ks
  OBVIOUS
<1> HIDE DEF ks, dr
<1>6. Unique(dr)
  BY <1>2, <1>4 DEF Unique
<1>7. ItemsIn(dr) = ItemsIn(st) \ gone
  <2>1. ASSUME NEW i \in ItemsIn(dr) PROVE i \in ItemsIn(st) \ gone
    <3>1. PICK n \in 1 .. Cardinality(ks) : i = dr[n].item
      BY <1>2, <2>1 DEF ItemsIn
    <3>2. KeepAt(ks, n) \in ks /\ i = st[KeepAt(ks, n)].item
      BY <1>2, <3>1
    <3> QED
      BY <1>4, <3>2 DEF ItemsIn
  <2>2. ASSUME NEW i \in ItemsIn(st) \ gone PROVE i \in ItemsIn(dr)
    <3>1. PICK k \in 1 .. Len(st) : i = st[k].item
      BY <2>2 DEF ItemsIn
    <3>2. PICK n \in 1 .. Cardinality(ks) : KeepAt(ks, n) = k
      BY <1>2, <1>5, <3>1
    <3>3. dr[n] = st[k] /\ n \in 1 .. Len(dr)
      BY <1>2, <3>2
    <3> QED
      BY <3>1, <3>3 DEF ItemsIn
  <2> QED
    BY <2>1, <2>2
<1>8. \A i, s : Has(dr, i, s) => Has(st, i, s)
  BY <1>2, <1>4 DEF Has
<1> QED
  BY <1>1, <1>2, <1>3, <1>6, <1>7, <1>8

\* Put replaces the record of the item, or adds one.
LEMMA PutFacts ==
  ASSUME NEW st \in Seq(Records), Unique(st), NEW i \in Items,
         NEW s \in {"installed", "removed"}
  PROVE  /\ Put(st, i, s) \in Seq(Records) /\ Unique(Put(st, i, s))
         /\ ItemsIn(Put(st, i, s)) = ItemsIn(st) \union {i}
         /\ \A j, r : Has(Put(st, i, s), j, r) => Has(st, j, r) \/ (j = i /\ r = s)
         /\ Len(Put(st, i, s)) \in Nat /\ Len(Put(st, i, s)) <= Len(st) + 1
         /\ i \in ItemsIn(st) => Len(Put(st, i, s)) <= Len(st)
<1> DEFINE dr == Drop(st, {i})
           rec == [item |-> i, state |-> s]
           pt == Append(dr, rec)
<1>1. Put(st, i, s) = pt
  BY DEF Put
<1>2. /\ dr \in Seq(Records) /\ Unique(dr)
      /\ ItemsIn(dr) = ItemsIn(st) \ {i}
      /\ \A j, r : Has(dr, j, r) => Has(st, j, r)
      /\ Len(dr) \in Nat /\ Len(dr) <= Len(st)
      /\ i \in ItemsIn(st) => Len(dr) < Len(st)
  BY DropFacts
<1>3. rec \in Records /\ rec.item = i /\ rec.state = s
  BY DEF Records
<1> HIDE DEF dr, rec
<1>4. /\ pt \in Seq(Records) /\ Len(pt) = Len(dr) + 1
      /\ \A k \in 1 .. Len(dr) : pt[k] = dr[k]
      /\ pt[Len(dr) + 1] = rec
  BY <1>2, <1>3, AppendProperties
<1>5. \A k \in 1 .. Len(dr) : dr[k].item # i
  BY <1>2 DEF ItemsIn
<1> HIDE DEF pt
<1>6. \A k \in 1 .. Len(pt) : k \in 1 .. Len(dr) \/ k = Len(dr) + 1
  BY <1>2, <1>4
<1>7. Unique(pt)
  BY <1>2, <1>3, <1>4, <1>5, <1>6 DEF Unique
<1>8. ItemsIn(pt) = ItemsIn(st) \union {i}
  <2>1. ItemsIn(pt) = ItemsIn(dr) \union {i}
    <3>1. \A k \in 1 .. Len(dr) : k \in 1 .. Len(pt)
      BY <1>2, <1>4
    <3>2. Len(dr) + 1 \in 1 .. Len(pt)
      BY <1>2, <1>4
    <3> QED
      BY <1>3, <1>4, <1>6, <3>1, <3>2 DEF ItemsIn
  <2> QED
    BY <1>2, <2>1
<1>9. \A j, r : Has(pt, j, r) => Has(st, j, r) \/ (j = i /\ r = s)
  <2> SUFFICES ASSUME NEW j, NEW r, Has(pt, j, r)
               PROVE  Has(st, j, r) \/ (j = i /\ r = s)
    OBVIOUS
  <2>1. PICK k \in 1 .. Len(pt) : pt[k].item = j /\ pt[k].state = r
    BY DEF Has
  <2>2. CASE k \in 1 .. Len(dr)
    <3>1. Has(dr, j, r)
      BY <1>4, <2>1, <2>2 DEF Has
    <3> QED
      BY <1>2, <3>1
  <2>3. CASE k = Len(dr) + 1
    BY <1>3, <1>4, <2>1, <2>3
  <2> QED
    BY <1>6, <2>2, <2>3
<1>10. Len(st) \in Nat
  OBVIOUS
<1> QED
  BY <1>1, <1>2, <1>4, <1>7, <1>8, <1>9, <1>10

\* The state of a stored item is that of its only record.
LEMMA StateFacts ==
  ASSUME store \in Seq(Records), Unique(store)
  PROVE  /\ StoredItems = ItemsIn(store)
         /\ \A i, s : HasState(i, s) <=> Has(store, i, s)
<1>1. StoredItems = ItemsIn(store)
  BY DEF StoredItems, ItemsIn
<1>2. ASSUME NEW i, NEW s PROVE HasState(i, s) <=> Has(store, i, s)
  <2>1. CASE i \in StoredItems
    <3> DEFINE n == CHOOSE k \in 1 .. Len(store) : store[k].item = i
    <3>1. n \in 1 .. Len(store) /\ store[n].item = i
      BY <2>1 DEF StoredItems
    <3>2. StateOf(i) = store[n].state
      BY DEF StateOf
    <3>3. \A k \in 1 .. Len(store) : store[k].item = i => k = n
      BY <3>1 DEF Unique
    <3> QED
      BY <2>1, <3>1, <3>2, <3>3 DEF HasState, Has
  <2>2. CASE i \notin StoredItems
    BY <2>2 DEF HasState, Has, StoredItems
  <2> QED
    BY <2>1, <2>2
<1> QED
  BY <1>1, <1>2

\* The stored items are finitely many, and Oldest picks one of the items it is given.
LEMMA OldestFacts ==
  ASSUME store \in Seq(Records), NEW items \in SUBSET StoredItems
  PROVE  /\ IsFiniteSet(items) /\ Cardinality(items) \in Nat
         /\ items # {} => Oldest(items) \in items
<1>1. Len(store) \in Nat
  OBVIOUS
<1>2. IsFiniteSet(StoredItems)
  <2> DEFINE f == [k \in 1 .. Len(store) |-> store[k].item]
  <2>1. f \in Surjection(1 .. Len(store), StoredItems)
    <3>1. f \in [1 .. Len(store) -> StoredItems]
      BY DEF StoredItems
    <3>2. \A i \in StoredItems : \E k \in 1 .. Len(store) : f[k] = i
      BY DEF StoredItems
    <3> QED
      BY <3>1, <3>2, Fun_IsSurj
  <2>2. IsFiniteSet(1 .. Len(store))
    BY <1>1, Ranks
  <2> QED
    BY <2>1, <2>2, FS_Surjection
<1>3. IsFiniteSet(items) /\ Cardinality(items) \in Nat
  BY <1>2, FS_Subset, FS_CardinalityType
<1>4. ASSUME items # {} PROVE Oldest(items) \in items
  <2> DEFINE removed == {i \in items : StateOf(i) = "removed"}
             among == IF removed # {} THEN removed ELSE items
             ks == {k \in 1 .. Len(store) : store[k].item \in among}
             First(k) == /\ store[k].item \in among
                         /\ \A m \in 1 .. k - 1 : store[m].item \notin among
  <2>1. among \subseteq items /\ among # {}
    BY <1>4
  <2>2. ks \in SUBSET (1 .. Len(store)) /\ ks # {}
    BY <2>1 DEF StoredItems
  <2>3. /\ 1 \in 1 .. Cardinality(ks)
        /\ KeepAt(ks, 1) \in ks /\ Cardinality(ks \intersect 1 .. KeepAt(ks, 1)) = 1
        /\ \A m \in ks : /\ Cardinality(ks \intersect 1 .. m) \in 1 .. Cardinality(ks)
                         /\ m < KeepAt(ks, 1) => Cardinality(ks \intersect 1 .. m) < 1
    <3> HIDE DEF ks
    <3>1. IsFiniteSet(ks) /\ Cardinality(ks) \in Nat
      BY <1>1, <2>2, Ranks
    <3>2. 1 \in 1 .. Cardinality(ks)
      BY <2>2, <3>1, FS_EmptySet
    <3>3. /\ \A n \in 1 .. Cardinality(ks) :
                 /\ KeepAt(ks, n) \in ks
                 /\ Cardinality(ks \intersect 1 .. KeepAt(ks, n)) = n
          /\ \A k \in ks : Cardinality(ks \intersect 1 .. k) \in 1 .. Cardinality(ks)
          /\ \A j, k \in ks : j < k =>
                 Cardinality(ks \intersect 1 .. j) < Cardinality(ks \intersect 1 .. k)
      BY <1>1, <2>2, Ranks
    <3>4. KeepAt(ks, 1) \in ks /\ Cardinality(ks \intersect 1 .. KeepAt(ks, 1)) = 1
      BY <3>2, <3>3
    <3>5. ASSUME NEW m \in ks, m < KeepAt(ks, 1)
          PROVE  Cardinality(ks \intersect 1 .. m) < 1
      BY <3>3, <3>4, <3>5
    <3> QED
      BY <3>2, <3>3, <3>4, <3>5
  <2>4. \A m \in 1 .. KeepAt(ks, 1) - 1 : m \notin ks
    <3> HIDE DEF ks
    <3>1. KeepAt(ks, 1) \in 1 .. Len(store)
      BY <2>2, <2>3
    <3>2. SUFFICES ASSUME NEW m \in 1 .. KeepAt(ks, 1) - 1, m \in ks PROVE FALSE
      OBVIOUS
    <3>3. m < KeepAt(ks, 1)
      BY <1>1, <3>1
    <3>4. Cardinality(ks \intersect 1 .. m) \in 1 .. Cardinality(ks)
      BY <2>3, <3>2
    <3>5. Cardinality(ks \intersect 1 .. m) < 1
      BY <2>3, <3>2, <3>3
    <3> QED
      BY <3>4, <3>5
  <2>5. KeepAt(ks, 1) \in 1 .. Len(store) /\ First(KeepAt(ks, 1))
    <3>1. KeepAt(ks, 1) \in 1 .. Len(store) /\ store[KeepAt(ks, 1)].item \in among
      BY <2>3
    <3>2. \A m \in 1 .. KeepAt(ks, 1) - 1 : m \in 1 .. Len(store)
      BY <1>1, <3>1
    <3> QED
      BY <2>4, <3>1, <3>2
  <2>6. Oldest(items) = store[CHOOSE k \in 1 .. Len(store) : First(k)].item
    BY DEF Oldest
  <2>7. Oldest(items) \in among
    <3> HIDE DEF among, ks
    <3> QED
      BY <2>5, <2>6
  <2> QED
    BY <2>1, <2>7
<1> QED
  BY <1>3, <1>4

-----------------------------------------------------------------------------
(* Types, and the bounds of the storage.                                   *)

\* Steps of StoreUpdateItem with mMutex held.
Storing == {"storing", "adding", "orphans", "freeing"}

\* A new version of an item, whichever, fits into the storage.
RoomFor(i) ==
    /\ Len(store) < MaxStored
    /\ Cardinality(Versions(ItemID[i])) < MaxVersions

\* Who is about to write the storage holds mMutex, so what was found there still holds.
HolderInv ==
    /\ pc["remover"] \in {"idle", "outdate", "stuck"}
    /\ pc["cleaner"] \in {"idle", "cleaning", "off"}
    /\ \A t \in Installers :
           /\ pc[t] \in Storing => imMutex = t
           /\ pc[t] \in {"storing", "adding"} => job[t] \notin StoredItems
           /\ pc[t] = "adding" => RoomFor(job[t])
    /\ pc["remover"] # "idle" => imMutex = "remover"
    /\ pc["remover"] = "outdate" => job["remover"] \in StoredItems
    /\ pc["cleaner"] = "cleaning" => imMutex = "cleaner"

StoreInv == SMTypeOK /\ Unique(store) /\ StoreBounded /\ HolderInv

\* The threads.
LEMMA ThreadFacts ==
    /\ Installers \subseteq Threads /\ "remover" \in Threads /\ "cleaner" \in Threads
    /\ "remover" \notin Installers /\ "cleaner" \notin Installers
    /\ NoThread \notin Threads
    /\ \A t \in Threads : t \in Installers \/ t = "remover" \/ t = "cleaner"
  BY ThreadsAre, NotInstallers, NoThreadIsNone

\* The digest a thread is at is one of those of the items.
LEMMA DigestFacts ==
  ASSUME SMTypeOK, NEW t \in Installers
  PROVE  Digest(t) \in Digests /\ Digest(t) \in PartsOf(job[t])
<1>1. job[t] \in Items /\ pos[t] \in 1 .. Len(Parts[job[t]])
  BY ThreadFacts DEF SMTypeOK
<1> QED
  BY <1>1 DEF Digest, Digests, PartsOf

\* The lists of outdated items are lists of items.
LEMMA OutdatedTypes ==
  ASSUME SMTypeOK
  PROVE  /\ \A i \in Items : OutdatedWith(i, mOutdatedItems) \in Seq(Items)
         /\ \A items : RestoreOutdatedItem(items) => mOutdatedItems' \in Seq(Items)
         /\ Outdated \in Seq(Items)
         /\ \A n \in Nat : n <= Len(Outdated) => SubSeq(Outdated, 1, n) \in Seq(Items)
         /\ taken < Len(mOutdatedItems) => NextOutdated \in Items
         /\ SubSeq(mOutdatedItems, taken + 1, Len(mOutdatedItems)) \in Seq(Items)
<1>1. /\ mOutdatedItems \in Seq(Items) /\ Len(mOutdatedItems) \in Nat /\ taken \in Nat
      /\ store \in Seq(Records) /\ Len(store) \in Nat
  BY DEF SMTypeOK, SATypeOK, Records
<1>2. \A i \in Items : OutdatedWith(i, mOutdatedItems) \in Seq(Items)
  <2> TAKE i \in Items
  <2> DEFINE ks == {k \in 1 .. Len(mOutdatedItems) : ItemID[mOutdatedItems[k]] # ItemID[i]}
  <2>1. ks \in SUBSET (1 .. Len(mOutdatedItems))
    OBVIOUS
  <2>2. OutdatedWith(i, mOutdatedItems) = Append(Keep(mOutdatedItems, ks), i)
    BY DEF OutdatedWith
  <2> HIDE DEF ks
  <2>3. Keep(mOutdatedItems, ks) \in Seq(Items)
    BY <1>1, <2>1, KeepFacts
  <2> QED
    BY <2>2, <2>3
<1>3. ASSUME NEW items, RestoreOutdatedItem(items) PROVE mOutdatedItems' \in Seq(Items)
  <2> DEFINE ks == {k \in 1 .. Len(mOutdatedItems) : mOutdatedItems[k] \notin items}
  <2>1. ks \in SUBSET (1 .. Len(mOutdatedItems))
    OBVIOUS
  <2>2. mOutdatedItems' = Keep(mOutdatedItems, ks)
    BY <1>3 DEF RestoreOutdatedItem
  <2> HIDE DEF ks
  <2> QED
    BY <1>1, <2>1, <2>2, KeepFacts
<1>4. Outdated \in Seq(Items)
  <2> DEFINE removed == {k \in 1 .. Len(store) : store[k].state = "removed"}
             last == {k \in removed : \A m \in removed :
                         m > k => ItemID[store[m].item] # ItemID[store[k].item]}
             items == [k \in 1 .. Len(store) |-> store[k].item]
  <2>1. last \in SUBSET (1 .. Len(store)) /\ Outdated = Keep(items, last)
    BY DEF Outdated
  <2>2. \A k \in 1 .. Len(store) : store[k].item \in Items
    <3>1. \A k \in 1 .. Len(store) : store[k] \in Records
      BY <1>1
    <3> QED
      BY <3>1 DEF Records
  <2>3. items \in Seq(Items) /\ Len(items) = Len(store)
    BY <1>1, <2>2
  <2> HIDE DEF last, items
  <2> QED
    BY <2>1, <2>3, KeepFacts
<1>5. \A n \in Nat : n <= Len(Outdated) => SubSeq(Outdated, 1, n) \in Seq(Items)
  BY <1>4, SubSeqProperties
<1>6. taken < Len(mOutdatedItems) => NextOutdated \in Items
  BY <1>1 DEF NextOutdated
<1>7. SubSeq(mOutdatedItems, taken + 1, Len(mOutdatedItems)) \in Seq(Items)
  BY <1>1, SubSeqProperties
<1> QED
  BY <1>2, <1>3, <1>4, <1>5, <1>6, <1>7

\* The files.
FilesOK == /\ blobs \in [Digests -> {"none", "bad", "ok", "link"}]
           /\ layers \in [LayerDirs -> {"none", "part", "full"}]
           /\ disturbed \subseteq Installers

\* The threads and what they work on.
ThreadsOK ==
    /\ imMutex \in Threads \union {NoThread}
    /\ mInProgressBlobs \subseteq Digests
    /\ mProcessOutdatedItems \in BOOLEAN
    /\ mClose \in BOOLEAN
    /\ pc \in [Threads -> InstallerSteps \union {"outdate", "stuck", "cleaning", "off"}]
    /\ \A t \in Installers : pc[t] \in InstallerSteps
    /\ job \in [Threads -> Items]
    /\ pos \in [Installers -> Nat]
    /\ \A t \in Installers : pos[t] \in 1 .. Len(Parts[job[t]])
    /\ calls \in 0 .. MaxCalls

\* SMTypeOK, part by part.
LEMMA TypeParts == SMTypeOK <=> SATypeOK /\ FilesOK /\ ThreadsOK /\ store \in Seq(Records)
  BY DEF SMTypeOK, FilesOK, ThreadsOK, Records

\* Writing a file keeps the types of the files.
LEMMA FileSets ==
  ASSUME FilesOK, NEW d
  PROVE  /\ \A v \in {"none", "bad", "ok", "link"} :
                [blobs EXCEPT ![d] = v] \in [Digests -> {"none", "bad", "ok", "link"}]
         /\ \A v \in {"none", "part", "full"} :
                [layers EXCEPT ![d] = v] \in [LayerDirs -> {"none", "part", "full"}]
  BY DEF FilesOK

\* The steps of an installation keep the types of the files,
LEMMA InstallStepFiles ==
  ASSUME FilesOK, NEW t \in Installers, InstallStep(t)
  PROVE  FilesOK'
<1> USE FileSets DEF files
<1>0. CASE RemoveLayer(t) /\ blobs' \in [Digests -> {"none", "bad", "ok", "link"}]
  BY <1>0 DEF RemoveLayer, Sharing, FilesOK
<1>1. CASE OnError(t)
  BY <1>0, <1>1 DEF OnError, FilesOK
<1>2. CASE \E st : RemoveOrphans(st)
  BY <1>2 DEF RemoveOrphans, FilesOK
<1>3. CASE UNCHANGED files
  BY <1>3 DEF FilesOK
<1>4. CASE WaitForInProgressBlob(t)
  BY <1>3, <1>4 DEF WaitForInProgressBlob
<1>5. CASE CheckLayer(t)
  BY <1>3, <1>5 DEF CheckLayer
<1>6. CASE CheckBlob(t)
  BY <1>6 DEF CheckBlob, FilesOK
<1>7. CASE AllocateSpace(t)
  BY <1>1, <1>3, <1>7 DEF AllocateSpace
<1>8. CASE RemoveItem(t)
  BY <1>2, <1>8 DEF RemoveItem
<1>9. CASE RemoveItemFails(t)
  BY <1>1, <1>9 DEF RemoveItemFails
<1>10. CASE FinishReclaim(t)
  BY <1>1, <1>3, <1>10 DEF FinishReclaim
<1>11. CASE Download(t)
  BY <1>11 DEF Download, FilesOK
<1>12. CASE Fetched(t)
  BY <1>1, <1>12 DEF Fetched, FilesOK
<1>13. CASE ValidateBlob(t)
  BY <1>3, <1>13 DEF ValidateBlob
<1>14. CASE ClearLayer(t)
  BY <1>0, <1>14 DEF ClearLayer, FilesOK
<1>15. CASE UnpackLayer(t)
  BY <1>1, <1>15 DEF UnpackLayer, Unpacked, FilesOK
<1>16. CASE Resize(t)
  BY <1>3, <1>16 DEF Resize
<1>17. CASE CreateLayerMetadata(t)
  BY <1>1, <1>17 DEF CreateLayerMetadata, FilesOK
<1>18. CASE LinkLayer(t)
  BY <1>0, <1>18 DEF LinkLayer, FilesOK
<1>19. CASE ReleaseSpace(t)
  BY <1>3, <1>19 DEF ReleaseSpace
<1>20. CASE NextPart(t)
  BY <1>3, <1>20 DEF NextPart
<1>21. CASE StoreUpdateItem(t)
  BY <1>3, <1>21 DEF StoreUpdateItem
<1>22. CASE RemoveOldUpdateItems(t) \/ AddUpdateItem(t) \/ FreeRemovedSize(t)
  BY <1>3, <1>22 DEF RemoveOldUpdateItems, AddUpdateItem, FreeRemovedSize
<1>24. CASE RemoveOldFiles(t)
  BY <1>2, <1>24 DEF RemoveOldFiles
<1>23. CASE \/ ReleaseInProgressBlob(t, "unmark", "check")
           \/ ReleaseInProgressBlob(t, "layerDone", "next")
           \/ ReleaseInProgressBlob(t, "layerFailed", "idle")
  BY <1>3, <1>23 DEF ReleaseInProgressBlob
<1> QED
  BY <1>4, <1>5, <1>6, <1>7, <1>8, <1>9, <1>10, <1>11, <1>12, <1>13, <1>14, <1>15,
     <1>16, <1>17, <1>18, <1>19, <1>20, <1>21, <1>22, <1>23, <1>24 DEF InstallStep

\* of the partition,
LEMMA InstallStepSpace ==
  ASSUME SMTypeOK, NEW t \in Threads, InstallStep(t)
  PROVE  SATypeOK'
<1>0. SATypeOK
  BY DEF SMTypeOK
<1> USE DEF SATypeOK
<1>1. CASE UNCHANGED saVars
  BY <1>0, <1>1 DEF saVars
<1>2. CASE EndSpace(t)
  <2>1. CASE t \in space
    BY <1>0, <1>2, <2>1 DEF EndSpace, Done
  <2>2. CASE t \notin space
    BY <1>1, <1>2, <2>2 DEF EndSpace
  <2> QED
    BY <2>1, <2>2
<1>3. CASE AllocateSpace(t)
  BY <1>0, <1>1, <1>3 DEF AllocateSpace, AllocateFits, AllocateFails, StartReclaim
<1>4. CASE FinishReclaim(t)
  <2>1. SubSeq(mOutdatedItems, taken + 1, Len(mOutdatedItems)) \in Seq(Items)
    BY OutdatedTypes
  <2>2. PICK fits \in BOOLEAN : EndReclaim(t, fits)
    BY <1>4 DEF FinishReclaim
  <2> QED
    BY <1>0, <2>1, <2>2 DEF EndReclaim
<1>5. CASE RemoveItem(t) \/ RemoveItemFails(t)
  BY <1>0, <1>5 DEF RemoveItem, RemoveItemFails, ReclaimItem, ReclaimFails
<1>6. CASE Fetched(t) \/ LinkLayer(t) \/ ReleaseSpace(t)
  BY <1>1, <1>2, <1>6 DEF Fetched, LinkLayer, ReleaseSpace
<1>7. CASE Resize(t) \/ CreateLayerMetadata(t) \/ FreeRemovedSize(t)
  BY <1>1, <1>7 DEF Resize, CreateLayerMetadata, FreeRemovedSize, FreeSpace
<1>8. CASE \/ WaitForInProgressBlob(t)
           \/ ReleaseInProgressBlob(t, "unmark", "check")
           \/ ReleaseInProgressBlob(t, "layerDone", "next")
           \/ ReleaseInProgressBlob(t, "layerFailed", "idle")
           \/ CheckLayer(t) \/ CheckBlob(t) \/ Download(t) \/ ValidateBlob(t)
           \/ ClearLayer(t) \/ UnpackLayer(t) \/ NextPart(t) \/ StoreUpdateItem(t)
           \/ AddUpdateItem(t) \/ RemoveOldFiles(t)
  BY <1>1, <1>8 DEF WaitForInProgressBlob, ReleaseInProgressBlob, CheckLayer, CheckBlob,
     Download, ValidateBlob, ClearLayer, UnpackLayer, NextPart, StoreUpdateItem,
     AddUpdateItem, RemoveOldFiles
<1>9. CASE RemoveOldUpdateItems(t)
  <2>1. mOutdatedItems' \in Seq(Items)
    BY <1>9, OutdatedTypes DEF RemoveOldUpdateItems
  <2> QED
    BY <1>0, <1>9, <2>1 DEF RemoveOldUpdateItems
<1> QED
  BY <1>3, <1>4, <1>5, <1>6, <1>7, <1>8, <1>9 DEF InstallStep

\* A thread goes on at another step of the installation.
LEMMA GotoTypes ==
  ASSUME ThreadsOK, NEW t \in Installers, NEW l \in InstallerSteps, Goto(t, l),
         imMutex' \in Threads \union {NoThread},
         mInProgressBlobs' \subseteq Digests,
         UNCHANGED <<mProcessOutdatedItems, mClose, calls, job>>,
         pos' \in [Installers -> Nat],
         \A u \in Installers : pos'[u] \in 1 .. Len(Parts[job[u]])
  PROVE  ThreadsOK'
<1>1. pc' = [pc EXCEPT ![t] = l] /\ t \in Threads
  BY ThreadFacts DEF Goto
<1>2. pc' \in [Threads -> InstallerSteps \union {"outdate", "stuck", "cleaning", "off"}]
  BY <1>1 DEF ThreadsOK
<1>3. \A u \in Installers : pc'[u] \in InstallerSteps
  BY <1>1, ThreadFacts DEF ThreadsOK
<1> QED
  BY <1>2, <1>3 DEF ThreadsOK

\* and of the threads.
LEMMA InstallStepThreads ==
  ASSUME SMTypeOK, NEW t \in Installers, InstallStep(t)
  PROVE  ThreadsOK'
<1>0. ThreadsOK /\ t \in Threads /\ Digest(t) \in Digests
  BY TypeParts, ThreadFacts, DigestFacts
<1> DEFINE Local == /\ \E l \in InstallerSteps : Goto(t, l)
                    /\ UNCHANGED <<imMutex, job, pos, control>>
<1>1. CASE Local
  <2>1. PICK l \in InstallerSteps : Goto(t, l)
    BY <1>1
  <2>2. UNCHANGED <<imMutex, job, pos, mInProgressBlobs, mProcessOutdatedItems, mClose,
                    calls>>
    BY <1>1 DEF control
  <2> QED
    BY <1>0, <2>1, <2>2, GotoTypes DEF ThreadsOK
<1>2. CASE WaitForInProgressBlob(t)
  <2>1. PICK l \in {"layer", "unmark"} : Goto(t, l)
    BY <1>2 DEF WaitForInProgressBlob
  <2>2. l \in InstallerSteps
    BY DEF InstallerSteps
  <2> QED
    BY <1>0, <1>2, <2>1, <2>2, GotoTypes DEF ThreadsOK, WaitForInProgressBlob
<1>3. CASE CheckLayer(t)
  BY <1>1, <1>3 DEF CheckLayer, InstallerSteps
<1>4. CASE CheckBlob(t)
  BY <1>1, <1>4 DEF CheckBlob, InstallerSteps
<1>5. CASE AllocateSpace(t)
  <2>1. AfterAlloc[pc[t]] \in InstallerSteps /\ "release" \in InstallerSteps
    BY <1>5 DEF AllocateSpace, Allocating, AfterAlloc, InstallerSteps
  <2>2. CASE Goto(t, AfterAlloc[pc[t]]) \/ Goto(t, "release")
    BY <1>1, <1>5, <2>1, <2>2 DEF AllocateSpace
  <2>3. CASE UNCHANGED pc
    BY <1>0, <1>5, <2>3 DEF AllocateSpace, control, ThreadsOK
  <2> QED
    BY <1>5, <2>2, <2>3 DEF AllocateSpace
<1>6. CASE RemoveItem(t)
  BY <1>0, <1>6 DEF RemoveItem, control, ThreadsOK
<1>7. CASE RemoveItemFails(t)
  BY <1>1, <1>7 DEF RemoveItemFails, InstallerSteps
<1>8. CASE FinishReclaim(t)
  <2>1. AfterAlloc[pc[t]] \in InstallerSteps /\ "release" \in InstallerSteps
    BY <1>8 DEF FinishReclaim, Allocating, AfterAlloc, InstallerSteps
  <2>2. CASE Goto(t, AfterAlloc[pc[t]]) \/ Goto(t, "release")
    BY <1>1, <1>8, <2>1, <2>2 DEF FinishReclaim
  <2> QED
    BY <1>8, <2>2 DEF FinishReclaim
<1>9. CASE Download(t)
  BY <1>1, <1>9 DEF Download, InstallerSteps
<1>10. CASE Fetched(t)
  BY <1>1, <1>10 DEF Fetched, InstallerSteps
<1>11. CASE ValidateBlob(t)
  BY <1>1, <1>11 DEF ValidateBlob, InstallerSteps
<1>12. CASE ClearLayer(t)
  BY <1>1, <1>12 DEF ClearLayer, InstallerSteps
<1>13. CASE UnpackLayer(t)
  BY <1>1, <1>13 DEF UnpackLayer, InstallerSteps
<1>14. CASE Resize(t)
  BY <1>1, <1>14 DEF Resize, InstallerSteps
<1>15. CASE CreateLayerMetadata(t)
  BY <1>1, <1>15 DEF CreateLayerMetadata, InstallerSteps
<1>16. CASE LinkLayer(t)
  BY <1>1, <1>16 DEF LinkLayer, InstallerSteps
<1>17. CASE ReleaseSpace(t)
  BY <1>1, <1>17 DEF ReleaseSpace, InstallerSteps
<1>18. CASE NextPart(t)
  <2>1. pos[t] \in 1 .. Len(Parts[job[t]]) /\ Len(Parts[job[t]]) \in Nat
    BY <1>0, PartsAssumption DEF ThreadsOK
  <2>2. CASE UNCHANGED pos
    BY <1>1, <1>18, <2>2 DEF NextPart, InstallerSteps
  <2>3. CASE pos' = [pos EXCEPT ![t] = @ + 1] /\ pos[t] < Len(Parts[job[t]]) /\ Goto(t, "wait")
    <3>1. pos[t] + 1 \in 1 .. Len(Parts[job[t]]) /\ pos[t] + 1 \in Nat
      BY <2>1, <2>3
    <3>2. pos' \in [Installers -> Nat] /\ \A u \in Installers : pos'[u] \in 1 .. Len(Parts[job[u]])
      BY <1>0, <2>3, <3>1 DEF ThreadsOK
    <3>3. "wait" \in InstallerSteps
      BY DEF InstallerSteps
    <3>4. UNCHANGED <<imMutex, job, mInProgressBlobs, mProcessOutdatedItems, mClose, calls>>
      BY <1>18 DEF NextPart, control
    <3> QED
      BY <1>0, <2>3, <3>2, <3>3, <3>4, GotoTypes DEF ThreadsOK
  <2> QED
    BY <1>18, <2>2, <2>3 DEF NextPart
<1>19. CASE StoreUpdateItem(t) \/ FreeRemovedSize(t)
  <2>1. /\ imMutex' \in Threads \union {NoThread}
        /\ UNCHANGED <<job, pos, mInProgressBlobs, mProcessOutdatedItems, mClose, calls>>
    BY <1>0, <1>19 DEF StoreUpdateItem, FreeRemovedSize, control, ThreadsOK
  <2>2. PICK l \in {"idle", "storing"} : Goto(t, l)
    BY <1>19 DEF StoreUpdateItem, FreeRemovedSize
  <2>3. l \in InstallerSteps
    BY DEF InstallerSteps
  <2> QED
    BY <1>0, <2>1, <2>2, <2>3, GotoTypes DEF ThreadsOK
<1>20. CASE RemoveOldUpdateItems(t) \/ AddUpdateItem(t) \/ RemoveOldFiles(t)
  BY <1>1, <1>20 DEF RemoveOldUpdateItems, AddUpdateItem, RemoveOldFiles, InstallerSteps
<1>21. CASE \/ ReleaseInProgressBlob(t, "unmark", "check")
           \/ ReleaseInProgressBlob(t, "layerDone", "next")
           \/ ReleaseInProgressBlob(t, "layerFailed", "idle")
  <2>1. PICK l \in {"check", "next", "idle"} : Goto(t, l)
    BY <1>21 DEF ReleaseInProgressBlob
  <2>2. l \in InstallerSteps
    BY DEF InstallerSteps
  <2>3. /\ mInProgressBlobs' \subseteq Digests
        /\ UNCHANGED <<imMutex, job, pos, mProcessOutdatedItems, mClose, calls>>
    BY <1>0, <1>21 DEF ReleaseInProgressBlob, ThreadsOK
  <2> QED
    BY <1>0, <2>1, <2>2, <2>3, GotoTypes DEF ThreadsOK
<1> QED
  BY <1>2, <1>3, <1>4, <1>5, <1>6, <1>7, <1>8, <1>9, <1>10, <1>11, <1>12, <1>13,
     <1>14, <1>15, <1>16, <1>17, <1>18, <1>19, <1>20, <1>21 DEF InstallStep

-----------------------------------------------------------------------------
(* The bounds of the storage.                                              *)

VersionsOf(items, id) == {i \in items : ItemID[i] = id}
FewVersions(items) ==
    \A i \in items : Cardinality(VersionsOf(items, ItemID[i])) <= MaxVersions

Bounded(st) == Len(st) <= MaxStored /\ FewVersions(ItemsIn(st))

\* Fewer items have fewer versions.
LEMMA FewerItems ==
  ASSUME NEW items, IsFiniteSet(items), FewVersions(items), NEW sub \in SUBSET items
  PROVE  FewVersions(sub)
<1> SUFFICES ASSUME NEW i \in sub
             PROVE  Cardinality(VersionsOf(sub, ItemID[i])) <= MaxVersions
  BY DEF FewVersions
<1>1. VersionsOf(sub, ItemID[i]) \in SUBSET VersionsOf(items, ItemID[i])
  BY DEF VersionsOf
<1>2. VersionsOf(items, ItemID[i]) \in SUBSET items
  BY DEF VersionsOf
<1>3. IsFiniteSet(VersionsOf(items, ItemID[i]))
  BY <1>2, FS_Subset
<1>4. /\ Cardinality(VersionsOf(sub, ItemID[i])) <= Cardinality(VersionsOf(items, ItemID[i]))
      /\ Cardinality(VersionsOf(sub, ItemID[i])) \in Nat
      /\ Cardinality(VersionsOf(items, ItemID[i])) \in Nat
  BY <1>1, <1>3, FS_Subset, FS_CardinalityType
<1>5. Cardinality(VersionsOf(items, ItemID[i])) <= MaxVersions
  BY DEF FewVersions
<1> QED
  BY <1>4, <1>5, BoundsArePositive

\* An item may be added when there is room for another version of it.
LEMMA OneMoreItem ==
  ASSUME NEW items, IsFiniteSet(items), FewVersions(items), NEW i,
         Cardinality(VersionsOf(items, ItemID[i])) < MaxVersions
  PROVE  FewVersions(items \union {i})
<1> SUFFICES ASSUME NEW j \in items \union {i}
             PROVE  Cardinality(VersionsOf(items \union {i}, ItemID[j])) <= MaxVersions
  BY DEF FewVersions
<1>1. VersionsOf(items, ItemID[i]) \in SUBSET items
  BY DEF VersionsOf
<1>2. /\ IsFiniteSet(VersionsOf(items, ItemID[i]))
      /\ Cardinality(VersionsOf(items, ItemID[i])) \in Nat
  BY <1>1, FS_Subset, FS_CardinalityType
<1>3. CASE ItemID[j] = ItemID[i]
  <2>1. VersionsOf(items \union {i}, ItemID[j]) = VersionsOf(items, ItemID[i]) \union {i}
    BY <1>3 DEF VersionsOf
  <2>2. Cardinality(VersionsOf(items, ItemID[i]) \union {i})
            <= Cardinality(VersionsOf(items, ItemID[i])) + 1
    BY <1>2, FS_AddElement
  <2>3. Cardinality(VersionsOf(items, ItemID[i]) \union {i}) \in Nat
    BY <1>2, FS_AddElement, FS_CardinalityType
  <2>4. ASSUME NEW a \in Nat, NEW b \in Nat, b <= a + 1, a < MaxVersions
        PROVE  b <= MaxVersions
    BY <2>4, BoundsArePositive
  <2>5. Cardinality(VersionsOf(items, ItemID[i]) \union {i}) <= MaxVersions
    BY <1>2, <2>2, <2>3, <2>4
  <2> QED
    BY <2>1, <2>5
<1>4. CASE ItemID[j] # ItemID[i]
  <2>1. VersionsOf(items \union {i}, ItemID[j]) = VersionsOf(items, ItemID[j]) /\ j \in items
    BY <1>4 DEF VersionsOf
  <2> QED
    BY <2>1 DEF FewVersions
<1> QED
  BY <1>3, <1>4

\* StoreBounded in these terms.
LEMMA BoundedFacts ==
  ASSUME store \in Seq(Records)
  PROVE  /\ StoreBounded <=> Bounded(store)
         /\ StoredItems = ItemsIn(store) /\ IsFiniteSet(StoredItems)
         /\ \A id : Versions(id) = VersionsOf(StoredItems, id)
<1>1. StoredItems = ItemsIn(store) /\ IsFiniteSet(StoredItems)
  BY OldestFacts DEF StoredItems, ItemsIn
<1>2. \A id : Versions(id) = VersionsOf(StoredItems, id)
  BY DEF Versions, VersionsOf
<1>3. StoreBounded <=> Bounded(store)
  BY <1>1, <1>2 DEF StoreBounded, Bounded, FewVersions
<1> QED
  BY <1>1, <1>2, <1>3

\* Dropping items keeps the bounds.
LEMMA DropBounded ==
  ASSUME store \in Seq(Records), Unique(store), StoreBounded, NEW gone
  PROVE  Bounded(Drop(store, gone))
<1>1. /\ ItemsIn(Drop(store, gone)) = ItemsIn(store) \ gone
      /\ Len(Drop(store, gone)) \in Nat /\ Len(Drop(store, gone)) <= Len(store)
  BY DropFacts
<1>2. Bounded(store) /\ IsFiniteSet(ItemsIn(store)) /\ Len(store) \in Nat
  BY BoundedFacts
<1>3. FewVersions(ItemsIn(Drop(store, gone)))
  BY <1>1, <1>2, FewerItems DEF Bounded
<1> QED
  BY <1>1, <1>2, <1>3, BoundsArePositive DEF Bounded

\* Writing a stored item again keeps the bounds, and so does storing a new one when
\* there is room for it, which RemoveOldItemVersions and CropUpdateItems make.
LEMMA PutBounded ==
  ASSUME store \in Seq(Records), Unique(store), StoreBounded,
         NEW i \in Items, NEW s \in {"installed", "removed"}
  PROVE  /\ i \in StoredItems => Bounded(Put(store, i, s))
         /\ MakesRoom(i) = {} => RoomFor(i)
         /\ RoomFor(i) => Bounded(Put(store, i, s))
         /\ Len(Drop(store, MakesRoom(i))) < MaxStored
         /\ Cardinality(VersionsOf(ItemsIn(Drop(store, MakesRoom(i))), ItemID[i]))
                < MaxVersions
<1>1. /\ Bounded(store) /\ StoredItems = ItemsIn(store) /\ IsFiniteSet(ItemsIn(store))
      /\ Len(store) \in Nat /\ Versions(ItemID[i]) = VersionsOf(ItemsIn(store), ItemID[i])
  BY BoundedFacts
<1>2. /\ MaxVersions \in Nat \ {0} /\ MaxStored \in Nat \ {0}
      /\ Len(store) <= MaxStored /\ FewVersions(ItemsIn(store))
  BY <1>1, BoundsArePositive DEF Bounded
<1>3. /\ ItemsIn(Put(store, i, s)) = ItemsIn(store) \union {i}
      /\ Len(Put(store, i, s)) \in Nat /\ Len(Put(store, i, s)) <= Len(store) + 1
      /\ i \in ItemsIn(store) => Len(Put(store, i, s)) <= Len(store)
  BY PutFacts
<1>4. ASSUME i \in StoredItems PROVE Bounded(Put(store, i, s))
  <2>1. ItemsIn(Put(store, i, s)) = ItemsIn(store)
    BY <1>1, <1>3, <1>4
  <2>2. Len(Put(store, i, s)) <= MaxStored
    BY <1>1, <1>2, <1>3, <1>4
  <2>3. FewVersions(ItemsIn(Put(store, i, s)))
    BY <1>2, <2>1
  <2> QED
    BY <2>2, <2>3 DEF Bounded
<1>5. /\ Versions(ItemID[i]) \in SUBSET StoredItems
      /\ IsFiniteSet(Versions(ItemID[i])) /\ Cardinality(Versions(ItemID[i])) \in Nat
  BY OldestFacts DEF Versions
<1>6. ASSUME MakesRoom(i) = {}
      PROVE  Cardinality(Versions(ItemID[i])) < MaxVersions /\ Len(store) < MaxStored
  BY <1>1, <1>2, <1>5, <1>6 DEF MakesRoom
<1>7. ASSUME RoomFor(i) PROVE Bounded(Put(store, i, s))
  <2>1. FewVersions(ItemsIn(store) \union {i})
    BY <1>1, <1>2, <1>7, OneMoreItem DEF RoomFor
  <2> QED
    BY <1>1, <1>2, <1>3, <1>7, <2>1 DEF RoomFor, Bounded
<1>8. /\ Len(Drop(store, MakesRoom(i))) < MaxStored
      /\ Cardinality(VersionsOf(ItemsIn(Drop(store, MakesRoom(i))), ItemID[i])) < MaxVersions
  <2> DEFINE dr == Drop(store, MakesRoom(i))
  <2>1. /\ dr \in Seq(Records) /\ Unique(dr)
        /\ ItemsIn(dr) = ItemsIn(store) \ MakesRoom(i)
        /\ Len(dr) \in Nat /\ Len(dr) <= Len(store)
        /\ ItemsIn(store) \intersect MakesRoom(i) # {} => Len(dr) < Len(store)
    BY DropFacts
  <2>2. IsFiniteSet(ItemsIn(dr)) /\ FewVersions(ItemsIn(dr))
    BY <1>1, <1>2, <2>1, FewerItems, FS_Subset
  <2> HIDE DEF dr
  <2>3. Len(dr) < MaxStored /\ Cardinality(VersionsOf(ItemsIn(dr), ItemID[i])) < MaxVersions
    <3>1. CASE MakesRoom(i) = {}
      <4>1. ItemsIn(dr) = ItemsIn(store)
        BY <2>1, <3>1
      <4> QED
        BY <1>1, <1>2, <1>6, <2>1, <3>1, <4>1
    <3>2. CASE Cardinality(Versions(ItemID[i])) >= MaxVersions
      <4> DEFINE o == Oldest(Versions(ItemID[i]))
      <4>1. Versions(ItemID[i]) # {}
        BY <1>2, <1>5, <3>2, FS_EmptySet
      <4>2. o \in Versions(ItemID[i]) /\ o \in ItemsIn(store) /\ MakesRoom(i) = {o}
        BY <1>1, <1>5, <3>2, <4>1, OldestFacts DEF MakesRoom
      <4> HIDE DEF o
      <4>3. ItemID[o] = ItemID[i]
        BY <4>2 DEF Versions
      <4>4. Cardinality(Versions(ItemID[i])) <= MaxVersions
        BY <1>1, <1>2, <4>2, <4>3 DEF FewVersions
      <4>5. VersionsOf(ItemsIn(dr), ItemID[i]) = Versions(ItemID[i]) \ {o}
        BY <1>1, <2>1, <4>2 DEF VersionsOf
      <4>6. Cardinality(Versions(ItemID[i]) \ {o}) = Cardinality(Versions(ItemID[i])) - 1
        BY <1>5, <4>2, FS_RemoveElement
      <4>7. ASSUME NEW c \in Nat, c <= MaxVersions PROVE c - 1 < MaxVersions
        BY <1>2, <4>7
      <4>8. Cardinality(VersionsOf(ItemsIn(dr), ItemID[i])) < MaxVersions
        BY <1>5, <4>4, <4>5, <4>6, <4>7
      <4>9. ItemsIn(store) \intersect MakesRoom(i) # {}
        BY <4>2
      <4>10. Len(dr) < MaxStored
        BY <1>1, <1>2, <2>1, <4>9
      <4> QED
        BY <4>8, <4>10
    <3>3. CASE ~(Cardinality(Versions(ItemID[i])) >= MaxVersions) /\ Len(store) >= MaxStored
      <4> DEFINE o == Oldest(StoredItems)
      <4>1. StoredItems # {}
        <5>1. 1 \in 1 .. Len(store)
          BY <1>1, <1>2, <3>3
        <5>2. store[1].item \in StoredItems
          BY <5>1 DEF StoredItems
        <5> QED
          BY <5>2
      <4>2. o \in ItemsIn(store) /\ MakesRoom(i) = {o}
        BY <1>1, <3>3, <4>1, OldestFacts DEF MakesRoom
      <4> HIDE DEF o
      <4>3. VersionsOf(ItemsIn(dr), ItemID[i]) \in SUBSET Versions(ItemID[i])
        BY <1>1, <2>1 DEF VersionsOf
      <4>4. /\ Cardinality(VersionsOf(ItemsIn(dr), ItemID[i])) <= Cardinality(Versions(ItemID[i]))
            /\ Cardinality(VersionsOf(ItemsIn(dr), ItemID[i])) \in Nat
        BY <1>5, <4>3, FS_Subset, FS_CardinalityType
      <4> QED
        BY <1>1, <1>2, <1>5, <2>1, <3>3, <4>2, <4>4
    <3> QED
      BY <3>1, <3>2, <3>3 DEF MakesRoom
  <2> QED
    BY <2>3 DEF dr
<1> QED
  BY <1>4, <1>6, <1>7, <1>8 DEF RoomFor

\* The storage after a step, with StoreBounded in terms of Bounded.
StoreOK == store \in Seq(Records) /\ Unique(store) /\ StoreBounded

\* What is written is within the bounds when it is Bounded.
LEMMA StoreWritten ==
  ASSUME NEW st \in Seq(Records), Unique(st), Bounded(st), store' = st
  PROVE  StoreOK' /\ StoredItems' = ItemsIn(st)
<1>1. StoredItems' = ItemsIn(st)
  BY DEF StoredItems, ItemsIn
<1>2. \A id : VersionsOf(ItemsIn(st), id) = Versions(id)'
  BY <1>1 DEF Versions, VersionsOf
<1>3. StoreBounded'
  BY <1>1, <1>2 DEF StoreBounded, Bounded, FewVersions
<1> QED
  BY <1>1, <1>3 DEF StoreOK, Unique

\* What StoreInv says of the storage.
LEMMA StoreNow ==
  ASSUME StoreInv
  PROVE  store \in Seq(Records) /\ Unique(store) /\ StoreBounded /\ HolderInv /\ SMTypeOK
         /\ StoredItems = ItemsIn(store)
  BY TypeParts DEF StoreInv, StoredItems, ItemsIn

\* With mMutex free nobody is between reading and writing the storage.
LEMMA NoHolder ==
  ASSUME StoreInv, ImFree
  PROVE  /\ pc["remover"] = "idle" /\ pc["cleaner"] # "cleaning"
         /\ \A u \in Installers : pc[u] \notin Storing
  BY ThreadFacts DEF StoreInv, HolderInv, ImFree

\* Steps that leave the storage, mMutex and the jobs alone.
LEMMA StoreKept ==
  ASSUME StoreInv, NEW t \in Installers, NEW l, l \notin Storing,
         Goto(t, l) \/ UNCHANGED pc, UNCHANGED <<store, imMutex, job>>
  PROVE  StoreOK' /\ HolderInv'
<1>1. StoreOK'
  BY StoreNow, BoundedFacts, StoreWritten
<1>2. StoredItems' = StoredItems /\ \A u \in Installers : RoomFor(job[u])' = RoomFor(job[u])
  BY DEF StoredItems, RoomFor, Versions
<1>3. /\ pc'["remover"] = pc["remover"] /\ pc'["cleaner"] = pc["cleaner"]
      /\ \A u \in Installers : pc'[u] \in Storing => pc[u] = pc'[u]
  BY ThreadFacts, StoreNow DEF Goto, SMTypeOK
<1>4. HolderInv'
  BY <1>2, <1>3, StoreNow DEF HolderInv, Storing
<1> QED
  BY <1>1, <1>4

\* Steps that remove items with mMutex free.
LEMMA StoreDropped ==
  ASSUME StoreInv, ImFree, NEW t \in Installers, NEW l, l \notin Storing,
         Goto(t, l) \/ UNCHANGED pc, NEW gone, store' = Drop(store, gone),
         UNCHANGED <<imMutex, job>>
  PROVE  StoreOK' /\ HolderInv'
<1>1. /\ Drop(store, gone) \in Seq(Records) /\ Unique(Drop(store, gone))
      /\ Bounded(Drop(store, gone))
  BY StoreNow, DropFacts, DropBounded
<1>2. StoreOK'
  BY <1>1, StoreWritten
<1>3. /\ pc'["remover"] = "idle" /\ pc'["cleaner"] = pc["cleaner"]
      /\ pc'["cleaner"] # "cleaning"
      /\ \A u \in Installers : pc'[u] \notin Storing
  BY ThreadFacts, StoreNow, NoHolder DEF Goto, SMTypeOK
<1>4. HolderInv'
  BY <1>3, StoreNow DEF HolderInv, Storing
<1> QED
  BY <1>2, <1>4

\* The steps of an installation keep the storage and its holder.
LEMMA InstallStepStore ==
  ASSUME StoreInv, NEW t \in Installers, InstallStep(t)
  PROVE  StoreOK' /\ HolderInv'
<1> DEFINE Local == /\ \E l \in InstallerSteps \ Storing : Goto(t, l) \/ UNCHANGED pc
                    /\ UNCHANGED <<store, imMutex, job>>
<1>0. /\ t \in Threads /\ job[t] \in Items /\ "installed" \in {"installed", "removed"}
      /\ pc \in [Threads -> InstallerSteps \union {"outdate", "stuck", "cleaning", "off"}]
  BY ThreadFacts, StoreNow DEF SMTypeOK
<1>1. CASE Local
  BY <1>1, StoreKept
<1> USE DEF InstallerSteps, Storing
<1>2. CASE WaitForInProgressBlob(t) \/ CheckLayer(t) \/ CheckBlob(t)
  BY <1>1, <1>2 DEF WaitForInProgressBlob, CheckLayer, CheckBlob
<1>3. CASE AllocateSpace(t)
  <2>1. AfterAlloc[pc[t]] \in InstallerSteps \ Storing /\ "release" \in InstallerSteps \ Storing
    BY <1>3 DEF AllocateSpace, Allocating, AfterAlloc
  <2> QED
    BY <1>1, <1>3, <2>1 DEF AllocateSpace
<1>4. CASE FinishReclaim(t)
  <2>1. AfterAlloc[pc[t]] \in InstallerSteps \ Storing /\ "release" \in InstallerSteps \ Storing
    BY <1>4 DEF FinishReclaim, Allocating, AfterAlloc
  <2> QED
    BY <1>1, <1>4, <2>1 DEF FinishReclaim
<1>5. CASE Download(t) \/ Fetched(t) \/ ValidateBlob(t)
  BY <1>1, <1>5 DEF Download, Fetched, ValidateBlob
<1>6. CASE ClearLayer(t) \/ UnpackLayer(t) \/ Resize(t)
  BY <1>1, <1>6 DEF ClearLayer, UnpackLayer, Resize
<1>7. CASE CreateLayerMetadata(t) \/ LinkLayer(t) \/ ReleaseSpace(t)
  BY <1>1, <1>7 DEF CreateLayerMetadata, LinkLayer, ReleaseSpace
<1>8. CASE NextPart(t)
  BY <1>1, <1>8 DEF NextPart
<1>9. CASE \/ ReleaseInProgressBlob(t, "unmark", "check")
           \/ ReleaseInProgressBlob(t, "layerDone", "next")
           \/ ReleaseInProgressBlob(t, "layerFailed", "idle")
  BY <1>1, <1>9 DEF ReleaseInProgressBlob
<1>10. CASE RemoveItem(t)
  <2>1. ImFree /\ store' = Drop(store, {NextOutdated}) /\ UNCHANGED <<pc, imMutex, job>>
    BY <1>10 DEF RemoveItem
  <2>2. "idle" \notin Storing
    OBVIOUS
  <2> HIDE DEF InstallerSteps, Storing
  <2> QED
    BY <2>1, <2>2, StoreDropped
<1>11. CASE RemoveItemFails(t)
  <2>1. /\ ImFree /\ store' = Drop(store, {NextOutdated}) /\ UNCHANGED <<imMutex, job>>
        /\ Goto(t, "release")
    BY <1>11 DEF RemoveItemFails
  <2>2. "release" \notin Storing
    OBVIOUS
  <2> HIDE DEF InstallerSteps, Storing
  <2> QED
    BY <2>1, <2>2, StoreDropped
<1>12. CASE StoreUpdateItem(t)
  <2>1. /\ ImFree /\ pc["remover"] = "idle" /\ pc["cleaner"] \in {"idle", "off"}
        /\ \A u \in Installers : pc[u] \notin Storing
    BY <1>12, StoreNow, NoHolder DEF StoreUpdateItem, HolderInv
  <2>2. CASE /\ job[t] \in StoredItems \/ MakesRoom(job[t]) = {}
             /\ store' = Put(store, job[t], "installed")
             /\ Goto(t, "idle") /\ UNCHANGED imMutex
    <3>1. /\ Put(store, job[t], "installed") \in Seq(Records)
          /\ Unique(Put(store, job[t], "installed"))
          /\ Bounded(Put(store, job[t], "installed"))
      BY <1>0, <2>2, StoreNow, PutFacts, PutBounded
    <3>2. StoreOK'
      BY <2>2, <3>1, StoreWritten
    <3>3. HolderInv'
      BY <1>0, <2>1, <2>2, ThreadFacts DEF HolderInv, Goto
    <3> QED
      BY <3>2, <3>3
  <2>3. CASE /\ job[t] \notin StoredItems
             /\ imMutex' = t /\ Goto(t, "storing") /\ UNCHANGED store
    <3>1. StoreOK'
      BY <2>3, StoreNow, BoundedFacts, StoreWritten
    <3>2. StoredItems' = StoredItems /\ job' = job
      BY <1>12, <2>3 DEF StoredItems, StoreUpdateItem
    <3>3. HolderInv'
      BY <1>0, <2>1, <2>3, <3>2, ThreadFacts DEF HolderInv, Goto
    <3> QED
      BY <3>1, <3>3
  <2> QED
    BY <1>12, <2>2, <2>3 DEF StoreUpdateItem
\* With mMutex held nobody else is at the storage.
<1>13. ASSUME pc[t] \in Storing
       PROVE  /\ imMutex = t /\ pc["remover"] = "idle" /\ pc["cleaner"] \in {"idle", "off"}
              /\ \A u \in Installers : u # t => pc[u] \notin Storing
  BY <1>13, StoreNow, ThreadFacts DEF HolderInv
<1>14. CASE RemoveOldUpdateItems(t)
  <2> DEFINE st == Drop(store, MakesRoom(job[t]))
  <2>1. /\ pc[t] = "storing" /\ store' = st /\ Goto(t, "adding")
        /\ UNCHANGED <<imMutex, job>>
    BY <1>14 DEF RemoveOldUpdateItems
  <2>2. /\ st \in Seq(Records) /\ Unique(st) /\ Bounded(st)
        /\ ItemsIn(st) = ItemsIn(store) \ MakesRoom(job[t])
    BY StoreNow, DropFacts, DropBounded
  <2>3. Len(st) < MaxStored /\ Cardinality(VersionsOf(ItemsIn(st), ItemID[job[t]])) < MaxVersions
    BY <1>0, StoreNow, PutBounded
  <2> HIDE DEF st
  <2>4. StoreOK' /\ StoredItems' = ItemsIn(st)
    BY <2>1, <2>2, StoreWritten
  <2>5. RoomFor(job[t])' /\ job[t] \notin StoredItems'
    <3>1. Versions(ItemID[job[t]])' = VersionsOf(ItemsIn(st), ItemID[job[t]])
      BY <2>1, <2>4 DEF Versions, VersionsOf
    <3>2. job[t] \notin ItemsIn(store)
      BY <2>1, StoreNow DEF HolderInv
    <3> QED
      BY <2>1, <2>2, <2>3, <2>4, <3>1, <3>2 DEF RoomFor
  <2>6. HolderInv'
    BY <1>0, <1>13, <2>1, <2>5, ThreadFacts DEF HolderInv, Goto
  <2> QED
    BY <2>4, <2>6
<1>15. CASE AddUpdateItem(t)
  <2> DEFINE st == Put(store, job[t], "installed")
  <2>1. /\ pc[t] = "adding" /\ store' = st /\ Goto(t, "orphans")
        /\ UNCHANGED <<imMutex, job>>
    BY <1>15 DEF AddUpdateItem
  <2>2. RoomFor(job[t])
    BY <2>1, StoreNow DEF HolderInv
  <2>3. st \in Seq(Records) /\ Unique(st) /\ Bounded(st)
    BY <1>0, <2>2, StoreNow, PutFacts, PutBounded
  <2> HIDE DEF st
  <2>4. StoreOK'
    BY <2>1, <2>3, StoreWritten
  <2>5. HolderInv'
    BY <1>0, <1>13, <2>1, ThreadFacts DEF HolderInv, Goto
  <2> QED
    BY <2>4, <2>5
<1>16. CASE RemoveOldFiles(t) \/ FreeRemovedSize(t)
  <2>1. /\ pc[t] \in Storing /\ UNCHANGED <<store, job>>
        /\ \/ Goto(t, "freeing") /\ UNCHANGED imMutex
           \/ Goto(t, "idle")
    BY <1>16 DEF RemoveOldFiles, FreeRemovedSize
  <2>2. StoreOK'
    BY <2>1, StoreNow, BoundedFacts, StoreWritten
  <2>3. HolderInv'
    BY <1>0, <1>13, <2>1, ThreadFacts DEF HolderInv, Goto
  <2> QED
    BY <2>2, <2>3
<1> QED
  BY <1>2, <1>3, <1>4, <1>5, <1>6, <1>7, <1>8, <1>9, <1>10, <1>11, <1>12, <1>14, <1>15,
     <1>16 DEF InstallStep

\* The steps of the other threads, and Install.
LEMMA OtherStepTypes ==
  ASSUME StoreInv,
         \/ \E t \in Installers, i \in Items : Install(t, i)
         \/ \E i \in Items : RemoveUpdateItem(i)
         \/ AddOutdatedItem \/ TimerTick \/ ProcessOutdatedItems \/ CleanItems
         \/ Stop \/ Restart \/ \E t \in Installers : ResizeNoSpace(t)
  PROVE  SATypeOK' /\ FilesOK' /\ ThreadsOK'
<1>0. SATypeOK /\ FilesOK /\ ThreadsOK /\ SMTypeOK /\ calls \in Nat /\ MaxCalls \in Nat
  BY StoreNow, TypeParts, BoundsArePositive DEF ThreadsOK
<1> DEFINE Rest == {"outdate", "stuck", "cleaning", "off"}
<1>1. CASE \E t \in Installers, i \in Items : Install(t, i)
  <2>1. PICK t \in Installers, i \in Items : Install(t, i)
    BY <1>1
  <2>2. SATypeOK' /\ FilesOK'
    BY <1>0, <2>1 DEF Install, SATypeOK, FilesOK, saVars
  <2>3. /\ pc' = [pc EXCEPT ![t] = "wait"] /\ job' = [job EXCEPT ![t] = i]
        /\ pos' = [pos EXCEPT ![t] = 1] /\ calls' = calls + 1 /\ calls < MaxCalls
        /\ UNCHANGED <<imMutex, mInProgressBlobs, mProcessOutdatedItems, mClose>>
    BY <2>1 DEF Install, Goto
  <2>4. t \in Threads /\ 1 \in 1 .. Len(Parts[i]) /\ "wait" \in InstallerSteps
    BY ThreadFacts, PartsAssumption DEF InstallerSteps
  <2>5. /\ pc' \in [Threads -> InstallerSteps \union Rest]
        /\ job' \in [Threads -> Items] /\ pos' \in [Installers -> Nat]
    BY <1>0, <2>3, <2>4 DEF ThreadsOK
  <2>6. \A u \in Installers : pc'[u] \in InstallerSteps
    BY <1>0, <2>3, <2>4, ThreadFacts DEF ThreadsOK
  <2>7. \A u \in Installers : pos'[u] \in 1 .. Len(Parts[job'[u]])
    BY <1>0, <2>3, <2>4, ThreadFacts DEF ThreadsOK
  <2>8. calls' \in 0 .. MaxCalls
    BY <1>0, <2>3
  <2>9. ThreadsOK'
    BY <1>0, <2>3, <2>5, <2>6, <2>7, <2>8 DEF ThreadsOK
  <2> QED
    BY <2>2, <2>9
\* The remover and the cleaner: their pc, the mutex and a job of their own.
<1>2. ASSUME NEW x \in {"remover", "cleaner"}, NEW l \in InstallerSteps \union Rest,
             Goto(x, l), imMutex' \in Threads \union {NoThread},
             job' \in [Threads -> Items], \A u \in Installers : job'[u] = job[u],
             mProcessOutdatedItems' \in BOOLEAN,
             calls' \in 0 .. MaxCalls, UNCHANGED <<mInProgressBlobs, mClose, pos>>
      PROVE  ThreadsOK'
  <2>1. pc' = [pc EXCEPT ![x] = l] /\ x \in Threads /\ x \notin Installers
    BY <1>2, ThreadFacts DEF Goto
  <2>2. pc' \in [Threads -> InstallerSteps \union Rest]
    BY <1>0, <1>2, <2>1 DEF ThreadsOK
  <2>3. \A u \in Installers : pc'[u] \in InstallerSteps
    BY <1>0, <2>1, ThreadFacts DEF ThreadsOK
  <2>4. \A u \in Installers : pos'[u] \in 1 .. Len(Parts[job'[u]])
    BY <1>0, <1>2 DEF ThreadsOK
  <2> QED
    BY <1>0, <1>2, <2>2, <2>3, <2>4 DEF ThreadsOK
<1>3. CASE \E i \in Items : RemoveUpdateItem(i)
  <2>1. PICK i \in Items : RemoveUpdateItem(i)
    BY <1>3
  <2>2. SATypeOK' /\ FilesOK'
    BY <1>0, <2>1 DEF RemoveUpdateItem, SATypeOK, FilesOK, saVars, files
  <2>3. /\ Goto("remover", "outdate") /\ imMutex' \in Threads \union {NoThread}
        /\ job' \in [Threads -> Items] /\ \A u \in Installers : job'[u] = job[u]
    BY <1>0, <2>1, ThreadFacts DEF RemoveUpdateItem, ThreadsOK
  <2>4. /\ mProcessOutdatedItems' \in BOOLEAN
        /\ UNCHANGED <<mInProgressBlobs, mClose, pos>>
    BY <1>0, <2>1 DEF RemoveUpdateItem, ThreadsOK
  <2>5. calls' \in 0 .. MaxCalls
    BY <1>0, <2>1 DEF RemoveUpdateItem
  <2>6. ThreadsOK'
    BY <1>2, <2>3, <2>4, <2>5
  <2> QED
    BY <2>2, <2>6
<1>4. CASE AddOutdatedItem
  <2>1. FilesOK'
    BY <1>0, <1>4 DEF AddOutdatedItem, FilesOK, files
  <2>2. SATypeOK'
    <3>1. job["remover"] \in Items
      BY <1>0, ThreadFacts DEF ThreadsOK
    <3>2. OutdatedWith(job["remover"], mOutdatedItems) \in Seq(Items)
      BY <1>0, <3>1, OutdatedTypes
    <3> QED
      BY <1>0, <1>4, <3>2, ThreadFacts DEF AddOutdatedItem, SATypeOK
  <2>3. PICK l \in {"stuck", "idle"} : Goto("remover", l)
    BY <1>4 DEF AddOutdatedItem
  <2>4. /\ imMutex' \in Threads \union {NoThread} /\ job' = job
        /\ mProcessOutdatedItems' \in BOOLEAN
        /\ calls' \in 0 .. MaxCalls /\ UNCHANGED <<mInProgressBlobs, mClose, pos>>
    BY <1>0, <1>4, ThreadFacts DEF AddOutdatedItem, ThreadsOK, control
  <2>5. l \in InstallerSteps \union Rest /\ job \in [Threads -> Items]
    BY <1>0 DEF InstallerSteps, ThreadsOK
  <2>6. ThreadsOK'
    BY <1>2, <2>3, <2>4, <2>5
  <2> QED
    BY <2>1, <2>2, <2>6
<1>5. CASE TimerTick \/ Stop
  <2>1. SATypeOK' /\ FilesOK'
    BY <1>0, <1>5 DEF TimerTick, Stop, SATypeOK, FilesOK, saVars, files
  <2>2. ThreadsOK'
    BY <1>0, <1>5 DEF TimerTick, Stop, ThreadsOK
  <2> QED
    BY <2>1, <2>2
<1>6. CASE ProcessOutdatedItems
  <2>1. SATypeOK' /\ FilesOK'
    BY <1>0, <1>6 DEF ProcessOutdatedItems, SATypeOK, FilesOK, saVars, files
  <2>2. PICK l \in {"cleaning", "off"} : Goto("cleaner", l)
    BY <1>6 DEF ProcessOutdatedItems
  <2>3. /\ imMutex' \in Threads \union {NoThread} /\ job' = job
        /\ mProcessOutdatedItems' \in BOOLEAN
        /\ calls' \in 0 .. MaxCalls /\ UNCHANGED <<mInProgressBlobs, mClose, pos>>
    BY <1>0, <1>6, ThreadFacts DEF ProcessOutdatedItems, ThreadsOK, control
  <2>4. l \in InstallerSteps \union Rest /\ job \in [Threads -> Items]
    BY <1>0 DEF InstallerSteps, ThreadsOK
  <2>5. ThreadsOK'
    BY <1>2, <2>2, <2>3, <2>4
  <2> QED
    BY <2>1, <2>5
<1>7. CASE CleanItems
  <2>1. PICK k \in 0 .. Len(store) : RestoreOutdatedItem(Expired(k))
    BY <1>7 DEF CleanItems
  <2>2. PICK st : RemoveOrphans(st)
    BY <1>7 DEF CleanItems
  <2>3. mOutdatedItems' \in Seq(Items)
    BY <1>0, <2>1, OutdatedTypes
  <2>4. SATypeOK'
    BY <1>0, <1>7, <2>3 DEF CleanItems, SATypeOK
  <2>5. FilesOK'
    BY <1>0, <2>2 DEF RemoveOrphans, FilesOK
  <2>6. /\ imMutex' \in Threads \union {NoThread} /\ job' = job
        /\ mProcessOutdatedItems' \in BOOLEAN /\ Goto("cleaner", "idle")
        /\ calls' \in 0 .. MaxCalls /\ UNCHANGED <<mInProgressBlobs, mClose, pos>>
    BY <1>0, <1>7, ThreadFacts DEF CleanItems, ThreadsOK, control
  <2>7. "idle" \in InstallerSteps \union Rest /\ job \in [Threads -> Items]
    BY <1>0 DEF InstallerSteps, ThreadsOK
  <2>8. ThreadsOK'
    BY <1>2, <2>5, <2>6, <2>7
  <2> QED
    BY <2>4, <2>5, <2>8
<1>8. CASE Restart \/ \E t \in Installers : ResizeNoSpace(t)
  <2>0. NewProcess
    BY <1>8 DEF Restart, ResizeNoSpace
  <2>1. FilesOK'
    <3>1. disturbed' \subseteq Installers
      BY <2>0 DEF NewProcess
    <3>2. CASE UNCHANGED <<blobs, layers>>
      BY <1>0, <3>1, <3>2 DEF FilesOK
    <3>3. CASE \E t \in Installers : Unpacked(t)
      BY <1>0, <3>1, <3>3, FileSets DEF Unpacked, FilesOK
    <3> QED
      BY <1>8, <3>2, <3>3 DEF Restart, ResizeNoSpace
  <2>2. /\ mOutdatedItems' \in Seq(Items)
        /\ partMutex' \in Threads \union {NoThread}
        /\ imMutex' \in Threads \union {NoThread}
    <3>1. CASE Len(Outdated) <= MaxOutdated
      BY <1>0, <2>0, <3>1, OutdatedTypes, ThreadFacts DEF NewProcess
    <3>2. CASE ~(Len(Outdated) <= MaxOutdated)
      <4>1. MaxOutdated \in Nat /\ Len(Outdated) \in Nat
        BY <1>0, OutdatedTypes, MaxOutdatedPositive
      <4>2. SubSeq(Outdated, 1, MaxOutdated) \in Seq(Items)
        BY <1>0, <3>2, <4>1, OutdatedTypes
      <4> QED
        BY <2>0, <3>2, <4>2, ThreadFacts DEF NewProcess
    <3> QED
      BY <3>1, <3>2
  <2>3. SATypeOK'
    BY <2>0, <2>2 DEF NewProcess, SATypeOK
  <2>4. pc' = [t \in Threads |-> "idle"]
        \/ pc' = [t \in Threads |-> IF t = "remover" THEN "stuck" ELSE "idle"]
    BY <2>0 DEF NewProcess
  <2>5. /\ pc' \in [Threads -> InstallerSteps \union Rest]
        /\ \A u \in Installers : pc'[u] \in InstallerSteps
    BY <2>4, ThreadFacts DEF InstallerSteps
  <2>6. calls' \in 0 .. MaxCalls
    <3>1. CASE Restart
      BY <1>0, <3>1 DEF Restart
    <3>2. CASE UNCHANGED calls
      BY <1>0, <3>2 DEF ThreadsOK
    <3> QED
      BY <1>8, <3>1, <3>2 DEF ResizeNoSpace
  <2>7. ThreadsOK'
    BY <1>0, <2>0, <2>2, <2>5, <2>6 DEF NewProcess, ThreadsOK
  <2> QED
    BY <2>1, <2>3, <2>7
<1> QED
  BY <1>1, <1>3, <1>4, <1>5, <1>6, <1>7, <1>8

\* They keep the storage and its holder.
LEMMA OtherStepStore ==
  ASSUME StoreInv,
         \/ \E t \in Installers, i \in Items : Install(t, i)
         \/ \E i \in Items : RemoveUpdateItem(i)
         \/ AddOutdatedItem \/ TimerTick \/ ProcessOutdatedItems \/ CleanItems
         \/ Stop \/ Restart \/ \E t \in Installers : ResizeNoSpace(t)
  PROVE  StoreOK' /\ HolderInv'
<1>0. /\ pc \in [Threads -> InstallerSteps \union {"outdate", "stuck", "cleaning", "off"}]
      /\ job \in [Threads -> Items]
  BY StoreNow DEF SMTypeOK
<1> USE DEF Storing
<1>1. ASSUME UNCHANGED store
      PROVE  /\ StoreOK' /\ StoredItems' = StoredItems
             /\ \A i : RoomFor(i)' <=> RoomFor(i)
  <2>1. StoreOK' /\ StoredItems' = StoredItems
    BY <1>1, StoreNow, BoundedFacts, StoreWritten
  <2> QED
    BY <1>1, <2>1 DEF RoomFor, Versions
<1>2. CASE \E t \in Installers, i \in Items : Install(t, i)
  <2>1. PICK t \in Installers, i \in Items : Install(t, i)
    BY <1>2
  <2>2. /\ pc' = [pc EXCEPT ![t] = "wait"] /\ job' = [job EXCEPT ![t] = i]
        /\ UNCHANGED <<store, imMutex>>
    BY <2>1 DEF Install, Goto
  <2>3. HolderInv'
    BY <1>0, <1>1, <2>2, StoreNow, ThreadFacts DEF HolderInv
  <2> QED
    BY <1>1, <2>2, <2>3
<1>3. CASE \E i \in Items : RemoveUpdateItem(i)
  <2>1. PICK i \in Items : RemoveUpdateItem(i)
    BY <1>3
  <2>2. /\ pc' = [pc EXCEPT !["remover"] = "outdate"] /\ job' = [job EXCEPT !["remover"] = i]
        /\ imMutex' = "remover" /\ UNCHANGED store /\ ImFree /\ i \in StoredItems
    BY <2>1 DEF RemoveUpdateItem, Goto
  <2>3. HolderInv'
    BY <1>0, <1>1, <2>2, NoHolder, StoreNow, ThreadFacts DEF HolderInv
  <2> QED
    BY <1>1, <2>2, <2>3
<1>4. CASE AddOutdatedItem
  <2>1. /\ pc["remover"] = "outdate" /\ imMutex = "remover" /\ job["remover"] \in StoredItems
        /\ pc["cleaner"] \in {"idle", "off"} /\ \A u \in Installers : pc[u] \notin Storing
    BY <1>4, StoreNow, ThreadFacts DEF AddOutdatedItem, HolderInv
  <2>2. CASE Goto("remover", "stuck") /\ UNCHANGED <<imMutex, store>>
    <3>1. HolderInv'
      BY <1>0, <1>1, <2>1, <2>2, ThreadFacts DEF HolderInv, Goto
    <3> QED
      BY <1>1, <2>2, <3>1
  <2>3. CASE /\ store' = Put(store, job["remover"], "removed") /\ imMutex' = NoThread
             /\ Goto("remover", "idle")
    <3>1. job["remover"] \in Items /\ "removed" \in {"installed", "removed"}
      BY <1>0, ThreadFacts
    <3>2. /\ Put(store, job["remover"], "removed") \in Seq(Records)
          /\ Unique(Put(store, job["remover"], "removed"))
          /\ Bounded(Put(store, job["remover"], "removed"))
      BY <2>1, <3>1, StoreNow, PutFacts, PutBounded
    <3>3. StoreOK'
      BY <2>3, <3>2, StoreWritten
    <3>4. HolderInv'
      BY <1>0, <2>1, <2>3, ThreadFacts DEF HolderInv, Goto
    <3> QED
      BY <3>3, <3>4
  <2> QED
    BY <1>4, <2>2, <2>3 DEF AddOutdatedItem
<1>5. CASE TimerTick \/ Stop
  <2>1. UNCHANGED <<store, imMutex, pc, job>>
    BY <1>5 DEF TimerTick, Stop
  <2> QED
    BY <1>1, <2>1, StoreNow DEF HolderInv
<1>6. CASE ProcessOutdatedItems
  <2>1. /\ pc["remover"] = "idle" /\ \A u \in Installers : pc[u] \notin Storing
        /\ UNCHANGED <<store, job>>
    BY <1>6, NoHolder DEF ProcessOutdatedItems
  <2>2. HolderInv'
    BY <1>0, <1>6, <2>1, ThreadFacts DEF ProcessOutdatedItems, HolderInv, Goto
  <2> QED
    BY <1>1, <2>1, <2>2
<1>7. CASE CleanItems
  <2>1. PICK gone : store' = Drop(store, gone)
    BY <1>7 DEF CleanItems
  <2>2. StoreOK'
    <3>1. /\ Drop(store, gone) \in Seq(Records) /\ Unique(Drop(store, gone))
          /\ Bounded(Drop(store, gone))
      BY StoreNow, DropFacts, DropBounded
    <3> QED
      BY <2>1, <3>1, StoreWritten
  <2>3. /\ pc["remover"] = "idle" /\ \A u \in Installers : pc[u] \notin Storing
        /\ pc' = [pc EXCEPT !["cleaner"] = "idle"]
    BY <1>7, StoreNow, ThreadFacts DEF CleanItems, HolderInv, Goto
  <2>4. HolderInv'
    BY <1>0, <2>3, ThreadFacts DEF HolderInv
  <2> QED
    BY <2>2, <2>4
<1>8. CASE Restart \/ \E t \in Installers : ResizeNoSpace(t)
  <2>0. NewProcess
    BY <1>8 DEF Restart, ResizeNoSpace
  <2>1. UNCHANGED store
    BY <2>0 DEF NewProcess
  <2>2. \/ pc' = [t \in Threads |-> "idle"]
        \/ /\ pc' = [t \in Threads |-> IF t = "remover" THEN "stuck" ELSE "idle"]
           /\ imMutex' = "remover"
    BY <2>0 DEF NewProcess
  <2>3. HolderInv'
    BY <2>2, ThreadFacts DEF HolderInv
  <2> QED
    BY <1>1, <2>1, <2>3
<1> QED
  BY <1>2, <1>3, <1>4, <1>5, <1>6, <1>7, <1>8

\* The storage is empty at first.
LEMMA InitStore == SMInit => StoreInv
<1> SUFFICES ASSUME SMInit PROVE StoreInv
  OBVIOUS
<1>1. SATypeOK
  BY DEF SMInit, SAInit, SATypeOK
<1>2. FilesOK
  BY DEF SMInit, FilesOK
<1>3. (CHOOSE i \in Items : TRUE) \in Items
  BY ItemsExist
<1>4. ThreadsOK
  <2>1. \A i \in Items : 1 \in 1 .. Len(Parts[i])
    BY PartsAssumption
  <2>2. /\ pc \in [Threads -> InstallerSteps \union {"outdate", "stuck", "cleaning", "off"}]
        /\ \A t \in Installers : pc[t] \in InstallerSteps
        /\ job \in [Threads -> Items] /\ pos \in [Installers -> Nat]
    BY <1>3, ThreadFacts DEF SMInit, InstallerSteps
  <2>3. \A t \in Installers : pos[t] \in 1 .. Len(Parts[job[t]])
    BY <1>3, <2>1, ThreadFacts DEF SMInit
  <2>4. calls \in 0 .. MaxCalls
    BY BoundsArePositive DEF SMInit
  <2> QED
    BY <2>2, <2>3, <2>4 DEF SMInit, ThreadsOK
<1>5. store = <<>> /\ store \in Seq(Records) /\ Len(store) = 0
  BY DEF SMInit
<1>6. Unique(store) /\ StoreBounded
  BY <1>5, BoundsArePositive DEF Unique, StoreBounded, StoredItems
<1>7. HolderInv
  BY ThreadFacts DEF SMInit, HolderInv, Storing
<1> QED
  BY <1>1, <1>2, <1>4, <1>5, <1>6, <1>7, TypeParts DEF StoreInv

\* Every step keeps the types, the bounds and the holder.
LEMMA StepStore == StoreInv /\ [SMNext]_smVars => StoreInv'
<1> SUFFICES ASSUME StoreInv, [SMNext]_smVars PROVE StoreInv'
  OBVIOUS
<1>1. ASSUME SATypeOK', FilesOK', ThreadsOK', StoreOK', HolderInv' PROVE StoreInv'
  BY <1>1, TypeParts DEF StoreInv, StoreOK, SMTypeOK, FilesOK, ThreadsOK, Records
<1>2. ASSUME NEW t \in Installers, InstallStep(t) PROVE StoreInv'
  BY <1>1, <1>2, StoreNow, TypeParts, ThreadFacts, InstallStepFiles, InstallStepSpace,
     InstallStepThreads, InstallStepStore
<1>3. CASE UNCHANGED smVars
  <2>1. SATypeOK' /\ FilesOK' /\ ThreadsOK'
    BY <1>3, StoreNow, TypeParts DEF smVars, saVars, imVars, SATypeOK, FilesOK, ThreadsOK
  <2>2. StoreOK' /\ StoredItems' = StoredItems
    BY <1>3, StoreNow, BoundedFacts, StoreWritten DEF smVars, imVars
  <2>3. HolderInv'
    BY <1>3, <2>2, StoreNow DEF smVars, imVars, HolderInv, RoomFor, Versions
  <2> QED
    BY <1>1, <2>1, <2>2, <2>3
<1>4. CASE \/ \E t \in Installers, i \in Items : Install(t, i)
           \/ \E i \in Items : RemoveUpdateItem(i)
           \/ AddOutdatedItem \/ TimerTick \/ ProcessOutdatedItems \/ CleanItems
           \/ Stop \/ Restart \/ \E t \in Installers : ResizeNoSpace(t)
  BY <1>1, <1>4, OtherStepTypes, OtherStepStore
<1> QED
  BY <1>2, <1>3, <1>4 DEF SMNext

\* StoreInv is an invariant.
LEMMA StoreInvariance == SMSpec => []StoreInv
  BY InitStore, StepStore, PTL DEF SMSpec

\* Every reachable state is well typed, whatever the items and threads: an installing
\* thread stands at a part that its item has (InstallUpdateItem and its retries), and
\* the lists of outdated items hold items, after a restart too.
THEOREM SMTypeCorrect == SMSpec => []SMTypeOK
<1>1. StoreInv => SMTypeOK
  BY DEF StoreInv
<1> QED
  BY <1>1, StoreInvariance, PTL

\* The storage never holds more than MaxStored items nor more than MaxVersions versions
\* of one (StoreUpdateItem with RemoveOldItemVersions and CropUpdateItems), because what
\* StoreUpdateItem decides under mMutex still holds when AddUpdateItem writes, and
\* every stored item has one record.
THEOREM StoreSafe == SMSpec => []StoreBounded
<1>1. StoreInv => StoreBounded
  BY DEF StoreInv
<1> QED
  BY <1>1, StoreInvariance, PTL

-----------------------------------------------------------------------------
(* The layers of an item that becomes installed.                           *)

\* Steps at which the part a thread is at is installed.
Ready == {"layerDone", "next"} \union {"store"} \union Storing

\* Layer d is one that thread t has installed in the present call.
LayerIn(t, d) ==
    /\ pc[t] # "idle"
    /\ d \in Layers
    /\ \E k \in 1 .. pos[t] :
          /\ Parts[job[t]][k] = d
          /\ k = pos[t] => pc[t] \in Ready

\* A layer a thread has installed stays valid unless it is disturbed, and nobody is
\* past the check of InstallLayer with it.
IntactInv ==
    \A t \in Installers \ disturbed : \A d \in Layers :
        LayerIn(t, d) =>
            /\ PartValid(d, blobs, layers)
            /\ \A u \in Installers :
                   InLayer(u) /\ Digest(u) = d => pc[u] \in {"layer", "layerDone"}

\* The layer that is about to be linked is unpacked.
UnpackedInv ==
    \A t \in Installers \ disturbed :
        InLayer(t) /\ pc[t] \in {"link", "lalloc", "linked"} => layers[DirOf(t)] = "full"

\* An item is stored after its last part.
LastInv ==
    \A t \in Installers : pc[t] \in {"store"} \union Storing => pos[t] = Len(Parts[job[t]])

LayerInv == IntactInv /\ UnpackedInv /\ LastInv

\* A step of thread t that leaves the files alone, or is past the check and changes
\* only those of the part it is at; whom it takes a directory away from is disturbed.
OwnFiles(t) ==
    \/ UNCHANGED files
    \/ /\ pc[t] \notin Outside \union {"layer", "layerDone"}
       /\ \A d \in Digests \ {Digest(t)} : blobs'[d] = blobs[d]
       /\ \A p \in LayerDirs :
             \/ layers[p] = "full" => layers'[p] = "full"
             \/ p = DirOf(t) /\ Sharing(t) \subseteq disturbed'
       /\ disturbed \subseteq disturbed'

\* What a thread has installed is a part of its item.
LEMMA LayerInDigests ==
  ASSUME SMTypeOK, NEW t \in Installers, NEW d, LayerIn(t, d)
  PROVE  d \in Digests /\ d \in Layers
<1>1. /\ job[t] \in Items /\ pos[t] \in 1 .. Len(Parts[job[t]])
      /\ Len(Parts[job[t]]) \in Nat
  BY ThreadFacts, PartsAssumption DEF SMTypeOK
<1>2. PICK k \in 1 .. pos[t] : Parts[job[t]][k] = d
  BY DEF LayerIn
<1>3. k \in 1 .. Len(Parts[job[t]])
  BY <1>1
<1> QED
  BY <1>1, <1>2, <1>3 DEF LayerIn, Digests

\* A thread has come to what it has installed, and to the layer it is at.
LEMMA ReachedFacts ==
  ASSUME SMTypeOK, NEW t \in Installers
  PROVE  /\ \A d : LayerIn(t, d) => d \in Reached(t)
         /\ InLayer(t) => Digest(t) \in Reached(t)
<1>1. /\ pos[t] \in 1 .. Len(Parts[job[t]]) /\ Len(Parts[job[t]]) \in Nat
      /\ pos[t] \in Nat /\ pos[t] \in 1 .. pos[t]
  BY ThreadFacts, PartsAssumption DEF SMTypeOK
<1>2. ASSUME NEW d, LayerIn(t, d) PROVE d \in Reached(t)
  <2>1. PICK k \in 1 .. pos[t] :
            Parts[job[t]][k] = d /\ (k = pos[t] => pc[t] \in Ready)
    BY <1>2 DEF LayerIn
  <2>2. CASE pc[t] = "wait"
    <3>1. k \in 1 .. (pos[t] - 1)
      BY <1>1, <2>1, <2>2 DEF Ready, Storing
    <3> QED
      BY <1>2, <2>1, <2>2, <3>1 DEF Reached, LayerIn
  <2>3. CASE pc[t] # "wait"
    BY <1>2, <2>1, <2>3 DEF Reached, LayerIn
  <2> QED
    BY <2>2, <2>3
<1>3. ASSUME InLayer(t) PROVE Digest(t) \in Reached(t)
  BY <1>1, <1>3 DEF InLayer, Outside, Reached, Digest
<1> QED
  BY <1>2, <1>3

\* A step of the installation of one part.
LEMMA WorkStep ==
  ASSUME SMTypeOK, MarkInv, LayerInv, NEW t \in Installers, NEW l, Goto(t, l),
         UNCHANGED <<job, pos>>, OwnFiles(t), pc[t] # "idle",
         l \in Ready /\ Digest(t) \in Layers /\ t \notin disturbed' =>
             pc[t] \in Ready \/ (InLayer(t) /\ PartValid(Digest(t), blobs', layers')),
         l \notin Outside /\ Digest(t) \in Layers =>
             \/ l \in {"layer", "layerDone"}
             \/ InLayer(t) /\ pc[t] \notin {"layer", "layerDone"}
             \/ ~PartValid(Digest(t), blobs, layers),
         l \in {"link", "lalloc", "linked"} /\ Digest(t) \in Layers /\ t \notin disturbed' =>
             layers'[DirOf(t)] = "full",
         l \in {"store"} \union Storing => pos[t] = Len(Parts[job[t]])
  PROVE  LayerInv'
<1>1. /\ pc'[t] = l /\ \A u \in Installers : u # t => pc'[u] = pc[u]
      /\ \A u \in Installers : Digest(u)' = Digest(u) /\ DirOf(u)' = DirOf(u)
      /\ pos[t] \in 1 .. Len(Parts[job[t]]) /\ Len(Parts[job[t]]) \in Nat
      /\ disturbed \subseteq disturbed'
  BY ThreadFacts, PartsAssumption DEF SMTypeOK, Goto, Digest, DirOf, OwnFiles, files
<1>2. /\ InLayer(t)' <=> l \notin Outside /\ Digest(t) \in Layers
      /\ \A u \in Installers : u # t => (InLayer(u)' <=> InLayer(u))
  BY <1>1 DEF InLayer, Outside
<1>3. \A u \in Installers : u # t => \A d : (LayerIn(u, d)' <=> LayerIn(u, d))
  BY <1>1 DEF LayerIn
<1>4. ASSUME NEW d, LayerIn(t, d)'
      PROVE  LayerIn(t, d) \/ (d = Digest(t) /\ l \in Ready /\ pc[t] \notin Ready /\ d \in Layers)
  BY <1>1, <1>4 DEF LayerIn, Digest
\* A directory that is taken away disturbs who has come to another blob of it.
<1>5. ASSUME NEW u \in Installers \ disturbed', NEW d \in Reached(u), d # Digest(t),
             layers[DiffID[d]] = "full", d \in Layers
      PROVE  layers'[DiffID[d]] = "full"
  <2>1. DiffID[d] \in LayerDirs
    BY <1>5 DEF LayerDirs
  <2>2. CASE DiffID[d] = DirOf(t) /\ Sharing(t) \subseteq disturbed'
    BY <1>5, <2>2 DEF Sharing
  <2> QED
    BY <1>5, <2>1, <2>2 DEF OwnFiles, files
<1>6. ASSUME NEW u \in Installers \ disturbed', NEW d \in Layers, LayerIn(u, d)
      PROVE  /\ PartValid(d, blobs', layers')
             /\ PartValid(d, blobs, layers)
             /\ InLayer(t) /\ Digest(t) = d => pc[t] \in {"layer", "layerDone"}
  <2>1. /\ PartValid(d, blobs, layers) /\ d \in Digests /\ d \in Reached(u)
        /\ \A w \in Installers :
               InLayer(w) /\ Digest(w) = d => pc[w] \in {"layer", "layerDone"}
    BY <1>1, <1>6, LayerInDigests, ReachedFacts DEF LayerInv, IntactInv
  <2>2. CASE UNCHANGED files
    BY <2>1, <2>2 DEF files
  <2>3. CASE ~UNCHANGED files
    <3>1. pc[t] \notin Outside \union {"layer", "layerDone"} /\ d # Digest(t)
      BY <2>1, <2>3 DEF InLayer, Outside, OwnFiles
    <3>2. blobs'[d] = blobs[d]
      BY <2>1, <2>3, <3>1 DEF OwnFiles
    <3> QED
      BY <1>5, <2>1, <3>1, <3>2 DEF PartValid
  <2> QED
    BY <2>1, <2>2, <2>3
<1>7. IntactInv'
  <2> SUFFICES ASSUME NEW u \in Installers \ disturbed', NEW d \in Layers, LayerIn(u, d)'
               PROVE  /\ PartValid(d, blobs', layers')
                      /\ \A w \in Installers :
                             InLayer(w)' /\ Digest(w) = d => pc'[w] \in {"layer", "layerDone"}
    BY <1>1 DEF IntactInv
  <2>1. CASE LayerIn(u, d)
    <3>1. /\ PartValid(d, blobs', layers') /\ PartValid(d, blobs, layers)
          /\ InLayer(t) /\ Digest(t) = d => pc[t] \in {"layer", "layerDone"}
      BY <1>6, <2>1
    <3>2. ASSUME NEW w \in Installers, w # t, InLayer(w)', Digest(w) = d
          PROVE  pc'[w] \in {"layer", "layerDone"}
      BY <1>1, <1>2, <2>1, <3>2 DEF LayerInv, IntactInv
    <3>3. ASSUME InLayer(t)', Digest(t) = d PROVE l \in {"layer", "layerDone"}
      BY <1>2, <3>1, <3>3
    <3> QED
      BY <1>1, <3>1, <3>2, <3>3
  <2>2. CASE ~LayerIn(u, d)
    <3>1. u = t /\ d = Digest(t) /\ l \in Ready /\ pc[t] \notin Ready
      BY <1>3, <1>4, <2>2
    <3>2. InLayer(t) /\ PartValid(d, blobs', layers')
      BY <3>1
    <3>3. ASSUME NEW w \in Installers, w # t, InLayer(w)', Digest(w) = d
          PROVE  FALSE
      BY <1>2, <3>1, <3>2, <3>3 DEF MarkInv, LayerInstallExclusive
    <3>4. InLayer(t)' => l = "layerDone"
      BY <1>2, <3>1 DEF Ready, Storing, Outside
    <3> QED
      BY <1>1, <3>2, <3>3, <3>4
  <2> QED
    BY <2>1, <2>2
<1>8. UnpackedInv'
  <2> SUFFICES ASSUME NEW u \in Installers \ disturbed', InLayer(u)',
                      pc'[u] \in {"link", "lalloc", "linked"}
               PROVE  layers'[DirOf(u)] = "full"
    BY <1>1 DEF UnpackedInv
  <2>1. CASE u = t
    BY <1>1, <1>2, <2>1
  <2>2. CASE u # t
    <3>1. /\ InLayer(u) /\ layers[DirOf(u)] = "full" /\ Digest(u) \in Layers
          /\ Digest(u) \in Reached(u)
      BY <1>1, <1>2, <2>2, ReachedFacts DEF LayerInv, UnpackedInv, InLayer, Outside
    <3>2. CASE UNCHANGED files
      BY <3>1, <3>2 DEF files
    <3>3. CASE ~UNCHANGED files
      <4>1. Digest(u) # Digest(t)
        BY <2>2, <3>1, <3>3 DEF InLayer, Outside, OwnFiles, MarkInv, LayerInstallExclusive
      <4> QED
        BY <1>5, <3>1, <4>1 DEF DirOf
    <3> QED
      BY <3>2, <3>3
  <2> QED
    BY <2>1, <2>2
<1>9. LastInv'
  BY <1>1 DEF LayerInv, LastInv
<1> QED
  BY <1>7, <1>8, <1>9 DEF LayerInv

\* A step that moves no installer and leaves the files alone.
LEMMA QuietStep ==
  ASSUME LayerInv, UNCHANGED <<files, pos>>,
         \A u \in Installers : pc'[u] = pc[u] /\ job'[u] = job[u]
  PROVE  LayerInv'
<1>1. \A u \in Installers : /\ Digest(u)' = Digest(u) /\ DirOf(u)' = DirOf(u)
                            /\ InLayer(u)' <=> InLayer(u)
                            /\ \A d : LayerIn(u, d)' <=> LayerIn(u, d)
  BY DEF Digest, DirOf, InLayer, Outside, LayerIn
<1>2. IntactInv'
  BY <1>1 DEF LayerInv, IntactInv, files
<1>3. UnpackedInv'
  BY <1>1 DEF LayerInv, UnpackedInv, files
<1>4. LastInv'
  BY DEF LayerInv, LastInv
<1> QED
  BY <1>2, <1>3, <1>4 DEF LayerInv

\* A sweep leaves the layers that are used, and disturbs who has come to another one.
LEMMA SweepStep ==
  ASSUME SMTypeOK, LayerInv, NEW st, RemoveOrphans(st), UNCHANGED <<job, pos>>,
         \A u \in Installers : pc'[u] = pc[u] \/ (pc[u] = "orphans" /\ pc'[u] = "freeing")
  PROVE  LayerInv'
<1>1. \A u \in Installers : /\ Digest(u)' = Digest(u) /\ DirOf(u)' = DirOf(u)
                            /\ InLayer(u)' <=> InLayer(u)
                            /\ \A d : LayerIn(u, d)' <=> LayerIn(u, d)
  BY DEF Digest, DirOf, InLayer, Outside, LayerIn, Ready, Storing
<1>2. ASSUME NEW u \in Installers \ disturbed', NEW d \in Reached(u) \intersect Layers
      PROVE  /\ u \notin disturbed
             /\ d \in Digests => blobs'[d] = blobs[d]
             /\ layers'[DiffID[d]] = layers[DiffID[d]]
  <2>1. u \notin disturbed /\ d \in Used(st)
    BY <1>2 DEF RemoveOrphans
  <2>2. d \in Digests => blobs'[d] = blobs[d]
    BY <2>1 DEF RemoveOrphans
  <2>3. DiffID[d] \in LayerDirs /\ \E e \in Used(st) \intersect Layers : DiffID[e] = DiffID[d]
    BY <1>2, <2>1 DEF LayerDirs
  <2> QED
    BY <2>1, <2>2, <2>3 DEF RemoveOrphans
<1>3. IntactInv'
  <2> SUFFICES ASSUME NEW u \in Installers \ disturbed', NEW d \in Layers, LayerIn(u, d)'
               PROVE  /\ PartValid(d, blobs', layers')
                      /\ \A w \in Installers :
                             InLayer(w)' /\ Digest(w)' = d => pc'[w] \in {"layer", "layerDone"}
    BY DEF IntactInv
  <2>1. LayerIn(u, d) /\ d \in Digests /\ d \in Reached(u)
    BY <1>1, LayerInDigests, ReachedFacts
  <2>2. /\ u \notin disturbed /\ blobs'[d] = blobs[d]
        /\ layers'[DiffID[d]] = layers[DiffID[d]]
    BY <1>2, <2>1
  <2>3. /\ PartValid(d, blobs, layers)
        /\ \A w \in Installers :
               InLayer(w) /\ Digest(w) = d => pc[w] \in {"layer", "layerDone"}
    BY <2>1, <2>2 DEF LayerInv, IntactInv
  <2>4. PartValid(d, blobs', layers')
    BY <2>2, <2>3 DEF PartValid
  <2>5. ASSUME NEW w \in Installers, InLayer(w)', Digest(w)' = d
        PROVE  pc'[w] \in {"layer", "layerDone"}
    BY <1>1, <2>3, <2>5
  <2> QED
    BY <2>4, <2>5
<1>4. UnpackedInv'
  <2> SUFFICES ASSUME NEW u \in Installers \ disturbed', InLayer(u)',
                      pc'[u] \in {"link", "lalloc", "linked"}
               PROVE  layers'[DirOf(u)] = "full"
    BY <1>1 DEF UnpackedInv
  <2>1. InLayer(u) /\ Digest(u) \in Reached(u) \intersect Layers /\ pc'[u] = pc[u]
    BY <1>1, ReachedFacts DEF InLayer, Outside
  <2>2. u \notin disturbed /\ layers'[DirOf(u)] = layers[DirOf(u)]
    BY <1>2, <2>1 DEF DirOf
  <2> QED
    BY <2>1, <2>2 DEF LayerInv, UnpackedInv
<1>5. LastInv'
  BY DEF LayerInv, LastInv, Storing
<1> QED
  BY <1>3, <1>4, <1>5 DEF LayerInv

\* A thread that begins a call or a part, with what it installed before in the call.
LEMMA BeginStep ==
  ASSUME SMTypeOK, LayerInv, NEW t \in Installers, Goto(t, "wait"), UNCHANGED <<blobs, layers>>,
         \A u \in Installers \ {t} : job'[u] = job[u] /\ pos'[u] = pos[u],
         \A u \in Installers \ {t} : u \in disturbed' <=> u \in disturbed,
         \/ pos'[t] = 1
         \/ /\ pos'[t] = pos[t] + 1 /\ job'[t] = job[t] /\ pc[t] = "next"
            /\ disturbed' = disturbed
  PROVE  LayerInv'
<1>1. /\ pc'[t] = "wait" /\ \A u \in Installers : u # t => pc'[u] = pc[u]
      /\ pos[t] \in Nat
  BY ThreadFacts DEF SMTypeOK, Goto
<1>2. \A u \in Installers : u # t => /\ Digest(u)' = Digest(u) /\ DirOf(u)' = DirOf(u)
                                     /\ (InLayer(u)' <=> InLayer(u))
                                     /\ \A d : LayerIn(u, d)' <=> LayerIn(u, d)
  BY <1>1 DEF Digest, DirOf, InLayer, Outside, LayerIn
<1>3. ~InLayer(t)'
  BY <1>1 DEF InLayer, Outside
<1>4. ASSUME NEW d, LayerIn(t, d)' PROVE LayerIn(t, d) /\ disturbed' = disturbed
  <2>1. PICK k \in 1 .. pos'[t] : Parts[job'[t]][k] = d /\ k # pos'[t] /\ d \in Layers
    BY <1>1, <1>4 DEF LayerIn, Ready, Storing
  <2>2. pos'[t] = pos[t] + 1 /\ job'[t] = job[t] /\ pc[t] = "next" /\ disturbed' = disturbed
    BY <2>1
  <2>3. k \in 1 .. pos[t]
    BY <1>1, <2>1, <2>2
  <2> QED
    BY <2>1, <2>2, <2>3 DEF LayerIn, Ready, Storing
<1>5. IntactInv'
  <2> SUFFICES ASSUME NEW u \in Installers \ disturbed', NEW d \in Layers, LayerIn(u, d)'
               PROVE  /\ PartValid(d, blobs', layers')
                      /\ \A w \in Installers :
                             InLayer(w)' /\ Digest(w)' = d => pc'[w] \in {"layer", "layerDone"}
    BY DEF IntactInv
  <2>1. LayerIn(u, d) /\ u \notin disturbed
    BY <1>2, <1>4
  <2>2. /\ PartValid(d, blobs, layers)
        /\ \A w \in Installers :
               InLayer(w) /\ Digest(w) = d => pc[w] \in {"layer", "layerDone"}
    BY <2>1 DEF LayerInv, IntactInv
  <2>3. PartValid(d, blobs', layers')
    BY <2>2
  <2> QED
    BY <1>1, <1>2, <1>3, <2>2, <2>3
<1>6. UnpackedInv'
  BY <1>1, <1>2, <1>3 DEF LayerInv, UnpackedInv
<1>7. LastInv'
  BY <1>1 DEF LayerInv, LastInv, Storing
<1> QED
  BY <1>5, <1>6, <1>7 DEF LayerInv

\* The steps of an installation keep the layers.
LEMMA InstallStepLayers ==
  ASSUME StoreInv, MarkInv, LayerInv, NEW t \in Installers, InstallStep(t)
  PROVE  LayerInv'
<1>0. /\ SMTypeOK /\ t \in Threads /\ Digest(t) \in Digests
      /\ DOMAIN blobs = Digests /\ DOMAIN layers = LayerDirs
      /\ pos[t] \in 1 .. Len(Parts[job[t]]) /\ Len(Parts[job[t]]) \in Nat
  BY StoreNow, ThreadFacts, DigestFacts, PartsAssumption DEF SMTypeOK
<1> USE DEF Ready, Storing, Outside
<1>1. ASSUME OnError(t), pc[t] \notin Outside \union {"layer", "layerDone"}
      PROVE  OwnFiles(t)
  <2>1. CASE RemoveLayer(t) /\ UNCHANGED blobs
    BY <1>0, <1>1, <2>1 DEF RemoveLayer, OwnFiles
  <2>2. CASE UNCHANGED <<layers, disturbed>> /\ blobs' = [blobs EXCEPT ![Digest(t)] = "none"]
    BY <1>0, <1>1, <2>2 DEF OwnFiles
  <2> QED
    BY <1>1, <2>1, <2>2 DEF OnError
<1>2. CASE WaitForInProgressBlob(t)
  BY <1>0, <1>2, WorkStep DEF WaitForInProgressBlob, OwnFiles
<1>3. CASE ReleaseInProgressBlob(t, "unmark", "check")
  <2>1. Digest(t) \notin Layers
    BY <1>3 DEF ReleaseInProgressBlob, MarkInv
  <2> QED
    BY <1>0, <1>3, <2>1, WorkStep DEF ReleaseInProgressBlob, OwnFiles
<1>4. CASE \/ ReleaseInProgressBlob(t, "layerDone", "next")
           \/ ReleaseInProgressBlob(t, "layerFailed", "idle")
  BY <1>0, <1>4, WorkStep DEF ReleaseInProgressBlob, OwnFiles
<1>5. CASE CheckLayer(t)
  <2>1. /\ pc[t] = "layer" /\ UNCHANGED <<job, pos>> /\ OwnFiles(t)
        /\ PartValid(Digest(t), blobs, layers) => PartValid(Digest(t), blobs', layers')
        /\ Digest(t) \in Layers => InLayer(t)
    BY <1>5 DEF CheckLayer, OwnFiles, files, InLayer, Outside
  <2>2. CASE PartValid(Digest(t), blobs, layers) /\ Goto(t, "layerDone")
    BY <1>0, <2>1, <2>2, WorkStep
  <2>3. CASE ~PartValid(Digest(t), blobs, layers) /\ Goto(t, "check")
    BY <1>0, <2>1, <2>3, WorkStep
  <2> QED
    BY <1>5, <2>2, <2>3 DEF CheckLayer
\* Thread t stays past the check, or leaves.
<1>6. ASSUME NEW l, Goto(t, l), pc[t] \notin Outside \union {"layer", "layerDone"},
             UNCHANGED <<job, pos>>, OwnFiles(t),
             l \in {"next", "store"} \union Storing =>
                 Digest(t) \notin Layers /\ l = "next",
             l = "layerDone" /\ InLayer(t) /\ t \notin disturbed' =>
                 PartValid(Digest(t), blobs', layers'),
             l \in {"link", "lalloc", "linked"} /\ InLayer(t) /\ t \notin disturbed' =>
                 layers'[DirOf(t)] = "full"
      PROVE  LayerInv'
  <2>1. Digest(t) \in Layers => InLayer(t)
    BY <1>6 DEF InLayer, Outside
  <2> QED
    BY <1>0, <1>6, <2>1, WorkStep
<1>7. CASE CheckBlob(t)
  <2>1. OwnFiles(t) /\ UNCHANGED <<job, pos>> /\ pc[t] = "check"
    BY <1>0, <1>7 DEF CheckBlob, OwnFiles, files
  <2>2. PICK l \in {"clear", "next", "release", "alloc", "download"} :
            Goto(t, l) /\ (l = "next" => Digest(t) \notin Layers)
    BY <1>7 DEF CheckBlob
  <2> QED
    BY <1>6, <2>1, <2>2
<1>8. ASSUME Allocating(t)
      PROVE  /\ pc[t] \notin Outside \union {"layer", "layerDone"}
             /\ AfterAlloc[pc[t]] \in {"download", "unpack", "packed", "linked"}
             /\ AfterAlloc[pc[t]] = "linked" => pc[t] = "lalloc"
  BY <1>8 DEF Allocating, AfterAlloc
<1>9. ASSUME Allocating(t), UNCHANGED <<job, pos>>,
             \/ Goto(t, AfterAlloc[pc[t]]) /\ UNCHANGED files
             \/ Goto(t, "release") /\ OnError(t)
      PROVE  LayerInv'
  <2>1. CASE Goto(t, AfterAlloc[pc[t]]) /\ UNCHANGED files
    <3>1. OwnFiles(t) /\ layers' = layers /\ disturbed' = disturbed
      BY <2>1 DEF OwnFiles, files
    <3>2. AfterAlloc[pc[t]] = "linked" /\ InLayer(t) /\ t \notin disturbed' =>
              layers'[DirOf(t)] = "full"
      BY <1>8, <1>9, <3>1 DEF LayerInv, UnpackedInv
    <3> QED
      BY <1>6, <1>8, <1>9, <2>1, <3>1, <3>2
  <2>2. CASE Goto(t, "release") /\ OnError(t)
    BY <1>1, <1>6, <1>8, <1>9, <2>2
  <2> QED
    BY <1>9, <2>1, <2>2
<1>10. CASE AllocateSpace(t)
  <2>1. CASE UNCHANGED <<pc, files>>
    BY <1>10, <2>1, QuietStep DEF AllocateSpace
  <2>2. CASE \/ Goto(t, AfterAlloc[pc[t]]) /\ UNCHANGED files
             \/ Goto(t, "release") /\ OnError(t)
    BY <1>9, <1>10, <2>2 DEF AllocateSpace
  <2> QED
    BY <1>10, <2>1, <2>2 DEF AllocateSpace
<1>11. CASE RemoveItem(t)
  BY <1>0, <1>11, SweepStep DEF RemoveItem
<1>12. CASE RemoveItemFails(t)
  BY <1>9, <1>12 DEF RemoveItemFails
<1>13. CASE FinishReclaim(t)
  BY <1>9, <1>13 DEF FinishReclaim
<1>14. CASE Download(t)
  <2>1. OwnFiles(t)
    BY <1>0, <1>14 DEF Download, OwnFiles
  <2> QED
    BY <1>6, <1>14, <2>1 DEF Download
<1>15. CASE Fetched(t)
  <2>1. pc[t] = "fetch" /\ UNCHANGED <<job, pos>>
    BY <1>15 DEF Fetched
  <2>2. CASE UNCHANGED <<layers, disturbed>> /\ Goto(t, "validate")
             /\ (blobs' = blobs \/ \E s : blobs' = [blobs EXCEPT ![Digest(t)] = s])
    <3>1. OwnFiles(t)
      BY <1>0, <2>1, <2>2 DEF OwnFiles
    <3> QED
      BY <1>6, <2>1, <2>2, <3>1
  <2>3. CASE OnError(t) /\ Goto(t, "release")
    BY <1>1, <1>6, <2>1, <2>3
  <2> QED
    BY <1>15, <2>2, <2>3 DEF Fetched
<1>16. CASE ValidateBlob(t)
  <2>1. OwnFiles(t)
    BY <1>16 DEF ValidateBlob, OwnFiles
  <2>2. PICK l \in {"clear", "next", "release"} :
            Goto(t, l) /\ (l = "next" => Digest(t) \notin Layers)
    BY <1>16 DEF ValidateBlob
  <2> QED
    BY <1>6, <1>16, <2>1, <2>2 DEF ValidateBlob
<1>17. CASE ClearLayer(t)
  <2>1. OwnFiles(t)
    BY <1>0, <1>17 DEF ClearLayer, RemoveLayer, OwnFiles
  <2>2. PICK l \in {"ualloc", "unsized"} : Goto(t, l)
    BY <1>17 DEF ClearLayer
  <2> QED
    BY <1>6, <1>17, <2>1, <2>2 DEF ClearLayer
<1>18. CASE UnpackLayer(t)
  <2>1. OwnFiles(t)
    <3>1. CASE Unpacked(t) /\ UNCHANGED disturbed
      BY <1>0, <1>18, <3>1 DEF UnpackLayer, Unpacked, OwnFiles
    <3> QED
      BY <1>1, <1>18, <3>1 DEF UnpackLayer
  <2>2. PICK l \in {"meta", "release"} : Goto(t, l)
    BY <1>18 DEF UnpackLayer
  <2> QED
    BY <1>6, <1>18, <2>1, <2>2 DEF UnpackLayer
<1>19. CASE Resize(t)
  <2>1. OwnFiles(t) /\ layers' = layers /\ disturbed' = disturbed
    BY <1>19 DEF Resize, OwnFiles, files
  <2>2. PICK l \in {"malloc", "lalloc"} : Goto(t, l) /\ (l = "lalloc" => pc[t] = "link")
    BY <1>19 DEF Resize
  <2>3. l = "lalloc" /\ InLayer(t) /\ t \notin disturbed' => layers'[DirOf(t)] = "full"
    BY <2>1, <2>2 DEF LayerInv, UnpackedInv
  <2> QED
    BY <1>6, <1>19, <2>1, <2>2, <2>3 DEF Resize
<1>20. CASE CreateLayerMetadata(t)
  <2>1. OwnFiles(t)
    <3>1. CASE /\ layers' = [layers EXCEPT ![DirOf(t)] = "full"] /\ UNCHANGED disturbed
               /\ blobs' = [blobs EXCEPT ![Digest(t)] = "none"]
      BY <1>0, <1>20, <3>1 DEF CreateLayerMetadata, OwnFiles
    <3> QED
      BY <1>1, <1>20, <3>1 DEF CreateLayerMetadata
  <2>2. PICK l \in {"link", "release"} :
            Goto(t, l) /\ (l = "link" => layers' = [layers EXCEPT ![DirOf(t)] = "full"])
    BY <1>20 DEF CreateLayerMetadata
  <2>3. l = "link" /\ InLayer(t) => layers'[DirOf(t)] = "full"
    BY <1>0, <2>2 DEF InLayer, Outside, DirOf, LayerDirs
  <2> QED
    BY <1>6, <1>20, <2>1, <2>2, <2>3 DEF CreateLayerMetadata
<1>21. CASE LinkLayer(t)
  <2>1. pc[t] = "linked" /\ UNCHANGED <<job, pos>>
    BY <1>21 DEF LinkLayer
  <2>2. CASE /\ UNCHANGED <<layers, disturbed>> /\ Goto(t, "layerDone")
             /\ blobs' = [blobs EXCEPT ![Digest(t)] = "link"]
    <3>1. OwnFiles(t) /\ blobs'[Digest(t)] = "link"
      BY <1>0, <2>1, <2>2 DEF OwnFiles
    <3>2. InLayer(t) /\ t \notin disturbed' => PartValid(Digest(t), blobs', layers')
      BY <2>1, <2>2, <3>1 DEF LayerInv, UnpackedInv, InLayer, Outside, PartValid, DirOf
    <3> QED
      BY <1>6, <2>1, <2>2, <3>1, <3>2
  <2>3. CASE /\ RemoveLayer(t) /\ Goto(t, "release")
             /\ \E v : blobs' = [blobs EXCEPT ![Digest(t)] = v]
    <3>1. OwnFiles(t)
      BY <1>0, <2>1, <2>3 DEF RemoveLayer, OwnFiles
    <3> QED
      BY <1>6, <2>1, <2>3, <3>1
  <2> QED
    BY <1>21, <2>2, <2>3 DEF LinkLayer
<1>22. CASE ReleaseSpace(t)
  <2>1. OwnFiles(t)
    BY <1>22 DEF ReleaseSpace, OwnFiles
  <2>2. PICK l \in {"layerFailed", "idle"} : Goto(t, l)
    BY <1>22 DEF ReleaseSpace
  <2> QED
    BY <1>6, <1>22, <2>1, <2>2 DEF ReleaseSpace
<1>23. CASE NextPart(t)
  <2>1. pc[t] = "next" /\ UNCHANGED <<job, files>> /\ OwnFiles(t)
    BY <1>23 DEF NextPart, OwnFiles
  <2>2. CASE Goto(t, "idle") /\ UNCHANGED pos
    BY <1>0, <2>1, <2>2, WorkStep
  <2>3. CASE pos' = [pos EXCEPT ![t] = @ + 1] /\ Goto(t, "wait")
    <3>1. pos'[t] = pos[t] + 1 /\ \A u \in Installers \ {t} : pos'[u] = pos[u]
      BY <1>0, <2>3 DEF SMTypeOK
    <3> QED
      BY <1>0, <2>1, <2>3, <3>1, BeginStep DEF files
  <2>4. CASE Goto(t, "store") /\ UNCHANGED pos /\ ~(pos[t] < Len(Parts[job[t]]))
    <3>1. pos[t] = Len(Parts[job[t]])
      BY <1>0, <2>4
    <3> QED
      BY <1>0, <2>1, <2>4, <3>1, WorkStep
  <2> QED
    BY <1>23, <2>2, <2>3, <2>4 DEF NextPart
<1>24. CASE StoreUpdateItem(t)
  <2>1. pc[t] = "store" /\ UNCHANGED <<job, pos>> /\ OwnFiles(t)
    BY <1>24 DEF StoreUpdateItem, OwnFiles
  <2>2. PICK l \in {"idle", "storing"} : Goto(t, l)
    BY <1>24 DEF StoreUpdateItem
  <2>3. pos[t] = Len(Parts[job[t]])
    BY <2>1 DEF LayerInv, LastInv
  <2> QED
    BY <1>0, <2>1, <2>2, <2>3, WorkStep
<1>25. CASE RemoveOldUpdateItems(t) \/ AddUpdateItem(t) \/ FreeRemovedSize(t)
  <2>1. pc[t] \in Storing /\ UNCHANGED <<job, pos>> /\ OwnFiles(t)
    BY <1>25 DEF RemoveOldUpdateItems, AddUpdateItem, FreeRemovedSize, OwnFiles
  <2>2. PICK l \in {"adding", "orphans", "idle"} : Goto(t, l)
    BY <1>25 DEF RemoveOldUpdateItems, AddUpdateItem, FreeRemovedSize
  <2>3. pos[t] = Len(Parts[job[t]])
    BY <2>1 DEF LayerInv, LastInv
  <2> QED
    BY <1>0, <2>1, <2>2, <2>3, WorkStep
<1>26. CASE RemoveOldFiles(t)
  <2>1. /\ RemoveOrphans(store) /\ UNCHANGED <<job, pos>>
        /\ pc[t] = "orphans" /\ Goto(t, "freeing")
    BY <1>26 DEF RemoveOldFiles
  <2>2. \A u \in Installers : pc'[u] = pc[u] \/ (pc[u] = "orphans" /\ pc'[u] = "freeing")
    BY <1>0, <2>1, ThreadFacts DEF Goto, SMTypeOK
  <2> QED
    BY <1>0, <2>1, <2>2, SweepStep
<1> QED
  BY <1>2, <1>3, <1>4, <1>5, <1>7, <1>10, <1>11, <1>12, <1>13, <1>14, <1>15, <1>16,
     <1>17, <1>18, <1>19, <1>20, <1>21, <1>22, <1>23, <1>24, <1>25, <1>26 DEF InstallStep

\* Every step keeps the layers.
LEMMA StepLayers == StoreInv /\ MarkInv /\ LayerInv /\ [SMNext]_smVars => LayerInv'
<1> SUFFICES ASSUME StoreInv, MarkInv, LayerInv, [SMNext]_smVars PROVE LayerInv'
  OBVIOUS
<1>0. SMTypeOK
  BY StoreNow
<1>1. CASE \E t \in Installers : InstallStep(t)
  BY <1>1, InstallStepLayers
<1>2. CASE \E t \in Installers, i \in Items : Install(t, i)
  <2>1. PICK t \in Installers, i \in Items : Install(t, i)
    BY <1>2
  <2>2. /\ Goto(t, "wait") /\ UNCHANGED <<blobs, layers>> /\ disturbed' = disturbed \ {t}
        /\ job' = [job EXCEPT ![t] = i] /\ pos' = [pos EXCEPT ![t] = 1]
    BY <2>1 DEF Install
  <2>3. /\ pos'[t] = 1
        /\ \A u \in Installers \ {t} : job'[u] = job[u] /\ pos'[u] = pos[u]
    BY <1>0, <2>2, ThreadFacts DEF SMTypeOK
  <2> QED
    BY <1>0, <2>2, <2>3, BeginStep
<1>3. ASSUME NEW x \in {"remover", "cleaner"}, NEW l, Goto(x, l)
      PROVE  \A u \in Installers : pc'[u] = pc[u]
  BY <1>0, <1>3, ThreadFacts DEF Goto, SMTypeOK
<1>4. CASE \E i \in Items : RemoveUpdateItem(i)
  <2>1. \A u \in Installers : job'[u] = job[u]
    BY <1>0, <1>4, ThreadFacts DEF RemoveUpdateItem, SMTypeOK
  <2> QED
    BY <1>3, <1>4, <2>1, QuietStep DEF RemoveUpdateItem
<1>5. CASE AddOutdatedItem
  <2>1. PICK l \in {"stuck", "idle"} : Goto("remover", l)
    BY <1>5 DEF AddOutdatedItem
  <2> QED
    BY <1>3, <1>5, <2>1, QuietStep DEF AddOutdatedItem
<1>6. CASE TimerTick \/ Stop
  BY <1>6, QuietStep DEF TimerTick, Stop
<1>7. CASE ProcessOutdatedItems
  <2>1. PICK l \in {"off", "cleaning"} : Goto("cleaner", l)
    BY <1>7 DEF ProcessOutdatedItems
  <2> QED
    BY <1>3, <1>7, <2>1, QuietStep DEF ProcessOutdatedItems
<1>8. CASE CleanItems
  <2>1. UNCHANGED <<job, pos>> /\ Goto("cleaner", "idle") /\ \E st : RemoveOrphans(st)
    BY <1>8 DEF CleanItems
  <2> QED
    BY <1>0, <1>3, <2>1, SweepStep
<1>9. CASE Restart \/ \E t \in Installers : ResizeNoSpace(t)
  <2>0. NewProcess
    BY <1>9 DEF Restart, ResizeNoSpace
  <2>1. \A u \in Installers : pc'[u] = "idle"
    BY <2>0, ThreadFacts DEF NewProcess
  <2> QED
    BY <2>1 DEF LayerInv, IntactInv, UnpackedInv, LastInv, LayerIn, InLayer, Outside, Storing
<1>10. CASE UNCHANGED smVars
  BY <1>10, QuietStep DEF smVars, imVars, files
<1> QED
  BY <1>1, <1>2, <1>4, <1>5, <1>6, <1>7, <1>8, <1>9, <1>10 DEF SMNext

\* Nobody installs anything at first.
LEMMA InitLayers == SMInit => MarkInv /\ LayerInv
<1> SUFFICES ASSUME SMInit PROVE MarkInv /\ LayerInv
  OBVIOUS
<1>1. \A t \in Installers : pc[t] = "idle"
  BY ThreadFacts DEF SMInit
<1> QED
  BY <1>1 DEF SMInit, MarkInv, InLayer, Outside, LayerInstallExclusive, LayerInv, IntactInv,
     UnpackedInv, LastInv, LayerIn, Storing

\* HasState of the next state.
LEMMA NextState ==
  ASSUME NEW st \in Seq(Records), Unique(st), store' = st
  PROVE  \A i, s : HasState(i, s)' <=> Has(st, i, s)
<1> SUFFICES ASSUME NEW i, NEW s PROVE HasState(i, s)' <=> Has(st, i, s)
  OBVIOUS
<1>1. StoredItems' = ItemsIn(st)
  BY DEF StoredItems, ItemsIn
<1>2. CASE i \in ItemsIn(st)
  <2> DEFINE n == CHOOSE k \in 1 .. Len(st) : st[k].item = i
  <2>1. n \in 1 .. Len(st) /\ st[n].item = i
    BY <1>2 DEF ItemsIn
  <2>2. StateOf(i)' = st[n].state
    BY DEF StateOf
  <2>3. \A k \in 1 .. Len(st) : st[k].item = i => k = n
    BY <2>1 DEF Unique
  <2> QED
    BY <1>1, <1>2, <2>1, <2>2, <2>3 DEF HasState, Has
<1>3. CASE i \notin ItemsIn(st)
  BY <1>1, <1>3 DEF HasState, Has, ItemsIn
<1> QED
  BY <1>2, <1>3

\* LayersUnlessDisturbed, for one step.
LEMMA StepInstalls ==
  ASSUME StoreInv, LayerInv, [SMNext]_smVars, NEW i \in Items,
         ~HasState(i, "installed"), HasState(i, "installed")'
  PROVE  \E t \in Installers :
             /\ job[t] = i
             /\ pc[t] \in {"store", "adding"}
             /\ pc'[t] # pc[t]
             /\ \/ t \in disturbed
                \/ \A d \in PartsOf(i) \intersect Layers : PartValid(d, blobs', layers')
<1>0. /\ store \in Seq(Records) /\ Unique(store) /\ SMTypeOK
      /\ ~Has(store, i, "installed")
  BY StoreNow, StateFacts
<1>1. ASSUME NEW st \in Seq(Records), Unique(st), store' = st
      PROVE  Has(st, i, "installed")
  BY <1>1, NextState
<1>2. ASSUME NEW gone, store' = Drop(store, gone) PROVE FALSE
  <2>1. /\ Drop(store, gone) \in Seq(Records) /\ Unique(Drop(store, gone))
        /\ Has(Drop(store, gone), i, "installed") => Has(store, i, "installed")
    BY <1>0, DropFacts
  <2> QED
    BY <1>0, <1>1, <1>2, <2>1
<1>3. CASE UNCHANGED store
  BY <1>0, <1>1, <1>3
<1>4. ASSUME NEW t \in Installers, StoreUpdateItem(t) \/ AddUpdateItem(t)
      PROVE  /\ job[t] = i
             /\ pc[t] \in {"store", "adding"}
             /\ pc'[t] # pc[t]
             /\ \/ t \in disturbed
                \/ \A d \in PartsOf(i) \intersect Layers : PartValid(d, blobs', layers')
  <2>1. CASE UNCHANGED store
    BY <1>3, <2>1, <1>0, <1>1
  <2>2. CASE store' = Put(store, job[t], "installed")
    <3>1. job[t] \in Items /\ "installed" \in {"installed", "removed"}
      BY <1>0, ThreadFacts DEF SMTypeOK
    <3>2. /\ Put(store, job[t], "installed") \in Seq(Records)
          /\ Unique(Put(store, job[t], "installed"))
          /\ \A j, r : Has(Put(store, job[t], "installed"), j, r) =>
                           Has(store, j, r) \/ (j = job[t] /\ r = "installed")
      BY <1>0, <3>1, PutFacts
    <3>3. job[t] = i
      BY <1>0, <1>1, <2>2, <3>2
    <3>4. pc[t] \in {"store", "adding"} /\ UNCHANGED <<blobs, layers>>
      BY <1>4 DEF StoreUpdateItem, AddUpdateItem, files
    <3>5. pos[t] = Len(Parts[i])
      BY <3>3, <3>4 DEF LayerInv, LastInv, Storing
    <3>6. pc'[t] # pc[t]
      <4>1. PICK l \in {"idle", "storing", "orphans"} : Goto(t, l)
        BY <1>4 DEF StoreUpdateItem, AddUpdateItem
      <4> QED
        BY <1>0, <3>4, <4>1, ThreadFacts DEF SMTypeOK, Goto
    <3>7. ASSUME t \notin disturbed, NEW d \in PartsOf(i) \intersect Layers
          PROVE  PartValid(d, blobs', layers')
      <4>1. PICK k \in 1 .. Len(Parts[i]) : d = Parts[i][k]
        BY <3>7 DEF PartsOf
      <4>2. LayerIn(t, d)
        BY <3>3, <3>4, <3>5, <3>7, <4>1 DEF LayerIn, Ready, Storing
      <4>3. PartValid(d, blobs, layers)
        BY <3>7, <4>2 DEF LayerInv, IntactInv
      <4> QED
        BY <3>4, <4>3
    <3> QED
      BY <3>3, <3>4, <3>6, <3>7
  <2> QED
    BY <1>4, <2>1, <2>2 DEF StoreUpdateItem, AddUpdateItem
<1>5. CASE \E t \in Installers : RemoveOldUpdateItems(t)
  BY <1>2, <1>5 DEF RemoveOldUpdateItems
<1>6. CASE AddOutdatedItem
  <2>1. CASE UNCHANGED store
    BY <1>3, <2>1
  <2>2. CASE store' = Put(store, job["remover"], "removed")
    <3>1. job["remover"] \in Items /\ "removed" \in {"installed", "removed"}
      BY <1>0, ThreadFacts DEF SMTypeOK
    <3>2. /\ Put(store, job["remover"], "removed") \in Seq(Records)
          /\ Unique(Put(store, job["remover"], "removed"))
          /\ \A j, r : Has(Put(store, job["remover"], "removed"), j, r) =>
                           Has(store, j, r) \/ (j = job["remover"] /\ r = "removed")
      BY <1>0, <3>1, PutFacts
    <3> QED
      BY <1>0, <1>1, <2>2, <3>2
  <2> QED
    BY <1>6, <2>1, <2>2 DEF AddOutdatedItem
<1>7. CASE CleanItems
  BY <1>2, <1>7 DEF CleanItems
<1>8. CASE \E t \in Installers : RemoveItem(t) \/ RemoveItemFails(t)
  BY <1>2, <1>8 DEF RemoveItem, RemoveItemFails
<1>9. ASSUME NEW t \in Installers, InstallStep(t)
      PROVE  \/ UNCHANGED store
             \/ RemoveItem(t) \/ RemoveItemFails(t) \/ StoreUpdateItem(t)
             \/ AddUpdateItem(t) \/ RemoveOldUpdateItems(t)
  BY <1>9 DEF InstallStep, WaitForInProgressBlob, ReleaseInProgressBlob, CheckLayer,
     CheckBlob, AllocateSpace, FinishReclaim, Download, Fetched, ValidateBlob, ClearLayer,
     UnpackLayer, Resize, CreateLayerMetadata, LinkLayer, ReleaseSpace, NextPart,
     RemoveOldFiles, FreeRemovedSize
<1>10. CASE UNCHANGED smVars \/ TimerTick \/ ProcessOutdatedItems \/ Stop \/ Restart
            \/ (\E j \in Items : RemoveUpdateItem(j))
            \/ (\E t \in Installers, j \in Items : Install(t, j))
            \/ (\E t \in Installers : ResizeNoSpace(t))
  <2>1. UNCHANGED store
    BY <1>10 DEF smVars, imVars, TimerTick, ProcessOutdatedItems, Stop, Restart,
       ResizeNoSpace, NewProcess, RemoveUpdateItem, Install
  <2> QED
    BY <1>3, <2>1
<1> QED
  BY <1>3, <1>4, <1>5, <1>6, <1>7, <1>8, <1>9, <1>10 DEF SMNext

\* An item that becomes installed has all its layers unpacked and linked unless during
\* its call RemoveOrphans took one it had come to, or a thread the directory of one for
\* another blob of the same diff ID (InstallLayer, UnpackLayer): otherwise a layer a
\* thread has installed stays valid, because whoever comes to it later finds it valid
\* and leaves, and whoever was at it before was alone.
THEOREM LayersSafe == SMSpec => LayersUnlessDisturbed
<1>1. StoreInv /\ MarkInv /\ LayerInv /\ [SMNext]_smVars
          => [\A i \in Items :
                 /\ ~HasState(i, "installed")
                 /\ HasState(i, "installed")'
                 => \E t \in Installers :
                       /\ job[t] = i
                       /\ pc[t] \in {"store", "adding"}
                       /\ pc'[t] # pc[t]
                       /\ \/ t \in disturbed
                          \/ \A d \in PartsOf(i) \intersect Layers :
                                 PartValid(d, blobs, layers)']_smVars
  BY StepInstalls
<1> QED
  BY <1>1, InitLayers, StoreInvariance, StepMarks, StepLayers, PTL
     DEF SMSpec, LayersUnlessDisturbed
=============================================================================
