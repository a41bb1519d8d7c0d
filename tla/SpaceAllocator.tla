--------------------------- MODULE SpaceAllocator ---------------------------
(***************************************************************************)
(* The space allocator (common/spaceallocator): a partition shared by the   *)
(* threads that allocate space on it, with the list of outdated items it    *)
(* may have removed when space runs out. The operators are the operations   *)
(* of the partition and of the Space objects; the module that uses the      *)
(* allocator supplies the item remover and takes the steps.                 *)
(*                                                                         *)
(* Sizes are abstracted: whether a size fits is left open, so an allocation *)
(* may succeed, fail, or reclaim any number of the oldest outdated items.   *)
(* The allocator has no size limit of its own (mSizeLimit = 0).             *)
(***************************************************************************)
EXTENDS Naturals, Sequences, FiniteSets

CONSTANTS
    Threads,      \* threads that use the allocator
    NoThread,     \* owner of a mutex nobody holds
    Items,        \* versions of update items
    ItemID,       \* the ID of a version
    MaxOutdated   \* cMaxNumOutdatedItems

ASSUME ThreadsFinite == IsFiniteSet(Threads)
ASSUME NoThreadIsNone == NoThread \notin Threads
ASSUME MaxOutdatedPositive == MaxOutdated \in Nat \ {0}

VARIABLES
    partMutex,         \* owner of Partition::mMutex between two steps
    mAllocationCount,
    mOutdatedItems,    \* sequence of items, by mTimestamp
    space,             \* threads that hold a Space neither accepted nor released
    taken              \* outdated items the reclaim in progress has had removed

saVars == <<partMutex, mAllocationCount, mOutdatedItems, space, taken>>

SAInit ==
    /\ partMutex = NoThread
    /\ mAllocationCount = 0
    /\ mOutdatedItems = <<>>
    /\ space = {}
    /\ taken = 0

PartitionFree == partMutex = NoThread

\* The size fits in mAvailableSize.
AllocateFits(t) ==
    /\ PartitionFree
    /\ mAllocationCount' = mAllocationCount + 1
    /\ space' = space \union {t}
    /\ UNCHANGED <<partMutex, mOutdatedItems, taken>>

\* It does not and nothing is outdated, or the available size cannot be read.
AllocateFails ==
    /\ PartitionFree
    /\ mOutdatedItems = <<>> \/ mAllocationCount = 0
    /\ UNCHANGED saVars

\* It does not and there are outdated items: the mutex is kept while they go.
StartReclaim(t) ==
    /\ PartitionFree
    /\ mOutdatedItems # <<>>
    /\ partMutex' = t
    /\ taken' = 0
    /\ UNCHANGED <<mAllocationCount, mOutdatedItems, space>>

\* The item the reclaim asks the remover for next.
NextOutdated == mOutdatedItems[taken + 1]

ReclaimItem(t) ==
    /\ partMutex = t
    /\ taken < Len(mOutdatedItems)
    /\ taken' = taken + 1
    /\ UNCHANGED <<partMutex, mAllocationCount, mOutdatedItems, space>>

\* The remover failed: the items removed before stay in the list.
ReclaimFails(t) ==
    /\ partMutex = t
    /\ taken < Len(mOutdatedItems)
    /\ partMutex' = NoThread
    /\ taken' = 0
    /\ UNCHANGED <<mAllocationCount, mOutdatedItems, space>>

\* Enough was freed, or the list is used up.
EndReclaim(t, fits) ==
    /\ partMutex = t
    /\ taken > 0
    /\ fits \/ taken = Len(mOutdatedItems)
    /\ mOutdatedItems' = SubSeq(mOutdatedItems, taken + 1, Len(mOutdatedItems))
    /\ IF fits
       THEN /\ mAllocationCount' = mAllocationCount + 1
            /\ space' = space \union {t}
       ELSE UNCHANGED <<mAllocationCount, space>>
    /\ partMutex' = NoThread
    /\ taken' = 0

\* Mutant: the allocation is taken back twice.
DoneTwice ==
    mAllocationCount' = IF mAllocationCount < 2 THEN 0 ELSE mAllocationCount - 2

Done ==
    mAllocationCount' = IF mAllocationCount = 0 THEN 0 ELSE mAllocationCount - 1

\* Space::Accept, and Space::Release: both end in AllocateDone.
EndSpace(t) ==
    IF t \in space
    THEN /\ PartitionFree
         /\ space' = space \ {t}
         /\ Done
         /\ UNCHANGED <<partMutex, mOutdatedItems, taken>>
    ELSE UNCHANGED saVars

\* FreeSpace and the first half of ResizeSpace: only sizes change.
FreeSpace == PartitionFree /\ UNCHANGED saVars

\* The elements of s at the positions ks, in their order: what erasing the others
\* leaves (SelectSeq, in a form the proofs can count with).
Keep(s, ks) ==
    [n \in 1 .. Cardinality(ks) |->
        s[CHOOSE k \in ks : Cardinality(ks \intersect 1 .. k) = n]]

\* The list after AddOutdatedItem: a listed item of the same ID, whatever its
\* version, is replaced.
OutdatedWith(i, items) ==
    Append(Keep(items, {k \in 1 .. Len(items) : ItemID[items[k]] # ItemID[i]}), i)

\* AddOutdatedItem has to remove the oldest item first.
OutdatedFull(i, items) ==
    /\ Len(items) = MaxOutdated
    /\ \A k \in 1 .. Len(items) : ItemID[items[k]] # ItemID[i]

RestoreOutdatedItem(items) ==
    mOutdatedItems' = Keep(mOutdatedItems, {k \in 1 .. Len(mOutdatedItems) :
                                               mOutdatedItems[k] \notin items})

\* The states of the allocator.
SATypeOK ==
    /\ partMutex \in Threads \union {NoThread}
    /\ mAllocationCount \in Nat
    /\ mOutdatedItems \in Seq(Items)
    /\ space \subseteq Threads
    /\ taken \in Nat

\* While a Space is outstanding the allocation count is above zero, counted with
\* every other outstanding one, so Partition::Allocate does not read the available
\* size anew from the file system and forget what was promised.
CountCoversSpaces == Cardinality(space) <= mAllocationCount
=============================================================================
