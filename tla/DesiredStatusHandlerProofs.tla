-------------------- MODULE DesiredStatusHandlerProofs ----------------------
(***************************************************************************)
(* Proofs about DesiredStatusHandler, for any set of desired statuses.     *)
(***************************************************************************)
EXTENDS DesiredStatusHandler, TLAPS

\* mMutex is held by one party at a time, and the state the worker acts on does
\* not change under it while it is outside the lock.
WorkerInv ==
    /\ api # "idle" => run \notin {"loop", "finish"}
    /\ run \in {"action", "check", "prewait", "timed", "returned"}
           => mUpdateState \notin {"None", "Pending"}
    /\ run \in {"check", "prewait", "timed"} => mUpdateState = "WaitingActive"

\* What the flags of the handler say about each other.
FlagsInv ==
    /\ mCancelCurrentUpdate => mUpdateState # "None"
    /\ mHasPendingDesiredStatus => mUpdateState # "None"
    /\ api # "idle" => mCancelCurrentUpdate \/ mUpdateState = "Downloading"
    /\ InUpdate /\ api # "idle" => mCancelCurrentUpdate
    /\ InUpdate /\ mHasPendingDesiredStatus => mCancelCurrentUpdate
    /\ InUpdate /\ ~mCancelCurrentUpdate
           => mCurrentDesiredStatus = mPendingDesiredStatus

\* Storage is ahead of memory only by the Downloading of a newer status. After
\* a crash, until Start, memory knows nothing of the update in storage.
StorageInv ==
    /\ mIsRunning \/ run # "off" \/ mUpdateState # "None" =>
           \/ storedState = mUpdateState
           \/ mCancelCurrentUpdate /\ storedState = "Downloading"
    /\ api = "idle" /\ mUpdateState # "None"
           => storedDesiredStatus = mPendingDesiredStatus
    /\ api = "storeState" => storedDesiredStatus = apiArg

\* The stored state and status belong together, and so do the state and the
\* status the worker is busy with.
PairingInv ==
    /\ storedState \in AfterDownload /\ api # "storeState"
           => prepared = storedDesiredStatus \/ mixed # "no"
    /\ run = "returned" /\ mUpdateState = "Downloading" /\ ~actionErr
           => prepared = mCurrentDesiredStatus
    /\ OnlyDownloadedProceeds
    /\ run = "loop" /\ mCancelCurrentUpdate /\ mUpdateState \in AfterDownload
           => mixed = "race"

IInv == TypeOK /\ WorkerInv /\ FlagsInv /\ StorageInv /\ PairingInv

USE DEF memory, storage

\* The named sets of the module, as the facts the type proof needs.
LEMMA Names ==
    /\ {"None", "Downloading", "Installing"} \subseteq UpdateStates
    /\ {"off", "wait", "asleep", "loop", "action", "check", "prewait", "timed",
        "returned", "finish"} \subseteq RunPositions
    /\ \A state \in UpdateStates \ {"None"} : NextState[state] \in UpdateStates
    /\ NoStatus \in Statuses /\ DesiredStatuses \subseteq Statuses
  BY DEF UpdateStates, RunPositions, NextState, Statuses

\* The initial state satisfies the inductive invariant.
LEMMA InitInv == Init => IInv
  BY Names DEF Init, IInv, TypeOK, WorkerInv, FlagsInv, StorageInv, PairingInv,
               OnlyDownloadedProceeds, InUpdate, AfterDownload

\* Every step of the handler, of its callers and of the environment preserves
\* the inductive invariant.
LEMMA StepInv == IInv /\ [Next]_vars => IInv'
<1> SUFFICES ASSUME IInv, [Next]_vars PROVE IInv'
  OBVIOUS
<1> USE DEF IInv, LockFree, SetState, NotifyOne
<1>1. CASE Start
  <2>1. TypeOK'
    BY <1>1, Names DEF Start, TypeOK
  <2>2. WorkerInv'
    BY <1>1 DEF Start, TypeOK, WorkerInv, UpdateStates, RunPositions
  <2>3. FlagsInv'
    BY <1>1 DEF Start, TypeOK, WorkerInv, FlagsInv, InUpdate
  <2>4. StorageInv'
    BY <1>1 DEF Start, TypeOK, WorkerInv, FlagsInv, StorageInv, InUpdate
  <2>5. PairingInv'
    BY <1>1 DEF Start, TypeOK, WorkerInv, FlagsInv, StorageInv,
       PairingInv, OnlyDownloadedProceeds, InUpdate, AfterDownload,
       UpdateStates
  <2> QED
    BY <2>1, <2>2, <2>3, <2>4, <2>5
<1>2. CASE Stop
  <2>1. TypeOK'
    BY <1>2, Names DEF Stop, TypeOK
  <2>2. WorkerInv'
    BY <1>2 DEF Stop, TypeOK, WorkerInv, UpdateStates, RunPositions
  <2>3. FlagsInv'
    BY <1>2 DEF Stop, TypeOK, WorkerInv, FlagsInv, InUpdate
  <2>4. StorageInv'
    BY <1>2 DEF Stop, TypeOK, WorkerInv, FlagsInv, StorageInv, InUpdate
  <2>5. PairingInv'
    BY <1>2 DEF Stop, TypeOK, WorkerInv, FlagsInv, StorageInv, PairingInv,
       OnlyDownloadedProceeds, InUpdate, AfterDownload, UpdateStates
  <2> QED
    BY <2>1, <2>2, <2>3, <2>4, <2>5
<1>3. ASSUME NEW d \in DesiredStatuses, ProcessDesiredStatus(d) PROVE IInv'
  <2>1. TypeOK'
    BY <1>3, Names DEF ProcessDesiredStatus, StartUpdate, CancelUpdate,
       TypeOK
  <2>2. WorkerInv'
    BY <1>3 DEF ProcessDesiredStatus, StartUpdate, CancelUpdate, TypeOK,
       WorkerInv, UpdateStates, RunPositions
  <2>3. FlagsInv'
    BY <1>3 DEF ProcessDesiredStatus, StartUpdate, CancelUpdate, TypeOK,
       WorkerInv, FlagsInv, InUpdate
  <2>4. StorageInv'
    BY <1>3 DEF ProcessDesiredStatus, StartUpdate, CancelUpdate, TypeOK,
       WorkerInv, FlagsInv, StorageInv, InUpdate
  <2>5. PairingInv'
    BY <1>3 DEF ProcessDesiredStatus, StartUpdate, CancelUpdate, TypeOK,
       WorkerInv, FlagsInv, StorageInv, PairingInv,
       OnlyDownloadedProceeds, InUpdate, AfterDownload, UpdateStates
  <2> QED
    BY <2>1, <2>2, <2>3, <2>4, <2>5
<1>4. CASE StoreDesiredStatus
  BY <1>4, Names DEF StoreDesiredStatus, TypeOK, WorkerInv, FlagsInv,
     StorageInv, PairingInv, OnlyDownloadedProceeds, InUpdate,
     AfterDownload
<1>5. CASE StoreUpdateState
  <2>1. TypeOK'
    BY <1>5, Names DEF StoreUpdateState, TypeOK
  <2>2. WorkerInv'
    BY <1>5 DEF StoreUpdateState, TypeOK, WorkerInv, UpdateStates,
       RunPositions
  <2>3. FlagsInv'
    BY <1>5 DEF StoreUpdateState, TypeOK, WorkerInv, FlagsInv, InUpdate
  <2>4. StorageInv'
    BY <1>5 DEF StoreUpdateState, TypeOK, WorkerInv, FlagsInv, StorageInv,
       InUpdate
  <2>5. PairingInv'
    BY <1>5 DEF StoreUpdateState, TypeOK, WorkerInv, FlagsInv, StorageInv,
       PairingInv, OnlyDownloadedProceeds, InUpdate, AfterDownload,
       UpdateStates
  <2> QED
    BY <2>1, <2>2, <2>3, <2>4, <2>5
<1>6. CASE WaitSleep
  BY <1>6, Names DEF WaitSleep, TypeOK, WorkerInv, FlagsInv, StorageInv,
     PairingInv, OnlyDownloadedProceeds, InUpdate, AfterDownload
<1>7. CASE WaitExit
  BY <1>7, Names DEF WaitExit, TypeOK, WorkerInv, FlagsInv, StorageInv,
     PairingInv, OnlyDownloadedProceeds, InUpdate, AfterDownload
<1>8. CASE PickUp
  <2>1. TypeOK'
    BY <1>8, Names DEF PickUp, TypeOK
  <2>2. WorkerInv'
    BY <1>8 DEF PickUp, TypeOK, WorkerInv, UpdateStates, RunPositions
  <2>3. FlagsInv'
    BY <1>8 DEF PickUp, TypeOK, WorkerInv, FlagsInv, InUpdate
  <2>4. StorageInv'
    BY <1>8 DEF PickUp, TypeOK, WorkerInv, FlagsInv, StorageInv, InUpdate
  <2>5. PairingInv'
    BY <1>8 DEF PickUp, TypeOK, WorkerInv, FlagsInv, StorageInv,
       PairingInv, OnlyDownloadedProceeds, InUpdate, AfterDownload,
       UpdateStates
  <2> QED
    BY <2>1, <2>2, <2>3, <2>4, <2>5
<1>9. CASE LeaveLoop
  BY <1>9, Names DEF LeaveLoop, TypeOK, WorkerInv, FlagsInv, StorageInv,
     PairingInv, OnlyDownloadedProceeds, InUpdate, AfterDownload
<1>10. CASE PassPending
  BY <1>10, Names DEF PassPending, TypeOK, WorkerInv, FlagsInv,
     StorageInv, PairingInv, OnlyDownloadedProceeds, InUpdate,
     AfterDownload
<1>11. CASE BeginAction
  BY <1>11, Names DEF BeginAction, TypeOK, WorkerInv, FlagsInv,
     StorageInv, PairingInv, OnlyDownloadedProceeds, InUpdate,
     AfterDownload
<1>12. ASSUME NEW err \in BOOLEAN, ActionReturn(err) PROVE IInv'
  <2>1. TypeOK'
    BY <1>12, Names DEF ActionReturn, TypeOK
  <2>2. WorkerInv'
    BY <1>12 DEF ActionReturn, TypeOK, WorkerInv, UpdateStates,
       RunPositions
  <2>3. FlagsInv'
    BY <1>12 DEF ActionReturn, TypeOK, WorkerInv, FlagsInv, InUpdate
  <2>4. StorageInv'
    BY <1>12 DEF ActionReturn, TypeOK, WorkerInv, FlagsInv, StorageInv,
       InUpdate
  <2>5. PairingInv'
    BY <1>12 DEF ActionReturn, TypeOK, WorkerInv, FlagsInv, StorageInv,
       PairingInv, OnlyDownloadedProceeds, InUpdate, AfterDownload,
       UpdateStates
  <2> QED
    BY <2>1, <2>2, <2>3, <2>4, <2>5
<1>13. ASSUME NEW err \in BOOLEAN, WaitInstancesActive(err) PROVE IInv'
  BY <1>13, Names DEF WaitInstancesActive, TypeOK, WorkerInv, FlagsInv,
     StorageInv, PairingInv, OnlyDownloadedProceeds, InUpdate,
     AfterDownload
<1>14. CASE TimedWait
  BY <1>14, Names DEF TimedWait, TypeOK, WorkerInv, FlagsInv, StorageInv,
     PairingInv, OnlyDownloadedProceeds, InUpdate, AfterDownload
<1>15. CASE WaitActiveTimeout
  BY <1>15, Names DEF WaitActiveTimeout, TypeOK, WorkerInv, FlagsInv,
     StorageInv, PairingInv, OnlyDownloadedProceeds, InUpdate,
     AfterDownload
<1>16. CASE AfterAction
  <2>1. TypeOK'
    BY <1>16, Names DEF AfterAction, TypeOK, WorkerInv
  <2>2. WorkerInv'
    BY <1>16 DEF AfterAction, NextState, TypeOK, WorkerInv, UpdateStates,
       RunPositions
  <2>3. FlagsInv'
    BY <1>16 DEF AfterAction, NextState, TypeOK, WorkerInv, FlagsInv,
       InUpdate
  <2>4. StorageInv'
    BY <1>16 DEF AfterAction, NextState, TypeOK, WorkerInv, FlagsInv,
       StorageInv, InUpdate
  <2>5. PairingInv'
    BY <1>16 DEF AfterAction, NextState, TypeOK, WorkerInv, FlagsInv,
       StorageInv, PairingInv, OnlyDownloadedProceeds, InUpdate,
       AfterDownload, UpdateStates
  <2> QED
    BY <2>1, <2>2, <2>3, <2>4, <2>5
<1>17. CASE Finish
  <2>1. TypeOK'
    BY <1>17, Names DEF Finish, TypeOK
  <2>2. WorkerInv'
    BY <1>17 DEF Finish, TypeOK, WorkerInv, UpdateStates, RunPositions
  <2>3. FlagsInv'
    BY <1>17 DEF Finish, TypeOK, WorkerInv, FlagsInv, InUpdate
  <2>4. StorageInv'
    BY <1>17 DEF Finish, TypeOK, WorkerInv, FlagsInv, StorageInv, InUpdate
  <2>5. PairingInv'
    BY <1>17 DEF Finish, TypeOK, WorkerInv, FlagsInv, StorageInv,
       PairingInv, OnlyDownloadedProceeds, InUpdate, AfterDownload,
       UpdateStates
  <2> QED
    BY <2>1, <2>2, <2>3, <2>4, <2>5
<1>18. CASE OnInstancesStatusesChanged
  BY <1>18, Names DEF OnInstancesStatusesChanged, TypeOK, WorkerInv,
     FlagsInv, StorageInv, PairingInv, OnlyDownloadedProceeds, InUpdate,
     AfterDownload
<1>19. CASE Crash
  BY <1>19, Names DEF Crash, TypeOK, WorkerInv, FlagsInv, StorageInv,
     PairingInv, OnlyDownloadedProceeds, InUpdate, AfterDownload
<1>20. CASE UNCHANGED vars
  BY <1>20 DEF vars, TypeOK, WorkerInv, FlagsInv, StorageInv, PairingInv,
             OnlyDownloadedProceeds, InUpdate
<1> QED
  BY <1>1, <1>2, <1>3, <1>4, <1>5, <1>6, <1>7, <1>8, <1>9, <1>10, <1>11,
     <1>12, <1>13, <1>14, <1>15, <1>16, <1>17, <1>18, <1>19, <1>20 DEF
     Next, ApiNext, RunNext

\* The inductive invariant holds in every reachable state.
THEOREM Invariance == Spec => []IInv
<1>1. Init => IInv
  BY InitInv
<1>2. IInv /\ [Next]_vars => IInv'
  BY StepInv
<1> QED
  BY <1>1, <1>2, PTL DEF Spec

\* Type correctness of the desired status handler.
THEOREM TypeCorrect == Spec => []TypeOK
  BY Invariance, PTL DEF IInv

\* Nothing is installed, launched or finalized that was not downloaded, with
\* the two exceptions OnlyDownloadedProceeds names, whatever the interleaving
\* of ProcessDesiredStatus, Start, Stop, Run and crashes.
THEOREM DownloadedSafe == Spec => []OnlyDownloadedProceeds
  BY Invariance, PTL DEF IInv, PairingInv

\* A status that arrives during an update cancels it (ProcessDesiredStatus).
THEOREM CancelSafe == Spec => []NewStatusCancels
<1>1. IInv => NewStatusCancels
  BY DEF IInv, FlagsInv, NewStatusCancels
<1> QED
  BY <1>1, Invariance, PTL

\* Whenever the handler runs and its lock is free, Start would read back from storage
\* the state the handler is in, or the Downloading of a newer status.
THEOREM StorageSafe == Spec => []StorageFollowsState
<1>1. IInv => StorageFollowsState
  BY DEF IInv, StorageInv, StorageFollowsState, LockFree
<1> QED
  BY <1>1, Invariance, PTL

\* An accepted status survives a crash at any point (ProcessDesiredStatus).
THEOREM DurableSafe == Spec => []AcceptedIsDurable
<1>1. IInv => AcceptedIsDurable
  BY DEF IInv, FlagsInv, StorageInv, AcceptedIsDurable
<1> QED
  BY <1>1, Invariance, PTL

\* The states change at these steps only, and at none of them under the cancel flag while
\* the worker goes on with the update.
LEMMA CanceledStep ==
  ASSUME IInv, [Next]_vars, mCancelCurrentUpdate, mixed # "race", InUpdate, InUpdate'
  PROVE  mUpdateState' = mUpdateState
<1> USE DEF IInv, SetState
<1>1. CASE Start
  BY <1>1 DEF Start, InUpdate
<1>2. ASSUME NEW d \in DesiredStatuses, ProcessDesiredStatus(d)
      PROVE  mUpdateState' = mUpdateState
  BY <1>2 DEF ProcessDesiredStatus, CancelUpdate, FlagsInv
<1>3. CASE PassPending
  BY <1>3 DEF PassPending, PairingInv, AfterDownload, UpdateStates
<1>4. CASE AfterAction
  BY <1>4 DEF AfterAction
<1>5. CASE Finish \/ Crash
  BY <1>5 DEF Finish, Crash, InUpdate
<1>6. CASE Stop \/ StoreDesiredStatus \/ StoreUpdateState
  BY <1>6 DEF Stop, StoreDesiredStatus, StoreUpdateState
<1>7. CASE WaitSleep \/ WaitExit \/ PickUp \/ LeaveLoop \/ BeginAction
  BY <1>7 DEF WaitSleep, WaitExit, PickUp, LeaveLoop, BeginAction
<1>8. ASSUME NEW err \in BOOLEAN, ActionReturn(err) \/ WaitInstancesActive(err)
      PROVE  mUpdateState' = mUpdateState
  BY <1>8 DEF ActionReturn, WaitInstancesActive
<1>9. CASE TimedWait \/ WaitActiveTimeout \/ OnInstancesStatusesChanged
  BY <1>9 DEF TimedWait, WaitActiveTimeout, OnInstancesStatusesChanged
<1>10. CASE UNCHANGED vars
  BY <1>10 DEF vars
<1> QED
  BY <1>1, <1>2, <1>3, <1>4, <1>5, <1>6, <1>7, <1>8, <1>9, <1>10
  DEF Next, ApiNext, RunNext

\* A canceled update advances no further: no step of Run, of the API calls or of the
\* environment moves its state on before the worker is done with it.
THEOREM CanceledSafe == Spec => CanceledUpdateStops
<1>1. IInv /\ [Next]_vars =>
          [mCancelCurrentUpdate /\ mixed # "race" /\ InUpdate /\ InUpdate'
             => mUpdateState' = mUpdateState]_vars
  BY CanceledStep
<1> QED
  BY <1>1, Invariance, PTL DEF Spec, CanceledUpdateStops
=============================================================================
