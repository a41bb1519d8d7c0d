------------------------ MODULE DesiredStatusHandler ------------------------
(***************************************************************************)
(* The desired status handler of the CM update manager                     *)
(* (cm/updatemanager/desiredstatushandler.cpp): the update state machine   *)
(* run by its worker thread, the API calls that start, cancel and stop an  *)
(* update, and the update state it keeps in storage across restarts.       *)
(*                                                                         *)
(* A desired status is an opaque value; only its identity matters here.    *)
(* mMutex is not a variable: the sections that hold it are the API call    *)
(* in progress (api # "idle") and the worker's positions "loop" and        *)
(* "finish"; everything else in a locked section is a single step.         *)
(***************************************************************************)
CONSTANTS DesiredStatuses,  \* the statuses the cloud may send
          NoStatus          \* the empty status of a fresh unit

ASSUME NoStatusAssumption == NoStatus \notin DesiredStatuses

VARIABLES mIsRunning, mUpdateState, mCurrentDesiredStatus,
          mPendingDesiredStatus, mHasPendingDesiredStatus,
          mCancelCurrentUpdate,
          storedState, storedDesiredStatus,  \* StorageItf
          run,         \* where the worker thread is
          actionErr,   \* the state action returned an error
          api, apiArg, \* ProcessDesiredStatus in progress, between its stores
          activating,  \* the launcher reports an activating instance
          prepared,    \* ghost: status whose download completed last
          mixed        \* ghost: how a status got the progress of another one

memory  == <<mIsRunning, mUpdateState, mCurrentDesiredStatus,
             mPendingDesiredStatus, mHasPendingDesiredStatus,
             mCancelCurrentUpdate>>
storage == <<storedState, storedDesiredStatus>>
vars    == <<memory, storage, run, actionErr, api, apiArg, activating,
             prepared, mixed>>

UpdateStates == {"None", "Downloading", "Pending", "Installing", "Launching",
                 "WaitingActive", "Finalizing"}

\* The states whose work relies on the items having been downloaded.
AfterDownload == UpdateStates \ {"None", "Downloading"}

\* Mutant: a state that storage does not know.
NextStateTypo == [Downloading   |-> "Pending",
                  Pending       |-> "Installing",
                  Installing    |-> "Launching",
                  Launching     |-> "WaitingActive",
                  WaitingActive |-> "Finalizing",
                  Finalizing    |-> "Finalized"]

NextState == [Downloading   |-> "Pending",
              Pending       |-> "Installing",
              Installing    |-> "Launching",
              Launching     |-> "WaitingActive",
              WaitingActive |-> "Finalizing",
              Finalizing    |-> "None"]

Statuses == DesiredStatuses \cup {NoStatus}

\* "asleep" and "timed" are blocked on mCondVar; "check" and "prewait" are in
\* WaitInstancesActive; "returned" is about to take the lock after an action.
RunPositions == {"off", "wait", "asleep", "loop", "action", "check",
                 "prewait", "timed", "returned", "finish"}

\* The worker is between picking a status up and being done with it.
InUpdate == run \in {"loop", "action", "check", "prewait", "timed",
                     "returned", "finish"}

TypeOK ==
    /\ mIsRunning \in BOOLEAN
    /\ mUpdateState \in UpdateStates
    /\ mCurrentDesiredStatus \in Statuses
    /\ mPendingDesiredStatus \in Statuses
    /\ mHasPendingDesiredStatus \in BOOLEAN
    /\ mCancelCurrentUpdate \in BOOLEAN
    /\ storedState \in UpdateStates
    /\ storedDesiredStatus \in Statuses
    /\ run \in RunPositions
    /\ actionErr \in BOOLEAN
    /\ api \in {"idle", "storeDesired", "storeState"}
    /\ apiArg \in Statuses
    /\ activating \in BOOLEAN
    /\ prepared \in Statuses
    /\ mixed \in {"no", "crash", "race"}

Init ==
    /\ mIsRunning = FALSE
    /\ mUpdateState = "None"
    /\ mCurrentDesiredStatus = NoStatus
    /\ mPendingDesiredStatus = NoStatus
    /\ mHasPendingDesiredStatus = FALSE
    /\ mCancelCurrentUpdate = FALSE
    /\ storedState = "None"
    /\ storedDesiredStatus = NoStatus
    /\ run = "off"
    /\ actionErr = FALSE
    /\ api = "idle"
    /\ apiArg = NoStatus
    /\ activating = FALSE
    /\ prepared = NoStatus
    /\ mixed = "no"

-----------------------------------------------------------------------------
LockFree == api = "idle" /\ run \notin {"loop", "finish"}

\* Mutant: the new state is not stored.
SetStateInMemory(state) ==
    /\ mUpdateState' = state
    /\ UNCHANGED storedState

SetState(state) ==
    /\ mUpdateState' = state
    /\ storedState' = IF mUpdateState = state THEN storedState ELSE state

\* mCondVar.NotifyOne(): the worker is the only thread that ever waits.
NotifyOne ==
    run' = CASE run = "asleep" -> "wait"
             [] run = "timed"  -> "check"
             [] OTHER          -> run

\* ImageManager.Cancel() is called by CancelUpdate and by Stop in these states.
CancelsImageManager == mUpdateState \in {"Downloading", "Installing"}

-----------------------------------------------------------------------------
Start ==
    /\ LockFree
    /\ ~mIsRunning /\ run = "off"
    /\ mIsRunning' = TRUE
    /\ run' = "wait"
    /\ IF storedState # "None"
       THEN /\ mPendingDesiredStatus' = storedDesiredStatus
            /\ mHasPendingDesiredStatus' = TRUE
            /\ SetState(storedState)
       ELSE UNCHANGED <<mPendingDesiredStatus, mHasPendingDesiredStatus,
                        mUpdateState, storedState>>
    /\ UNCHANGED <<mCurrentDesiredStatus, mCancelCurrentUpdate,
                   storedDesiredStatus, actionErr, api, apiArg, activating,
                   prepared, mixed>>

\* Thread.Join() of Stop is the wait for run = "off" in Start's guard.
Stop ==
    /\ LockFree
    /\ mIsRunning
    /\ mIsRunning' = FALSE
    /\ NotifyOne
    /\ UNCHANGED <<mUpdateState, mCurrentDesiredStatus, mPendingDesiredStatus,
                   mHasPendingDesiredStatus, mCancelCurrentUpdate, storage,
                   actionErr, api, apiArg, activating, prepared, mixed>>

\* Mutant: the flag is raised only when there is something to cancel in the
\* image manager.
CancelImagesOnly ==
    /\ mCancelCurrentUpdate' = (mCancelCurrentUpdate \/ CancelsImageManager)
    /\ UNCHANGED <<mUpdateState, storedState, run>>

CancelUpdate ==
    /\ mCancelCurrentUpdate' = TRUE
    /\ UNCHANGED <<mUpdateState, storedState, run>>

StartUpdate(state) ==
    /\ SetState(state)
    /\ NotifyOne
    /\ UNCHANGED mCancelCurrentUpdate

\* ProcessDesiredStatus up to its first store of the new status. A status that
\* needs no update returns without a change. Whether a status met in state None
\* needs an update depends on the items and instances of the unit, which are not
\* part of this model: here it may always need one.
ProcessDesiredStatus(d) ==
    /\ LockFree
    /\ IF mUpdateState # "None"
       THEN d # mPendingDesiredStatus /\ CancelUpdate
       ELSE StartUpdate("Downloading")
    /\ api' = "storeDesired"
    /\ apiArg' = d
    /\ UNCHANGED <<mIsRunning, mCurrentDesiredStatus, mPendingDesiredStatus,
                   mHasPendingDesiredStatus, storedDesiredStatus, actionErr,
                   activating, prepared, mixed>>

\* Mutant: the new status is kept in memory only.
SkipDesiredStatus ==
    /\ api = "storeDesired"
    /\ api' = "storeState"
    /\ UNCHANGED <<memory, storage, run, actionErr, apiArg, activating,
                   prepared, mixed>>

StoreDesiredStatus ==
    /\ api = "storeDesired"
    /\ storedDesiredStatus' = apiArg
    /\ api' = "storeState"
    /\ UNCHANGED <<memory, storedState, run, actionErr, apiArg, activating,
                   prepared, mixed>>

\* Mutant: the new status is stored under the state of the old one.
SkipUpdateState ==
    /\ api = "storeState"
    /\ mPendingDesiredStatus' = apiArg
    /\ mHasPendingDesiredStatus' = TRUE
    /\ api' = "idle"
    /\ apiArg' = NoStatus
    /\ UNCHANGED <<mIsRunning, mUpdateState, mCurrentDesiredStatus,
                   mCancelCurrentUpdate, storage, run, actionErr, activating,
                   prepared, mixed>>

StoreUpdateState ==
    /\ api = "storeState"
    /\ storedState' = "Downloading"
    /\ mPendingDesiredStatus' = apiArg
    /\ mHasPendingDesiredStatus' = TRUE
    /\ api' = "idle"
    /\ apiArg' = NoStatus
    /\ UNCHANGED <<mIsRunning, mUpdateState, mCurrentDesiredStatus,
                   mCancelCurrentUpdate, storedDesiredStatus, run, actionErr,
                   activating, prepared, mixed>>

-----------------------------------------------------------------------------
(* The worker thread: Run().                                               *)

WaitSleep ==
    /\ run = "wait" /\ LockFree
    /\ mIsRunning /\ mUpdateState = "None"
    /\ run' = "asleep"
    /\ UNCHANGED <<memory, storage, actionErr, api, apiArg, activating,
                   prepared, mixed>>

WaitExit ==
    /\ run = "wait" /\ LockFree
    /\ ~mIsRunning
    /\ run' = "off"
    /\ UNCHANGED <<memory, storage, actionErr, api, apiArg, activating,
                   prepared, mixed>>

PickUp ==
    /\ run = "wait" /\ LockFree
    /\ mIsRunning /\ mUpdateState # "None"
    /\ mCurrentDesiredStatus' = mPendingDesiredStatus
    /\ mHasPendingDesiredStatus' = FALSE
    /\ run' = "loop"
    /\ mixed' = IF mCancelCurrentUpdate /\ mUpdateState \in AfterDownload
                THEN "race" ELSE mixed
    /\ UNCHANGED <<mIsRunning, mUpdateState, mPendingDesiredStatus,
                   mCancelCurrentUpdate, storage, actionErr, api, apiArg,
                   activating, prepared>>

LeaveLoop ==
    /\ run = "loop"
    /\ mUpdateState = "None" \/ ~mIsRunning
    /\ run' = "finish"
    /\ UNCHANGED <<memory, storage, actionErr, api, apiArg, activating,
                   prepared, mixed>>

PassPending ==
    /\ run = "loop" /\ mIsRunning
    /\ mUpdateState = "Pending"
    /\ SetState("Installing")
    /\ UNCHANGED <<mIsRunning, mCurrentDesiredStatus, mPendingDesiredStatus,
                   mHasPendingDesiredStatus, mCancelCurrentUpdate,
                   storedDesiredStatus, run, actionErr, api, apiArg,
                   activating, prepared, mixed>>

BeginAction ==
    /\ run = "loop" /\ mIsRunning
    /\ mUpdateState \notin {"None", "Pending"}
    /\ run' = IF mUpdateState = "WaitingActive" THEN "check" ELSE "action"
    /\ prepared' = IF mUpdateState = "Downloading" THEN NoStatus ELSE prepared
    /\ mixed' = IF mUpdateState = "Downloading" THEN "no" ELSE mixed
    /\ UNCHANGED <<memory, storage, actionErr, api, apiArg, activating>>

\* DownloadUpdateItems, InstallDesiredStatus, LaunchInstances, FinalizeUpdate:
\* the calls into the image manager, node handler, unit config and launcher.
ActionReturn(err) ==
    /\ run = "action"
    /\ mUpdateState = "Installing" => ~err
    /\ run' = "returned"
    /\ actionErr' = err
    /\ prepared' = IF mUpdateState = "Downloading" /\ ~err
                   THEN mCurrentDesiredStatus ELSE prepared
    /\ activating' \in IF mUpdateState = "Launching" THEN BOOLEAN
                                                     ELSE {activating}
    /\ UNCHANGED <<memory, storage, api, apiArg, mixed>>

\* WaitInstancesActive up to the wait; mIsRunning is read without the lock.
WaitInstancesActive(err) ==
    /\ run = "check"
    /\ err => mIsRunning
    /\ run' = IF mIsRunning /\ ~err /\ activating THEN "prewait"
                                                  ELSE "returned"
    /\ actionErr' = err
    /\ UNCHANGED <<memory, storage, api, apiArg, activating, prepared, mixed>>

TimedWait ==
    /\ run = "prewait" /\ LockFree
    /\ run' = "timed"
    /\ UNCHANGED <<memory, storage, actionErr, api, apiArg, activating,
                   prepared, mixed>>

WaitActiveTimeout ==
    /\ run = "timed" /\ LockFree
    /\ run' = "returned"
    /\ actionErr' = TRUE
    /\ UNCHANGED <<memory, storage, api, apiArg, activating, prepared, mixed>>

\* Mutant: the cancel flag is not looked at after an action.
AfterActionAnyway ==
    /\ run = "returned" /\ LockFree
    /\ SetState(IF actionErr THEN "None" ELSE NextState[mUpdateState])
    /\ run' = "loop"
    /\ actionErr' = FALSE
    /\ UNCHANGED <<mIsRunning, mCurrentDesiredStatus, mPendingDesiredStatus,
                   mHasPendingDesiredStatus, mCancelCurrentUpdate,
                   storedDesiredStatus, api, apiArg, activating, prepared,
                   mixed>>

AfterAction ==
    /\ run = "returned" /\ LockFree
    /\ IF mCancelCurrentUpdate
       THEN run' = "finish" /\ UNCHANGED <<mUpdateState, storedState>>
       ELSE /\ SetState(IF actionErr THEN "None" ELSE NextState[mUpdateState])
            /\ run' = "loop"
    /\ actionErr' = FALSE
    /\ UNCHANGED <<mIsRunning, mCurrentDesiredStatus, mPendingDesiredStatus,
                   mHasPendingDesiredStatus, mCancelCurrentUpdate,
                   storedDesiredStatus, api, apiArg, activating, prepared,
                   mixed>>

Finish ==
    /\ run = "finish"
    /\ mCancelCurrentUpdate' = FALSE
    /\ IF mCancelCurrentUpdate \/ mHasPendingDesiredStatus
       THEN SetState("Downloading")
       ELSE UNCHANGED <<mUpdateState, storedState>>
    /\ run' = "wait"
    /\ UNCHANGED <<mIsRunning, mCurrentDesiredStatus, mPendingDesiredStatus,
                   mHasPendingDesiredStatus, storedDesiredStatus, actionErr,
                   api, apiArg, activating, prepared, mixed>>

-----------------------------------------------------------------------------
(* The environment.                                                        *)

\* The launcher notifies its listeners, without the handler's lock.
OnInstancesStatusesChanged ==
    /\ activating' \in BOOLEAN
    /\ NotifyOne
    /\ UNCHANGED <<memory, storage, actionErr, api, apiArg, prepared, mixed>>

\* The process dies: memory goes, storage stays.
Crash ==
    /\ mIsRunning' = FALSE
    /\ mUpdateState' = "None"
    /\ mCurrentDesiredStatus' = NoStatus
    /\ mPendingDesiredStatus' = NoStatus
    /\ mHasPendingDesiredStatus' = FALSE
    /\ mCancelCurrentUpdate' = FALSE
    /\ run' = "off"
    /\ actionErr' = FALSE
    /\ api' = "idle"
    /\ apiArg' = NoStatus
    /\ activating' \in BOOLEAN
    /\ mixed' = IF api = "storeState" THEN "crash" ELSE mixed
    /\ UNCHANGED <<storage, prepared>>

ApiNext ==
    \/ Start
    \/ Stop
    \/ \E d \in DesiredStatuses : ProcessDesiredStatus(d)
    \/ StoreDesiredStatus
    \/ StoreUpdateState

RunNext ==
    \/ WaitSleep
    \/ WaitExit
    \/ PickUp
    \/ LeaveLoop
    \/ PassPending
    \/ BeginAction
    \/ \E err \in BOOLEAN : ActionReturn(err)
    \/ \E err \in BOOLEAN : WaitInstancesActive(err)
    \/ TimedWait
    \/ WaitActiveTimeout
    \/ AfterAction
    \/ Finish

Next == ApiNext \/ RunNext \/ OnInstancesStatusesChanged \/ Crash

Spec == Init /\ [][Next]_vars

-----------------------------------------------------------------------------
\* An update that is past Downloading works on the status whose download
\* completed last: nothing is installed, launched or finalized that was not
\* downloaded (Run, ProcessDesiredStatus, Start). There are exactly two
\* exceptions: a crash between the two stores of ProcessDesiredStatus, and a
\* status that arrives between Start's resumption of an update and the moment
\* the worker picks it up.
OnlyDownloadedProceeds ==
    InUpdate /\ mUpdateState \in AfterDownload
        => prepared = mCurrentDesiredStatus \/ mixed # "no"

\* The same, without allowing for the status that arrives during a resumption.
ResumedUpdateIsDownloaded ==
    InUpdate /\ mUpdateState \in AfterDownload
        => prepared = mCurrentDesiredStatus \/ mixed = "crash"

\* A desired status that arrives while the worker is busy with an update always
\* has that update canceled, so it is picked up next and never forgotten
\* (ProcessDesiredStatus, CancelUpdate against Run).
NewStatusCancels ==
    InUpdate /\ mHasPendingDesiredStatus => mCancelCurrentUpdate

\* Whenever the handler runs and mMutex is free, storage holds what a restart
\* has to resume: the newest status, with the current state, or with
\* Downloading when the current update is being canceled for that status
\* (SetState, ProcessDesiredStatus).
StorageFollowsState ==
    mIsRunning /\ LockFree =>
        /\ \/ storedState = mUpdateState
           \/ mCancelCurrentUpdate /\ storedState = "Downloading"
        /\ mUpdateState # "None" => storedDesiredStatus = mPendingDesiredStatus

\* A status ProcessDesiredStatus has accepted and the worker has not picked up
\* yet is in storage together with a state that makes Start resume it, so a
\* crash does not lose it.
AcceptedIsDurable ==
    api = "idle" /\ mHasPendingDesiredStatus =>
        /\ storedDesiredStatus = mPendingDesiredStatus
        /\ storedState # "None"

\* A canceled update advances no further: once the flag is up the state changes
\* only when the worker is done with it (Run leaves its loop before SetState).
CanceledUpdateStops ==
    [][mCancelCurrentUpdate /\ mixed # "race" /\ InUpdate /\ InUpdate'
         => mUpdateState' = mUpdateState]_vars
=============================================================================
