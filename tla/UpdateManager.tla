---------------------------- MODULE UpdateManager ---------------------------
(***************************************************************************)
(* The update manager with the image manager it drives: the desired status *)
(* handler (DesiredStatusHandler) calls DownloadUpdateItems and             *)
(* InstallUpdateItems of the image manager from its worker thread and       *)
(* Cancel from its API threads (ImageManagerGate).                          *)
(***************************************************************************)
EXTENDS DesiredStatusHandler

VARIABLES mInProgress, mCancel, op

INSTANCE ImageManagerGate WITH Callers <- {"worker"}

imageManager == <<mInProgress, mCancel, op>>
umVars == <<vars, imageManager>>

UMInit == Init /\ GateInit

\* The states whose action is a call of the image manager.
CallsImageManager == mUpdateState \in {"Downloading", "Finalizing"}

UMBeginAction ==
    /\ BeginAction
    /\ IF CallsImageManager THEN Call("worker") ELSE UNCHANGED imageManager

UMActionReturn(err) ==
    /\ ActionReturn(err)
    /\ IF CallsImageManager
       THEN /\ Return("worker")
            /\ err = (op["worker"] # "ok")
       ELSE UNCHANGED imageManager

\* Mutant: a new status leaves the download of the old one alone.
UMProcessWithoutCancel(d) == ProcessDesiredStatus(d) /\ UNCHANGED imageManager

UMProcessDesiredStatus(d) ==
    /\ ProcessDesiredStatus(d)
    /\ IF CancelsImageManager /\ ~mCancelCurrentUpdate
       THEN Cancel
       ELSE UNCHANGED imageManager

\* Mutant: Stop leaves a download alone.
UMStopWithoutCancel == Stop /\ UNCHANGED imageManager

UMStop ==
    /\ Stop
    /\ IF CancelsImageManager THEN Cancel ELSE UNCHANGED imageManager

UMCrash ==
    /\ Crash
    /\ GateRestart

\* The worker outside the image manager.
UMRunNext ==
    \/ UMBeginAction
    \/ \E err \in BOOLEAN : UMActionReturn(err)
    \/ /\ \/ WaitSleep
          \/ WaitExit
          \/ PickUp
          \/ LeaveLoop
          \/ PassPending
          \/ \E err \in BOOLEAN : WaitInstancesActive(err)
          \/ TimedWait
          \/ WaitActiveTimeout
          \/ AfterAction
          \/ Finish
       /\ UNCHANGED imageManager

\* The worker inside the image manager.
UMGateStep == GateStep("worker") /\ UNCHANGED vars

UMNext ==
    \/ UMRunNext
    \/ UMGateStep
    \/ \E d \in DesiredStatuses : UMProcessDesiredStatus(d)
    \/ UMStop
    \/ UMCrash
    \/ /\ Start \/ StoreDesiredStatus \/ StoreUpdateState
             \/ OnInstancesStatusesChanged
       /\ UNCHANGED imageManager

UMSpec == UMInit /\ [][UMNext]_umVars

\* The worker thread is scheduled and gets mMutex when it is free again and
\* again; an API call, once it holds the lock, runs to its end. A download need
\* not end by itself: the image manager retries for as long as the cloud does
\* not answer. It ends when it sees mCancel; an install works on local data and
\* ends.
UMFairness ==
    /\ SF_umVars(UMRunNext)
    /\ WF_umVars((StoreDesiredStatus \/ StoreUpdateState) /\ UNCHANGED imageManager)
    /\ WF_umVars(StartAction("worker") /\ UNCHANGED vars)
    /\ WF_umVars(SeeCancel("worker") /\ UNCHANGED vars)
    /\ WF_umVars(StopAction("worker", "canceled") /\ UNCHANGED vars)
    /\ WF_umVars(/\ mUpdateState = "Finalizing"
                 /\ \E result \in Results : StopAction("worker", result)
                 /\ UNCHANGED vars)

UMFairSpec == UMSpec /\ UMFairness

-----------------------------------------------------------------------------
\* A download that is still going on after Stop has been told to end, so Join
\* does not wait for the cloud (Stop against DownloadUpdateItems).
StopReachesDownload ==
    op["worker"] = "running" /\ mUpdateState = "Downloading" /\ ~mIsRunning
        => mCancel

\* An image manager operation comes back canceled only when the handler is
\* canceling that update or stopping: "Send new desired status to cancel current
\* update", after which the new one is downloaded and launched
\* (cm/updatemanager/tests/updatemanager.cpp:897).
CanceledOnPurpose ==
    op["worker"] = "canceled" => mCancelCurrentUpdate \/ ~mIsRunning

\* Stop ends: once mIsRunning is cleared the worker thread leaves Run, so Join
\* returns, even if the notification is lost on the way to the timed wait, and
\* even when the download it meets would retry for ever.
UMStopTerminates == ~mIsRunning ~> run = "off"

\* An accepted status is picked up even when the download it replaces would
\* retry for ever, unless the launcher reports status changes for ever (each one
\* restarts the timeout of WaitInstancesActive) or the worker thread was left
\* with the cancel flag up when it ended: CancelUpdate then returns at once for
\* every later status, and none of them reaches the download.
UMPendingIsPickedUp ==
    <>[][~OnInstancesStatusesChanged]_umVars
        /\ [](run = "off" => ~mCancelCurrentUpdate)
        => (mHasPendingDesiredStatus ~> ~mHasPendingDesiredStatus \/ ~mIsRunning)
=============================================================================
