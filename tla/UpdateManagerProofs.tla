------------------------- MODULE UpdateManagerProofs -------------------------
(***************************************************************************)
(* Proofs about UpdateManager: the composition implements the desired       *)
(* status handler, so what is proved of the handler holds of it, and the    *)
(* cancel of Stop reaches a download.                                       *)
(***************************************************************************)
EXTENDS UpdateManager, DesiredStatusHandlerProofs

\* The steps of the composition are steps of the handler, or the image manager moves
\* while the handler waits for it.
LEMMA StepImplements == [UMNext]_umVars => [Next]_vars
<1> SUFFICES ASSUME [UMNext]_umVars PROVE [Next]_vars
  OBVIOUS
<1> USE DEF Next, ApiNext, RunNext
<1>1. CASE UMRunNext
  <2>1. CASE UMBeginAction
    BY <2>1 DEF UMBeginAction
  <2>2. CASE \E err \in BOOLEAN : UMActionReturn(err)
    BY <2>2 DEF UMActionReturn
  <2> QED
    BY <1>1, <2>1, <2>2 DEF UMRunNext
<1>2. CASE UMGateStep
  BY <1>2 DEF UMGateStep
<1>3. CASE \E d \in DesiredStatuses : UMProcessDesiredStatus(d)
  BY <1>3 DEF UMProcessDesiredStatus
<1>4. CASE UMStop
  BY <1>4 DEF UMStop
<1>5. CASE UMCrash
  BY <1>5 DEF UMCrash
<1>6. CASE Start \/ StoreDesiredStatus \/ StoreUpdateState
              \/ OnInstancesStatusesChanged
  BY <1>6
<1>7. CASE UNCHANGED umVars
  BY <1>7 DEF umVars
<1> QED
  BY <1>1, <1>2, <1>3, <1>4, <1>5, <1>6, <1>7 DEF UMNext

\* The update manager with the image manager's gate implements the specification of the
\* desired status handler, in which the calls of the image manager end with any result.
THEOREM ImplementsHandler == UMSpec => Spec
<1>1. UMInit => Init
  BY DEF UMInit
<1> QED
  BY <1>1, StepImplements, PTL DEF UMSpec, Spec

\* What the handler guarantees by itself it guarantees together with the image manager:
\* only what was downloaded proceeds, a new status cancels, storage can be resumed, and
\* a canceled update advances no further.
THEOREM HandlerSafe ==
    UMSpec => /\ [](/\ OnlyDownloadedProceeds /\ NewStatusCancels
                    /\ StorageFollowsState /\ AcceptedIsDurable)
              /\ CanceledUpdateStops
  BY ImplementsHandler, DownloadedSafe, CancelSafe, StorageSafe, DurableSafe, CanceledSafe,
     PTL

-----------------------------------------------------------------------------
\* The worker is in the image manager only in an action that calls it; a download on
\* its way into the image manager is canceled by Stop like one that runs.
InActionInv ==
    op["worker"] # "idle" => run = "action" /\ CallsImageManager

CanceledInv ==
    op["worker"] \in {"starting", "blocked", "running"}
        /\ mUpdateState = "Downloading" /\ ~mIsRunning
        => mCancel

ReachInv == GateTypeOK /\ InActionInv /\ CanceledInv

\* No step of the composition lets the cancel of Stop get lost on a download that has
\* not ended.
LEMMA ReachStep == ReachInv /\ [UMNext]_umVars => ReachInv'
<1> SUFFICES ASSUME ReachInv, [UMNext]_umVars PROVE ReachInv'
  OBVIOUS
<1> USE DEF ReachInv, GateTypeOK, InActionInv, CanceledInv, CallsImageManager, Results,
            memory, storage
<1>1. CASE UMBeginAction
  <2>1. /\ run = "loop" /\ mIsRunning /\ UNCHANGED <<mIsRunning, mUpdateState>>
        /\ mUpdateState # "WaitingActive" => run' = "action"
    BY <1>1 DEF UMBeginAction, BeginAction
  <2>2. CASE CallsImageManager
    <3>1. op' = [op EXCEPT !["worker"] = "starting"] /\ UNCHANGED <<mInProgress, mCancel>>
      BY <1>1, <2>2 DEF UMBeginAction, Call
    <3> QED
      BY <2>1, <2>2, <3>1
  <2>3. CASE ~CallsImageManager
    <3>1. UNCHANGED <<mInProgress, mCancel, op>>
      BY <1>1, <2>3 DEF UMBeginAction, imageManager
    <3> QED
      BY <2>1, <2>3, <3>1
  <2> QED
    BY <2>2, <2>3
<1>2. ASSUME NEW err \in BOOLEAN, UMActionReturn(err) PROVE ReachInv'
  <2>1. UNCHANGED <<mIsRunning, mUpdateState>>
    BY <1>2 DEF UMActionReturn, ActionReturn
  <2>2. CASE CallsImageManager
    <3>1. op' = [op EXCEPT !["worker"] = "idle"] /\ UNCHANGED <<mInProgress, mCancel>>
      BY <1>2, <2>2 DEF UMActionReturn, Return
    <3> QED
      BY <2>1, <3>1
  <2>3. CASE ~CallsImageManager
    <3>1. UNCHANGED <<mInProgress, mCancel, op>>
      BY <1>2, <2>3 DEF UMActionReturn, imageManager
    <3> QED
      BY <2>1, <2>3, <3>1
  <2> QED
    BY <2>2, <2>3
<1>3. CASE /\ \/ WaitSleep \/ WaitExit \/ PickUp \/ LeaveLoop \/ PassPending
              \/ (\E err \in BOOLEAN : WaitInstancesActive(err)) \/ TimedWait
              \/ WaitActiveTimeout \/ AfterAction \/ Finish
           /\ UNCHANGED imageManager
  <2>1. run # "action"
    BY <1>3 DEF WaitSleep, WaitExit, PickUp, LeaveLoop, PassPending,
                WaitInstancesActive, TimedWait, WaitActiveTimeout, AfterAction, Finish
  <2>2. UNCHANGED <<mInProgress, mCancel, op>>
    BY <1>3 DEF imageManager
  <2> QED
    BY <2>1, <2>2
<1>4. CASE UMGateStep
  <2>1. UNCHANGED <<run, mUpdateState, mIsRunning>>
    BY <1>4 DEF UMGateStep, vars
  <2>2. CASE StartAction("worker")
    <3>1. CASE mCancel
      BY <2>1, <2>2, <3>1 DEF StartAction
    <3>2. CASE ~mCancel
      <4>1. /\ UNCHANGED mCancel /\ mInProgress' \in BOOLEAN /\ op["worker"] = "starting"
            /\ \/ op' = [op EXCEPT !["worker"] = "running"]
               \/ op' = [op EXCEPT !["worker"] = "blocked"]
        BY <2>2, <3>2 DEF StartAction
      <4> QED
        BY <2>1, <4>1
    <3> QED
      BY <3>1, <3>2
  <2>3. CASE SeeCancel("worker")
    BY <2>1, <2>3 DEF SeeCancel
  <2>4. ASSUME NEW result \in Results, StopAction("worker", result) PROVE ReachInv'
    <3>1. /\ UNCHANGED mCancel /\ mInProgress' = FALSE /\ op["worker"] # "idle"
          /\ op' = NotifyAll([op EXCEPT !["worker"] = result])
      BY <2>4 DEF StopAction
    <3>2. op'["worker"] = result /\ GateTypeOK'
      BY <3>1 DEF NotifyAll
    <3> QED
      BY <2>1, <3>1, <3>2
  <2> QED
    BY <1>4, <2>2, <2>3, <2>4 DEF UMGateStep, GateStep
<1>5. ASSUME NEW d \in DesiredStatuses, UMProcessDesiredStatus(d) PROVE ReachInv'
  <2>1. /\ UNCHANGED mIsRunning
        /\ run = "action" => run' = "action"
        /\ mUpdateState # "None" => UNCHANGED mUpdateState
    BY <1>5 DEF UMProcessDesiredStatus, ProcessDesiredStatus, CancelUpdate, StartUpdate,
                NotifyOne
  <2>2. CASE Cancel
    BY <2>1, <2>2 DEF Cancel, NotifyAll
  <2>3. CASE UNCHANGED imageManager
    BY <2>1, <2>3 DEF imageManager
  <2> QED
    BY <1>5, <2>2, <2>3 DEF UMProcessDesiredStatus
<1>6. CASE UMStop
  <2>1. UNCHANGED mUpdateState /\ (run = "action" => run' = "action")
    BY <1>6 DEF UMStop, Stop, NotifyOne
  <2>2. CASE Cancel
    BY <2>1, <2>2 DEF Cancel, NotifyAll
  <2>3. CASE ~CancelsImageManager /\ UNCHANGED imageManager
    BY <2>1, <2>3 DEF imageManager, CancelsImageManager
  <2> QED
    BY <1>6, <2>2, <2>3 DEF UMStop
<1>7. CASE UMCrash
  BY <1>7 DEF UMCrash, GateRestart
<1>8. CASE /\ Start \/ StoreDesiredStatus \/ StoreUpdateState
                  \/ OnInstancesStatusesChanged
           /\ UNCHANGED imageManager
  <2>1. UNCHANGED <<mInProgress, mCancel, op>>
    BY <1>8 DEF imageManager
  <2>2. CASE Start
    BY <2>1, <2>2 DEF Start
  <2>3. CASE StoreDesiredStatus \/ StoreUpdateState
    <3>1. UNCHANGED <<run, mUpdateState, mIsRunning>>
      BY <2>3 DEF StoreDesiredStatus, StoreUpdateState
    <3> QED
      BY <2>1, <3>1
  <2>4. CASE OnInstancesStatusesChanged
    <3>1. /\ UNCHANGED <<mUpdateState, mIsRunning>>
          /\ run = "action" => run' = "action"
      BY <2>4 DEF OnInstancesStatusesChanged, NotifyOne
    <3> QED
      BY <2>1, <3>1
  <2> QED
    BY <1>8, <2>2, <2>3, <2>4
<1>9. CASE UNCHANGED umVars
  BY <1>9 DEF umVars, vars, imageManager
<1> QED
  BY <1>1, <1>2, <1>3, <1>4, <1>5, <1>6, <1>7, <1>8, <1>9 DEF UMNext, UMRunNext

\* A download that goes on after Stop has been told to end, whatever statuses, crashes
\* and restarts came before: Join does not wait for the cloud.
THEOREM StopReaches == UMSpec => []StopReachesDownload
<1>1. UMInit => ReachInv
  BY DEF UMInit, GateInit, ReachInv, GateTypeOK, InActionInv, CanceledInv, Results
<1>2. ReachInv => StopReachesDownload
  BY DEF ReachInv, CanceledInv, StopReachesDownload
<1> QED
  BY <1>1, <1>2, ReachStep, PTL DEF UMSpec
=============================================================================
