-------------------------- MODULE ImageManagerGate --------------------------
(***************************************************************************)
(* How the CM image manager serialises and cancels its long operations     *)
(* (cm/imagemanager/imagemanager.cpp): StartAction and StopAction around    *)
(* DownloadUpdateItems and InstallUpdateItems, and Cancel, which only       *)
(* raises mCancel.  What the operations do to items and blobs is the matter *)
(* of ImageManager: here an operation ends normally, with an error, or      *)
(* because it saw mCancel.                                                  *)
(***************************************************************************)
CONSTANT Callers  \* threads that call the two operations

VARIABLES mInProgress, mCancel,
          op     \* op[c]: where the operation called by c is

gateVars == <<mInProgress, mCancel, op>>

Results == {"ok", "failed", "canceled"}

\* "blocked" is asleep on mCondVar in StartAction; "seen" has read mCancel.
GateTypeOK ==
    /\ mInProgress \in BOOLEAN
    /\ mCancel \in BOOLEAN
    /\ op \in [Callers -> {"idle", "starting", "blocked", "running", "seen"}
                          \cup Results]

GateInit ==
    /\ mInProgress = FALSE
    /\ mCancel = FALSE
    /\ op = [c \in Callers |-> "idle"]

\* mCondVar.NotifyAll(), given what the operations are otherwise set to.
NotifyAll(ops) ==
    [c \in Callers |-> IF ops[c] = "blocked" THEN "starting" ELSE ops[c]]

-----------------------------------------------------------------------------
Call(c) ==
    /\ op[c] = "idle"
    /\ op' = [op EXCEPT ![c] = "starting"]
    /\ UNCHANGED <<mInProgress, mCancel>>

\* Mutant: an operation starts without waiting for the one in progress.
StartAtOnce(c) ==
    /\ op[c] = "starting"
    /\ mCancel' = FALSE
    /\ mInProgress' = (mInProgress \/ ~mCancel)
    /\ op' = [op EXCEPT ![c] = IF mCancel THEN "canceled" ELSE "running"]

StartAction(c) ==
    /\ op[c] = "starting"
    /\ \/ /\ mCancel
          /\ mCancel' = FALSE
          /\ op' = [op EXCEPT ![c] = "canceled"]
          /\ UNCHANGED mInProgress
       \/ /\ ~mCancel /\ ~mInProgress
          /\ mInProgress' = TRUE
          /\ op' = [op EXCEPT ![c] = "running"]
          /\ UNCHANGED mCancel
       \/ /\ ~mCancel /\ mInProgress
          /\ op' = [op EXCEPT ![c] = "blocked"]
          /\ UNCHANGED <<mInProgress, mCancel>>

\* An operation reads mCancel: before a blob, or in the wait between retries.
SeeCancel(c) ==
    /\ op[c] = "running"
    /\ mCancel
    /\ op' = [op EXCEPT ![c] = "seen"]
    /\ UNCHANGED <<mInProgress, mCancel>>

\* Mutant: the result of an operation is not one a caller knows.
StopActionTypo(c, result) ==
    /\ IF result = "canceled" THEN op[c] = "seen" ELSE op[c] = "running"
    /\ mInProgress' = FALSE
    /\ op' = NotifyAll([op EXCEPT ![c] = "aborted"])
    /\ UNCHANGED mCancel

StopAction(c, result) ==
    /\ IF result = "canceled" THEN op[c] = "seen" ELSE op[c] = "running"
    /\ mInProgress' = FALSE
    /\ op' = NotifyAll([op EXCEPT ![c] = result])
    /\ UNCHANGED mCancel

Return(c) ==
    /\ op[c] \in Results
    /\ op' = [op EXCEPT ![c] = "idle"]
    /\ UNCHANGED <<mInProgress, mCancel>>

\* Mutant: Cancel does not wake the operations that wait to start.
CancelSilently ==
    /\ mCancel' = TRUE
    /\ UNCHANGED <<mInProgress, op>>

Cancel ==
    /\ mCancel' = TRUE
    /\ op' = NotifyAll(op)
    /\ UNCHANGED mInProgress

\* The process dies with all its threads and starts again.
GateRestart ==
    /\ mInProgress' = FALSE
    /\ mCancel' = FALSE
    /\ op' = [c \in Callers |-> "idle"]

GateStep(c) ==
    \/ StartAction(c)
    \/ SeeCancel(c)
    \/ \E result \in Results : StopAction(c, result)

GateNext ==
    \/ \E c \in Callers : Call(c) \/ GateStep(c) \/ Return(c)
    \/ Cancel
    \/ GateRestart

GateSpec == GateInit /\ [][GateNext]_gateVars

-----------------------------------------------------------------------------
\* Downloads and installs exclude each other: two operations never work on the
\* items and blobs at a time, and mInProgress tells exactly when one does
\* (StartAction, StopAction).
MutualExclusion ==
    /\ \A c, d \in Callers :
           op[c] \in {"running", "seen"} /\ op[d] \in {"running", "seen"} => c = d
    /\ mInProgress <=> \E c \in Callers : op[c] \in {"running", "seen"}

\* No operation sleeps in StartAction while the manager is free or canceled:
\* every change of the wait condition is notified (StopAction, Cancel).
NoLostWakeup ==
    \A c \in Callers : op[c] = "blocked" => mInProgress /\ ~mCancel
=============================================================================
