------------------------- MODULE UnitStatusHandler --------------------------
(***************************************************************************)
(* The unit status handler of the CM update manager                        *)
(* (cm/updatemanager/unitstatushandler.cpp): full unit statuses, collected *)
(* part by part without the lock, and delta statuses, gathered by the      *)
(* listeners and sent by a one-shot timer.                                 *)
(*                                                                         *)
(* A part (unit config, nodes, items, instances, subjects) is abstracted   *)
(* to how the value mUnitStatus holds for it compares with the value its   *)
(* provider has now. A step is a locked section, or one access to          *)
(* mUnitStatus of the sections that run without the lock.                  *)
(***************************************************************************)
EXTENDS Naturals, Sequences

CONSTANTS Parts,          \* the parts, in the order SendFullUnitStatus sets them
          ConfigPart,     \* the part SetUpdateUnitConfigStatus updates
          ConnectThread   \* the thread that runs OnConnect

ASSUME PartsAssumption == Parts \in Seq(STRING) \ {<<>>}

\* The cloud connection does not run in the worker of the desired status handler.
ASSUME ThreadAssumption == ConnectThread \in STRING \ {"update"}

PartSet == {Parts[i] : i \in DOMAIN Parts}

\* "update" is the worker of the desired status handler.
Threads == {"update", ConnectThread}

\* The timer service runs callbacks in two threads (cInvocationThreadsCount).
Invokers == {1, 2}

VARIABLES mCloudConnected, mIsStatusProcessing, mIsDeltaInfo,
          mUnitStatus,  \* part -> "none", "new" (what the provider has), "old"
          mTimerStarted,
          timer,        \* the timer is registered
          callback,     \* invoker -> position in the callback
          full,         \* thread -> position in SendFullUnitStatus
          next,         \* thread -> index of the next part to set
          reported,     \* ghost: parts whose present value the cloud knows
          excused,      \* ghost: parts lost to a drop, a failed send or a hole
          skipped       \* ghost: OnConnect sent nothing, and none was sent since

vars == <<mCloudConnected, mIsStatusProcessing, mIsDeltaInfo, mUnitStatus,
          mTimerStarted, timer, callback, full, next, reported, excused, skipped>>

TypeOK ==
    /\ mCloudConnected \in BOOLEAN
    /\ mIsStatusProcessing \in BOOLEAN
    /\ mIsDeltaInfo \in BOOLEAN
    /\ mUnitStatus \in [PartSet -> {"none", "new", "old"}]
    /\ mTimerStarted \in BOOLEAN
    /\ timer \in BOOLEAN
    /\ callback \in [Invokers -> {"idle", "invoked", "stopped", "send"}]
    /\ full \in [Threads -> {"idle", "enter", "mark", "set", "send", "clear",
                         "stop", "leave"}]
    /\ next \in [Threads -> 1..Len(Parts)]
    /\ reported \subseteq PartSet
    /\ excused \subseteq PartSet
    /\ skipped \in BOOLEAN

Init ==
    /\ mCloudConnected = FALSE
    /\ mIsStatusProcessing = FALSE
    /\ mIsDeltaInfo = FALSE
    /\ mUnitStatus = [p \in PartSet |-> "none"]
    /\ mTimerStarted = FALSE
    /\ timer = FALSE
    /\ callback = [i \in Invokers |-> "idle"]
    /\ full = [t \in Threads |-> "idle"]
    /\ next = [t \in Threads |-> 1]
    /\ reported = {}
    /\ excused = {}
    /\ skipped = FALSE

-----------------------------------------------------------------------------
\* Mutant: a timer that was started before is not restarted.
StartTimerOnce ==
    /\ mTimerStarted' = TRUE
    /\ timer' = (timer \/ ~mTimerStarted)

StartTimer == mTimerStarted' = TRUE /\ timer' = TRUE

\* mMutex is held across steps only by the callback that sends a delta.
LockFree == \A i \in Invokers : callback[i] # "send"

EmptyStatus == [p \in PartSet |-> "none"]

\* The cloud gets the parts held, each as new as it is, or nothing.
SendUnitStatus(ok, asFull) ==
    LET held == {p \in PartSet : mUnitStatus[p] # "none"}
        news == {p \in held : mUnitStatus[p] = "new"}
    IN  IF ok
        THEN /\ reported' = (reported \ held) \cup news
             /\ excused' = (excused \ news)
                              \cup (IF asFull THEN PartSet \ held ELSE {})
        ELSE /\ excused' = excused \cup held
             /\ UNCHANGED reported

-----------------------------------------------------------------------------
(* The connection.                                                         *)

OnConnect ==
    /\ ~mCloudConnected
    /\ LockFree
    /\ full[ConnectThread] = "idle"
    /\ mCloudConnected' = TRUE
    /\ full' = IF mIsStatusProcessing THEN full
                                      ELSE [full EXCEPT ![ConnectThread] = "enter"]
    /\ skipped' = mIsStatusProcessing
    /\ UNCHANGED <<mIsStatusProcessing, mIsDeltaInfo, mUnitStatus,
                   mTimerStarted, timer, callback, next, reported, excused>>

\* What the cloud knew is of no use after the connection is lost.
OnDisconnect ==
    /\ mCloudConnected
    /\ LockFree
    /\ mCloudConnected' = FALSE
    /\ timer' = FALSE
    /\ reported' = {}
    /\ excused' = IF mIsStatusProcessing THEN excused ELSE {}
    /\ UNCHANGED <<mIsStatusProcessing, mIsDeltaInfo, mUnitStatus,
                   mTimerStarted, callback, full, next, skipped>>

-----------------------------------------------------------------------------
(* SendFullUnitStatus, called by OnConnect and by the end of an update.     *)

FinishUpdate ==
    /\ full["update"] = "idle"
    /\ full' = [full EXCEPT !["update"] = "enter"]
    /\ UNCHANGED <<mCloudConnected, mIsStatusProcessing, mIsDeltaInfo,
                   mUnitStatus, mTimerStarted, timer, callback, next, reported,
                   excused, skipped>>

EnterFull(t) ==
    /\ full[t] = "enter" /\ LockFree
    /\ IF mCloudConnected
       THEN /\ mIsStatusProcessing' = TRUE
            /\ full' = [full EXCEPT ![t] = "mark"]
       ELSE /\ full' = [full EXCEPT ![t] = "idle"]
            /\ UNCHANGED mIsStatusProcessing
    /\ UNCHANGED <<mCloudConnected, mIsDeltaInfo, mUnitStatus, mTimerStarted, timer,
                   callback, next, reported, excused, skipped>>

MarkFull(t) ==
    /\ full[t] = "mark"
    /\ mIsDeltaInfo' = FALSE
    /\ full' = [full EXCEPT ![t] = "set"]
    /\ UNCHANGED <<mCloudConnected, mIsStatusProcessing, mUnitStatus,
                   mTimerStarted, timer, callback, next, reported, excused, skipped>>

\* Mutant: one part more than there are.
SetPartTooMany(t, ok) ==
    /\ full[t] = "set"
    /\ ok
    /\ mUnitStatus' = [mUnitStatus EXCEPT ![Parts[next[t]]] = "new"]
    /\ IF next[t] > Len(Parts)
       THEN /\ full' = [full EXCEPT ![t] = "send"]
            /\ next' = [next EXCEPT ![t] = 1]
       ELSE /\ next' = [next EXCEPT ![t] = @ + 1]
            /\ UNCHANGED full
    /\ UNCHANGED <<mCloudConnected, mIsStatusProcessing, mIsDeltaInfo,
                   mTimerStarted, timer, callback, reported, excused, skipped>>

\* SetUnitConfigStatus, SetNodesInfo, SetUpdateItemsStatus, ... An error
\* returns at once, with mIsStatusProcessing still set.
SetPart(t, ok) ==
    /\ full[t] = "set"
    /\ LET p == Parts[next[t]]
       IN  IF ok
           THEN /\ mUnitStatus' = [mUnitStatus EXCEPT ![p] = "new"]
                /\ IF next[t] = Len(Parts)
                   THEN /\ full' = [full EXCEPT ![t] = "send"]
                        /\ next' = [next EXCEPT ![t] = 1]
                   ELSE /\ next' = [next EXCEPT ![t] = @ + 1]
                        /\ UNCHANGED full
                /\ UNCHANGED excused
           ELSE /\ full' = [full EXCEPT ![t] = "idle"]
                /\ next' = [next EXCEPT ![t] = 1]
                /\ excused' = PartSet
                /\ UNCHANGED mUnitStatus
    /\ UNCHANGED <<mCloudConnected, mIsStatusProcessing, mIsDeltaInfo,
                   mTimerStarted, timer, callback, reported, skipped>>

SendFull(t, ok) ==
    /\ full[t] = "send"
    /\ ok => mCloudConnected
    /\ SendUnitStatus(ok, TRUE)
    /\ full' = [full EXCEPT ![t] = IF ok THEN "clear" ELSE "idle"]
    /\ skipped' = (skipped /\ ~ok)
    /\ UNCHANGED <<mCloudConnected, mIsStatusProcessing, mIsDeltaInfo,
                   mUnitStatus, mTimerStarted, timer, callback, next>>

\* A change made since the full status was sent is lost with the status, or
\* with the timer.
Unsent == {p \in PartSet : mUnitStatus[p] = "new"} \ reported

ClearUnitStatus(t) ==
    /\ full[t] = "clear"
    /\ excused' = excused \cup Unsent
    /\ mUnitStatus' = EmptyStatus
    /\ mIsDeltaInfo' = FALSE
    /\ full' = [full EXCEPT ![t] = "stop"]
    /\ UNCHANGED <<mCloudConnected, mIsStatusProcessing, mTimerStarted, timer,
                   callback, next, reported, skipped>>

StopTimer(t) ==
    /\ full[t] = "stop"
    /\ timer' = FALSE
    /\ excused' = excused \cup Unsent
    /\ full' = [full EXCEPT ![t] = "leave"]
    /\ UNCHANGED <<mCloudConnected, mIsStatusProcessing, mIsDeltaInfo,
                   mUnitStatus, mTimerStarted, callback, next, reported, skipped>>

LeaveFull(t) ==
    /\ full[t] = "leave" /\ LockFree
    /\ mIsStatusProcessing' = FALSE
    /\ full' = [full EXCEPT ![t] = "idle"]
    /\ UNCHANGED <<mCloudConnected, mIsDeltaInfo, mUnitStatus, mTimerStarted,
                   timer, callback, next, reported, excused, skipped>>

-----------------------------------------------------------------------------
(* The listeners. A provider's value changes and it calls the handler.     *)

\* Mutant: a change is ignored when a delta is already on its way.
OnChangedOnce(p) ==
    /\ p # ConfigPart /\ LockFree
    /\ reported' = reported \ {p}
    /\ IF ~mCloudConnected \/ mIsStatusProcessing \/ mTimerStarted
       THEN /\ mUnitStatus' = [mUnitStatus EXCEPT
                                  ![p] = IF @ = "new" THEN "old" ELSE @]
            /\ UNCHANGED <<mTimerStarted, timer, excused>>
       ELSE /\ mUnitStatus' = [mUnitStatus EXCEPT ![p] = "new"]
            /\ excused' = excused \ {p}
            /\ StartTimer
    /\ UNCHANGED <<mCloudConnected, mIsStatusProcessing, mIsDeltaInfo,
                   callback, full, next, skipped>>

\* OnNodeInfoChanged, OnItemsStatusesChanged, OnInstancesStatusesChanged and
\* SubjectsChanged: a change is dropped while a full status is in the making.
OnChanged(p) ==
    /\ p # ConfigPart /\ LockFree
    /\ reported' = reported \ {p}
    /\ IF ~mCloudConnected \/ mIsStatusProcessing
       THEN /\ mUnitStatus' = [mUnitStatus EXCEPT
                                  ![p] = IF @ = "new" THEN "old" ELSE @]
            /\ excused' = IF mIsStatusProcessing THEN excused \cup {p} ELSE excused
            /\ UNCHANGED <<mTimerStarted, timer>>
       ELSE /\ mUnitStatus' = [mUnitStatus EXCEPT ![p] = "new"]
            /\ excused' = excused \ {p}
            /\ StartTimer
    /\ UNCHANGED <<mCloudConnected, mIsStatusProcessing, mIsDeltaInfo,
                   callback, full, next, skipped>>

\* Called by the worker of the desired status handler, between its full ones.
SetUpdateUnitConfigStatus ==
    /\ full["update"] = "idle" /\ LockFree
    /\ reported' = reported \ {ConfigPart}
    /\ IF mCloudConnected
       THEN /\ mUnitStatus' = [mUnitStatus EXCEPT ![ConfigPart] = "new"]
            /\ excused' = excused \ {ConfigPart}
            /\ StartTimer
       ELSE /\ mUnitStatus' = [mUnitStatus EXCEPT
                                  ![ConfigPart] = IF @ = "new" THEN "old" ELSE @]
            /\ UNCHANGED <<mTimerStarted, timer, excused>>
    /\ UNCHANGED <<mCloudConnected, mIsStatusProcessing, mIsDeltaInfo,
                   callback, full, next, skipped>>

-----------------------------------------------------------------------------
(* The timer.                                                              *)

Fire(i) ==
    /\ timer
    /\ callback[i] = "idle"
    /\ timer' = FALSE
    /\ callback' = [callback EXCEPT ![i] = "invoked"]
    /\ UNCHANGED <<mCloudConnected, mIsStatusProcessing, mIsDeltaInfo,
                   mUnitStatus, mTimerStarted, full, next, reported, excused,
                   skipped>>

\* The wrapper of a one-shot timer stops it before it calls the callback.
StopOneShot(i) ==
    /\ callback[i] = "invoked"
    /\ timer' = FALSE
    /\ callback' = [callback EXCEPT ![i] = "stopped"]
    /\ UNCHANGED <<mCloudConnected, mIsStatusProcessing, mIsDeltaInfo,
                   mUnitStatus, mTimerStarted, full, next, reported, excused,
                   skipped>>

MarkDelta(i) ==
    /\ callback[i] = "stopped" /\ LockFree
    /\ mIsDeltaInfo' = TRUE
    /\ callback' = [callback EXCEPT ![i] = "send"]
    /\ UNCHANGED <<mCloudConnected, mIsStatusProcessing, mUnitStatus,
                   mTimerStarted, timer, full, next, reported, excused, skipped>>

SendDelta(i, ok) ==
    /\ callback[i] = "send"
    /\ ok => mCloudConnected
    /\ SendUnitStatus(ok, ~mIsDeltaInfo)
    /\ mUnitStatus' = EmptyStatus
    /\ mIsDeltaInfo' = FALSE
    /\ mTimerStarted' = FALSE
    /\ callback' = [callback EXCEPT ![i] = "idle"]
    /\ UNCHANGED <<mCloudConnected, mIsStatusProcessing, timer, full, next,
                   skipped>>

FullStep(t) ==
    \/ EnterFull(t)
    \/ MarkFull(t)
    \/ \E ok \in BOOLEAN : SetPart(t, ok) \/ SendFull(t, ok)
    \/ ClearUnitStatus(t)
    \/ StopTimer(t)
    \/ LeaveFull(t)

TimerStep(i) ==
    \/ Fire(i)
    \/ StopOneShot(i)
    \/ MarkDelta(i)
    \/ \E ok \in BOOLEAN : SendDelta(i, ok)

Changed == (\E p \in PartSet : OnChanged(p)) \/ SetUpdateUnitConfigStatus

Next ==
    \/ OnConnect
    \/ OnDisconnect
    \/ FinishUpdate
    \/ \E t \in Threads : FullStep(t)
    \/ \E i \in Invokers : TimerStep(i)
    \/ Changed

Spec == Init /\ [][Next]_vars

\* Threads that are inside the handler go on; a registered timer fires.
Fairness == /\ \A t \in Threads : WF_vars(FullStep(t))
            /\ \A i \in Invokers : WF_vars(TimerStep(i))

FairSpec == Spec /\ Fairness

-----------------------------------------------------------------------------
Busy == \/ timer
        \/ \E i \in Invokers : callback[i] # "idle"
        \/ \E t \in Threads : full[t] # "idle"

\* When the handler has nothing left to do and is connected, the cloud knows
\* every part as it is now. The only exceptions are parts of a status that
\* could not be made or sent, and changes that came while a full status was
\* being made (the listeners, StartTimer, SendFullUnitStatus). A full status that
\* OnConnect left out is the matter of ConnectIsAnswered, and one that went out
\* with holes, because the callback of a delta cleared mUnitStatus while it was
\* being collected without the lock, is excused as well.
QuietMeansReported ==
    mCloudConnected /\ ~mIsStatusProcessing /\ ~Busy /\ ~skipped
        => PartSet \subseteq reported \cup excused

\* A connection is answered with a full status, now or by the time the handler
\* has nothing left to do: "Notify cloud connection established", after which
\* the test awaits the unit status (tests/updatemanager.cpp:517).
ConnectIsAnswered == mCloudConnected /\ ~Busy => ~skipped

\* A change that a listener has taken into mUnitStatus does not sit there
\* without anything that will send it (StartTimer against mTimer.Stop).
DeltaIsScheduled ==
    mCloudConnected /\ ~mIsStatusProcessing
        /\ (\E p \in PartSet \ excused : mUnitStatus[p] # "none") => Busy

\* A change that is taken into mUnitStatus is sent, or given up with the status
\* or the connection, once the changes stop coming (each of them restarts the
\* timer).
DeltaIsSent ==
    <>[][~Changed]_vars =>
        \A p \in PartSet :
            (mCloudConnected /\ ~mIsStatusProcessing /\ mUnitStatus[p] # "none")
              ~> (mUnitStatus[p] = "none" \/ p \in excused \/ ~mCloudConnected
                    \/ mIsStatusProcessing)
=============================================================================
