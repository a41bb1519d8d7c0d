----------------------------- MODULE SmLauncher -----------------------------
(***************************************************************************)
(* The launcher of the service manager (sm/launcher). A request of the      *)
(* communication manager names the instances to stop and those to start;    *)
(* the launch thread works it off with a thread pool: stop, forget, remove  *)
(* and install update items, remember, start, report. The thread that       *)
(* starts and stops the launcher, the reboot thread and the offline TTL     *)
(* timer run beside it and meet it in mLaunchInProgress.                    *)
(*                                                                         *)
(* An instance's parameters are its version. Runtimes, image manager and    *)
(* network manager are external: their calls succeed or fail. A task of a   *)
(* pool is one step, taken in any order.                                    *)
(***************************************************************************)
EXTENDS Naturals, FiniteSets

CONSTANTS
    Instances,
    Services,      \* the instances that are services; the others are components
    Preinstalled,  \* components that come with the node
    OfflineTTL,    \* instances whose item has an offline TTL
    ItemID,        \* ItemID[i]: the update item of instance i
    Versions,
    None,          \* no version
    Requests,      \* requests: [stop : set of instances, start : their versions]
    MaxCalls       \* bound on calls and faults from outside

InstanceStates == {"inactive", "activating", "active", "failed"}

ASSUME NoneIsNothing ==
    /\ None \notin Versions
    /\ None \notin Instances
    /\ None \notin [version : Versions, state : InstanceStates]
ASSUME MaxCallsIsNatural == MaxCalls \in Nat
ASSUME KindsAreInstances ==
    Services \subseteq Instances /\ Preinstalled \subseteq Instances \ Services
ASSUME RequestsAre ==
    \A r \in Requests : /\ r.stop \subseteq Instances
                        /\ r.start \in [Instances -> Versions \union {None}]

VARIABLES
    mIsRunning, mFirstStart, mLaunchInProgress,
    mInstances,    \* [version, state] of every instance, None for an absent one
    mOffline,      \* mOfflineTime has a value
    mRebootQueue,  \* some runtime is queued for reboot
    armed,         \* mOfflineTTLHandler is started
    pool,          \* mLaunchPool: "off", "on" or "closing"
    tasks,         \* its queue
    lost,          \* tasks were cleared from it and are still counted
    ttlTasks,      \* the queue of mOfflineTTLPool
    pc,            \* the threads: main, update, reboot and ttl
    asleep,        \* threads that wait on mCondVar
    req,           \* stopInstances and startInstances of the launch
    todo,          \* instances its current loop has still to visit
    marking,       \* the instance StopInstances is about to mark
    removeItems,   \* the update items to remove
    connected,     \* to the cloud
    stored,        \* the storage: the version of every stored instance
    runs,          \* the runtimes: the version that runs
    installed,     \* image manager: the update items with their files
    owed,          \* a request was accepted and its status not sent
    failed,        \* history: instances that could not be stopped
    broken,        \* history: update items that could not be installed
    left,          \* history: known instances some request did not name
    raced,         \* history: a launch began while Stop was using the pool
    calls

vars == <<mIsRunning, mFirstStart, mLaunchInProgress, mInstances, mOffline,
          mRebootQueue, armed, pool, tasks, lost, ttlTasks, pc, asleep, req, todo,
          marking, removeItems, connected, stored, runs, installed, owed,
          failed, broken, left, raced, calls>>

flags == <<mIsRunning, mFirstStart, mLaunchInProgress>>
poolVars == <<pool, tasks, lost>>
offlineVars == <<mOffline, armed, ttlTasks, connected>>
launchVars == <<req, todo, marking, removeItems>>
outside == <<stored, runs, installed>>
history == <<owed, failed, broken, left, raced>>

Item(i, v) == <<ItemID[i], v>>
\* The loops go through their arrays in some fixed order.
Visits(i) == todo # {} /\ i = CHOOSE j \in todo : TRUE
Known == {i \in Instances : mInstances[i] # None}
Listed(start) == {i \in Instances : start[i] # None}
StartItems == {Item(i, req.start[i]) : i \in Listed(req.start)}
StateIn(i, states) == i \in Known /\ mInstances[i].state \in states

\* Thread t goes on at the step named l.
Goto(t, l) == pc' = [pc EXCEPT ![t] = l]
SetInstanceState(i, s) == mInstances' = [mInstances EXCEPT ![i].state = s]
NotifyAll == asleep' = {}
Counted == calls < MaxCalls /\ calls' = calls + 1

NoRequest == [stop |-> {}, start |-> [i \in Instances |-> None]]

\* A stored set of instances whose update items an earlier launch has installed.
SLInit ==
    /\ mIsRunning = FALSE
    /\ mFirstStart = TRUE
    /\ mLaunchInProgress = FALSE
    /\ mInstances = [i \in Instances |-> None]
    /\ mOffline = FALSE
    /\ mRebootQueue = FALSE
    /\ armed = FALSE
    /\ pool = "off"
    /\ tasks = {}
    /\ lost = FALSE
    /\ ttlTasks = {}
    /\ pc = [main |-> "down", update |-> "idle", reboot |-> "off", ttl |-> "idle"]
    /\ asleep = {}
    /\ req = NoRequest
    /\ todo = {}
    /\ marking = None
    /\ removeItems = {}
    /\ connected = TRUE
    /\ \E r \in Requests :
          /\ stored = r.start
          /\ installed = {Item(i, r.start[i]) : i \in Listed(r.start)}
    /\ runs = [i \in Instances |-> None]
    /\ owed = FALSE
    /\ failed = {}
    /\ broken = {}
    /\ left = {}
    /\ raced = FALSE
    /\ calls = 0

-----------------------------------------------------------------------------
\* ThreadPool, as seen by its two users

\* Run. On a pool that runs already it fails; on one that is being shut down it
\* fails too, but the workers that have not left yet go on.
RunPool(ok) ==
    /\ IF ok THEN pool = "off" /\ pool' = "on"
       ELSE \/ pool = "on" /\ UNCHANGED pool
            \/ pool = "closing" /\ pool' \in {"closing", "on"}
    /\ UNCHANGED lost

AddTasks(ts) == tasks' = tasks \union ts

\* Mutant: nobody waits.
NoWait == TRUE

WaitPool == tasks = {} /\ ~lost

\* Shutdown drops what is queued; mPendingTaskCount keeps counting it.
ShutdownPool ==
    /\ pool' = IF pool = "on" THEN "closing" ELSE pool
    /\ tasks' = {}
    /\ lost' = (lost \/ tasks # {})

JoinPool ==
    /\ pool # "on"
    /\ pool' = "off"
    /\ UNCHANGED <<tasks, lost>>

-----------------------------------------------------------------------------
\* The launch thread

\* UpdateInstances: StartLaunch and the start of the thread.
UpdateInstances(r) ==
    /\ mIsRunning
    /\ ~mLaunchInProgress
    /\ pc.update = "idle"
    /\ Counted
    /\ mLaunchInProgress' = TRUE
    /\ req' = r
    /\ owed' = TRUE
    /\ left' = left \union (Known \ (r.stop \union Listed(r.start)))
    /\ raced' = (raced \/ pc.main \in {"stopAll", "stopWait", "join", "halt"})
    /\ Goto("update", "run")
    /\ UNCHANGED <<mIsRunning, mFirstStart, mInstances, offlineVars, mRebootQueue,
                   poolVars, asleep, todo, marking, removeItems, outside, failed,
                   broken>>

\* UpdateInstancesImpl up to StopInstances. Instances whose parameters differ are
\* stopped as well; an item goes unless an instance to start needs it.
BeginLaunch ==
    /\ pc.update = "run"
    /\ \/ /\ RunPool(TRUE)
          /\ LET modified == {i \in Known \intersect Listed(req.start) :
                                 mInstances[i].version # req.start[i]}
                 stop == req.stop \union modified
             IN  /\ req' = [stop |-> stop, start |-> req.start]
                 /\ todo' = stop \intersect Known
                 /\ removeItems' =
                       IF mFirstStart THEN {}
                       ELSE {Item(i, mInstances[i].version) :
                                i \in stop \intersect Known} \ StartItems
          /\ Goto("update", "stop")
       \/ RunPool(FALSE) /\ Goto("update", "send") /\ UNCHANGED <<req, todo, removeItems>>
    /\ UNCHANGED <<flags, mInstances, offlineVars, mRebootQueue, tasks, asleep, marking,
                   outside, history, calls>>

\* Mutant: only active instances are stopped.
StopActiveInstance(i) ==
    /\ pc.update = "stop"
    /\ marking = None
    /\ Visits(i)
    /\ todo' = todo \ {i}
    /\ AddTasks(IF StateIn(i, {"active"}) THEN {[op |-> "stop", of |-> i]} ELSE {})
    /\ marking' = i
    /\ UNCHANGED <<flags, mInstances, offlineVars, mRebootQueue, pool, lost, pc, asleep,
                   req, removeItems, outside, history, calls>>

\* StopInstances: the task is queued, then the instance is marked. That there is no
\* runtime for the instance is left to the task, which may fail.
StopInstance(i) ==
    /\ pc.update = "stop"
    /\ marking = None
    /\ Visits(i)
    /\ todo' = todo \ {i}
    /\ AddTasks({[op |-> "stop", of |-> i]})
    /\ marking' = i
    /\ UNCHANGED <<flags, mInstances, offlineVars, mRebootQueue, pool, lost, pc, asleep,
                   req, removeItems, outside, history, calls>>

\* The mark, which may come after the task has set the state itself.
MarkInactive ==
    /\ marking # None
    /\ SetInstanceState(marking, "inactive")
    /\ marking' = None
    /\ UNCHANGED <<flags, offlineVars, mRebootQueue, poolVars, pc, asleep, req, todo,
                   removeItems, outside, history, calls>>

WaitStopped ==
    /\ pc.update = "stop"
    /\ todo = {}
    /\ marking = None
    /\ WaitPool
    /\ todo' = req.stop \intersect Known
    /\ Goto("update", "removeData")
    /\ UNCHANGED <<flags, mInstances, offlineVars, mRebootQueue, poolVars, asleep, req,
                   marking, removeItems, outside, history, calls>>

\* RemoveInstancesData: an instance that is not inactive stays.
RemoveInstanceData(i) ==
    /\ pc.update = "removeData"
    /\ Visits(i)
    /\ todo' = todo \ {i}
    /\ IF mInstances[i].state = "inactive"
       THEN /\ mInstances' = [mInstances EXCEPT ![i] = None]
            /\ stored' = [stored EXCEPT ![i] = None]
       ELSE UNCHANGED <<mInstances, stored>>
    /\ UNCHANGED <<flags, offlineVars, mRebootQueue, poolVars, pc, asleep, req, marking,
                   removeItems, runs, installed, history, calls>>

\* RemoveUpdateItems and InstallUpdateItems, not on the first start.
UpdateItems ==
    /\ pc.update = "removeData"
    /\ todo = {}
    /\ AddTasks(IF mFirstStart THEN {}
                ELSE {[op |-> "remove", of |-> x] : x \in removeItems} \union
                     {[op |-> "install", of |-> x] : x \in StartItems \ installed})
    /\ Goto("update", "items")
    /\ UNCHANGED <<flags, mInstances, offlineVars, mRebootQueue, pool, lost, asleep,
                   launchVars, outside, history, calls>>

WaitItems ==
    /\ pc.update = "items"
    /\ mFirstStart \/ WaitPool
    /\ todo' = Listed(req.start)
    /\ Goto("update", "prepare")
    /\ UNCHANGED <<flags, mInstances, offlineVars, mRebootQueue, poolVars, asleep, req,
                   marking, removeItems, outside, history, calls>>

\* PrepareInstances. A new instance fails when its configuration cannot be read (or
\* its network not be created, left to the start); a known one is only marked.
PrepareInstance(i) ==
    /\ pc.update = "prepare"
    /\ Visits(i)
    /\ todo' = todo \ {i}
    /\ IF i \in Known
       THEN SetInstanceState(i, "inactive") /\ UNCHANGED stored
       ELSE /\ stored' = [stored EXCEPT ![i] = req.start[i]]
            /\ mInstances' = [mInstances EXCEPT ![i] =
                  [version |-> req.start[i],
                   state |-> IF i \in Preinstalled \/ Item(i, req.start[i]) \in installed
                             THEN "inactive" ELSE "failed"]]
    /\ UNCHANGED <<flags, offlineVars, mRebootQueue, poolVars, pc, asleep, req, marking,
                   removeItems, runs, installed, history, calls>>

Prepared ==
    /\ pc.update = "prepare"
    /\ todo = {}
    /\ todo' = Listed(req.start)
    /\ Goto("update", "start")
    /\ UNCHANGED <<flags, mInstances, offlineVars, mRebootQueue, poolVars, asleep, req,
                   marking, removeItems, outside, history, calls>>

\* StartInstances
StartInstance(i) ==
    /\ pc.update = "start"
    /\ Visits(i)
    /\ todo' = todo \ {i}
    /\ IF StateIn(i, {"inactive"})
       THEN /\ AddTasks({[op |-> "start", of |-> i]})
            /\ SetInstanceState(i, "activating")
       ELSE UNCHANGED <<tasks, mInstances>>
    /\ UNCHANGED <<flags, offlineVars, mRebootQueue, pool, lost, pc, asleep, req, marking,
                   removeItems, outside, history, calls>>

WaitStarted ==
    /\ pc.update = "start"
    /\ todo = {}
    /\ WaitPool
    /\ ShutdownPool
    /\ Goto("update", "join")
    /\ UNCHANGED <<flags, mInstances, offlineVars, mRebootQueue, asleep, launchVars,
                   outside, history, calls>>

JoinLaunchPool ==
    /\ pc.update = "join"
    /\ JoinPool
    /\ Goto("update", "send")
    /\ UNCHANGED <<flags, mInstances, offlineVars, mRebootQueue, asleep, launchVars,
                   outside, history, calls>>

\* The deferred sendStatus: no status is sent on the first start.
SendStatus ==
    /\ pc.update = "send"
    /\ mFirstStart' = FALSE
    /\ owed' = (owed /\ mFirstStart)
    /\ Goto("update", "finish")
    /\ UNCHANGED <<mIsRunning, mLaunchInProgress, mInstances, offlineVars, mRebootQueue,
                   poolVars, asleep, launchVars, outside, failed, broken, left, raced,
                   calls>>

\* Mutant: the waiting threads are not told.
FinishSilently ==
    /\ pc.update = "finish"
    /\ mLaunchInProgress' = FALSE
    /\ req' = NoRequest
    /\ removeItems' = {}
    /\ Goto("update", "idle")
    /\ UNCHANGED <<mIsRunning, mFirstStart, mInstances, offlineVars, mRebootQueue,
                   poolVars, asleep, todo, marking, outside, history, calls>>

FinishLaunch ==
    /\ pc.update = "finish"
    /\ mLaunchInProgress' = FALSE
    /\ NotifyAll
    /\ req' = NoRequest
    /\ removeItems' = {}
    /\ Goto("update", "idle")
    /\ UNCHANGED <<mIsRunning, mFirstStart, mInstances, offlineVars, mRebootQueue,
                   poolVars, todo, marking, outside, history, calls>>

-----------------------------------------------------------------------------
\* The tasks of the pool

\* StopInstanceTask: the runtime writes the status.
StopTask(t) ==
    /\ pool = "on"
    /\ t \in tasks
    /\ t.op \in {"stop", "halt"}
    /\ tasks' = tasks \ {t}
    /\ \/ /\ runs' = [runs EXCEPT ![t.of] = None]
          /\ SetInstanceState(t.of, "inactive")
          /\ UNCHANGED failed
       \/ /\ SetInstanceState(t.of, "failed")
          /\ failed' = failed \union {t.of}
          /\ UNCHANGED runs
    /\ UNCHANGED <<flags, offlineVars, mRebootQueue, pool, lost, pc, asleep, launchVars,
                   stored, installed, owed, broken, left, raced, calls>>

\* StartInstanceTask
StartTask(t) ==
    /\ pool = "on"
    /\ t \in tasks
    /\ t.op = "start"
    /\ tasks' = tasks \ {t}
    /\ \/ /\ runs' = [runs EXCEPT ![t.of] = mInstances[t.of].version]
          /\ \E s \in {"active", "activating"} : SetInstanceState(t.of, s)
       \/ SetInstanceState(t.of, "failed") /\ UNCHANGED runs
    /\ UNCHANGED <<flags, offlineVars, mRebootQueue, pool, lost, pc, asleep, launchVars,
                   stored, installed, history, calls>>

\* The calls to the image manager.
ItemTask(t) ==
    /\ pool = "on"
    /\ t \in tasks
    /\ t.op \in {"remove", "install"}
    /\ tasks' = tasks \ {t}
    /\ \/ /\ installed' = IF t.op = "remove" THEN installed \ {t.of}
                          ELSE installed \union {t.of}
          /\ UNCHANGED broken
       \/ /\ broken' = IF t.op = "install" THEN broken \union {t.of} ELSE broken
          /\ UNCHANGED installed
    /\ UNCHANGED <<flags, mInstances, offlineVars, mRebootQueue, pool, lost, pc, asleep,
                   launchVars, stored, runs, owed, failed, left, raced, calls>>

-----------------------------------------------------------------------------
\* The offline TTL

\* StartTTLTimer, when the instances are ms and the launcher is offline.
StartsTimer(ms) ==
    \E i \in OfflineTTL : ms[i] # None /\ ms[i].state \in {"active", "activating"}

OnDisconnect ==
    /\ mOffline' = TRUE
    /\ armed' = (armed \/ StartsTimer(mInstances))

\* The connection changes; the launcher hears of it while it is subscribed.
ConnectionChanges ==
    /\ Counted
    /\ connected' = ~connected
    /\ IF pc.main # "up" THEN UNCHANGED <<mOffline, armed>>
       ELSE IF connected THEN OnDisconnect
       ELSE mOffline' = FALSE /\ UNCHANGED armed
    /\ UNCHANGED <<flags, mInstances, mRebootQueue, poolVars, ttlTasks, pc, asleep,
                   launchVars, outside, history>>

TimerFires ==
    /\ armed
    /\ pc.ttl = "idle"
    /\ armed' = FALSE
    /\ Goto("ttl", "wait")
    /\ UNCHANGED <<flags, mInstances, mOffline, connected, ttlTasks, mRebootQueue,
                   poolVars, asleep, launchVars, outside, history, calls>>

\* Mutant: a launch in progress ends the handler.
SkipOfflineTTLs ==
    /\ pc.ttl = "wait"
    /\ "ttl" \notin asleep
    /\ IF mIsRunning /\ mOffline /\ ~mLaunchInProgress
       THEN /\ mLaunchInProgress' = TRUE
            /\ ttlTasks' = {i \in OfflineTTL : StateIn(i, {"active", "activating"})}
            /\ Goto("ttl", "stop")
       ELSE Goto("ttl", "idle") /\ UNCHANGED <<mLaunchInProgress, ttlTasks>>
    /\ UNCHANGED <<mIsRunning, mFirstStart, mInstances, mOffline, armed, connected,
                   mRebootQueue, poolVars, asleep, launchVars, outside, history, calls>>

\* HandleOfflineTTLs and StopExpiredInstances; every TTL is over.
HandleOfflineTTLs ==
    /\ pc.ttl = "wait"
    /\ "ttl" \notin asleep
    /\ ~mIsRunning \/ ~mLaunchInProgress
    /\ IF mIsRunning /\ mOffline
       THEN /\ mLaunchInProgress' = TRUE
            /\ ttlTasks' = {i \in OfflineTTL : StateIn(i, {"active", "activating"})}
            /\ Goto("ttl", "stop")
       ELSE Goto("ttl", "idle") /\ UNCHANGED <<mLaunchInProgress, ttlTasks>>
    /\ UNCHANGED <<mIsRunning, mFirstStart, mInstances, mOffline, armed, connected,
                   mRebootQueue, poolVars, asleep, launchVars, outside, history, calls>>

\* The state is what the runtime makes it, on an error too.
StopExpired(i) ==
    /\ i \in ttlTasks
    /\ ttlTasks' = ttlTasks \ {i}
    /\ \/ /\ runs' = [runs EXCEPT ![i] = None]
          /\ SetInstanceState(i, "inactive")
          /\ UNCHANGED failed
       \/ /\ \E s \in {mInstances[i].state, "failed"} : SetInstanceState(i, s)
          /\ failed' = failed \union {i}
          /\ UNCHANGED runs
    /\ UNCHANGED <<flags, mOffline, armed, connected, mRebootQueue, poolVars, pc, asleep,
                   launchVars, stored, installed, owed, broken, left, raced,
                   calls>>

\* The rest of HandleOfflineTTLs.
FinishOfflineTTLs ==
    /\ pc.ttl = "stop"
    /\ ttlTasks = {}
    /\ mLaunchInProgress' = FALSE
    /\ NotifyAll
    /\ armed' = (armed \/ (mOffline /\ StartsTimer(mInstances)))
    /\ Goto("ttl", "idle")
    /\ UNCHANGED <<mIsRunning, mFirstStart, mInstances, mOffline, ttlTasks, connected,
                   mRebootQueue, poolVars, launchVars, outside, history, calls>>

-----------------------------------------------------------------------------
\* The reboot thread

RebootRequired ==
    /\ Counted
    /\ mIsRunning
    /\ ~mRebootQueue
    /\ mRebootQueue' = TRUE
    /\ NotifyAll
    /\ UNCHANGED <<flags, mInstances, offlineVars, poolVars, pc, launchVars, outside,
                   history>>

RunRebootThread ==
    /\ "reboot" \notin asleep
    /\ \/ /\ pc.reboot = "wait"
          /\ ~mIsRunning
          /\ Goto("reboot", "off")
          /\ UNCHANGED mRebootQueue
       \/ /\ pc.reboot = "wait"
          /\ mIsRunning /\ ~mLaunchInProgress /\ mRebootQueue
          /\ mRebootQueue' = FALSE
          /\ Goto("reboot", "reboot")
       \/ /\ pc.reboot = "reboot"
          /\ Goto("reboot", "wait")
          /\ UNCHANGED mRebootQueue
    /\ UNCHANGED <<flags, mInstances, offlineVars, poolVars, asleep, launchVars, outside,
                   history, calls>>

\* A thread finds the condition it waits for false and waits on mCondVar.
Sleep(t) ==
    /\ pc[t] = "wait"
    /\ t \notin asleep
    /\ CASE t = "main" -> mLaunchInProgress
         [] t = "reboot" -> mIsRunning /\ (mLaunchInProgress \/ ~mRebootQueue)
         [] t = "ttl" -> mIsRunning /\ mLaunchInProgress
    /\ asleep' = asleep \union {t}
    /\ UNCHANGED <<flags, mInstances, offlineVars, mRebootQueue, poolVars, pc, launchVars,
                   outside, history, calls>>

-----------------------------------------------------------------------------
\* Start and Stop

\* Start up to the launch of the stored instances.
Start ==
    /\ pc.main = "down"
    /\ ~mLaunchInProgress
    /\ mIsRunning' = TRUE
    /\ mLaunchInProgress' = TRUE
    /\ req' = [stop |-> {}, start |-> stored]
    /\ pc' = [pc EXCEPT !.main = "subscribe", !.reboot = "wait", !.update = "run"]
    /\ UNCHANGED <<mFirstStart, mInstances, offlineVars, mRebootQueue, poolVars, asleep,
                   todo, marking, removeItems, outside, history, calls>>

Subscribe ==
    /\ pc.main = "subscribe"
    /\ IF connected THEN UNCHANGED <<mOffline, armed>> ELSE OnDisconnect
    /\ Goto("main", "up")
    /\ UNCHANGED <<flags, mInstances, connected, ttlTasks, mRebootQueue, poolVars, asleep,
                   launchVars, outside, history, calls>>

Stop ==
    /\ pc.main = "up"
    /\ Counted
    /\ Goto("main", "wait")
    /\ UNCHANGED <<flags, mInstances, offlineVars, mRebootQueue, poolVars, asleep,
                   launchVars, outside, history>>

\* Stop finds no launch in progress, drops the lock and calls StopAllInstances.
StopWaited ==
    /\ pc.main = "wait"
    /\ "main" \notin asleep
    /\ ~mLaunchInProgress
    /\ Goto("main", "stopAll")
    /\ UNCHANGED <<flags, mInstances, offlineVars, mRebootQueue, poolVars, asleep,
                   launchVars, outside, history, calls>>

StopAllInstances ==
    /\ pc.main = "stopAll"
    /\ \/ /\ RunPool(TRUE)
          /\ AddTasks({[op |-> "halt", of |-> i] :
                          i \in {j \in Services : StateIn(j, {"active"})}})
          /\ Goto("main", "stopWait")
       \/ RunPool(FALSE) /\ Goto("main", "halt") /\ UNCHANGED tasks
    /\ UNCHANGED <<flags, mInstances, offlineVars, mRebootQueue, asleep, launchVars,
                   outside, history, calls>>

StopAllWaited ==
    /\ pc.main = "stopWait"
    /\ WaitPool
    /\ ShutdownPool
    /\ Goto("main", "join")
    /\ UNCHANGED <<flags, mInstances, offlineVars, mRebootQueue, asleep, launchVars,
                   outside, history, calls>>

StopAllJoined ==
    /\ pc.main = "join"
    /\ JoinPool
    /\ Goto("main", "halt")
    /\ UNCHANGED <<flags, mInstances, offlineVars, mRebootQueue, asleep, launchVars,
                   outside, history, calls>>

\* The runtimes are stopped, then the threads are told to end.
Halt ==
    /\ pc.main = "halt"
    /\ mIsRunning' = FALSE
    /\ NotifyAll
    /\ runs' = [i \in Instances |-> None]
    /\ Goto("main", "joinThreads")
    /\ UNCHANGED <<mFirstStart, mLaunchInProgress, mInstances, offlineVars, mRebootQueue,
                   poolVars, launchVars, stored, installed, history, calls>>

JoinThreads ==
    /\ pc.main = "joinThreads"
    /\ pc.update = "idle"
    /\ pc.reboot = "off"
    /\ armed' = FALSE
    /\ Goto("main", "down")
    /\ UNCHANGED <<flags, mInstances, mOffline, ttlTasks, connected, mRebootQueue,
                   poolVars, asleep, launchVars, outside, history, calls>>

\* OnInstancesStatusesReceived, the part that changes state: HandleComponentStatus.
OnComponentStatus(i) ==
    /\ i \in Instances \ Services
    /\ Counted
    /\ \/ stored' = [stored EXCEPT ![i] = None]
       \/ /\ i \in Preinstalled \ Known
          /\ \E v \in Versions : stored' = [stored EXCEPT ![i] = v]
    /\ UNCHANGED <<flags, mInstances, offlineVars, mRebootQueue, poolVars, pc, asleep,
                   launchVars, runs, installed, history>>

\* The process dies at any step. The runtimes start anew with nothing running.
Crash ==
    /\ Counted
    /\ pc.main # "down"
    /\ mIsRunning' = FALSE
    /\ mFirstStart' = TRUE
    /\ mLaunchInProgress' = FALSE
    /\ mInstances' = [i \in Instances |-> None]
    /\ mOffline' = FALSE
    /\ mRebootQueue' = FALSE
    /\ armed' = FALSE
    /\ pool' = "off"
    /\ tasks' = {}
    /\ lost' = FALSE
    /\ ttlTasks' = {}
    /\ pc' = [main |-> "down", update |-> "idle", reboot |-> "off", ttl |-> "idle"]
    /\ asleep' = {}
    /\ req' = NoRequest
    /\ todo' = {}
    /\ marking' = None
    /\ removeItems' = {}
    /\ runs' = [i \in Instances |-> None]
    /\ owed' = FALSE
    /\ raced' = FALSE
    /\ UNCHANGED <<connected, stored, installed, failed, broken, left>>

LaunchStep ==
    \/ BeginLaunch \/ MarkInactive \/ WaitStopped \/ UpdateItems \/ WaitItems
    \/ Prepared \/ WaitStarted \/ JoinLaunchPool \/ SendStatus \/ FinishLaunch
    \/ \E i \in Instances : StopInstance(i) \/ RemoveInstanceData(i)
                               \/ PrepareInstance(i) \/ StartInstance(i)

TaskStep == \E t \in tasks : StopTask(t) \/ StartTask(t) \/ ItemTask(t)

TTLStep ==
    TimerFires \/ HandleOfflineTTLs \/ FinishOfflineTTLs
    \/ \E i \in Instances : StopExpired(i)

MainStep ==
    \/ Start \/ Subscribe \/ StopWaited \/ StopAllInstances \/ StopAllWaited
    \/ StopAllJoined \/ Halt \/ JoinThreads

SLNext ==
    \/ \E r \in Requests : UpdateInstances(r)
    \/ LaunchStep \/ TaskStep \/ TTLStep \/ RunRebootThread \/ MainStep
    \/ \E t \in {"main", "reboot", "ttl"} : Sleep(t)
    \/ ConnectionChanges \/ RebootRequired \/ Stop \/ Crash
    \/ \E i \in Instances : OnComponentStatus(i)

SLSpec == SLInit /\ [][SLNext]_vars

\* Every thread that can go on does, and the armed timer fires. A runtime that never
\* stops an instance has the timer fire for ever, at intervals in which Stop gets mMutex.
SLFairSpec ==
    /\ SLSpec
    /\ WF_vars(LaunchStep)
    /\ WF_vars(TaskStep)
    /\ WF_vars(TTLStep)
    /\ WF_vars(RunRebootThread)
    /\ SF_vars(MainStep)

-----------------------------------------------------------------------------
\* The states, and that the pool's tasks and the loop of StopInstances refer to
\* instances the launcher still has: the data of an instance is not removed under the
\* task that was given a reference to it (StopInstance, RemoveInstancesData).
SLTypeOK ==
    /\ {mIsRunning, mFirstStart, mLaunchInProgress, mOffline, mRebootQueue, armed, lost,
        connected, owed, raced} \subseteq BOOLEAN
    /\ mInstances \in [Instances -> {None} \union
                          [version : Versions, state : InstanceStates]]
    /\ pool \in {"off", "on", "closing"}
    /\ \A t \in tasks : \/ t.op \in {"stop", "halt", "start"} /\ t.of \in Known
                        \/ t.op \in {"remove", "install"}
    /\ ttlTasks \subseteq Known
    /\ asleep \subseteq {"main", "reboot", "ttl"}
    /\ req.stop \subseteq Instances
    /\ req.start \in [Instances -> Versions \union {None}]
    /\ todo \subseteq Instances
    /\ marking \in Known \union {None}
    /\ stored \in [Instances -> Versions \union {None}]
    /\ runs \in [Instances -> Versions \union {None}]
    /\ calls \in 0 .. MaxCalls

\* What runs is what the launcher knows, in the version it knows, however the tasks of
\* the pool and the marks of StopInstances interleave. Only an instance that could not
\* be stopped may go on running unknown or in another version.
RunsKnown ==
    \A i \in Instances \ failed :
        runs[i] # None => i \in Known /\ mInstances[i].version = runs[i]

\* A crash at any step of a launch leaves nothing in the storage that the first launch
\* of the next start, which installs nothing, cannot start: a stored service has its
\* update item, unless that could not be installed, the service not be stopped, or a
\* request left the service out.
StoredIsInstalled ==
    \A i \in Services \ (failed \union left) :
        stored[i] # None =>
            Item(i, stored[i]) \in installed \union broken

\* Every call ends, with the launch, reboot and TTL threads waiting for one another: an
\* accepted request with the status the communication manager waits for, and Stop;
\* unless the process died or a launch began while Stop was using the pool.
CallsEnd ==
    /\ owed ~> (~owed \/ raced)
    /\ pc.main = "wait" ~> (pc.main = "down" \/ raced)

\* Once the timer is armed the instances with an offline TTL are stopped, whatever
\* launches come between, but those a runtime failed to stop, and unless the connection
\* returns or the launcher stops.
OfflineStops ==
    armed ~> \/ \A i \in OfflineTTL : StateIn(i, {"active", "activating"}) => i \in failed
             \/ ~mOffline
             \/ ~mIsRunning
             \/ raced
=============================================================================
