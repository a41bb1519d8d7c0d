-------------------------- MODULE SmLauncherProofs --------------------------
(***************************************************************************)
(* The launcher of the service manager keeps its references, its runtimes   *)
(* and its storage in order, for any instances, requests and number of      *)
(* calls. The properties are not inductive: what a task, a mark or a crash   *)
(* does depends on the step the launch thread has reached, so the invariant  *)
(* says what the launch has done by then, and who holds the pool and         *)
(* mLaunchInProgress.                                                       *)
(***************************************************************************)
EXTENDS SmLauncher, TLAPS

\* The threads of the launcher.
ThreadNames == {"main", "update", "reboot", "ttl"}

\* The steps at which the launch, and Stop, have the pool running.
LaunchPool == {"stop", "removeData", "items", "prepare", "start", "join"}
StopPool == {"stopWait", "join"}

\* The steps of the launch before anything is remembered.
Before == {"run", "stop", "removeData", "items"}

\* Where the launch thread and the main thread are.
PcInv ==
    /\ pc = [t \in ThreadNames |-> pc[t]]
    /\ pc.update \in {"idle", "run", "send", "finish"} \union LaunchPool
    /\ pc.main \in {"down", "subscribe", "up", "wait", "stopAll", "stopWait", "join",
                    "halt", "joinThreads"}

\* mLaunchInProgress is a lock of the launch and of the offline TTL handler.
LockInv ==
    /\ pc.update # "idle" \/ pc.ttl = "stop" => mLaunchInProgress
    /\ pc.update = "idle" \/ pc.ttl # "stop"
    /\ ttlTasks # {} => pc.ttl = "stop"

\* The pool runs for the launch or for Stop, never for both.
PoolInv ==
    /\ pool # "off" <=> pc.update \in LaunchPool \/ pc.main \in StopPool
    /\ pc.update \notin LaunchPool \/ pc.main \notin StopPool

\* The pool works only on tasks of the present phase.
TaskInv ==
    \A t \in tasks :
        \/ t.op = "stop" /\ pc.update = "stop" /\ t.of \in Known
        \/ t.op = "start" /\ pc.update = "start" /\ t.of \in Known
        \/ t.op = "halt" /\ pc.main = "stopWait" /\ t.of \in Known
        \/ t.op = "install" /\ pc.update = "items" /\ ~mFirstStart
        \/ t.op = "remove" /\ pc.update = "items" /\ ~mFirstStart /\ t.of \notin StartItems

\* What the loops visit.
LoopInv ==
    /\ marking # None => marking \in Known /\ pc.update = "stop"
    /\ pc.update \in {"stop", "removeData"} => todo \subseteq req.stop \intersect Known
    /\ pc.update \in {"prepare", "start"} => todo \subseteq Listed(req.start)

\* An instance to stop is stopped and inactive, or its turn is still to come.
StopInv ==
    /\ pc.update = "stop" =>
           \A i \in (req.stop \intersect Known) \ failed :
               /\ \/ runs[i] = None \/ i \in todo \/ lost
                  \/ [op |-> "stop", of |-> i] \in tasks
               /\ mInstances[i].state = "inactive" \/ i \in todo \/ marking = i
    /\ pc.update = "removeData" =>
           \A i \in (req.stop \intersect Known) \ failed :
               i \in todo /\ runs[i] = None /\ mInstances[i].state = "inactive"
    /\ pc.update = "items" => req.stop \intersect Known \subseteq failed

\* What the launch keeps: known services it was not told of were left out, an instance
\* it does not stop keeps its version, and no item that it needs is removed.
KeepInv ==
    /\ pc.update \in Before =>
           Known \intersect Services \subseteq left \union req.stop \union Listed(req.start)
    /\ pc.update \in Before \ {"run"} =>
           \A i \in (Known \intersect Listed(req.start)) \ req.stop :
               mInstances[i].version = req.start[i]
    /\ pc.update \in {"stop", "removeData"} => removeItems \intersect StartItems = {}

\* The storage and the known instances agree on the services once they were launched.
SyncInv ==
    \A i \in Services :
        /\ i \in Known => stored[i] = mInstances[i].version
        /\ stored[i] # None /\ i \notin Known =>
               /\ mFirstStart
               /\ pc.update \in {"idle"} \union Before \/ (pc.update = "prepare" /\ i \in todo)

\* The first launch is that of the stored instances.
FirstInv ==
    mFirstStart =>
        /\ \/ pc.main = "down" /\ pc.update = "idle" /\ ~mIsRunning
           \/ pc.main \in {"subscribe", "up", "wait"} /\ pc.update \notin {"idle", "finish"}
        /\ pc.update \in {"idle"} \union Before => Known = {}
        /\ pc.update # "idle" => \A i \in Services : req.start[i] = stored[i]

\* Later ones have their items installed before they remember an instance.
ItemsInv ==
    ~mFirstStart =>
        /\ pc.update = "items" =>
               \A x \in StartItems : \/ x \in installed \union broken \/ lost
                                     \/ [op |-> "install", of |-> x] \in tasks
        /\ pc.update = "prepare" => StartItems \subseteq installed \union broken

\* The inductive invariant.
Inv == /\ SLTypeOK /\ PcInv /\ LockInv /\ PoolInv /\ TaskInv /\ LoopInv /\ StopInv
       /\ RunsKnown /\ KeepInv /\ SyncInv /\ FirstInv /\ ItemsInv /\ StoredIsInstalled

-----------------------------------------------------------------------------
\* A thread goes on.
LEMMA GotoFacts ==
  ASSUME PcInv, NEW l
  PROVE  /\ Goto("update", l) =>
                /\ pc' = [t \in ThreadNames |-> pc'[t]]
                /\ pc'.update = l /\ pc'.main = pc.main /\ pc'.ttl = pc.ttl
         /\ Goto("main", l) =>
                /\ pc' = [t \in ThreadNames |-> pc'[t]]
                /\ pc'.main = l /\ pc'.update = pc.update /\ pc'.ttl = pc.ttl
         /\ Goto("ttl", l) =>
                /\ pc' = [t \in ThreadNames |-> pc'[t]]
                /\ pc'.ttl = l /\ pc'.update = pc.update /\ pc'.main = pc.main
         /\ Goto("reboot", l) =>
                /\ pc' = [t \in ThreadNames |-> pc'[t]]
                /\ pc'.update = pc.update /\ pc'.main = pc.main /\ pc'.ttl = pc.ttl
  BY DEF PcInv, Goto, ThreadNames

\* The loops visit what is left to visit.
LEMMA VisitFacts ==
  ASSUME NEW i, Visits(i)
  PROVE  i \in todo
  BY DEF Visits

\* The state of a known instance changes, and nothing else of it.
LEMMA SetFacts ==
  ASSUME SLTypeOK, NEW i \in Known, NEW s \in InstanceStates, SetInstanceState(i, s)
  PROVE  /\ mInstances' \in [Instances -> {None} \union
                                [version : Versions, state : InstanceStates]]
         /\ Known' = Known
         /\ \A j \in Known : mInstances'[j].version = mInstances[j].version
         /\ \A j \in Known : j # i => mInstances'[j].state = mInstances[j].state
         /\ mInstances'[i].state = s
<1>1. /\ mInstances \in [Instances -> {None} \union
                            [version : Versions, state : InstanceStates]]
      /\ i \in Instances /\ mInstances[i] # None
      /\ mInstances' = [mInstances EXCEPT ![i].state = s]
  BY DEF SLTypeOK, Known, SetInstanceState
<1>2. mInstances[i] \in [version : Versions, state : InstanceStates]
  BY <1>1
<1>3. /\ mInstances'[i] \in [version : Versions, state : InstanceStates]
      /\ mInstances'[i].state = s /\ mInstances'[i].version = mInstances[i].version
  BY <1>1, <1>2
<1>4. \A j \in Instances : j # i => mInstances'[j] = mInstances[j]
  BY <1>1
<1>5. mInstances' \in [Instances -> {None} \union
                          [version : Versions, state : InstanceStates]]
  BY <1>1, <1>3
<1>6. Known' = Known
  BY <1>1, <1>3, <1>4, NoneIsNothing DEF Known
<1> QED
  BY <1>3, <1>4, <1>5, <1>6 DEF Known

\* Known instances have a version.
LEMMA KnownFacts ==
  ASSUME SLTypeOK, NEW i \in Known
  PROVE  /\ i \in Instances /\ mInstances[i].version \in Versions
         /\ mInstances[i].version # None /\ mInstances[i].state \in InstanceStates
  BY NoneIsNothing DEF SLTypeOK, Known

-----------------------------------------------------------------------------
(* The steps of the launch.                                                *)


\* A request is accepted: what it does not name is left out from now on.
LEMMA KeepsUpdateInstances ==
  ASSUME Inv, NEW r \in Requests, UpdateInstances(r)
  PROVE  Inv'
<1>0. /\ SLTypeOK /\ PcInv /\ LockInv /\ PoolInv /\ TaskInv /\ LoopInv /\ StopInv
      /\ RunsKnown /\ KeepInv /\ SyncInv /\ FirstInv /\ ItemsInv /\ StoredIsInstalled
  BY DEF Inv
<1>1. pc.update = "idle" /\ Goto("update", "run")
  BY <1>0 DEF UpdateInstances
<1>2. /\ pc.update = "idle" /\ pc'.update = "run"
      /\ pc'.main = pc.main /\ pc'.ttl = pc.ttl
      /\ pc' = [t \in ThreadNames |-> pc'[t]]
  BY <1>0, <1>1, GotoFacts
<1>3. /\ ~mLaunchInProgress /\ mLaunchInProgress' = TRUE /\ mIsRunning
      /\ req' = r
      /\ left' = left \union (Known \ (r.stop \union Listed(r.start)))
      /\ UNCHANGED <<mIsRunning, mFirstStart, mInstances, pool, tasks, lost,
                     ttlTasks, todo, marking, removeItems, stored, runs,
                     installed, failed, broken>>
  BY <1>0, <1>2 DEF UpdateInstances, flags, poolVars, offlineVars, launchVars, outside,
     history
<1>4. /\ Known' = Known
  BY <1>3 DEF Known, StartItems, Listed
<1>5. r.stop \subseteq Instances /\ r.start \in [Instances -> Versions \union {None}]
  BY RequestsAre
<1>6. SLTypeOK'
  BY <1>0, <1>2, <1>3, <1>4, <1>5, MaxCallsIsNatural DEF SLTypeOK, UpdateInstances,
     Counted, flags, poolVars, offlineVars, launchVars, outside, history
<1>7. PcInv'
  BY <1>0, <1>2, <1>3, <1>4, <1>5 DEF PcInv, LaunchPool
<1>8. LockInv'
  BY <1>0, <1>2, <1>3, <1>4, <1>5 DEF LockInv
<1>9. PoolInv'
  BY <1>0, <1>2, <1>3, <1>4, <1>5 DEF PoolInv, LaunchPool, StopPool, Before
<1>10. TaskInv'
  BY <1>0, <1>2, <1>3, <1>4, <1>5 DEF TaskInv
<1>11. LoopInv'
  BY <1>0, <1>2, <1>3, <1>4, <1>5 DEF LoopInv
<1>12. StopInv'
  BY <1>0, <1>2, <1>3, <1>4, <1>5 DEF StopInv
<1>13. RunsKnown'
  BY <1>0, <1>2, <1>3, <1>4, <1>5 DEF RunsKnown
<1>14. KeepInv'
  BY <1>0, <1>2, <1>3, <1>4, <1>5 DEF KeepInv, LaunchPool, StopPool, Before
<1>15. SyncInv'
  BY <1>0, <1>2, <1>3, <1>4, <1>5 DEF SyncInv, LaunchPool, StopPool, Before
<1>16. FirstInv'
  BY <1>0, <1>2, <1>3, <1>4, <1>5 DEF FirstInv, LaunchPool, StopPool, Before
<1>17. ItemsInv'
  BY <1>0, <1>2, <1>3, <1>4, <1>5 DEF ItemsInv
<1>18. StoredIsInstalled'
  BY <1>0, <1>2, <1>3, <1>4, <1>5 DEF StoredIsInstalled
<1> QED
  BY <1>6, <1>7, <1>8, <1>9, <1>10, <1>11, <1>12, <1>13, <1>14, <1>15, <1>16, <1>17,
     <1>18 DEF Inv

\* The task is queued before the mark is set, which stays to come.
LEMMA KeepsStopInstance ==
  ASSUME Inv, NEW i \in Instances, StopInstance(i)
  PROVE  Inv'
<1>0. /\ SLTypeOK /\ PcInv /\ LockInv /\ PoolInv /\ TaskInv /\ LoopInv /\ StopInv
      /\ RunsKnown /\ KeepInv /\ SyncInv /\ FirstInv /\ ItemsInv /\ StoredIsInstalled
  BY DEF Inv
<1>1. /\ pc.update = "stop" /\ pc' = pc
  BY <1>0 DEF StopInstance, AddTasks, PcInv, Goto, ThreadNames
<1>2. /\ i \in todo /\ todo' = todo \ {i} /\ marking = None /\ marking' = i
      /\ tasks' = tasks \union {[op |-> "stop", of |-> i]}
      /\ UNCHANGED <<mIsRunning, mFirstStart, mLaunchInProgress, mInstances, pool,
                     lost, ttlTasks, req, removeItems, stored, runs, installed,
                     failed, broken, left>>
  BY <1>0, <1>1, VisitFacts DEF StopInstance, AddTasks, flags, poolVars, offlineVars,
     launchVars, outside, history
<1>3. /\ Known' = Known
      /\ StartItems' = StartItems /\ Listed(req.start)' = Listed(req.start)
  BY <1>2 DEF Known, StartItems, Listed
<1>4. SLTypeOK'
  BY <1>0, <1>1, <1>2, <1>3, MaxCallsIsNatural DEF SLTypeOK, StopInstance, AddTasks,
     Counted, flags, poolVars, offlineVars, launchVars, outside, history, LoopInv
<1>5. PcInv'
  BY <1>0, <1>1, <1>2, <1>3 DEF PcInv, LaunchPool
<1>6. LockInv'
  BY <1>0, <1>1, <1>2, <1>3 DEF LockInv
<1>7. PoolInv'
  BY <1>0, <1>1, <1>2, <1>3 DEF PoolInv, LaunchPool, StopPool, Before
<1>8. TaskInv'
  BY <1>0, <1>1, <1>2, <1>3 DEF TaskInv, LoopInv
<1>9. LoopInv'
  BY <1>0, <1>1, <1>2, <1>3 DEF LoopInv
<1>10. StopInv'
  <2>1. ASSUME NEW j \in (req.stop \intersect Known) \ failed
        PROVE  /\ \/ runs[j] = None \/ j \in todo' \/ lost
                  \/ [op |-> "stop", of |-> j] \in tasks'
               /\ mInstances[j].state = "inactive" \/ j \in todo' \/ marking' = j
    <3>1. CASE j = i
      BY <3>1, <1>0, <1>1, <1>2, <1>3
    <3>2. CASE j # i
      BY <3>2, <1>0, <1>1, <1>2, <1>3, NoneIsNothing DEF StopInv, Known
    <3> QED
      BY <3>1, <3>2
  <2> QED
    BY <2>1, <1>0, <1>1, <1>2, <1>3 DEF StopInv
<1>11. RunsKnown'
  BY <1>0, <1>1, <1>2, <1>3 DEF RunsKnown
<1>12. KeepInv'
  BY <1>0, <1>1, <1>2, <1>3 DEF KeepInv, LaunchPool, StopPool, Before
<1>13. SyncInv'
  BY <1>0, <1>1, <1>2, <1>3 DEF SyncInv, LaunchPool, StopPool, Before
<1>14. FirstInv'
  BY <1>0, <1>1, <1>2, <1>3 DEF FirstInv, LaunchPool, StopPool, Before
<1>15. ItemsInv'
  BY <1>0, <1>1, <1>2, <1>3 DEF ItemsInv
<1>16. StoredIsInstalled'
  BY <1>0, <1>1, <1>2, <1>3 DEF StoredIsInstalled
<1> QED
  BY <1>4, <1>5, <1>6, <1>7, <1>8, <1>9, <1>10, <1>11, <1>12, <1>13, <1>14, <1>15,
     <1>16 DEF Inv

\* The mark lands on an instance that is still known.
LEMMA KeepsMarkInactive ==
  ASSUME Inv, MarkInactive
  PROVE  Inv'
<1>0. /\ SLTypeOK /\ PcInv /\ LockInv /\ PoolInv /\ TaskInv /\ LoopInv /\ StopInv
      /\ RunsKnown /\ KeepInv /\ SyncInv /\ FirstInv /\ ItemsInv /\ StoredIsInstalled
  BY DEF Inv
<1>1. /\ pc.update = "stop" /\ pc' = pc
      /\ marking \in Known /\ SetInstanceState(marking, "inactive") /\ marking' = None
      /\ UNCHANGED <<mIsRunning, mFirstStart, mLaunchInProgress, pool, tasks,
                     lost, ttlTasks, req, todo, removeItems, stored, runs,
                     installed, failed, broken, left>>
  BY <1>0 DEF MarkInactive, LoopInv, flags, poolVars, offlineVars, launchVars, outside,
     history
<1>2. /\ StartItems' = StartItems /\ Listed(req.start)' = Listed(req.start)
  BY <1>1 DEF Known, StartItems, Listed
<1>3. /\ mInstances' \in [Instances -> {None} \union
                                [version : Versions, state : InstanceStates]]
      /\ Known' = Known
      /\ \A j \in Known : mInstances'[j].version = mInstances[j].version
      /\ \A j \in Known : j # marking => mInstances'[j].state = mInstances[j].state
      /\ mInstances'[marking].state = "inactive"
  BY <1>0, <1>1, <1>2, SetFacts DEF InstanceStates
<1>4. SLTypeOK'
  BY <1>0, <1>1, <1>2, <1>3, MaxCallsIsNatural DEF SLTypeOK, MarkInactive, LoopInv,
     Counted, flags, poolVars, offlineVars, launchVars, outside, history
<1>5. PcInv'
  BY <1>0, <1>1, <1>2, <1>3 DEF PcInv, LaunchPool
<1>6. LockInv'
  BY <1>0, <1>1, <1>2, <1>3 DEF LockInv
<1>7. PoolInv'
  BY <1>0, <1>1, <1>2, <1>3 DEF PoolInv, LaunchPool, StopPool, Before
<1>8. TaskInv'
  BY <1>0, <1>1, <1>2, <1>3 DEF TaskInv
<1>9. LoopInv'
  BY <1>0, <1>1, <1>2, <1>3 DEF LoopInv
<1>10. StopInv'
  BY <1>0, <1>1, <1>2, <1>3 DEF StopInv
<1>11. RunsKnown'
  BY <1>0, <1>1, <1>2, <1>3 DEF RunsKnown
<1>12. KeepInv'
  BY <1>0, <1>1, <1>2, <1>3 DEF KeepInv, LaunchPool, StopPool, Before
<1>13. SyncInv'
  BY <1>0, <1>1, <1>2, <1>3 DEF SyncInv, LaunchPool, StopPool, Before
<1>14. FirstInv'
  BY <1>0, <1>1, <1>2, <1>3 DEF FirstInv, LaunchPool, StopPool, Before
<1>15. ItemsInv'
  BY <1>0, <1>1, <1>2, <1>3 DEF ItemsInv
<1>16. StoredIsInstalled'
  BY <1>0, <1>1, <1>2, <1>3 DEF StoredIsInstalled
<1> QED
  BY <1>4, <1>5, <1>6, <1>7, <1>8, <1>9, <1>10, <1>11, <1>12, <1>13, <1>14, <1>15,
     <1>16 DEF Inv

\* The pool has run dry, so what was to be stopped is stopped or failed.
LEMMA KeepsWaitStopped ==
  ASSUME Inv, WaitStopped
  PROVE  Inv'
<1>0. /\ SLTypeOK /\ PcInv /\ LockInv /\ PoolInv /\ TaskInv /\ LoopInv /\ StopInv
      /\ RunsKnown /\ KeepInv /\ SyncInv /\ FirstInv /\ ItemsInv /\ StoredIsInstalled
  BY DEF Inv
<1>1. pc.update = "stop" /\ Goto("update", "removeData")
  BY <1>0 DEF WaitStopped, WaitPool
<1>2. /\ pc.update = "stop" /\ pc'.update = "removeData"
      /\ pc'.main = pc.main /\ pc'.ttl = pc.ttl
      /\ pc' = [t \in ThreadNames |-> pc'[t]]
  BY <1>0, <1>1, GotoFacts
<1>3. /\ todo = {} /\ marking = None /\ tasks = {} /\ ~lost
      /\ todo' = req.stop \intersect Known
      /\ UNCHANGED <<mIsRunning, mFirstStart, mLaunchInProgress, mInstances, pool,
                     tasks, lost, ttlTasks, req, marking, removeItems, stored,
                     runs, installed, failed, broken, left>>
  BY <1>0, <1>2 DEF WaitStopped, WaitPool, flags, poolVars, offlineVars, launchVars,
     outside, history
<1>4. /\ Known' = Known
      /\ StartItems' = StartItems /\ Listed(req.start)' = Listed(req.start)
  BY <1>3 DEF Known, StartItems, Listed
<1>5. \A i \in Known : i # None
  BY NoneIsNothing DEF Known
<1>6. SLTypeOK'
  BY <1>0, <1>2, <1>3, <1>4, <1>5, MaxCallsIsNatural DEF SLTypeOK, WaitStopped,
     WaitPool, Counted, flags, poolVars, offlineVars, launchVars, outside, history
<1>7. PcInv'
  BY <1>0, <1>2, <1>3, <1>4, <1>5 DEF PcInv, LaunchPool
<1>8. LockInv'
  BY <1>0, <1>2, <1>3, <1>4, <1>5 DEF LockInv
<1>9. PoolInv'
  BY <1>0, <1>2, <1>3, <1>4, <1>5 DEF PoolInv, LaunchPool, StopPool, Before
<1>10. TaskInv'
  BY <1>0, <1>2, <1>3, <1>4, <1>5 DEF TaskInv
<1>11. LoopInv'
  BY <1>0, <1>2, <1>3, <1>4, <1>5 DEF LoopInv
<1>12. StopInv'
  BY <1>0, <1>2, <1>3, <1>4, <1>5 DEF StopInv
<1>13. RunsKnown'
  BY <1>0, <1>2, <1>3, <1>4, <1>5 DEF RunsKnown
<1>14. KeepInv'
  BY <1>0, <1>2, <1>3, <1>4, <1>5 DEF KeepInv, LaunchPool, StopPool, Before
<1>15. SyncInv'
  BY <1>0, <1>2, <1>3, <1>4, <1>5 DEF SyncInv, LaunchPool, StopPool, Before
<1>16. FirstInv'
  BY <1>0, <1>2, <1>3, <1>4, <1>5 DEF FirstInv, LaunchPool, StopPool, Before
<1>17. ItemsInv'
  BY <1>0, <1>2, <1>3, <1>4, <1>5 DEF ItemsInv
<1>18. StoredIsInstalled'
  BY <1>0, <1>2, <1>3, <1>4, <1>5 DEF StoredIsInstalled
<1> QED
  BY <1>6, <1>7, <1>8, <1>9, <1>10, <1>11, <1>12, <1>13, <1>14, <1>15, <1>16, <1>17,
     <1>18 DEF Inv

\* The items to remove are none of those to start.
LEMMA KeepsBeginLaunch ==
  ASSUME Inv, BeginLaunch, pool = "off"
  PROVE  Inv'
<1>0. /\ SLTypeOK /\ PcInv /\ LockInv /\ PoolInv /\ TaskInv /\ LoopInv /\ StopInv
      /\ RunsKnown /\ KeepInv /\ SyncInv /\ FirstInv /\ ItemsInv /\ StoredIsInstalled
  BY DEF Inv
<1>1. pc.update = "run" /\ Goto("update", "stop")
  BY <1>0 DEF BeginLaunch, RunPool
<1>2. /\ pc.update = "run" /\ pc'.update = "stop"
      /\ pc'.main = pc.main /\ pc'.ttl = pc.ttl
      /\ pc' = [t \in ThreadNames |-> pc'[t]]
  BY <1>0, <1>1, GotoFacts
<1>3. /\ pool' = "on"
      /\ req' = [stop |-> req.stop \union {i \in Known \intersect Listed(req.start) :
                                           mInstances[i].version # req.start[i]},
                 start |-> req.start]
      /\ todo' = req'.stop \intersect Known
      /\ removeItems' \subseteq {Item(i, mInstances[i].version) :
                                   i \in req'.stop \intersect Known} \ StartItems
      /\ UNCHANGED <<mIsRunning, mFirstStart, mLaunchInProgress, mInstances,
                     tasks, lost, ttlTasks, marking, stored, runs, installed,
                     failed, broken, left>>
  BY <1>0, <1>2 DEF BeginLaunch, RunPool, flags, poolVars, offlineVars, launchVars,
     outside, history
<1>4. /\ Known' = Known
  BY <1>3 DEF Known, StartItems, Listed
<1>5. /\ req'.start = req.start /\ req.stop \subseteq req'.stop /\ req'.stop \subseteq Instances
      /\ \A i \in Known \intersect Listed(req.start) :
             mInstances[i].version # req.start[i] => i \in req'.stop
  BY <1>0, <1>2, <1>3, <1>4 DEF SLTypeOK, Known
<1>6. removeItems' \intersect StartItems = {}
  BY <1>0, <1>2, <1>3, <1>4, <1>5
<1>7. StartItems' = StartItems /\ Listed(req.start)' = Listed(req.start) /\ tasks = {}
  BY <1>0, <1>2, <1>3, <1>4, <1>5, <1>6
     DEF StartItems, Listed, TaskInv, PoolInv, LaunchPool, StopPool
<1>8. SLTypeOK'
  BY <1>0, <1>2, <1>3, <1>4, <1>5, <1>6, <1>7, MaxCallsIsNatural DEF SLTypeOK,
     BeginLaunch, RunPool, Counted, flags, poolVars, offlineVars, launchVars, outside,
     history
<1>9. PcInv'
  BY <1>0, <1>2, <1>3, <1>4, <1>5, <1>6, <1>7 DEF PcInv, LaunchPool
<1>10. LockInv'
  BY <1>0, <1>2, <1>3, <1>4, <1>5, <1>6, <1>7 DEF LockInv
<1>11. PoolInv'
  BY <1>0, <1>2, <1>3, <1>4, <1>5, <1>6, <1>7 DEF PoolInv, LaunchPool, StopPool, Before
<1>12. TaskInv'
  BY <1>0, <1>2, <1>3, <1>4, <1>5, <1>6, <1>7 DEF TaskInv
<1>13. LoopInv'
  BY <1>0, <1>2, <1>3, <1>4, <1>5, <1>6, <1>7 DEF LoopInv
<1>14. StopInv'
  BY <1>0, <1>2, <1>3, <1>4, <1>5, <1>6, <1>7 DEF StopInv
<1>15. RunsKnown'
  BY <1>0, <1>2, <1>3, <1>4, <1>5, <1>6, <1>7 DEF RunsKnown
<1>16. KeepInv'
  BY <1>0, <1>2, <1>3, <1>4, <1>5, <1>6, <1>7 DEF KeepInv, LaunchPool, StopPool, Before
<1>17. SyncInv'
  BY <1>0, <1>2, <1>3, <1>4, <1>5, <1>6, <1>7 DEF SyncInv, LaunchPool, StopPool, Before
<1>18. FirstInv'
  BY <1>0, <1>2, <1>3, <1>4, <1>5, <1>6, <1>7 DEF FirstInv, LaunchPool, StopPool, Before
<1>19. ItemsInv'
  BY <1>0, <1>2, <1>3, <1>4, <1>5, <1>6, <1>7 DEF ItemsInv
<1>20. StoredIsInstalled'
  BY <1>0, <1>2, <1>3, <1>4, <1>5, <1>6, <1>7 DEF StoredIsInstalled
<1> QED
  BY <1>8, <1>9, <1>10, <1>11, <1>12, <1>13, <1>14, <1>15, <1>16, <1>17, <1>18, <1>19,
     <1>20 DEF Inv

\* The pool is in use by Stop: the launch skips everything, and is not the first one.
LEMMA KeepsRefusedLaunch ==
  ASSUME Inv, BeginLaunch, pool # "off"
  PROVE  Inv'
<1>0. /\ SLTypeOK /\ PcInv /\ LockInv /\ PoolInv /\ TaskInv /\ LoopInv /\ StopInv
      /\ RunsKnown /\ KeepInv /\ SyncInv /\ FirstInv /\ ItemsInv /\ StoredIsInstalled
  BY DEF Inv
<1>1. pc.update = "run" /\ Goto("update", "send")
  BY <1>0 DEF BeginLaunch, RunPool
<1>2. /\ pc.update = "run" /\ pc'.update = "send"
      /\ pc'.main = pc.main /\ pc'.ttl = pc.ttl
      /\ pc' = [t \in ThreadNames |-> pc'[t]]
  BY <1>0, <1>1, GotoFacts
<1>3. /\ pool' \in {"on", "closing"}
      /\ UNCHANGED <<mIsRunning, mFirstStart, mLaunchInProgress, mInstances,
                     tasks, lost, ttlTasks, req, todo, marking, removeItems,
                     stored, runs, installed, failed, broken, left>>
  BY <1>0, <1>2 DEF BeginLaunch, RunPool, flags, poolVars, offlineVars, launchVars,
     outside, history
<1>4. /\ Known' = Known
      /\ StartItems' = StartItems /\ Listed(req.start)' = Listed(req.start)
  BY <1>3 DEF Known, StartItems, Listed
<1>5. ~mFirstStart
  BY <1>0, <1>2, <1>3, <1>4 DEF FirstInv, PoolInv, LaunchPool, StopPool
<1>6. SLTypeOK'
  BY <1>0, <1>2, <1>3, <1>4, <1>5, MaxCallsIsNatural DEF SLTypeOK, BeginLaunch,
     RunPool, Counted, flags, poolVars, offlineVars, launchVars, outside, history
<1>7. PcInv'
  BY <1>0, <1>2, <1>3, <1>4, <1>5 DEF PcInv, LaunchPool
<1>8. LockInv'
  BY <1>0, <1>2, <1>3, <1>4, <1>5 DEF LockInv
<1>9. PoolInv'
  BY <1>0, <1>2, <1>3, <1>4, <1>5 DEF PoolInv, LaunchPool, StopPool, Before
<1>10. TaskInv'
  BY <1>0, <1>2, <1>3, <1>4, <1>5 DEF TaskInv
<1>11. LoopInv'
  BY <1>0, <1>2, <1>3, <1>4, <1>5 DEF LoopInv
<1>12. StopInv'
  BY <1>0, <1>2, <1>3, <1>4, <1>5 DEF StopInv
<1>13. RunsKnown'
  BY <1>0, <1>2, <1>3, <1>4, <1>5 DEF RunsKnown
<1>14. KeepInv'
  BY <1>0, <1>2, <1>3, <1>4, <1>5 DEF KeepInv, LaunchPool, StopPool, Before
<1>15. SyncInv'
  BY <1>0, <1>2, <1>3, <1>4, <1>5 DEF SyncInv, LaunchPool, StopPool, Before
<1>16. FirstInv'
  BY <1>0, <1>2, <1>3, <1>4, <1>5 DEF FirstInv, LaunchPool, StopPool, Before
<1>17. ItemsInv'
  BY <1>0, <1>2, <1>3, <1>4, <1>5 DEF ItemsInv
<1>18. StoredIsInstalled'
  BY <1>0, <1>2, <1>3, <1>4, <1>5 DEF StoredIsInstalled
<1> QED
  BY <1>6, <1>7, <1>8, <1>9, <1>10, <1>11, <1>12, <1>13, <1>14, <1>15, <1>16, <1>17,
     <1>18 DEF Inv

\* An inactive instance is removed when no task refers to it any more.
LEMMA KeepsRemovedData ==
  ASSUME Inv, NEW i \in Instances, RemoveInstanceData(i),
         mInstances[i].state = "inactive"
  PROVE  Inv'
<1>0. /\ SLTypeOK /\ PcInv /\ LockInv /\ PoolInv /\ TaskInv /\ LoopInv /\ StopInv
      /\ RunsKnown /\ KeepInv /\ SyncInv /\ FirstInv /\ ItemsInv /\ StoredIsInstalled
  BY DEF Inv
<1>1. /\ pc.update = "removeData" /\ pc' = pc
  BY <1>0 DEF RemoveInstanceData, PcInv, Goto, ThreadNames
<1>2. /\ i \in todo /\ todo' = todo \ {i}
      /\ mInstances' = [mInstances EXCEPT ![i] = None] /\ stored' = [stored EXCEPT ![i] = None]
      /\ UNCHANGED <<mIsRunning, mFirstStart, mLaunchInProgress, pool, tasks,
                     lost, ttlTasks, req, marking, removeItems, runs, installed,
                     failed, broken, left>>
  BY <1>0, <1>1, VisitFacts DEF RemoveInstanceData, flags, poolVars, offlineVars,
     launchVars, outside, history
<1>3. /\ StartItems' = StartItems /\ Listed(req.start)' = Listed(req.start)
  BY <1>2 DEF Known, StartItems, Listed
<1>4. i \in Known /\ i \in req.stop
  BY <1>0, <1>1, <1>2, <1>3 DEF LoopInv
<1>5. tasks = {} /\ ttlTasks = {} /\ marking = None
  BY <1>0, <1>1, <1>2, <1>3, <1>4 DEF TaskInv, LockInv, LoopInv, PoolInv, LaunchPool, StopPool
<1>6. /\ mInstances' \in [Instances -> {None} \union
                                [version : Versions, state : InstanceStates]]
      /\ stored' \in [Instances -> Versions \union {None}] /\ stored'[i] = None
      /\ \A j \in Instances : j # i => stored'[j] = stored[j]
  BY <1>0, <1>1, <1>2, <1>3, <1>4, <1>5 DEF SLTypeOK
<1>7. /\ mInstances'[i] = None
      /\ \A j \in Instances : j # i => mInstances'[j] = mInstances[j]
  BY <1>0, <1>1, <1>2, <1>3, <1>4, <1>5, <1>6 DEF SLTypeOK
<1>8. Known' = Known \ {i} /\ \A j \in Known' : mInstances'[j] = mInstances[j]
  BY <1>0, <1>1, <1>2, <1>3, <1>4, <1>5, <1>6, <1>7 DEF Known
<1>9. SLTypeOK'
  BY <1>0, <1>1, <1>2, <1>3, <1>4, <1>5, <1>6, <1>7, <1>8, MaxCallsIsNatural DEF
     SLTypeOK, RemoveInstanceData, Counted, flags, poolVars, offlineVars, launchVars,
     outside, history
<1>10. PcInv'
  BY <1>0, <1>1, <1>2, <1>3, <1>4, <1>5, <1>6, <1>7, <1>8 DEF PcInv, LaunchPool
<1>11. LockInv'
  BY <1>0, <1>1, <1>2, <1>3, <1>4, <1>5, <1>6, <1>7, <1>8 DEF LockInv
<1>12. PoolInv'
  BY <1>0, <1>1, <1>2, <1>3, <1>4, <1>5, <1>6, <1>7, <1>8 DEF PoolInv, LaunchPool,
     StopPool, Before
<1>13. TaskInv'
  BY <1>0, <1>1, <1>2, <1>3, <1>4, <1>5, <1>6, <1>7, <1>8 DEF TaskInv
<1>14. LoopInv'
  BY <1>0, <1>1, <1>2, <1>3, <1>4, <1>5, <1>6, <1>7, <1>8 DEF LoopInv
<1>15. StopInv'
  BY <1>0, <1>1, <1>2, <1>3, <1>4, <1>5, <1>6, <1>7, <1>8 DEF StopInv
<1>16. RunsKnown'
  BY <1>0, <1>1, <1>2, <1>3, <1>4, <1>5, <1>6, <1>7, <1>8 DEF RunsKnown, StopInv
<1>17. KeepInv'
  BY <1>0, <1>1, <1>2, <1>3, <1>4, <1>5, <1>6, <1>7, <1>8 DEF KeepInv, LaunchPool,
     StopPool, Before
<1>18. SyncInv'
  BY <1>0, <1>1, <1>2, <1>3, <1>4, <1>5, <1>6, <1>7, <1>8 DEF SyncInv, LaunchPool,
     StopPool, Before
<1>19. FirstInv'
  BY <1>0, <1>1, <1>2, <1>3, <1>4, <1>5, <1>6, <1>7, <1>8 DEF FirstInv, LaunchPool,
     StopPool, Before, LoopInv
<1>20. ItemsInv'
  BY <1>0, <1>1, <1>2, <1>3, <1>4, <1>5, <1>6, <1>7, <1>8 DEF ItemsInv
<1>21. StoredIsInstalled'
  BY <1>0, <1>1, <1>2, <1>3, <1>4, <1>5, <1>6, <1>7, <1>8 DEF StoredIsInstalled
<1> QED
  BY <1>9, <1>10, <1>11, <1>12, <1>13, <1>14, <1>15, <1>16, <1>17, <1>18, <1>19, <1>20,
     <1>21 DEF Inv

\* What is not inactive failed to stop, and stays.
LEMMA KeepsDataKept ==
  ASSUME Inv, NEW i \in Instances, RemoveInstanceData(i),
         mInstances[i].state # "inactive"
  PROVE  Inv'
<1>0. /\ SLTypeOK /\ PcInv /\ LockInv /\ PoolInv /\ TaskInv /\ LoopInv /\ StopInv
      /\ RunsKnown /\ KeepInv /\ SyncInv /\ FirstInv /\ ItemsInv /\ StoredIsInstalled
  BY DEF Inv
<1>1. /\ pc.update = "removeData" /\ pc' = pc
  BY <1>0 DEF RemoveInstanceData, PcInv, Goto, ThreadNames
<1>2. /\ i \in todo /\ todo' = todo \ {i}
      /\ UNCHANGED <<mIsRunning, mFirstStart, mLaunchInProgress, mInstances, pool,
                     tasks, lost, ttlTasks, req, marking, removeItems, stored,
                     runs, installed, failed, broken, left>>
  BY <1>0, <1>1, VisitFacts DEF RemoveInstanceData, flags, poolVars, offlineVars,
     launchVars, outside, history
<1>3. /\ Known' = Known
      /\ StartItems' = StartItems /\ Listed(req.start)' = Listed(req.start)
  BY <1>2 DEF Known, StartItems, Listed
<1>4. SLTypeOK'
  BY <1>0, <1>1, <1>2, <1>3, MaxCallsIsNatural DEF SLTypeOK, RemoveInstanceData,
     Counted, flags, poolVars, offlineVars, launchVars, outside, history
<1>5. PcInv'
  BY <1>0, <1>1, <1>2, <1>3 DEF PcInv, LaunchPool
<1>6. LockInv'
  BY <1>0, <1>1, <1>2, <1>3 DEF LockInv
<1>7. PoolInv'
  BY <1>0, <1>1, <1>2, <1>3 DEF PoolInv, LaunchPool, StopPool, Before
<1>8. TaskInv'
  BY <1>0, <1>1, <1>2, <1>3 DEF TaskInv
<1>9. LoopInv'
  BY <1>0, <1>1, <1>2, <1>3 DEF LoopInv
<1>10. StopInv'
  BY <1>0, <1>1, <1>2, <1>3 DEF StopInv
<1>11. RunsKnown'
  BY <1>0, <1>1, <1>2, <1>3 DEF RunsKnown
<1>12. KeepInv'
  BY <1>0, <1>1, <1>2, <1>3 DEF KeepInv, LaunchPool, StopPool, Before
<1>13. SyncInv'
  BY <1>0, <1>1, <1>2, <1>3 DEF SyncInv, LaunchPool, StopPool, Before
<1>14. FirstInv'
  BY <1>0, <1>1, <1>2, <1>3 DEF FirstInv, LaunchPool, StopPool, Before
<1>15. ItemsInv'
  BY <1>0, <1>1, <1>2, <1>3 DEF ItemsInv
<1>16. StoredIsInstalled'
  BY <1>0, <1>1, <1>2, <1>3 DEF StoredIsInstalled
<1> QED
  BY <1>4, <1>5, <1>6, <1>7, <1>8, <1>9, <1>10, <1>11, <1>12, <1>13, <1>14, <1>15,
     <1>16 DEF Inv

\* The tasks for the items: none to remove is needed by an instance to start.
LEMMA KeepsUpdateItems ==
  ASSUME Inv, UpdateItems
  PROVE  Inv'
<1>0. /\ SLTypeOK /\ PcInv /\ LockInv /\ PoolInv /\ TaskInv /\ LoopInv /\ StopInv
      /\ RunsKnown /\ KeepInv /\ SyncInv /\ FirstInv /\ ItemsInv /\ StoredIsInstalled
  BY DEF Inv
<1>1. pc.update = "removeData" /\ Goto("update", "items")
  BY <1>0 DEF UpdateItems, AddTasks
<1>2. /\ pc.update = "removeData" /\ pc'.update = "items"
      /\ pc'.main = pc.main /\ pc'.ttl = pc.ttl
      /\ pc' = [t \in ThreadNames |-> pc'[t]]
  BY <1>0, <1>1, GotoFacts
<1>3. /\ todo = {} /\ tasks' = tasks \union (IF mFirstStart THEN {}
              ELSE {[op |-> "remove", of |-> x] : x \in removeItems} \union
                   {[op |-> "install", of |-> x] : x \in StartItems \ installed})
      /\ UNCHANGED <<mIsRunning, mFirstStart, mLaunchInProgress, mInstances, pool,
                     lost, ttlTasks, req, todo, marking, removeItems, stored,
                     runs, installed, failed, broken, left>>
  BY <1>0, <1>2 DEF UpdateItems, AddTasks, flags, poolVars, offlineVars, launchVars,
     outside, history
<1>4. /\ Known' = Known
      /\ StartItems' = StartItems /\ Listed(req.start)' = Listed(req.start)
  BY <1>3 DEF Known, StartItems, Listed
<1>5. tasks = {}
  BY <1>0, <1>2, <1>3, <1>4 DEF TaskInv, PoolInv, LaunchPool, StopPool
<1>6. /\ \A t \in tasks' : /\ ~mFirstStart
                            /\ \/ t.op = "install"
                               \/ t.op = "remove" /\ t.of \notin StartItems
      /\ ~mFirstStart => \A x \in StartItems :
             x \in installed \/ [op |-> "install", of |-> x] \in tasks'
  BY <1>0, <1>2, <1>3, <1>4, <1>5 DEF KeepInv
<1>7. SLTypeOK'
  BY <1>0, <1>2, <1>3, <1>4, <1>5, <1>6, MaxCallsIsNatural DEF SLTypeOK, UpdateItems,
     AddTasks, Counted, flags, poolVars, offlineVars, launchVars, outside, history
<1>8. PcInv'
  BY <1>0, <1>2, <1>3, <1>4, <1>5, <1>6 DEF PcInv, LaunchPool
<1>9. LockInv'
  BY <1>0, <1>2, <1>3, <1>4, <1>5, <1>6 DEF LockInv
<1>10. PoolInv'
  BY <1>0, <1>2, <1>3, <1>4, <1>5, <1>6 DEF PoolInv, LaunchPool, StopPool, Before
<1>11. TaskInv'
  BY <1>0, <1>2, <1>3, <1>4, <1>5, <1>6 DEF TaskInv
<1>12. LoopInv'
  BY <1>0, <1>2, <1>3, <1>4, <1>5, <1>6 DEF LoopInv
<1>13. StopInv'
  BY <1>0, <1>2, <1>3, <1>4, <1>5, <1>6 DEF StopInv
<1>14. RunsKnown'
  BY <1>0, <1>2, <1>3, <1>4, <1>5, <1>6 DEF RunsKnown
<1>15. KeepInv'
  BY <1>0, <1>2, <1>3, <1>4, <1>5, <1>6 DEF KeepInv, LaunchPool, StopPool, Before
<1>16. SyncInv'
  BY <1>0, <1>2, <1>3, <1>4, <1>5, <1>6 DEF SyncInv, LaunchPool, StopPool, Before
<1>17. FirstInv'
  BY <1>0, <1>2, <1>3, <1>4, <1>5, <1>6 DEF FirstInv, LaunchPool, StopPool, Before
<1>18. ItemsInv'
  BY <1>0, <1>2, <1>3, <1>4, <1>5, <1>6 DEF ItemsInv
<1>19. StoredIsInstalled'
  BY <1>0, <1>2, <1>3, <1>4, <1>5, <1>6 DEF StoredIsInstalled
<1> QED
  BY <1>7, <1>8, <1>9, <1>10, <1>11, <1>12, <1>13, <1>14, <1>15, <1>16, <1>17, <1>18,
     <1>19 DEF Inv

\* All items are installed or failed to be, before an instance is remembered.
LEMMA KeepsWaitItems ==
  ASSUME Inv, WaitItems
  PROVE  Inv'
<1>0. /\ SLTypeOK /\ PcInv /\ LockInv /\ PoolInv /\ TaskInv /\ LoopInv /\ StopInv
      /\ RunsKnown /\ KeepInv /\ SyncInv /\ FirstInv /\ ItemsInv /\ StoredIsInstalled
  BY DEF Inv
<1>1. pc.update = "items" /\ Goto("update", "prepare")
  BY <1>0 DEF WaitItems, WaitPool
<1>2. /\ pc.update = "items" /\ pc'.update = "prepare"
      /\ pc'.main = pc.main /\ pc'.ttl = pc.ttl
      /\ pc' = [t \in ThreadNames |-> pc'[t]]
  BY <1>0, <1>1, GotoFacts
<1>3. /\ todo' = Listed(req.start) /\ (mFirstStart \/ (tasks = {} /\ ~lost))
      /\ UNCHANGED <<mIsRunning, mFirstStart, mLaunchInProgress, mInstances, pool,
                     tasks, lost, ttlTasks, req, marking, removeItems, stored,
                     runs, installed, failed, broken, left>>
  BY <1>0, <1>2 DEF WaitItems, WaitPool, flags, poolVars, offlineVars, launchVars,
     outside, history
<1>4. /\ Known' = Known
      /\ StartItems' = StartItems /\ Listed(req.start)' = Listed(req.start)
  BY <1>3 DEF Known, StartItems, Listed
<1>5. tasks = {} /\ Listed(req.start) \subseteq Instances
  BY <1>0, <1>2, <1>3, <1>4 DEF TaskInv, Listed, PoolInv, LaunchPool, StopPool
<1>6. SLTypeOK'
  BY <1>0, <1>2, <1>3, <1>4, <1>5, MaxCallsIsNatural DEF SLTypeOK, WaitItems, WaitPool,
     Counted, flags, poolVars, offlineVars, launchVars, outside, history
<1>7. PcInv'
  BY <1>0, <1>2, <1>3, <1>4, <1>5 DEF PcInv, LaunchPool
<1>8. LockInv'
  BY <1>0, <1>2, <1>3, <1>4, <1>5 DEF LockInv
<1>9. PoolInv'
  BY <1>0, <1>2, <1>3, <1>4, <1>5 DEF PoolInv, LaunchPool, StopPool, Before
<1>10. TaskInv'
  BY <1>0, <1>2, <1>3, <1>4, <1>5 DEF TaskInv
<1>11. LoopInv'
  BY <1>0, <1>2, <1>3, <1>4, <1>5 DEF LoopInv
<1>12. StopInv'
  BY <1>0, <1>2, <1>3, <1>4, <1>5 DEF StopInv
<1>13. RunsKnown'
  BY <1>0, <1>2, <1>3, <1>4, <1>5 DEF RunsKnown
<1>14. KeepInv'
  BY <1>0, <1>2, <1>3, <1>4, <1>5 DEF KeepInv, LaunchPool, StopPool, Before
<1>15. SyncInv'
  BY <1>0, <1>2, <1>3, <1>4, <1>5, KindsAreInstances DEF SyncInv, LaunchPool, StopPool,
     Before, FirstInv, Listed
<1>16. FirstInv'
  BY <1>0, <1>2, <1>3, <1>4, <1>5 DEF FirstInv, LaunchPool, StopPool, Before
<1>17. ItemsInv'
  BY <1>0, <1>2, <1>3, <1>4, <1>5 DEF ItemsInv
<1>18. StoredIsInstalled'
  BY <1>0, <1>2, <1>3, <1>4, <1>5 DEF StoredIsInstalled
<1> QED
  BY <1>6, <1>7, <1>8, <1>9, <1>10, <1>11, <1>12, <1>13, <1>14, <1>15, <1>16, <1>17,
     <1>18 DEF Inv

\* A known instance keeps its version.
LEMMA KeepsPreparedAgain ==
  ASSUME Inv, NEW i \in Instances, PrepareInstance(i), i \in Known
  PROVE  Inv'
<1>0. /\ SLTypeOK /\ PcInv /\ LockInv /\ PoolInv /\ TaskInv /\ LoopInv /\ StopInv
      /\ RunsKnown /\ KeepInv /\ SyncInv /\ FirstInv /\ ItemsInv /\ StoredIsInstalled
  BY DEF Inv
<1>1. /\ pc.update = "prepare" /\ pc' = pc
  BY <1>0 DEF PrepareInstance, PcInv, Goto, ThreadNames
<1>2. /\ i \in todo /\ todo' = todo \ {i} /\ SetInstanceState(i, "inactive")
      /\ UNCHANGED <<mIsRunning, mFirstStart, mLaunchInProgress, pool, tasks,
                     lost, ttlTasks, req, marking, removeItems, stored, runs,
                     installed, failed, broken, left>>
  BY <1>0, <1>1, VisitFacts DEF PrepareInstance, flags, poolVars, offlineVars,
     launchVars, outside, history
<1>3. /\ StartItems' = StartItems /\ Listed(req.start)' = Listed(req.start)
  BY <1>2 DEF Known, StartItems, Listed
<1>4. /\ mInstances' \in [Instances -> {None} \union
                                [version : Versions, state : InstanceStates]]
      /\ Known' = Known
      /\ \A j \in Known : mInstances'[j].version = mInstances[j].version
      /\ \A j \in Known : j # i => mInstances'[j].state = mInstances[j].state
      /\ mInstances'[i].state = "inactive"
  BY <1>0, <1>1, <1>2, <1>3, SetFacts DEF InstanceStates
<1>5. SLTypeOK'
  BY <1>0, <1>1, <1>2, <1>3, <1>4, MaxCallsIsNatural DEF SLTypeOK, PrepareInstance,
     Counted, flags, poolVars, offlineVars, launchVars, outside, history
<1>6. PcInv'
  BY <1>0, <1>1, <1>2, <1>3, <1>4 DEF PcInv, LaunchPool
<1>7. LockInv'
  BY <1>0, <1>1, <1>2, <1>3, <1>4 DEF LockInv
<1>8. PoolInv'
  BY <1>0, <1>1, <1>2, <1>3, <1>4 DEF PoolInv, LaunchPool, StopPool, Before
<1>9. TaskInv'
  BY <1>0, <1>1, <1>2, <1>3, <1>4 DEF TaskInv
<1>10. LoopInv'
  BY <1>0, <1>1, <1>2, <1>3, <1>4 DEF LoopInv
<1>11. StopInv'
  BY <1>0, <1>1, <1>2, <1>3, <1>4 DEF StopInv
<1>12. RunsKnown'
  BY <1>0, <1>1, <1>2, <1>3, <1>4 DEF RunsKnown
<1>13. KeepInv'
  BY <1>0, <1>1, <1>2, <1>3, <1>4 DEF KeepInv, LaunchPool, StopPool, Before
<1>14. SyncInv'
  BY <1>0, <1>1, <1>2, <1>3, <1>4 DEF SyncInv, LaunchPool, StopPool, Before
<1>15. FirstInv'
  BY <1>0, <1>1, <1>2, <1>3, <1>4 DEF FirstInv, LaunchPool, StopPool, Before
<1>16. ItemsInv'
  BY <1>0, <1>1, <1>2, <1>3, <1>4 DEF ItemsInv
<1>17. StoredIsInstalled'
  BY <1>0, <1>1, <1>2, <1>3, <1>4 DEF StoredIsInstalled
<1> QED
  BY <1>5, <1>6, <1>7, <1>8, <1>9, <1>10, <1>11, <1>12, <1>13, <1>14, <1>15, <1>16,
     <1>17 DEF Inv

\* A new instance is stored: its item was there at the first start, or is installed now.
LEMMA KeepsPrepared ==
  ASSUME Inv, NEW i \in Instances, PrepareInstance(i), i \notin Known
  PROVE  Inv'
<1>0. /\ SLTypeOK /\ PcInv /\ LockInv /\ PoolInv /\ TaskInv /\ LoopInv /\ StopInv
      /\ RunsKnown /\ KeepInv /\ SyncInv /\ FirstInv /\ ItemsInv /\ StoredIsInstalled
  BY DEF Inv
<1>1. /\ pc.update = "prepare" /\ pc' = pc
  BY <1>0 DEF PrepareInstance, PcInv, Goto, ThreadNames
<1>2. /\ i \in todo /\ todo' = todo \ {i}
      /\ stored' = [stored EXCEPT ![i] = req.start[i]]
      /\ \E s \in {"inactive", "failed"} :
             mInstances' = [mInstances EXCEPT ![i] = [version |-> req.start[i], state |-> s]]
      /\ UNCHANGED <<mIsRunning, mFirstStart, mLaunchInProgress, pool, tasks,
                     lost, ttlTasks, req, marking, removeItems, runs, installed,
                     failed, broken, left>>
  BY <1>0, <1>1, VisitFacts DEF PrepareInstance, flags, poolVars, offlineVars,
     launchVars, outside, history
<1>3. /\ StartItems' = StartItems /\ Listed(req.start)' = Listed(req.start)
  BY <1>2 DEF Known, StartItems, Listed
<1>4. req.start[i] \in Versions /\ Item(i, req.start[i]) \in StartItems
  BY <1>0, <1>1, <1>2, <1>3 DEF LoopInv, Listed, SLTypeOK, StartItems
<1>5. /\ mInstances' \in [Instances -> {None} \union
                                [version : Versions, state : InstanceStates]]
      /\ Known' = Known \union {i} /\ mInstances'[i].version = req.start[i]
      /\ \A j \in Known : mInstances'[j] = mInstances[j] /\ j # i
      /\ stored' \in [Instances -> Versions \union {None}] /\ stored'[i] = req.start[i]
      /\ \A j \in Instances : j # i => stored'[j] = stored[j]
  BY <1>0, <1>1, <1>2, <1>3, <1>4, NoneIsNothing DEF SLTypeOK, Known, InstanceStates
<1>6. SLTypeOK'
  BY <1>0, <1>1, <1>2, <1>3, <1>4, <1>5, MaxCallsIsNatural DEF SLTypeOK,
     PrepareInstance, Counted, flags, poolVars, offlineVars, launchVars, outside,
     history
<1>7. PcInv'
  BY <1>0, <1>1, <1>2, <1>3, <1>4, <1>5 DEF PcInv, LaunchPool
<1>8. LockInv'
  BY <1>0, <1>1, <1>2, <1>3, <1>4, <1>5 DEF LockInv
<1>9. PoolInv'
  BY <1>0, <1>1, <1>2, <1>3, <1>4, <1>5 DEF PoolInv, LaunchPool, StopPool, Before
<1>10. TaskInv'
  BY <1>0, <1>1, <1>2, <1>3, <1>4, <1>5 DEF TaskInv
<1>11. LoopInv'
  BY <1>0, <1>1, <1>2, <1>3, <1>4, <1>5 DEF LoopInv
<1>12. StopInv'
  BY <1>0, <1>1, <1>2, <1>3, <1>4, <1>5 DEF StopInv
<1>13. RunsKnown'
  BY <1>0, <1>1, <1>2, <1>3, <1>4, <1>5 DEF RunsKnown
<1>14. KeepInv'
  BY <1>0, <1>1, <1>2, <1>3, <1>4, <1>5 DEF KeepInv, LaunchPool, StopPool, Before
<1>15. SyncInv'
  BY <1>0, <1>1, <1>2, <1>3, <1>4, <1>5 DEF SyncInv, LaunchPool, StopPool, Before
<1>16. FirstInv'
  BY <1>0, <1>1, <1>2, <1>3, <1>4, <1>5 DEF FirstInv, LaunchPool, StopPool, Before
<1>17. ItemsInv'
  BY <1>0, <1>1, <1>2, <1>3, <1>4, <1>5 DEF ItemsInv
<1>18. StoredIsInstalled'
  <2>1. ASSUME NEW j \in Services \ (failed \union left), stored'[j] # None
        PROVE  Item(j, stored'[j]) \in installed \union broken
    <3>1. CASE j # i
      BY <3>1, <2>1, <1>0, <1>1, <1>2, <1>3, <1>4, <1>5, KindsAreInstances DEF StoredIsInstalled
    <3>2. CASE j = i /\ mFirstStart
      BY <3>2, <2>1, <1>0, <1>1, <1>2, <1>3, <1>4, <1>5 DEF StoredIsInstalled, FirstInv
    <3>3. CASE j = i /\ ~mFirstStart
      BY <3>3, <2>1, <1>0, <1>1, <1>2, <1>3, <1>4, <1>5 DEF ItemsInv
    <3> QED
      BY <3>1, <3>2, <3>3
  <2> QED
    BY <2>1, <1>0, <1>1, <1>2, <1>3, <1>4, <1>5 DEF StoredIsInstalled, Item
<1> QED
  BY <1>6, <1>7, <1>8, <1>9, <1>10, <1>11, <1>12, <1>13, <1>14, <1>15, <1>16, <1>17,
     <1>18 DEF Inv

\* Every instance to start is known, and stored.
LEMMA KeepsAllPrepared ==
  ASSUME Inv, Prepared
  PROVE  Inv'
<1>0. /\ SLTypeOK /\ PcInv /\ LockInv /\ PoolInv /\ TaskInv /\ LoopInv /\ StopInv
      /\ RunsKnown /\ KeepInv /\ SyncInv /\ FirstInv /\ ItemsInv /\ StoredIsInstalled
  BY DEF Inv
<1>1. pc.update = "prepare" /\ Goto("update", "start")
  BY <1>0 DEF Prepared
<1>2. /\ pc.update = "prepare" /\ pc'.update = "start"
      /\ pc'.main = pc.main /\ pc'.ttl = pc.ttl
      /\ pc' = [t \in ThreadNames |-> pc'[t]]
  BY <1>0, <1>1, GotoFacts
<1>3. /\ todo = {} /\ todo' = Listed(req.start)
      /\ UNCHANGED <<mIsRunning, mFirstStart, mLaunchInProgress, mInstances, pool,
                     tasks, lost, ttlTasks, req, marking, removeItems, stored,
                     runs, installed, failed, broken, left>>
  BY <1>0, <1>2 DEF Prepared, flags, poolVars, offlineVars, launchVars, outside, history
<1>4. /\ Known' = Known
      /\ StartItems' = StartItems /\ Listed(req.start)' = Listed(req.start)
  BY <1>3 DEF Known, StartItems, Listed
<1>5. Listed(req.start) \subseteq Instances
  BY DEF Listed
<1>6. SLTypeOK'
  BY <1>0, <1>2, <1>3, <1>4, <1>5, MaxCallsIsNatural DEF SLTypeOK, Prepared, Counted,
     flags, poolVars, offlineVars, launchVars, outside, history
<1>7. PcInv'
  BY <1>0, <1>2, <1>3, <1>4, <1>5 DEF PcInv, LaunchPool
<1>8. LockInv'
  BY <1>0, <1>2, <1>3, <1>4, <1>5 DEF LockInv
<1>9. PoolInv'
  BY <1>0, <1>2, <1>3, <1>4, <1>5 DEF PoolInv, LaunchPool, StopPool, Before
<1>10. TaskInv'
  BY <1>0, <1>2, <1>3, <1>4, <1>5 DEF TaskInv
<1>11. LoopInv'
  BY <1>0, <1>2, <1>3, <1>4, <1>5 DEF LoopInv
<1>12. StopInv'
  BY <1>0, <1>2, <1>3, <1>4, <1>5 DEF StopInv
<1>13. RunsKnown'
  BY <1>0, <1>2, <1>3, <1>4, <1>5 DEF RunsKnown
<1>14. KeepInv'
  BY <1>0, <1>2, <1>3, <1>4, <1>5 DEF KeepInv, LaunchPool, StopPool, Before
<1>15. SyncInv'
  BY <1>0, <1>2, <1>3, <1>4, <1>5 DEF SyncInv, LaunchPool, StopPool, Before
<1>16. FirstInv'
  BY <1>0, <1>2, <1>3, <1>4, <1>5 DEF FirstInv, LaunchPool, StopPool, Before
<1>17. ItemsInv'
  BY <1>0, <1>2, <1>3, <1>4, <1>5 DEF ItemsInv
<1>18. StoredIsInstalled'
  BY <1>0, <1>2, <1>3, <1>4, <1>5 DEF StoredIsInstalled
<1> QED
  BY <1>6, <1>7, <1>8, <1>9, <1>10, <1>11, <1>12, <1>13, <1>14, <1>15, <1>16, <1>17,
     <1>18 DEF Inv

\* A task to start an instance is queued.
LEMMA KeepsStartInstance ==
  ASSUME Inv, NEW i \in Instances, StartInstance(i), StateIn(i, {"inactive"})
  PROVE  Inv'
<1>0. /\ SLTypeOK /\ PcInv /\ LockInv /\ PoolInv /\ TaskInv /\ LoopInv /\ StopInv
      /\ RunsKnown /\ KeepInv /\ SyncInv /\ FirstInv /\ ItemsInv /\ StoredIsInstalled
  BY DEF Inv
<1>1. /\ pc.update = "start" /\ pc' = pc
  BY <1>0 DEF StartInstance, AddTasks, StateIn, PcInv, Goto, ThreadNames
<1>2. /\ i \in todo /\ todo' = todo \ {i} /\ SetInstanceState(i, "activating") /\ i \in Known
      /\ tasks' = tasks \union {[op |-> "start", of |-> i]}
      /\ UNCHANGED <<mIsRunning, mFirstStart, mLaunchInProgress, pool, lost,
                     ttlTasks, req, marking, removeItems, stored, runs, installed,
                     failed, broken, left>>
  BY <1>0, <1>1, VisitFacts DEF StartInstance, AddTasks, StateIn, flags, poolVars,
     offlineVars, launchVars, outside, history
<1>3. /\ StartItems' = StartItems /\ Listed(req.start)' = Listed(req.start)
  BY <1>2 DEF Known, StartItems, Listed
<1>4. /\ mInstances' \in [Instances -> {None} \union
                                [version : Versions, state : InstanceStates]]
      /\ Known' = Known
      /\ \A j \in Known : mInstances'[j].version = mInstances[j].version
      /\ \A j \in Known : j # i => mInstances'[j].state = mInstances[j].state
      /\ mInstances'[i].state = "activating"
  BY <1>0, <1>1, <1>2, <1>3, SetFacts DEF InstanceStates
<1>5. SLTypeOK'
  BY <1>0, <1>1, <1>2, <1>3, <1>4, MaxCallsIsNatural DEF SLTypeOK, StartInstance,
     AddTasks, StateIn, Counted, flags, poolVars, offlineVars, launchVars, outside,
     history
<1>6. PcInv'
  BY <1>0, <1>1, <1>2, <1>3, <1>4 DEF PcInv, LaunchPool
<1>7. LockInv'
  BY <1>0, <1>1, <1>2, <1>3, <1>4 DEF LockInv
<1>8. PoolInv'
  BY <1>0, <1>1, <1>2, <1>3, <1>4 DEF PoolInv, LaunchPool, StopPool, Before
<1>9. TaskInv'
  BY <1>0, <1>1, <1>2, <1>3, <1>4 DEF TaskInv
<1>10. LoopInv'
  BY <1>0, <1>1, <1>2, <1>3, <1>4 DEF LoopInv
<1>11. StopInv'
  BY <1>0, <1>1, <1>2, <1>3, <1>4 DEF StopInv
<1>12. RunsKnown'
  BY <1>0, <1>1, <1>2, <1>3, <1>4 DEF RunsKnown
<1>13. KeepInv'
  BY <1>0, <1>1, <1>2, <1>3, <1>4 DEF KeepInv, LaunchPool, StopPool, Before
<1>14. SyncInv'
  BY <1>0, <1>1, <1>2, <1>3, <1>4 DEF SyncInv, LaunchPool, StopPool, Before
<1>15. FirstInv'
  BY <1>0, <1>1, <1>2, <1>3, <1>4 DEF FirstInv, LaunchPool, StopPool, Before
<1>16. ItemsInv'
  BY <1>0, <1>1, <1>2, <1>3, <1>4 DEF ItemsInv
<1>17. StoredIsInstalled'
  BY <1>0, <1>1, <1>2, <1>3, <1>4 DEF StoredIsInstalled
<1> QED
  BY <1>5, <1>6, <1>7, <1>8, <1>9, <1>10, <1>11, <1>12, <1>13, <1>14, <1>15, <1>16,
     <1>17 DEF Inv

\* An instance that failed to be prepared is passed over.
LEMMA KeepsNotStarted ==
  ASSUME Inv, NEW i \in Instances, StartInstance(i), ~StateIn(i, {"inactive"})
  PROVE  Inv'
<1>0. /\ SLTypeOK /\ PcInv /\ LockInv /\ PoolInv /\ TaskInv /\ LoopInv /\ StopInv
      /\ RunsKnown /\ KeepInv /\ SyncInv /\ FirstInv /\ ItemsInv /\ StoredIsInstalled
  BY DEF Inv
<1>1. /\ pc.update = "start" /\ pc' = pc
  BY <1>0 DEF StartInstance, PcInv, Goto, ThreadNames
<1>2. /\ i \in todo /\ todo' = todo \ {i}
      /\ UNCHANGED <<mIsRunning, mFirstStart, mLaunchInProgress, mInstances, pool,
                     tasks, lost, ttlTasks, req, marking, removeItems, stored,
                     runs, installed, failed, broken, left>>
  BY <1>0, <1>1, VisitFacts DEF StartInstance, flags, poolVars, offlineVars,
     launchVars, outside, history
<1>3. /\ Known' = Known
      /\ StartItems' = StartItems /\ Listed(req.start)' = Listed(req.start)
  BY <1>2 DEF Known, StartItems, Listed
<1>4. SLTypeOK'
  BY <1>0, <1>1, <1>2, <1>3, MaxCallsIsNatural DEF SLTypeOK, StartInstance, Counted,
     flags, poolVars, offlineVars, launchVars, outside, history
<1>5. PcInv'
  BY <1>0, <1>1, <1>2, <1>3 DEF PcInv, LaunchPool
<1>6. LockInv'
  BY <1>0, <1>1, <1>2, <1>3 DEF LockInv
<1>7. PoolInv'
  BY <1>0, <1>1, <1>2, <1>3 DEF PoolInv, LaunchPool, StopPool, Before
<1>8. TaskInv'
  BY <1>0, <1>1, <1>2, <1>3 DEF TaskInv
<1>9. LoopInv'
  BY <1>0, <1>1, <1>2, <1>3 DEF LoopInv
<1>10. StopInv'
  BY <1>0, <1>1, <1>2, <1>3 DEF StopInv
<1>11. RunsKnown'
  BY <1>0, <1>1, <1>2, <1>3 DEF RunsKnown
<1>12. KeepInv'
  BY <1>0, <1>1, <1>2, <1>3 DEF KeepInv, LaunchPool, StopPool, Before
<1>13. SyncInv'
  BY <1>0, <1>1, <1>2, <1>3 DEF SyncInv, LaunchPool, StopPool, Before
<1>14. FirstInv'
  BY <1>0, <1>1, <1>2, <1>3 DEF FirstInv, LaunchPool, StopPool, Before
<1>15. ItemsInv'
  BY <1>0, <1>1, <1>2, <1>3 DEF ItemsInv
<1>16. StoredIsInstalled'
  BY <1>0, <1>1, <1>2, <1>3 DEF StoredIsInstalled
<1> QED
  BY <1>4, <1>5, <1>6, <1>7, <1>8, <1>9, <1>10, <1>11, <1>12, <1>13, <1>14, <1>15,
     <1>16 DEF Inv

\* The pool is shut down by the launch alone.
LEMMA KeepsWaitStarted ==
  ASSUME Inv, WaitStarted
  PROVE  Inv'
<1>0. /\ SLTypeOK /\ PcInv /\ LockInv /\ PoolInv /\ TaskInv /\ LoopInv /\ StopInv
      /\ RunsKnown /\ KeepInv /\ SyncInv /\ FirstInv /\ ItemsInv /\ StoredIsInstalled
  BY DEF Inv
<1>1. pc.update = "start" /\ Goto("update", "join")
  BY <1>0 DEF WaitStarted, ShutdownPool
<1>2. /\ pc.update = "start" /\ pc'.update = "join"
      /\ pc'.main = pc.main /\ pc'.ttl = pc.ttl
      /\ pc' = [t \in ThreadNames |-> pc'[t]]
  BY <1>0, <1>1, GotoFacts
<1>3. /\ todo = {} /\ tasks' = {} /\ lost' \in BOOLEAN /\ pool' \in {"closing", pool}
      /\ UNCHANGED <<mIsRunning, mFirstStart, mLaunchInProgress, mInstances,
                     ttlTasks, req, todo, marking, removeItems, stored, runs,
                     installed, failed, broken, left>>
  BY <1>0, <1>2 DEF WaitStarted, ShutdownPool, flags, poolVars, offlineVars,
     launchVars, outside, history
<1>4. /\ Known' = Known
      /\ StartItems' = StartItems /\ Listed(req.start)' = Listed(req.start)
  BY <1>3 DEF Known, StartItems, Listed
<1>5. SLTypeOK'
  BY <1>0, <1>2, <1>3, <1>4, MaxCallsIsNatural DEF SLTypeOK, WaitStarted, ShutdownPool,
     Counted, flags, poolVars, offlineVars, launchVars, outside, history
<1>6. PcInv'
  BY <1>0, <1>2, <1>3, <1>4 DEF PcInv, LaunchPool
<1>7. LockInv'
  BY <1>0, <1>2, <1>3, <1>4 DEF LockInv
<1>8. PoolInv'
  BY <1>0, <1>2, <1>3, <1>4 DEF PoolInv, LaunchPool, StopPool, Before
<1>9. TaskInv'
  BY <1>0, <1>2, <1>3, <1>4 DEF TaskInv
<1>10. LoopInv'
  BY <1>0, <1>2, <1>3, <1>4 DEF LoopInv
<1>11. StopInv'
  BY <1>0, <1>2, <1>3, <1>4 DEF StopInv
<1>12. RunsKnown'
  BY <1>0, <1>2, <1>3, <1>4 DEF RunsKnown
<1>13. KeepInv'
  BY <1>0, <1>2, <1>3, <1>4 DEF KeepInv, LaunchPool, StopPool, Before
<1>14. SyncInv'
  BY <1>0, <1>2, <1>3, <1>4 DEF SyncInv, LaunchPool, StopPool, Before
<1>15. FirstInv'
  BY <1>0, <1>2, <1>3, <1>4 DEF FirstInv, LaunchPool, StopPool, Before
<1>16. ItemsInv'
  BY <1>0, <1>2, <1>3, <1>4 DEF ItemsInv
<1>17. StoredIsInstalled'
  BY <1>0, <1>2, <1>3, <1>4 DEF StoredIsInstalled
<1> QED
  BY <1>5, <1>6, <1>7, <1>8, <1>9, <1>10, <1>11, <1>12, <1>13, <1>14, <1>15, <1>16,
     <1>17 DEF Inv

\* The pool is off again.
LEMMA KeepsJoinLaunchPool ==
  ASSUME Inv, JoinLaunchPool
  PROVE  Inv'
<1>0. /\ SLTypeOK /\ PcInv /\ LockInv /\ PoolInv /\ TaskInv /\ LoopInv /\ StopInv
      /\ RunsKnown /\ KeepInv /\ SyncInv /\ FirstInv /\ ItemsInv /\ StoredIsInstalled
  BY DEF Inv
<1>1. pc.update = "join" /\ Goto("update", "send")
  BY <1>0 DEF JoinLaunchPool, JoinPool
<1>2. /\ pc.update = "join" /\ pc'.update = "send"
      /\ pc'.main = pc.main /\ pc'.ttl = pc.ttl
      /\ pc' = [t \in ThreadNames |-> pc'[t]]
  BY <1>0, <1>1, GotoFacts
<1>3. /\ pool' = "off"
      /\ UNCHANGED <<mIsRunning, mFirstStart, mLaunchInProgress, mInstances,
                     tasks, lost, ttlTasks, req, todo, marking, removeItems,
                     stored, runs, installed, failed, broken, left>>
  BY <1>0, <1>2 DEF JoinLaunchPool, JoinPool, flags, poolVars, offlineVars, launchVars,
     outside, history
<1>4. /\ Known' = Known
      /\ StartItems' = StartItems /\ Listed(req.start)' = Listed(req.start)
  BY <1>3 DEF Known, StartItems, Listed
<1>5. SLTypeOK'
  BY <1>0, <1>2, <1>3, <1>4, MaxCallsIsNatural DEF SLTypeOK, JoinLaunchPool, JoinPool,
     Counted, flags, poolVars, offlineVars, launchVars, outside, history
<1>6. PcInv'
  BY <1>0, <1>2, <1>3, <1>4 DEF PcInv, LaunchPool
<1>7. LockInv'
  BY <1>0, <1>2, <1>3, <1>4 DEF LockInv
<1>8. PoolInv'
  BY <1>0, <1>2, <1>3, <1>4 DEF PoolInv, LaunchPool, StopPool, Before
<1>9. TaskInv'
  BY <1>0, <1>2, <1>3, <1>4 DEF TaskInv
<1>10. LoopInv'
  BY <1>0, <1>2, <1>3, <1>4 DEF LoopInv
<1>11. StopInv'
  BY <1>0, <1>2, <1>3, <1>4 DEF StopInv
<1>12. RunsKnown'
  BY <1>0, <1>2, <1>3, <1>4 DEF RunsKnown
<1>13. KeepInv'
  BY <1>0, <1>2, <1>3, <1>4 DEF KeepInv, LaunchPool, StopPool, Before
<1>14. SyncInv'
  BY <1>0, <1>2, <1>3, <1>4 DEF SyncInv, LaunchPool, StopPool, Before
<1>15. FirstInv'
  BY <1>0, <1>2, <1>3, <1>4 DEF FirstInv, LaunchPool, StopPool, Before
<1>16. ItemsInv'
  BY <1>0, <1>2, <1>3, <1>4 DEF ItemsInv
<1>17. StoredIsInstalled'
  BY <1>0, <1>2, <1>3, <1>4 DEF StoredIsInstalled
<1> QED
  BY <1>5, <1>6, <1>7, <1>8, <1>9, <1>10, <1>11, <1>12, <1>13, <1>14, <1>15, <1>16,
     <1>17 DEF Inv

\* The first launch ends.
LEMMA KeepsSendStatus ==
  ASSUME Inv, SendStatus
  PROVE  Inv'
<1>0. /\ SLTypeOK /\ PcInv /\ LockInv /\ PoolInv /\ TaskInv /\ LoopInv /\ StopInv
      /\ RunsKnown /\ KeepInv /\ SyncInv /\ FirstInv /\ ItemsInv /\ StoredIsInstalled
  BY DEF Inv
<1>1. pc.update = "send" /\ Goto("update", "finish")
  BY <1>0 DEF SendStatus
<1>2. /\ pc.update = "send" /\ pc'.update = "finish"
      /\ pc'.main = pc.main /\ pc'.ttl = pc.ttl
      /\ pc' = [t \in ThreadNames |-> pc'[t]]
  BY <1>0, <1>1, GotoFacts
<1>3. /\ mFirstStart' = FALSE
      /\ UNCHANGED <<mIsRunning, mLaunchInProgress, mInstances, pool, tasks, lost,
                     ttlTasks, req, todo, marking, removeItems, stored, runs,
                     installed, failed, broken, left>>
  BY <1>0, <1>2 DEF SendStatus, flags, poolVars, offlineVars, launchVars, outside,
     history
<1>4. /\ Known' = Known
      /\ StartItems' = StartItems /\ Listed(req.start)' = Listed(req.start)
  BY <1>3 DEF Known, StartItems, Listed
<1>5. SLTypeOK'
  BY <1>0, <1>2, <1>3, <1>4, MaxCallsIsNatural DEF SLTypeOK, SendStatus, Counted,
     flags, poolVars, offlineVars, launchVars, outside, history
<1>6. PcInv'
  BY <1>0, <1>2, <1>3, <1>4 DEF PcInv, LaunchPool
<1>7. LockInv'
  BY <1>0, <1>2, <1>3, <1>4 DEF LockInv
<1>8. PoolInv'
  BY <1>0, <1>2, <1>3, <1>4 DEF PoolInv, LaunchPool, StopPool, Before
<1>9. TaskInv'
  BY <1>0, <1>2, <1>3, <1>4 DEF TaskInv
<1>10. LoopInv'
  BY <1>0, <1>2, <1>3, <1>4 DEF LoopInv
<1>11. StopInv'
  BY <1>0, <1>2, <1>3, <1>4 DEF StopInv
<1>12. RunsKnown'
  BY <1>0, <1>2, <1>3, <1>4 DEF RunsKnown
<1>13. KeepInv'
  BY <1>0, <1>2, <1>3, <1>4 DEF KeepInv, LaunchPool, StopPool, Before
<1>14. SyncInv'
  BY <1>0, <1>2, <1>3, <1>4 DEF SyncInv, LaunchPool, StopPool, Before
<1>15. FirstInv'
  BY <1>0, <1>2, <1>3, <1>4 DEF FirstInv, LaunchPool, StopPool, Before
<1>16. ItemsInv'
  BY <1>0, <1>2, <1>3, <1>4 DEF ItemsInv
<1>17. StoredIsInstalled'
  BY <1>0, <1>2, <1>3, <1>4 DEF StoredIsInstalled
<1> QED
  BY <1>5, <1>6, <1>7, <1>8, <1>9, <1>10, <1>11, <1>12, <1>13, <1>14, <1>15, <1>16,
     <1>17 DEF Inv

\* The launch gives up mLaunchInProgress.
LEMMA KeepsFinishLaunch ==
  ASSUME Inv, FinishLaunch
  PROVE  Inv'
<1>0. /\ SLTypeOK /\ PcInv /\ LockInv /\ PoolInv /\ TaskInv /\ LoopInv /\ StopInv
      /\ RunsKnown /\ KeepInv /\ SyncInv /\ FirstInv /\ ItemsInv /\ StoredIsInstalled
  BY DEF Inv
<1>1. pc.update = "finish" /\ Goto("update", "idle")
  BY <1>0 DEF FinishLaunch, NotifyAll
<1>2. /\ pc.update = "finish" /\ pc'.update = "idle"
      /\ pc'.main = pc.main /\ pc'.ttl = pc.ttl
      /\ pc' = [t \in ThreadNames |-> pc'[t]]
  BY <1>0, <1>1, GotoFacts
<1>3. /\ mLaunchInProgress' = FALSE /\ req' = NoRequest
      /\ UNCHANGED <<mIsRunning, mFirstStart, mInstances, pool, tasks, lost,
                     ttlTasks, todo, marking, stored, runs, installed, failed,
                     broken, left>>
  BY <1>0, <1>2 DEF FinishLaunch, NotifyAll, flags, poolVars, offlineVars, launchVars,
     outside, history
<1>4. /\ Known' = Known
  BY <1>3 DEF Known, StartItems, Listed
<1>5. req'.stop \subseteq Instances /\ req'.start \in [Instances -> Versions \union {None}]
  BY <1>0, <1>2, <1>3, <1>4 DEF NoRequest
<1>6. SLTypeOK'
  BY <1>0, <1>2, <1>3, <1>4, <1>5, MaxCallsIsNatural DEF SLTypeOK, FinishLaunch,
     NotifyAll, Counted, flags, poolVars, offlineVars, launchVars, outside, history
<1>7. PcInv'
  BY <1>0, <1>2, <1>3, <1>4, <1>5 DEF PcInv, LaunchPool
<1>8. LockInv'
  BY <1>0, <1>2, <1>3, <1>4, <1>5 DEF LockInv
<1>9. PoolInv'
  BY <1>0, <1>2, <1>3, <1>4, <1>5 DEF PoolInv, LaunchPool, StopPool, Before
<1>10. TaskInv'
  BY <1>0, <1>2, <1>3, <1>4, <1>5 DEF TaskInv
<1>11. LoopInv'
  BY <1>0, <1>2, <1>3, <1>4, <1>5 DEF LoopInv
<1>12. StopInv'
  BY <1>0, <1>2, <1>3, <1>4, <1>5 DEF StopInv
<1>13. RunsKnown'
  BY <1>0, <1>2, <1>3, <1>4, <1>5 DEF RunsKnown
<1>14. KeepInv'
  BY <1>0, <1>2, <1>3, <1>4, <1>5 DEF KeepInv, LaunchPool, StopPool, Before
<1>15. SyncInv'
  BY <1>0, <1>2, <1>3, <1>4, <1>5 DEF SyncInv, LaunchPool, StopPool, Before
<1>16. FirstInv'
  BY <1>0, <1>2, <1>3, <1>4, <1>5 DEF FirstInv, LaunchPool, StopPool, Before
<1>17. ItemsInv'
  BY <1>0, <1>2, <1>3, <1>4, <1>5 DEF ItemsInv
<1>18. StoredIsInstalled'
  BY <1>0, <1>2, <1>3, <1>4, <1>5 DEF StoredIsInstalled
<1> QED
  BY <1>6, <1>7, <1>8, <1>9, <1>10, <1>11, <1>12, <1>13, <1>14, <1>15, <1>16, <1>17,
     <1>18 DEF Inv

-----------------------------------------------------------------------------
(* The tasks of the pool.                                                  *)

\* The instance stops and is inactive, or it has failed.
LEMMA KeepsStopTask ==
  ASSUME Inv, NEW t \in tasks, StopTask(t)
  PROVE  Inv'
<1>0. /\ SLTypeOK /\ PcInv /\ LockInv /\ PoolInv /\ TaskInv /\ LoopInv /\ StopInv
      /\ RunsKnown /\ KeepInv /\ SyncInv /\ FirstInv /\ ItemsInv /\ StoredIsInstalled
  BY DEF Inv
<1>1. /\ pc' = pc
  BY <1>0 DEF StopTask, TaskInv, PcInv, Goto, ThreadNames
<1>2. /\ t.op \in {"stop", "halt"} /\ tasks' = tasks \ {t} /\ t.of \in Known
      /\ \/ runs' = [runs EXCEPT ![t.of] = None] /\ SetInstanceState(t.of, "inactive")
            /\ failed' = failed
         \/ runs' = runs /\ SetInstanceState(t.of, "failed") /\ failed' = failed \union {t.of}
      /\ UNCHANGED <<mIsRunning, mFirstStart, mLaunchInProgress, pool, lost,
                     ttlTasks, req, todo, marking, removeItems, stored, installed,
                     broken, left>>
  BY <1>0, <1>1 DEF StopTask, TaskInv, flags, poolVars, offlineVars, launchVars,
     outside, history
<1>3. /\ StartItems' = StartItems /\ Listed(req.start)' = Listed(req.start)
  BY <1>2 DEF Known, StartItems, Listed
<1>4. \E s \in InstanceStates : SetInstanceState(t.of, s)
  BY <1>0, <1>1, <1>2, <1>3 DEF InstanceStates
<1>5. /\ mInstances' \in [Instances -> {None} \union
                                [version : Versions, state : InstanceStates]]
      /\ Known' = Known
      /\ \A j \in Known : mInstances'[j].version = mInstances[j].version
      /\ \A j \in Known : j # t.of => mInstances'[j].state = mInstances[j].state
  <2>1. PICK s \in InstanceStates : SetInstanceState(t.of, s)
    BY <1>0, <1>1, <1>2, <1>3, <1>4
  <2> QED
    BY <2>1, <1>0, <1>1, <1>2, <1>3, <1>4, SetFacts
<1>6. /\ runs' \in [Instances -> Versions \union {None}]
      /\ \A j \in Instances : j # t.of => runs'[j] = runs[j]
      /\ failed \subseteq failed'
      /\ t.of \notin failed' => runs'[t.of] = None /\ mInstances'[t.of].state = "inactive"
  <2>1. CASE /\ runs' = [runs EXCEPT ![t.of] = None] /\ failed' = failed
             /\ SetInstanceState(t.of, "inactive")
    <3>1. mInstances'[t.of].state = "inactive"
      BY <2>1, <1>0, <1>1, <1>2, <1>3, <1>4, <1>5, SetFacts DEF InstanceStates
    <3> QED
      BY <2>1, <3>1, <1>0, <1>1, <1>2, <1>3, <1>4, <1>5 DEF SLTypeOK, Known
  <2>2. CASE runs' = runs /\ failed' = failed \union {t.of}
    BY <2>2, <1>0, <1>1, <1>2, <1>3, <1>4, <1>5 DEF SLTypeOK
  <2> QED
    BY <2>1, <2>2, <1>0, <1>1, <1>2, <1>3, <1>4, <1>5
<1>7. SLTypeOK'
  BY <1>0, <1>1, <1>2, <1>3, <1>4, <1>5, <1>6, MaxCallsIsNatural DEF SLTypeOK,
     StopTask, TaskInv, Counted, flags, poolVars, offlineVars, launchVars, outside,
     history
<1>8. PcInv'
  BY <1>0, <1>1, <1>2, <1>3, <1>4, <1>5, <1>6 DEF PcInv, LaunchPool
<1>9. LockInv'
  BY <1>0, <1>1, <1>2, <1>3, <1>4, <1>5, <1>6 DEF LockInv
<1>10. PoolInv'
  BY <1>0, <1>1, <1>2, <1>3, <1>4, <1>5, <1>6 DEF PoolInv, LaunchPool, StopPool, Before
<1>11. TaskInv'
  BY <1>0, <1>1, <1>2, <1>3, <1>4, <1>5, <1>6 DEF TaskInv
<1>12. LoopInv'
  BY <1>0, <1>1, <1>2, <1>3, <1>4, <1>5, <1>6 DEF LoopInv
<1>13. StopInv'
  <2>1. ASSUME NEW j \in (req.stop \intersect Known) \ failed', pc.update = "stop"
        PROVE  /\ \/ runs'[j] = None \/ j \in todo \/ lost
                  \/ [op |-> "stop", of |-> j] \in tasks'
               /\ mInstances'[j].state = "inactive" \/ j \in todo \/ marking = j
    <3>1. CASE j = t.of
      BY <3>1, <2>1, <1>0, <1>1, <1>2, <1>3, <1>4, <1>5, <1>6
    <3>2. CASE j # t.of
      <4>1. [op |-> "stop", of |-> j] # t
        BY <3>2
      <4> QED
        BY <4>1, <3>2, <2>1, <1>0, <1>1, <1>2, <1>3, <1>4, <1>5, <1>6, KnownFacts DEF StopInv
    <3> QED
      BY <3>1, <3>2
  <2>2. pc.update \notin {"removeData", "items"}
    BY <1>0, <1>1, <1>2, <1>3, <1>4, <1>5, <1>6 DEF TaskInv, PoolInv, LaunchPool, StopPool
  <2> QED
    BY <2>1, <2>2, <1>0, <1>1, <1>2, <1>3, <1>4, <1>5, <1>6 DEF StopInv
<1>14. RunsKnown'
  BY <1>0, <1>1, <1>2, <1>3, <1>4, <1>5, <1>6, KnownFacts DEF RunsKnown
<1>15. KeepInv'
  BY <1>0, <1>1, <1>2, <1>3, <1>4, <1>5, <1>6 DEF KeepInv, LaunchPool, StopPool, Before
<1>16. SyncInv'
  BY <1>0, <1>1, <1>2, <1>3, <1>4, <1>5, <1>6 DEF SyncInv, LaunchPool, StopPool, Before
<1>17. FirstInv'
  BY <1>0, <1>1, <1>2, <1>3, <1>4, <1>5, <1>6 DEF FirstInv, LaunchPool, StopPool, Before
<1>18. ItemsInv'
  BY <1>0, <1>1, <1>2, <1>3, <1>4, <1>5, <1>6 DEF ItemsInv
<1>19. StoredIsInstalled'
  BY <1>0, <1>1, <1>2, <1>3, <1>4, <1>5, <1>6 DEF StoredIsInstalled
<1> QED
  BY <1>7, <1>8, <1>9, <1>10, <1>11, <1>12, <1>13, <1>14, <1>15, <1>16, <1>17, <1>18,
     <1>19 DEF Inv

\* What runs is the version known.
LEMMA KeepsStartTask ==
  ASSUME Inv, NEW t \in tasks, StartTask(t)
  PROVE  Inv'
<1>0. /\ SLTypeOK /\ PcInv /\ LockInv /\ PoolInv /\ TaskInv /\ LoopInv /\ StopInv
      /\ RunsKnown /\ KeepInv /\ SyncInv /\ FirstInv /\ ItemsInv /\ StoredIsInstalled
  BY DEF Inv
<1>1. /\ pc' = pc
  BY <1>0 DEF StartTask, TaskInv, InstanceStates, PcInv, Goto, ThreadNames
<1>2. /\ t.op = "start" /\ tasks' = tasks \ {t} /\ t.of \in Known /\ pc.update = "start"
      /\ runs' \in {runs, [runs EXCEPT ![t.of] = mInstances[t.of].version]}
      /\ \E s \in InstanceStates : SetInstanceState(t.of, s)
      /\ UNCHANGED <<mIsRunning, mFirstStart, mLaunchInProgress, pool, lost,
                     ttlTasks, req, todo, marking, removeItems, stored, installed,
                     failed, broken, left>>
  BY <1>0, <1>1 DEF StartTask, TaskInv, InstanceStates, flags, poolVars, offlineVars,
     launchVars, outside, history
<1>3. /\ StartItems' = StartItems /\ Listed(req.start)' = Listed(req.start)
  BY <1>2 DEF Known, StartItems, Listed
<1>4. /\ mInstances' \in [Instances -> {None} \union
                                [version : Versions, state : InstanceStates]]
      /\ Known' = Known
      /\ \A j \in Known : mInstances'[j].version = mInstances[j].version
  <2>1. PICK s \in InstanceStates : SetInstanceState(t.of, s)
    BY <1>0, <1>1, <1>2, <1>3
  <2> QED
    BY <2>1, <1>0, <1>1, <1>2, <1>3, SetFacts
<1>5. /\ runs' \in [Instances -> Versions \union {None}]
      /\ \A j \in Instances : j # t.of => runs'[j] = runs[j]
      /\ runs'[t.of] = runs[t.of] \/ runs'[t.of] = mInstances[t.of].version
  BY <1>0, <1>1, <1>2, <1>3, <1>4, KnownFacts DEF SLTypeOK
<1>6. SLTypeOK'
  BY <1>0, <1>1, <1>2, <1>3, <1>4, <1>5, MaxCallsIsNatural DEF SLTypeOK, StartTask,
     TaskInv, InstanceStates, Counted, flags, poolVars, offlineVars, launchVars,
     outside, history
<1>7. PcInv'
  BY <1>0, <1>1, <1>2, <1>3, <1>4, <1>5 DEF PcInv, LaunchPool
<1>8. LockInv'
  BY <1>0, <1>1, <1>2, <1>3, <1>4, <1>5 DEF LockInv
<1>9. PoolInv'
  BY <1>0, <1>1, <1>2, <1>3, <1>4, <1>5 DEF PoolInv, LaunchPool, StopPool, Before
<1>10. TaskInv'
  BY <1>0, <1>1, <1>2, <1>3, <1>4, <1>5 DEF TaskInv
<1>11. LoopInv'
  BY <1>0, <1>1, <1>2, <1>3, <1>4, <1>5 DEF LoopInv
<1>12. StopInv'
  BY <1>0, <1>1, <1>2, <1>3, <1>4, <1>5 DEF StopInv
<1>13. RunsKnown'
  BY <1>0, <1>1, <1>2, <1>3, <1>4, <1>5, KnownFacts DEF RunsKnown
<1>14. KeepInv'
  BY <1>0, <1>1, <1>2, <1>3, <1>4, <1>5 DEF KeepInv, LaunchPool, StopPool, Before
<1>15. SyncInv'
  BY <1>0, <1>1, <1>2, <1>3, <1>4, <1>5 DEF SyncInv, LaunchPool, StopPool, Before
<1>16. FirstInv'
  BY <1>0, <1>1, <1>2, <1>3, <1>4, <1>5 DEF FirstInv, LaunchPool, StopPool, Before
<1>17. ItemsInv'
  BY <1>0, <1>1, <1>2, <1>3, <1>4, <1>5 DEF ItemsInv
<1>18. StoredIsInstalled'
  BY <1>0, <1>1, <1>2, <1>3, <1>4, <1>5 DEF StoredIsInstalled
<1> QED
  BY <1>6, <1>7, <1>8, <1>9, <1>10, <1>11, <1>12, <1>13, <1>14, <1>15, <1>16, <1>17,
     <1>18 DEF Inv

\* The item removed is needed by no stored service; the one installed is there or broken.
LEMMA KeepsItemTask ==
  ASSUME Inv, NEW t \in tasks, ItemTask(t)
  PROVE  Inv'
<1>0. /\ SLTypeOK /\ PcInv /\ LockInv /\ PoolInv /\ TaskInv /\ LoopInv /\ StopInv
      /\ RunsKnown /\ KeepInv /\ SyncInv /\ FirstInv /\ ItemsInv /\ StoredIsInstalled
  BY DEF Inv
<1>1. /\ pc' = pc
  BY <1>0 DEF ItemTask, TaskInv, PcInv, Goto, ThreadNames
<1>2. /\ tasks' = tasks \ {t} /\ pc.update = "items" /\ ~mFirstStart
      /\ broken \subseteq broken' /\ installed \ {t.of} \subseteq installed'
      /\ \/ t.op = "install" /\ t.of \in installed' \union broken' /\ installed \subseteq installed'
         \/ t.op = "remove" /\ t.of \notin StartItems
      /\ UNCHANGED <<mIsRunning, mFirstStart, mLaunchInProgress, mInstances, pool,
                     lost, ttlTasks, req, todo, marking, removeItems, stored,
                     runs, failed, left>>
  BY <1>0, <1>1 DEF ItemTask, TaskInv, flags, poolVars, offlineVars, launchVars,
     outside, history
<1>3. /\ Known' = Known
      /\ StartItems' = StartItems /\ Listed(req.start)' = Listed(req.start)
  BY <1>2 DEF Known, StartItems, Listed
<1>4. SLTypeOK'
  BY <1>0, <1>1, <1>2, <1>3, MaxCallsIsNatural DEF SLTypeOK, ItemTask, TaskInv,
     Counted, flags, poolVars, offlineVars, launchVars, outside, history
<1>5. PcInv'
  BY <1>0, <1>1, <1>2, <1>3 DEF PcInv, LaunchPool
<1>6. LockInv'
  BY <1>0, <1>1, <1>2, <1>3 DEF LockInv
<1>7. PoolInv'
  BY <1>0, <1>1, <1>2, <1>3 DEF PoolInv, LaunchPool, StopPool, Before
<1>8. TaskInv'
  BY <1>0, <1>1, <1>2, <1>3 DEF TaskInv
<1>9. LoopInv'
  BY <1>0, <1>1, <1>2, <1>3 DEF LoopInv
<1>10. StopInv'
  BY <1>0, <1>1, <1>2, <1>3 DEF StopInv
<1>11. RunsKnown'
  BY <1>0, <1>1, <1>2, <1>3 DEF RunsKnown
<1>12. KeepInv'
  BY <1>0, <1>1, <1>2, <1>3 DEF KeepInv, LaunchPool, StopPool, Before
<1>13. SyncInv'
  BY <1>0, <1>1, <1>2, <1>3 DEF SyncInv, LaunchPool, StopPool, Before
<1>14. FirstInv'
  BY <1>0, <1>1, <1>2, <1>3 DEF FirstInv, LaunchPool, StopPool, Before
<1>15. ItemsInv'
  <2>1. ASSUME NEW x \in StartItems
        PROVE  x \in installed' \union broken' \/ lost \/ [op |-> "install", of |-> x] \in tasks'
    <3>1. CASE x = t.of
      BY <3>1, <1>0, <1>1, <1>2, <1>3
    <3>2. CASE x # t.of
      <4>1. [op |-> "install", of |-> x] # t
        BY <3>2
      <4> QED
        BY <4>1, <3>2, <1>0, <1>1, <1>2, <1>3 DEF ItemsInv
    <3> QED
      BY <3>1, <3>2
  <2> QED
    BY <2>1, <1>0, <1>1, <1>2, <1>3 DEF ItemsInv
<1>16. StoredIsInstalled'
  <2>1. ASSUME NEW j \in Services \ (failed \union left), stored[j] # None
        PROVE  Item(j, stored[j]) \in StartItems
    <3>1. j \in Known /\ stored[j] = mInstances[j].version
      BY <2>1, <1>0, <1>1, <1>2, <1>3 DEF SyncInv
    <3>2. j \in Listed(req.start) \ req.stop
      BY <3>1, <2>1, <1>0, <1>1, <1>2, <1>3 DEF StopInv, KeepInv, Before
    <3>3. stored[j] = req.start[j]
      BY <3>1, <3>2, <1>0, <1>1, <1>2, <1>3 DEF KeepInv, Before
    <3> QED
      BY <3>2, <3>3 DEF StartItems
  <2>2. ASSUME NEW j \in Services \ (failed \union left), stored[j] # None
        PROVE  Item(j, stored[j]) \in installed' \union broken'
    <3>1. Item(j, stored[j]) \in installed \union broken
      BY <2>2, <1>0, <1>1, <1>2, <1>3 DEF StoredIsInstalled
    <3> QED
      BY <3>1, <2>1, <2>2, <1>0, <1>1, <1>2, <1>3
  <2> QED
    BY <2>2, <1>0, <1>1, <1>2, <1>3 DEF StoredIsInstalled, Item
<1> QED
  BY <1>4, <1>5, <1>6, <1>7, <1>8, <1>9, <1>10, <1>11, <1>12, <1>13, <1>14, <1>15,
     <1>16 DEF Inv

-----------------------------------------------------------------------------
(* The offline TTL.                                                        *)

\* The handler takes mLaunchInProgress, so no launch is under way.
LEMMA KeepsHandleOfflineTTLs ==
  ASSUME Inv, HandleOfflineTTLs, mIsRunning /\ mOffline
  PROVE  Inv'
<1>0. /\ SLTypeOK /\ PcInv /\ LockInv /\ PoolInv /\ TaskInv /\ LoopInv /\ StopInv
      /\ RunsKnown /\ KeepInv /\ SyncInv /\ FirstInv /\ ItemsInv /\ StoredIsInstalled
  BY DEF Inv
<1>1. pc.ttl = "wait" /\ Goto("ttl", "stop")
  BY <1>0 DEF HandleOfflineTTLs, StateIn
<1>2. /\ pc.ttl = "wait" /\ pc'.ttl = "stop"
      /\ pc'.update = pc.update /\ pc'.main = pc.main
      /\ pc' = [t \in ThreadNames |-> pc'[t]]
  BY <1>0, <1>1, GotoFacts
<1>3. /\ ~mLaunchInProgress /\ mLaunchInProgress' = TRUE /\ ttlTasks' \subseteq Known
      /\ UNCHANGED <<mIsRunning, mFirstStart, mInstances, pool, tasks, lost, req,
                     todo, marking, removeItems, stored, runs, installed, failed,
                     broken, left>>
  BY <1>0, <1>2 DEF HandleOfflineTTLs, StateIn, flags, poolVars, offlineVars,
     launchVars, outside, history
<1>4. /\ Known' = Known
      /\ StartItems' = StartItems /\ Listed(req.start)' = Listed(req.start)
  BY <1>3 DEF Known, StartItems, Listed
<1>5. pc.update = "idle"
  BY <1>0, <1>2, <1>3, <1>4 DEF LockInv
<1>6. SLTypeOK'
  BY <1>0, <1>2, <1>3, <1>4, <1>5, MaxCallsIsNatural DEF SLTypeOK, HandleOfflineTTLs,
     StateIn, Counted, flags, poolVars, offlineVars, launchVars, outside, history
<1>7. PcInv'
  BY <1>0, <1>2, <1>3, <1>4, <1>5 DEF PcInv, LaunchPool
<1>8. LockInv'
  BY <1>0, <1>2, <1>3, <1>4, <1>5 DEF LockInv
<1>9. PoolInv'
  BY <1>0, <1>2, <1>3, <1>4, <1>5 DEF PoolInv, LaunchPool, StopPool, Before
<1>10. TaskInv'
  BY <1>0, <1>2, <1>3, <1>4, <1>5 DEF TaskInv
<1>11. LoopInv'
  BY <1>0, <1>2, <1>3, <1>4, <1>5 DEF LoopInv
<1>12. StopInv'
  BY <1>0, <1>2, <1>3, <1>4, <1>5 DEF StopInv
<1>13. RunsKnown'
  BY <1>0, <1>2, <1>3, <1>4, <1>5 DEF RunsKnown
<1>14. KeepInv'
  BY <1>0, <1>2, <1>3, <1>4, <1>5 DEF KeepInv, LaunchPool, StopPool, Before
<1>15. SyncInv'
  BY <1>0, <1>2, <1>3, <1>4, <1>5 DEF SyncInv, LaunchPool, StopPool, Before
<1>16. FirstInv'
  BY <1>0, <1>2, <1>3, <1>4, <1>5 DEF FirstInv, LaunchPool, StopPool, Before
<1>17. ItemsInv'
  BY <1>0, <1>2, <1>3, <1>4, <1>5 DEF ItemsInv
<1>18. StoredIsInstalled'
  BY <1>0, <1>2, <1>3, <1>4, <1>5 DEF StoredIsInstalled
<1> QED
  BY <1>6, <1>7, <1>8, <1>9, <1>10, <1>11, <1>12, <1>13, <1>14, <1>15, <1>16, <1>17,
     <1>18 DEF Inv

\* The launcher stopped or is online again.
LEMMA KeepsSkipOfflineTTLs ==
  ASSUME Inv, HandleOfflineTTLs, ~(mIsRunning /\ mOffline)
  PROVE  Inv'
<1>0. /\ SLTypeOK /\ PcInv /\ LockInv /\ PoolInv /\ TaskInv /\ LoopInv /\ StopInv
      /\ RunsKnown /\ KeepInv /\ SyncInv /\ FirstInv /\ ItemsInv /\ StoredIsInstalled
  BY DEF Inv
<1>1. pc.ttl = "wait" /\ Goto("ttl", "idle")
  BY <1>0 DEF HandleOfflineTTLs
<1>2. /\ pc.ttl = "wait" /\ pc'.ttl = "idle"
      /\ pc'.update = pc.update /\ pc'.main = pc.main
      /\ pc' = [t \in ThreadNames |-> pc'[t]]
  BY <1>0, <1>1, GotoFacts
<1>3. /\ UNCHANGED <<mIsRunning, mFirstStart, mLaunchInProgress, mInstances, pool,
                     tasks, lost, ttlTasks, req, todo, marking, removeItems,
                     stored, runs, installed, failed, broken, left>>
  BY <1>0, <1>2 DEF HandleOfflineTTLs, flags, poolVars, offlineVars, launchVars,
     outside, history
<1>4. /\ Known' = Known
      /\ StartItems' = StartItems /\ Listed(req.start)' = Listed(req.start)
  BY <1>3 DEF Known, StartItems, Listed
<1>5. SLTypeOK'
  BY <1>0, <1>2, <1>3, <1>4, MaxCallsIsNatural DEF SLTypeOK, HandleOfflineTTLs,
     Counted, flags, poolVars, offlineVars, launchVars, outside, history
<1>6. PcInv'
  BY <1>0, <1>2, <1>3, <1>4 DEF PcInv, LaunchPool
<1>7. LockInv'
  BY <1>0, <1>2, <1>3, <1>4 DEF LockInv
<1>8. PoolInv'
  BY <1>0, <1>2, <1>3, <1>4 DEF PoolInv, LaunchPool, StopPool, Before
<1>9. TaskInv'
  BY <1>0, <1>2, <1>3, <1>4 DEF TaskInv
<1>10. LoopInv'
  BY <1>0, <1>2, <1>3, <1>4 DEF LoopInv
<1>11. StopInv'
  BY <1>0, <1>2, <1>3, <1>4 DEF StopInv
<1>12. RunsKnown'
  BY <1>0, <1>2, <1>3, <1>4 DEF RunsKnown
<1>13. KeepInv'
  BY <1>0, <1>2, <1>3, <1>4 DEF KeepInv, LaunchPool, StopPool, Before
<1>14. SyncInv'
  BY <1>0, <1>2, <1>3, <1>4 DEF SyncInv, LaunchPool, StopPool, Before
<1>15. FirstInv'
  BY <1>0, <1>2, <1>3, <1>4 DEF FirstInv, LaunchPool, StopPool, Before
<1>16. ItemsInv'
  BY <1>0, <1>2, <1>3, <1>4 DEF ItemsInv
<1>17. StoredIsInstalled'
  BY <1>0, <1>2, <1>3, <1>4 DEF StoredIsInstalled
<1> QED
  BY <1>5, <1>6, <1>7, <1>8, <1>9, <1>10, <1>11, <1>12, <1>13, <1>14, <1>15, <1>16,
     <1>17 DEF Inv

\* The handler stops instances while no launch is under way.
LEMMA KeepsStopExpired ==
  ASSUME Inv, NEW i \in Instances, StopExpired(i)
  PROVE  Inv'
<1>0. /\ SLTypeOK /\ PcInv /\ LockInv /\ PoolInv /\ TaskInv /\ LoopInv /\ StopInv
      /\ RunsKnown /\ KeepInv /\ SyncInv /\ FirstInv /\ ItemsInv /\ StoredIsInstalled
  BY DEF Inv
<1>1. /\ pc' = pc
  BY <1>0 DEF StopExpired, SLTypeOK, Known, InstanceStates, PcInv, Goto, ThreadNames
<1>2. /\ i \in ttlTasks /\ ttlTasks' = ttlTasks \ {i} /\ i \in Known
      /\ \/ runs' = [runs EXCEPT ![i] = None] /\ SetInstanceState(i, "inactive")
            /\ failed' = failed
         \/ runs' = runs /\ (\E s \in InstanceStates : SetInstanceState(i, s))
            /\ failed' = failed \union {i}
      /\ UNCHANGED <<mIsRunning, mFirstStart, mLaunchInProgress, pool, tasks,
                     lost, req, todo, marking, removeItems, stored, installed,
                     broken, left>>
  BY <1>0, <1>1 DEF StopExpired, SLTypeOK, Known, InstanceStates, flags, poolVars,
     offlineVars, launchVars, outside, history
<1>3. /\ StartItems' = StartItems /\ Listed(req.start)' = Listed(req.start)
  BY <1>2 DEF Known, StartItems, Listed
<1>4. pc.update = "idle"
  BY <1>0, <1>1, <1>2, <1>3 DEF LockInv
<1>5. \E s \in InstanceStates : SetInstanceState(i, s)
  BY <1>0, <1>1, <1>2, <1>3, <1>4 DEF InstanceStates
<1>6. /\ mInstances' \in [Instances -> {None} \union
                                [version : Versions, state : InstanceStates]]
      /\ Known' = Known
      /\ \A j \in Known : mInstances'[j].version = mInstances[j].version
      /\ \A j \in Known : j # i => mInstances'[j].state = mInstances[j].state
  <2>1. PICK s \in InstanceStates : SetInstanceState(i, s)
    BY <1>0, <1>1, <1>2, <1>3, <1>4, <1>5
  <2> QED
    BY <2>1, <1>0, <1>1, <1>2, <1>3, <1>4, <1>5, SetFacts
<1>7. /\ runs' \in [Instances -> Versions \union {None}]
      /\ \A j \in Instances : j # i => runs'[j] = runs[j]
      /\ failed \subseteq failed'
      /\ i \notin failed' => runs'[i] = None /\ mInstances'[i].state = "inactive"
  <2>1. CASE /\ runs' = [runs EXCEPT ![i] = None] /\ failed' = failed
             /\ SetInstanceState(i, "inactive")
    <3>1. mInstances'[i].state = "inactive"
      BY <2>1, <1>0, <1>1, <1>2, <1>3, <1>4, <1>5, <1>6, SetFacts DEF InstanceStates
    <3> QED
      BY <2>1, <3>1, <1>0, <1>1, <1>2, <1>3, <1>4, <1>5, <1>6 DEF SLTypeOK, Known
  <2>2. CASE runs' = runs /\ failed' = failed \union {i}
    BY <2>2, <1>0, <1>1, <1>2, <1>3, <1>4, <1>5, <1>6 DEF SLTypeOK
  <2> QED
    BY <2>1, <2>2, <1>0, <1>1, <1>2, <1>3, <1>4, <1>5, <1>6
<1>8. SLTypeOK'
  BY <1>0, <1>1, <1>2, <1>3, <1>4, <1>5, <1>6, <1>7, MaxCallsIsNatural DEF SLTypeOK,
     StopExpired, SLTypeOK, Known, InstanceStates, Counted, flags, poolVars,
     offlineVars, launchVars, outside, history
<1>9. PcInv'
  BY <1>0, <1>1, <1>2, <1>3, <1>4, <1>5, <1>6, <1>7 DEF PcInv, LaunchPool
<1>10. LockInv'
  BY <1>0, <1>1, <1>2, <1>3, <1>4, <1>5, <1>6, <1>7 DEF LockInv
<1>11. PoolInv'
  BY <1>0, <1>1, <1>2, <1>3, <1>4, <1>5, <1>6, <1>7 DEF PoolInv, LaunchPool, StopPool,
     Before
<1>12. TaskInv'
  BY <1>0, <1>1, <1>2, <1>3, <1>4, <1>5, <1>6, <1>7 DEF TaskInv
<1>13. LoopInv'
  BY <1>0, <1>1, <1>2, <1>3, <1>4, <1>5, <1>6, <1>7 DEF LoopInv
<1>14. StopInv'
  BY <1>0, <1>1, <1>2, <1>3, <1>4, <1>5, <1>6, <1>7 DEF StopInv
<1>15. RunsKnown'
  BY <1>0, <1>1, <1>2, <1>3, <1>4, <1>5, <1>6, <1>7, KnownFacts DEF RunsKnown
<1>16. KeepInv'
  BY <1>0, <1>1, <1>2, <1>3, <1>4, <1>5, <1>6, <1>7 DEF KeepInv, LaunchPool, StopPool,
     Before
<1>17. SyncInv'
  BY <1>0, <1>1, <1>2, <1>3, <1>4, <1>5, <1>6, <1>7 DEF SyncInv, LaunchPool, StopPool,
     Before
<1>18. FirstInv'
  BY <1>0, <1>1, <1>2, <1>3, <1>4, <1>5, <1>6, <1>7 DEF FirstInv, LaunchPool, StopPool,
     Before
<1>19. ItemsInv'
  BY <1>0, <1>1, <1>2, <1>3, <1>4, <1>5, <1>6, <1>7 DEF ItemsInv
<1>20. StoredIsInstalled'
  BY <1>0, <1>1, <1>2, <1>3, <1>4, <1>5, <1>6, <1>7 DEF StoredIsInstalled
<1> QED
  BY <1>8, <1>9, <1>10, <1>11, <1>12, <1>13, <1>14, <1>15, <1>16, <1>17, <1>18, <1>19,
     <1>20 DEF Inv

\* The handler gives up mLaunchInProgress.
LEMMA KeepsFinishOfflineTTLs ==
  ASSUME Inv, FinishOfflineTTLs
  PROVE  Inv'
<1>0. /\ SLTypeOK /\ PcInv /\ LockInv /\ PoolInv /\ TaskInv /\ LoopInv /\ StopInv
      /\ RunsKnown /\ KeepInv /\ SyncInv /\ FirstInv /\ ItemsInv /\ StoredIsInstalled
  BY DEF Inv
<1>1. pc.ttl = "stop" /\ Goto("ttl", "idle")
  BY <1>0 DEF FinishOfflineTTLs
<1>2. /\ pc.ttl = "stop" /\ pc'.ttl = "idle"
      /\ pc'.update = pc.update /\ pc'.main = pc.main
      /\ pc' = [t \in ThreadNames |-> pc'[t]]
  BY <1>0, <1>1, GotoFacts
<1>3. /\ ttlTasks = {} /\ mLaunchInProgress' = FALSE
      /\ UNCHANGED <<mIsRunning, mFirstStart, mInstances, pool, tasks, lost,
                     ttlTasks, req, todo, marking, removeItems, stored, runs,
                     installed, failed, broken, left>>
  BY <1>0, <1>2 DEF FinishOfflineTTLs, flags, poolVars, offlineVars, launchVars,
     outside, history
<1>4. /\ Known' = Known
      /\ StartItems' = StartItems /\ Listed(req.start)' = Listed(req.start)
  BY <1>3 DEF Known, StartItems, Listed
<1>5. pc.update = "idle"
  BY <1>0, <1>2, <1>3, <1>4 DEF LockInv
<1>6. SLTypeOK'
  BY <1>0, <1>2, <1>3, <1>4, <1>5, MaxCallsIsNatural DEF SLTypeOK, FinishOfflineTTLs,
     Counted, flags, poolVars, offlineVars, launchVars, outside, history, NotifyAll,
     StartsTimer
<1>7. PcInv'
  BY <1>0, <1>2, <1>3, <1>4, <1>5 DEF PcInv, LaunchPool
<1>8. LockInv'
  BY <1>0, <1>2, <1>3, <1>4, <1>5 DEF LockInv
<1>9. PoolInv'
  BY <1>0, <1>2, <1>3, <1>4, <1>5 DEF PoolInv, LaunchPool, StopPool, Before
<1>10. TaskInv'
  BY <1>0, <1>2, <1>3, <1>4, <1>5 DEF TaskInv
<1>11. LoopInv'
  BY <1>0, <1>2, <1>3, <1>4, <1>5 DEF LoopInv
<1>12. StopInv'
  BY <1>0, <1>2, <1>3, <1>4, <1>5 DEF StopInv
<1>13. RunsKnown'
  BY <1>0, <1>2, <1>3, <1>4, <1>5 DEF RunsKnown
<1>14. KeepInv'
  BY <1>0, <1>2, <1>3, <1>4, <1>5 DEF KeepInv, LaunchPool, StopPool, Before
<1>15. SyncInv'
  BY <1>0, <1>2, <1>3, <1>4, <1>5 DEF SyncInv, LaunchPool, StopPool, Before
<1>16. FirstInv'
  BY <1>0, <1>2, <1>3, <1>4, <1>5 DEF FirstInv, LaunchPool, StopPool, Before
<1>17. ItemsInv'
  BY <1>0, <1>2, <1>3, <1>4, <1>5 DEF ItemsInv
<1>18. StoredIsInstalled'
  BY <1>0, <1>2, <1>3, <1>4, <1>5 DEF StoredIsInstalled
<1> QED
  BY <1>6, <1>7, <1>8, <1>9, <1>10, <1>11, <1>12, <1>13, <1>14, <1>15, <1>16, <1>17,
     <1>18 DEF Inv

-----------------------------------------------------------------------------
(* Start, Stop and the rest.                                               *)

\* The launch of the stored instances begins.
LEMMA KeepsStart ==
  ASSUME Inv, Start
  PROVE  Inv'
<1>0. /\ SLTypeOK /\ PcInv /\ LockInv /\ PoolInv /\ TaskInv /\ LoopInv /\ StopInv
      /\ RunsKnown /\ KeepInv /\ SyncInv /\ FirstInv /\ ItemsInv /\ StoredIsInstalled
  BY DEF Inv
<1>1. /\ pc.main = "down" /\ pc'.main = "subscribe" /\ pc'.update = "run" /\ pc'.ttl = pc.ttl
      /\ pc' = [t \in ThreadNames |-> pc'[t]]
  BY <1>0 DEF Start, PcInv, Goto, ThreadNames
<1>2. /\ ~mLaunchInProgress /\ mLaunchInProgress' = TRUE
      /\ req' = [stop |-> {}, start |-> stored]
      /\ UNCHANGED <<mFirstStart, mInstances, pool, tasks, lost, ttlTasks, todo,
                     marking, removeItems, stored, runs, installed, failed,
                     broken, left>>
  BY <1>0, <1>1 DEF Start, flags, poolVars, offlineVars, launchVars, outside, history
<1>3. /\ Known' = Known
  BY <1>2 DEF Known, StartItems, Listed
<1>4. req'.stop = {} /\ req'.start = stored
  BY <1>0, <1>1, <1>2, <1>3
<1>5. pc.update = "idle" /\ pc.ttl # "stop"
  BY <1>0, <1>1, <1>2, <1>3, <1>4 DEF LockInv
<1>6. tasks = {} /\ marking = None
  BY <1>0, <1>1, <1>2, <1>3, <1>4, <1>5 DEF TaskInv, LoopInv
<1>7. SLTypeOK'
  BY <1>0, <1>1, <1>2, <1>3, <1>4, <1>5, <1>6, MaxCallsIsNatural DEF SLTypeOK, Start,
     Counted, flags, poolVars, offlineVars, launchVars, outside, history
<1>8. PcInv'
  BY <1>0, <1>1, <1>2, <1>3, <1>4, <1>5, <1>6 DEF PcInv, LaunchPool
<1>9. LockInv'
  BY <1>0, <1>1, <1>2, <1>3, <1>4, <1>5, <1>6 DEF LockInv
<1>10. PoolInv'
  BY <1>0, <1>1, <1>2, <1>3, <1>4, <1>5, <1>6 DEF PoolInv, LaunchPool, StopPool, Before
<1>11. TaskInv'
  BY <1>0, <1>1, <1>2, <1>3, <1>4, <1>5, <1>6 DEF TaskInv
<1>12. LoopInv'
  BY <1>0, <1>1, <1>2, <1>3, <1>4, <1>5, <1>6 DEF LoopInv
<1>13. StopInv'
  BY <1>0, <1>1, <1>2, <1>3, <1>4, <1>5, <1>6 DEF StopInv
<1>14. RunsKnown'
  BY <1>0, <1>1, <1>2, <1>3, <1>4, <1>5, <1>6 DEF RunsKnown
<1>15. KeepInv'
  BY <1>0, <1>1, <1>2, <1>3, <1>4, <1>5, <1>6, KnownFacts, KindsAreInstances DEF
     KeepInv, LaunchPool, StopPool, Before, SyncInv, Listed
<1>16. SyncInv'
  BY <1>0, <1>1, <1>2, <1>3, <1>4, <1>5, <1>6 DEF SyncInv, LaunchPool, StopPool, Before
<1>17. FirstInv'
  BY <1>0, <1>1, <1>2, <1>3, <1>4, <1>5, <1>6, KindsAreInstances DEF FirstInv,
     LaunchPool, StopPool, Before
<1>18. ItemsInv'
  BY <1>0, <1>1, <1>2, <1>3, <1>4, <1>5, <1>6 DEF ItemsInv
<1>19. StoredIsInstalled'
  BY <1>0, <1>1, <1>2, <1>3, <1>4, <1>5, <1>6 DEF StoredIsInstalled
<1> QED
  BY <1>7, <1>8, <1>9, <1>10, <1>11, <1>12, <1>13, <1>14, <1>15, <1>16, <1>17, <1>18,
     <1>19 DEF Inv

\* Stop takes the pool, which no launch is using.
LEMMA KeepsStopAllInstances ==
  ASSUME Inv, StopAllInstances, pool = "off"
  PROVE  Inv'
<1>0. /\ SLTypeOK /\ PcInv /\ LockInv /\ PoolInv /\ TaskInv /\ LoopInv /\ StopInv
      /\ RunsKnown /\ KeepInv /\ SyncInv /\ FirstInv /\ ItemsInv /\ StoredIsInstalled
  BY DEF Inv
<1>1. pc.main = "stopAll" /\ Goto("main", "stopWait")
  BY <1>0 DEF StopAllInstances, RunPool, AddTasks
<1>2. /\ pc.main = "stopAll" /\ pc'.main = "stopWait"
      /\ pc'.update = pc.update /\ pc'.ttl = pc.ttl
      /\ pc' = [t \in ThreadNames |-> pc'[t]]
  BY <1>0, <1>1, GotoFacts
<1>3. /\ pool' = "on"
      /\ tasks' = tasks \union {[op |-> "halt", of |-> i] :
                                  i \in {j \in Services : StateIn(j, {"active"})}}
      /\ UNCHANGED <<mIsRunning, mFirstStart, mLaunchInProgress, mInstances, lost,
                     ttlTasks, req, todo, marking, removeItems, stored, runs,
                     installed, failed, broken, left>>
  BY <1>0, <1>2 DEF StopAllInstances, RunPool, AddTasks, flags, poolVars, offlineVars,
     launchVars, outside, history
<1>4. /\ Known' = Known
      /\ StartItems' = StartItems /\ Listed(req.start)' = Listed(req.start)
  BY <1>3 DEF Known, StartItems, Listed
<1>5. \A t \in tasks' : t \in tasks \/ (t.op = "halt" /\ t.of \in Known)
  BY <1>0, <1>2, <1>3, <1>4 DEF StateIn
<1>6. pc.update \notin LaunchPool
  BY <1>0, <1>2, <1>3, <1>4, <1>5 DEF PoolInv
<1>7. SLTypeOK'
  BY <1>0, <1>2, <1>3, <1>4, <1>5, <1>6, MaxCallsIsNatural DEF SLTypeOK,
     StopAllInstances, RunPool, AddTasks, Counted, flags, poolVars, offlineVars,
     launchVars, outside, history
<1>8. PcInv'
  BY <1>0, <1>2, <1>3, <1>4, <1>5, <1>6 DEF PcInv, LaunchPool
<1>9. LockInv'
  BY <1>0, <1>2, <1>3, <1>4, <1>5, <1>6 DEF LockInv
<1>10. PoolInv'
  BY <1>0, <1>2, <1>3, <1>4, <1>5, <1>6 DEF PoolInv, LaunchPool, StopPool, Before
<1>11. TaskInv'
  BY <1>0, <1>2, <1>3, <1>4, <1>5, <1>6 DEF TaskInv
<1>12. LoopInv'
  BY <1>0, <1>2, <1>3, <1>4, <1>5, <1>6 DEF LoopInv
<1>13. StopInv'
  BY <1>0, <1>2, <1>3, <1>4, <1>5, <1>6 DEF StopInv
<1>14. RunsKnown'
  BY <1>0, <1>2, <1>3, <1>4, <1>5, <1>6 DEF RunsKnown
<1>15. KeepInv'
  BY <1>0, <1>2, <1>3, <1>4, <1>5, <1>6 DEF KeepInv, LaunchPool, StopPool, Before
<1>16. SyncInv'
  BY <1>0, <1>2, <1>3, <1>4, <1>5, <1>6 DEF SyncInv, LaunchPool, StopPool, Before
<1>17. FirstInv'
  BY <1>0, <1>2, <1>3, <1>4, <1>5, <1>6 DEF FirstInv, LaunchPool, StopPool, Before
<1>18. ItemsInv'
  BY <1>0, <1>2, <1>3, <1>4, <1>5, <1>6 DEF ItemsInv
<1>19. StoredIsInstalled'
  BY <1>0, <1>2, <1>3, <1>4, <1>5, <1>6 DEF StoredIsInstalled
<1> QED
  BY <1>7, <1>8, <1>9, <1>10, <1>11, <1>12, <1>13, <1>14, <1>15, <1>16, <1>17, <1>18,
     <1>19 DEF Inv

\* Stop finds the pool in use and leaves it alone.
LEMMA KeepsRefusedStop ==
  ASSUME Inv, StopAllInstances, pool # "off"
  PROVE  Inv'
<1>0. /\ SLTypeOK /\ PcInv /\ LockInv /\ PoolInv /\ TaskInv /\ LoopInv /\ StopInv
      /\ RunsKnown /\ KeepInv /\ SyncInv /\ FirstInv /\ ItemsInv /\ StoredIsInstalled
  BY DEF Inv
<1>1. pc.main = "stopAll" /\ Goto("main", "halt")
  BY <1>0 DEF StopAllInstances, RunPool
<1>2. /\ pc.main = "stopAll" /\ pc'.main = "halt"
      /\ pc'.update = pc.update /\ pc'.ttl = pc.ttl
      /\ pc' = [t \in ThreadNames |-> pc'[t]]
  BY <1>0, <1>1, GotoFacts
<1>3. /\ pool' \in {"on", "closing"}
      /\ UNCHANGED <<mIsRunning, mFirstStart, mLaunchInProgress, mInstances,
                     tasks, lost, ttlTasks, req, todo, marking, removeItems,
                     stored, runs, installed, failed, broken, left>>
  BY <1>0, <1>2 DEF StopAllInstances, RunPool, flags, poolVars, offlineVars,
     launchVars, outside, history
<1>4. /\ Known' = Known
      /\ StartItems' = StartItems /\ Listed(req.start)' = Listed(req.start)
  BY <1>3 DEF Known, StartItems, Listed
<1>5. SLTypeOK'
  BY <1>0, <1>2, <1>3, <1>4, MaxCallsIsNatural DEF SLTypeOK, StopAllInstances, RunPool,
     Counted, flags, poolVars, offlineVars, launchVars, outside, history
<1>6. PcInv'
  BY <1>0, <1>2, <1>3, <1>4 DEF PcInv, LaunchPool
<1>7. LockInv'
  BY <1>0, <1>2, <1>3, <1>4 DEF LockInv
<1>8. PoolInv'
  BY <1>0, <1>2, <1>3, <1>4 DEF PoolInv, LaunchPool, StopPool, Before
<1>9. TaskInv'
  BY <1>0, <1>2, <1>3, <1>4 DEF TaskInv
<1>10. LoopInv'
  BY <1>0, <1>2, <1>3, <1>4 DEF LoopInv
<1>11. StopInv'
  BY <1>0, <1>2, <1>3, <1>4 DEF StopInv
<1>12. RunsKnown'
  BY <1>0, <1>2, <1>3, <1>4 DEF RunsKnown
<1>13. KeepInv'
  BY <1>0, <1>2, <1>3, <1>4 DEF KeepInv, LaunchPool, StopPool, Before
<1>14. SyncInv'
  BY <1>0, <1>2, <1>3, <1>4 DEF SyncInv, LaunchPool, StopPool, Before
<1>15. FirstInv'
  BY <1>0, <1>2, <1>3, <1>4 DEF FirstInv, LaunchPool, StopPool, Before
<1>16. ItemsInv'
  BY <1>0, <1>2, <1>3, <1>4 DEF ItemsInv
<1>17. StoredIsInstalled'
  BY <1>0, <1>2, <1>3, <1>4 DEF StoredIsInstalled
<1> QED
  BY <1>5, <1>6, <1>7, <1>8, <1>9, <1>10, <1>11, <1>12, <1>13, <1>14, <1>15, <1>16,
     <1>17 DEF Inv

\* Stop shuts its pool down.
LEMMA KeepsStopAllWaited ==
  ASSUME Inv, StopAllWaited
  PROVE  Inv'
<1>0. /\ SLTypeOK /\ PcInv /\ LockInv /\ PoolInv /\ TaskInv /\ LoopInv /\ StopInv
      /\ RunsKnown /\ KeepInv /\ SyncInv /\ FirstInv /\ ItemsInv /\ StoredIsInstalled
  BY DEF Inv
<1>1. pc.main = "stopWait" /\ Goto("main", "join")
  BY <1>0 DEF StopAllWaited, ShutdownPool
<1>2. /\ pc.main = "stopWait" /\ pc'.main = "join"
      /\ pc'.update = pc.update /\ pc'.ttl = pc.ttl
      /\ pc' = [t \in ThreadNames |-> pc'[t]]
  BY <1>0, <1>1, GotoFacts
<1>3. /\ tasks' = {} /\ lost' \in BOOLEAN /\ pool' \in {"closing", pool}
      /\ UNCHANGED <<mIsRunning, mFirstStart, mLaunchInProgress, mInstances,
                     ttlTasks, req, todo, marking, removeItems, stored, runs,
                     installed, failed, broken, left>>
  BY <1>0, <1>2 DEF StopAllWaited, ShutdownPool, flags, poolVars, offlineVars,
     launchVars, outside, history
<1>4. /\ Known' = Known
      /\ StartItems' = StartItems /\ Listed(req.start)' = Listed(req.start)
  BY <1>3 DEF Known, StartItems, Listed
<1>5. pc.update \notin LaunchPool
  BY <1>0, <1>2, <1>3, <1>4 DEF PoolInv, StopPool
<1>6. SLTypeOK'
  BY <1>0, <1>2, <1>3, <1>4, <1>5, MaxCallsIsNatural DEF SLTypeOK, StopAllWaited,
     ShutdownPool, Counted, flags, poolVars, offlineVars, launchVars, outside, history
<1>7. PcInv'
  BY <1>0, <1>2, <1>3, <1>4, <1>5 DEF PcInv, LaunchPool
<1>8. LockInv'
  BY <1>0, <1>2, <1>3, <1>4, <1>5 DEF LockInv
<1>9. PoolInv'
  BY <1>0, <1>2, <1>3, <1>4, <1>5 DEF PoolInv, LaunchPool, StopPool, Before
<1>10. TaskInv'
  BY <1>0, <1>2, <1>3, <1>4, <1>5 DEF TaskInv
<1>11. LoopInv'
  BY <1>0, <1>2, <1>3, <1>4, <1>5 DEF LoopInv
<1>12. StopInv'
  BY <1>0, <1>2, <1>3, <1>4, <1>5 DEF StopInv, LaunchPool
<1>13. RunsKnown'
  BY <1>0, <1>2, <1>3, <1>4, <1>5 DEF RunsKnown
<1>14. KeepInv'
  BY <1>0, <1>2, <1>3, <1>4, <1>5 DEF KeepInv, LaunchPool, StopPool, Before
<1>15. SyncInv'
  BY <1>0, <1>2, <1>3, <1>4, <1>5 DEF SyncInv, LaunchPool, StopPool, Before
<1>16. FirstInv'
  BY <1>0, <1>2, <1>3, <1>4, <1>5 DEF FirstInv, LaunchPool, StopPool, Before
<1>17. ItemsInv'
  BY <1>0, <1>2, <1>3, <1>4, <1>5 DEF ItemsInv, LaunchPool
<1>18. StoredIsInstalled'
  BY <1>0, <1>2, <1>3, <1>4, <1>5 DEF StoredIsInstalled
<1> QED
  BY <1>6, <1>7, <1>8, <1>9, <1>10, <1>11, <1>12, <1>13, <1>14, <1>15, <1>16, <1>17,
     <1>18 DEF Inv

\* The pool is off again.
LEMMA KeepsStopAllJoined ==
  ASSUME Inv, StopAllJoined
  PROVE  Inv'
<1>0. /\ SLTypeOK /\ PcInv /\ LockInv /\ PoolInv /\ TaskInv /\ LoopInv /\ StopInv
      /\ RunsKnown /\ KeepInv /\ SyncInv /\ FirstInv /\ ItemsInv /\ StoredIsInstalled
  BY DEF Inv
<1>1. pc.main = "join" /\ Goto("main", "halt")
  BY <1>0 DEF StopAllJoined, JoinPool
<1>2. /\ pc.main = "join" /\ pc'.main = "halt"
      /\ pc'.update = pc.update /\ pc'.ttl = pc.ttl
      /\ pc' = [t \in ThreadNames |-> pc'[t]]
  BY <1>0, <1>1, GotoFacts
<1>3. /\ pool' = "off"
      /\ UNCHANGED <<mIsRunning, mFirstStart, mLaunchInProgress, mInstances,
                     tasks, lost, ttlTasks, req, todo, marking, removeItems,
                     stored, runs, installed, failed, broken, left>>
  BY <1>0, <1>2 DEF StopAllJoined, JoinPool, flags, poolVars, offlineVars, launchVars,
     outside, history
<1>4. /\ Known' = Known
      /\ StartItems' = StartItems /\ Listed(req.start)' = Listed(req.start)
  BY <1>3 DEF Known, StartItems, Listed
<1>5. pc.update \notin LaunchPool
  BY <1>0, <1>2, <1>3, <1>4 DEF PoolInv, StopPool
<1>6. SLTypeOK'
  BY <1>0, <1>2, <1>3, <1>4, <1>5, MaxCallsIsNatural DEF SLTypeOK, StopAllJoined,
     JoinPool, Counted, flags, poolVars, offlineVars, launchVars, outside, history
<1>7. PcInv'
  BY <1>0, <1>2, <1>3, <1>4, <1>5 DEF PcInv, LaunchPool
<1>8. LockInv'
  BY <1>0, <1>2, <1>3, <1>4, <1>5 DEF LockInv
<1>9. PoolInv'
  BY <1>0, <1>2, <1>3, <1>4, <1>5 DEF PoolInv, LaunchPool, StopPool, Before
<1>10. TaskInv'
  BY <1>0, <1>2, <1>3, <1>4, <1>5 DEF TaskInv
<1>11. LoopInv'
  BY <1>0, <1>2, <1>3, <1>4, <1>5 DEF LoopInv
<1>12. StopInv'
  BY <1>0, <1>2, <1>3, <1>4, <1>5 DEF StopInv
<1>13. RunsKnown'
  BY <1>0, <1>2, <1>3, <1>4, <1>5 DEF RunsKnown
<1>14. KeepInv'
  BY <1>0, <1>2, <1>3, <1>4, <1>5 DEF KeepInv, LaunchPool, StopPool, Before
<1>15. SyncInv'
  BY <1>0, <1>2, <1>3, <1>4, <1>5 DEF SyncInv, LaunchPool, StopPool, Before
<1>16. FirstInv'
  BY <1>0, <1>2, <1>3, <1>4, <1>5 DEF FirstInv, LaunchPool, StopPool, Before
<1>17. ItemsInv'
  BY <1>0, <1>2, <1>3, <1>4, <1>5 DEF ItemsInv
<1>18. StoredIsInstalled'
  BY <1>0, <1>2, <1>3, <1>4, <1>5 DEF StoredIsInstalled
<1> QED
  BY <1>6, <1>7, <1>8, <1>9, <1>10, <1>11, <1>12, <1>13, <1>14, <1>15, <1>16, <1>17,
     <1>18 DEF Inv

\* The runtimes are stopped.
LEMMA KeepsHalt ==
  ASSUME Inv, Halt
  PROVE  Inv'
<1>0. /\ SLTypeOK /\ PcInv /\ LockInv /\ PoolInv /\ TaskInv /\ LoopInv /\ StopInv
      /\ RunsKnown /\ KeepInv /\ SyncInv /\ FirstInv /\ ItemsInv /\ StoredIsInstalled
  BY DEF Inv
<1>1. pc.main = "halt" /\ Goto("main", "joinThreads")
  BY <1>0 DEF Halt
<1>2. /\ pc.main = "halt" /\ pc'.main = "joinThreads"
      /\ pc'.update = pc.update /\ pc'.ttl = pc.ttl
      /\ pc' = [t \in ThreadNames |-> pc'[t]]
  BY <1>0, <1>1, GotoFacts
<1>3. /\ mIsRunning' = FALSE /\ runs' = [i \in Instances |-> None]
      /\ UNCHANGED <<mFirstStart, mLaunchInProgress, mInstances, pool, tasks,
                     lost, ttlTasks, req, todo, marking, removeItems, stored,
                     installed, failed, broken, left>>
  BY <1>0, <1>2 DEF Halt, flags, poolVars, offlineVars, launchVars, outside, history
<1>4. /\ Known' = Known
      /\ StartItems' = StartItems /\ Listed(req.start)' = Listed(req.start)
  BY <1>3 DEF Known, StartItems, Listed
<1>5. runs' \in [Instances -> Versions \union {None}] /\ \A i \in Instances : runs'[i] = None
  BY <1>0, <1>2, <1>3, <1>4
<1>6. SLTypeOK'
  BY <1>0, <1>2, <1>3, <1>4, <1>5, MaxCallsIsNatural DEF SLTypeOK, Halt, Counted,
     flags, poolVars, offlineVars, launchVars, outside, history, NotifyAll
<1>7. PcInv'
  BY <1>0, <1>2, <1>3, <1>4, <1>5 DEF PcInv, LaunchPool
<1>8. LockInv'
  BY <1>0, <1>2, <1>3, <1>4, <1>5 DEF LockInv
<1>9. PoolInv'
  BY <1>0, <1>2, <1>3, <1>4, <1>5 DEF PoolInv, LaunchPool, StopPool, Before
<1>10. TaskInv'
  BY <1>0, <1>2, <1>3, <1>4, <1>5 DEF TaskInv
<1>11. LoopInv'
  BY <1>0, <1>2, <1>3, <1>4, <1>5 DEF LoopInv
<1>12. StopInv'
  BY <1>0, <1>2, <1>3, <1>4, <1>5 DEF StopInv, Known
<1>13. RunsKnown'
  BY <1>0, <1>2, <1>3, <1>4, <1>5 DEF RunsKnown
<1>14. KeepInv'
  BY <1>0, <1>2, <1>3, <1>4, <1>5 DEF KeepInv, LaunchPool, StopPool, Before
<1>15. SyncInv'
  BY <1>0, <1>2, <1>3, <1>4, <1>5 DEF SyncInv, LaunchPool, StopPool, Before
<1>16. FirstInv'
  BY <1>0, <1>2, <1>3, <1>4, <1>5 DEF FirstInv, LaunchPool, StopPool, Before
<1>17. ItemsInv'
  BY <1>0, <1>2, <1>3, <1>4, <1>5 DEF ItemsInv
<1>18. StoredIsInstalled'
  BY <1>0, <1>2, <1>3, <1>4, <1>5 DEF StoredIsInstalled
<1> QED
  BY <1>6, <1>7, <1>8, <1>9, <1>10, <1>11, <1>12, <1>13, <1>14, <1>15, <1>16, <1>17,
     <1>18 DEF Inv

\* Only components change in the storage.
LEMMA KeepsOnComponentStatus ==
  ASSUME Inv, NEW i \in Instances, OnComponentStatus(i)
  PROVE  Inv'
<1>0. /\ SLTypeOK /\ PcInv /\ LockInv /\ PoolInv /\ TaskInv /\ LoopInv /\ StopInv
      /\ RunsKnown /\ KeepInv /\ SyncInv /\ FirstInv /\ ItemsInv /\ StoredIsInstalled
  BY DEF Inv
<1>1. /\ pc' = pc
  BY <1>0 DEF OnComponentStatus, PcInv, Goto, ThreadNames
<1>2. /\ i \notin Services
      /\ \E v \in Versions \union {None} : stored' = [stored EXCEPT ![i] = v]
      /\ UNCHANGED <<mIsRunning, mFirstStart, mLaunchInProgress, mInstances, pool,
                     tasks, lost, ttlTasks, req, todo, marking, removeItems, runs,
                     installed, failed, broken, left>>
  BY <1>0, <1>1 DEF OnComponentStatus, flags, poolVars, offlineVars, launchVars,
     outside, history
<1>3. /\ Known' = Known
      /\ StartItems' = StartItems /\ Listed(req.start)' = Listed(req.start)
  BY <1>2 DEF Known, StartItems, Listed
<1>4. /\ stored' \in [Instances -> Versions \union {None}]
      /\ \A j \in Services : stored'[j] = stored[j]
  BY <1>0, <1>1, <1>2, <1>3, KindsAreInstances DEF SLTypeOK
<1>5. SLTypeOK'
  BY <1>0, <1>1, <1>2, <1>3, <1>4, MaxCallsIsNatural DEF SLTypeOK, OnComponentStatus,
     Counted, flags, poolVars, offlineVars, launchVars, outside, history
<1>6. PcInv'
  BY <1>0, <1>1, <1>2, <1>3, <1>4 DEF PcInv, LaunchPool
<1>7. LockInv'
  BY <1>0, <1>1, <1>2, <1>3, <1>4 DEF LockInv
<1>8. PoolInv'
  BY <1>0, <1>1, <1>2, <1>3, <1>4 DEF PoolInv, LaunchPool, StopPool, Before
<1>9. TaskInv'
  BY <1>0, <1>1, <1>2, <1>3, <1>4 DEF TaskInv
<1>10. LoopInv'
  BY <1>0, <1>1, <1>2, <1>3, <1>4 DEF LoopInv
<1>11. StopInv'
  BY <1>0, <1>1, <1>2, <1>3, <1>4 DEF StopInv
<1>12. RunsKnown'
  BY <1>0, <1>1, <1>2, <1>3, <1>4 DEF RunsKnown
<1>13. KeepInv'
  BY <1>0, <1>1, <1>2, <1>3, <1>4 DEF KeepInv, LaunchPool, StopPool, Before
<1>14. SyncInv'
  BY <1>0, <1>1, <1>2, <1>3, <1>4 DEF SyncInv, LaunchPool, StopPool, Before
<1>15. FirstInv'
  BY <1>0, <1>1, <1>2, <1>3, <1>4 DEF FirstInv, LaunchPool, StopPool, Before
<1>16. ItemsInv'
  BY <1>0, <1>1, <1>2, <1>3, <1>4 DEF ItemsInv
<1>17. StoredIsInstalled'
  BY <1>0, <1>1, <1>2, <1>3, <1>4 DEF StoredIsInstalled
<1> QED
  BY <1>5, <1>6, <1>7, <1>8, <1>9, <1>10, <1>11, <1>12, <1>13, <1>14, <1>15, <1>16,
     <1>17 DEF Inv

\* Nothing is left but the storage and the installed items.
LEMMA KeepsCrash ==
  ASSUME Inv, Crash
  PROVE  Inv'
<1>0. /\ SLTypeOK /\ PcInv /\ LockInv /\ PoolInv /\ TaskInv /\ LoopInv /\ StopInv
      /\ RunsKnown /\ KeepInv /\ SyncInv /\ FirstInv /\ ItemsInv /\ StoredIsInstalled
  BY DEF Inv
<1>1. /\ pc'.main = "down" /\ pc'.update = "idle" /\ pc'.ttl = "idle"
      /\ pc' = [t \in ThreadNames |-> pc'[t]]
  BY <1>0 DEF Crash, PcInv, Goto, ThreadNames
<1>2. /\ mIsRunning' = FALSE /\ mFirstStart' = TRUE /\ mLaunchInProgress' = FALSE
      /\ mInstances' = [i \in Instances |-> None] /\ runs' = [i \in Instances |-> None]
      /\ pool' = "off" /\ tasks' = {} /\ ttlTasks' = {} /\ todo' = {} /\ marking' = None
      /\ req' = NoRequest
      /\ UNCHANGED <<stored, installed, failed, broken, left>>
  BY <1>0, <1>1 DEF Crash, flags, poolVars, offlineVars, launchVars, outside, history
<1>3. /\ mInstances' \in [Instances -> {None} \union
                                [version : Versions, state : InstanceStates]]
      /\ Known' = {} /\ runs' \in [Instances -> Versions \union {None}]
      /\ \A i \in Instances : runs'[i] = None
  BY <1>0, <1>1, <1>2 DEF Known
<1>4. req'.stop \subseteq Instances /\ req'.start \in [Instances -> Versions \union {None}]
  BY <1>0, <1>1, <1>2, <1>3 DEF NoRequest
<1>5. /\ mOffline' = FALSE /\ mRebootQueue' = FALSE /\ armed' = FALSE
      /\ lost' = FALSE /\ owed' = FALSE /\ raced' = FALSE
      /\ connected' = connected /\ asleep' = {}
  BY DEF Crash
<1>6. calls' \in 0 .. MaxCalls
  BY <1>0, <1>1, <1>2, <1>3, <1>4, <1>5, MaxCallsIsNatural DEF Crash, Counted, SLTypeOK
<1>7. SLTypeOK'
  BY <1>0, <1>1, <1>2, <1>3, <1>4, <1>5, <1>6 DEF SLTypeOK
<1>8. PcInv'
  BY <1>0, <1>1, <1>2, <1>3, <1>4, <1>5, <1>6 DEF PcInv, LaunchPool
<1>9. LockInv'
  BY <1>0, <1>1, <1>2, <1>3, <1>4, <1>5, <1>6 DEF LockInv
<1>10. PoolInv'
  BY <1>0, <1>1, <1>2, <1>3, <1>4, <1>5, <1>6 DEF PoolInv, LaunchPool, StopPool, Before
<1>11. TaskInv'
  BY <1>0, <1>1, <1>2, <1>3, <1>4, <1>5, <1>6 DEF TaskInv
<1>12. LoopInv'
  BY <1>0, <1>1, <1>2, <1>3, <1>4, <1>5, <1>6 DEF LoopInv
<1>13. StopInv'
  BY <1>0, <1>1, <1>2, <1>3, <1>4, <1>5, <1>6 DEF StopInv
<1>14. RunsKnown'
  BY <1>0, <1>1, <1>2, <1>3, <1>4, <1>5, <1>6 DEF RunsKnown
<1>15. KeepInv'
  BY <1>0, <1>1, <1>2, <1>3, <1>4, <1>5, <1>6 DEF KeepInv, LaunchPool, StopPool, Before
<1>16. SyncInv'
  BY <1>0, <1>1, <1>2, <1>3, <1>4, <1>5, <1>6 DEF SyncInv, LaunchPool, StopPool, Before
<1>17. FirstInv'
  BY <1>0, <1>1, <1>2, <1>3, <1>4, <1>5, <1>6 DEF FirstInv, LaunchPool, StopPool, Before
<1>18. ItemsInv'
  BY <1>0, <1>1, <1>2, <1>3, <1>4, <1>5, <1>6 DEF ItemsInv
<1>19. StoredIsInstalled'
  BY <1>0, <1>1, <1>2, <1>3, <1>4, <1>5, <1>6 DEF StoredIsInstalled
<1> QED
  BY <1>7, <1>8, <1>9, <1>10, <1>11, <1>12, <1>13, <1>14, <1>15, <1>16, <1>17, <1>18,
     <1>19 DEF Inv

\* A step that changes neither the launch nor what it works on, nor whether Stop or the
\* offline TTL handler use the pool or the lock.
LEMMA QuietStep ==
  ASSUME Inv, SLTypeOK', PcInv', FirstInv',
         UNCHANGED <<mIsRunning, mFirstStart, mLaunchInProgress, mInstances, pool,
                     tasks, lost, ttlTasks, req, todo, marking, removeItems,
                     stored, runs, installed, failed, broken, left>>,
         pc'.update = pc.update, pc'.ttl = "stop" <=> pc.ttl = "stop",
         pc'.main \in StopPool <=> pc.main \in StopPool,
         pc'.main = "stopWait" <=> pc.main = "stopWait"
  PROVE  Inv'
<1>0. /\ SLTypeOK /\ PcInv /\ LockInv /\ PoolInv /\ TaskInv /\ LoopInv /\ StopInv
      /\ RunsKnown /\ KeepInv /\ SyncInv /\ FirstInv /\ ItemsInv /\ StoredIsInstalled
  BY DEF Inv
<1>1. /\ Known' = Known
      /\ StartItems' = StartItems /\ Listed(req.start)' = Listed(req.start)
  BY DEF Known, StartItems, Listed

<1>2. LockInv'
  BY <1>0, <1>1 DEF LockInv
<1>3. PoolInv'
  BY <1>0, <1>1 DEF PoolInv
<1>4. TaskInv'
  BY <1>0, <1>1 DEF TaskInv
<1>5. LoopInv'
  BY <1>0, <1>1 DEF LoopInv
<1>6. StopInv'
  BY <1>0, <1>1 DEF StopInv
<1>7. RunsKnown'
  BY <1>0, <1>1 DEF RunsKnown
<1>8. KeepInv'
  BY <1>0, <1>1 DEF KeepInv
<1>9. SyncInv'
  BY <1>0, <1>1 DEF SyncInv
<1>10. ItemsInv'
  BY <1>0, <1>1 DEF ItemsInv
<1>11. StoredIsInstalled'
  BY <1>0, <1>1 DEF StoredIsInstalled
<1> QED
  BY <1>2, <1>3, <1>4, <1>5, <1>6, <1>7, <1>8, <1>9, <1>10, <1>11 DEF Inv

\* The connection concerns no launch.
LEMMA KeepsConnectionChanges ==
  ASSUME Inv, ConnectionChanges
  PROVE  Inv'
<1>0. SLTypeOK /\ PcInv /\ FirstInv
  BY DEF Inv
<1>2. /\ pc' = [t \in ThreadNames |-> pc'[t]]
      /\ pc'.update = pc.update /\ pc'.main = pc.main /\ pc'.ttl = pc.ttl
  BY <1>0, GotoFacts DEF ConnectionChanges, PcInv
<1>3. UNCHANGED <<mIsRunning, mFirstStart, mLaunchInProgress, mInstances, pool,
                  tasks, lost, ttlTasks, req, todo, marking, removeItems,
                  stored, runs, installed, failed, broken, left>>
  BY <1>0 DEF ConnectionChanges, flags, poolVars, offlineVars, launchVars, outside,
     history
<1>4. Known' = Known
  BY <1>3 DEF Known
<1>5. SLTypeOK'
  <2>1. /\ UNCHANGED <<mRebootQueue, asleep, owed, raced>>
        /\ connected' = ~connected
    BY DEF ConnectionChanges, history
  <2>2. calls' \in 0 .. MaxCalls
    BY <1>0, MaxCallsIsNatural DEF ConnectionChanges, Counted, SLTypeOK
  <2>3. mOffline \in BOOLEAN /\ armed \in BOOLEAN
    BY <1>0 DEF SLTypeOK
  <2>4. mOffline' \in BOOLEAN /\ armed' \in BOOLEAN
    BY <2>3, Zenon DEF ConnectionChanges, OnDisconnect
  <2> QED
    BY <1>0, <1>3, <1>4, <2>1, <2>2, <2>4 DEF SLTypeOK
<1>6. PcInv'
  BY <1>0, <1>2 DEF PcInv
<1>7. FirstInv'
  BY <1>0, <1>2, <1>3, <1>4 DEF FirstInv
<1> QED
  BY <1>0, <1>2, <1>3, <1>5, <1>6, <1>7, QuietStep DEF StopPool

\* The timer's handler has yet to take mLaunchInProgress.
LEMMA KeepsTimerFires ==
  ASSUME Inv, TimerFires
  PROVE  Inv'
<1>0. SLTypeOK /\ PcInv /\ FirstInv
  BY DEF Inv
<1>1. pc.ttl = "idle" /\ Goto("ttl", "wait")
  BY <1>0 DEF TimerFires
<1>2. /\ pc.ttl = "idle" /\ pc'.ttl = "wait"
      /\ pc'.update = pc.update /\ pc'.main = pc.main
      /\ pc' = [t \in ThreadNames |-> pc'[t]]
  BY <1>0, <1>1, GotoFacts
<1>3. UNCHANGED <<mIsRunning, mFirstStart, mLaunchInProgress, mInstances, pool,
                  tasks, lost, ttlTasks, req, todo, marking, removeItems,
                  stored, runs, installed, failed, broken, left>>
  BY <1>0 DEF TimerFires, flags, poolVars, offlineVars, launchVars, outside, history
<1>4. Known' = Known
  BY <1>3 DEF Known
<1>5. SLTypeOK'
  BY <1>0, <1>3, <1>4, MaxCallsIsNatural DEF TimerFires, SLTypeOK, Counted, NotifyAll,
     flags, poolVars, offlineVars, launchVars, outside, history
<1>6. PcInv'
  BY <1>0, <1>2 DEF PcInv
<1>7. FirstInv'
  BY <1>0, <1>2, <1>3, <1>4 DEF FirstInv
<1> QED
  BY <1>0, <1>2, <1>3, <1>5, <1>6, <1>7, QuietStep DEF StopPool

\* A reboot is queued.
LEMMA KeepsRebootRequired ==
  ASSUME Inv, RebootRequired
  PROVE  Inv'
<1>0. SLTypeOK /\ PcInv /\ FirstInv
  BY DEF Inv
<1>2. /\ pc' = [t \in ThreadNames |-> pc'[t]]
      /\ pc'.update = pc.update /\ pc'.main = pc.main /\ pc'.ttl = pc.ttl
  BY <1>0, GotoFacts DEF RebootRequired, PcInv
<1>3. UNCHANGED <<mIsRunning, mFirstStart, mLaunchInProgress, mInstances, pool,
                  tasks, lost, ttlTasks, req, todo, marking, removeItems,
                  stored, runs, installed, failed, broken, left>>
  BY <1>0 DEF RebootRequired, flags, poolVars, offlineVars, launchVars, outside, history
<1>4. Known' = Known
  BY <1>3 DEF Known
<1>5. SLTypeOK'
  BY <1>0, <1>3, <1>4, MaxCallsIsNatural DEF RebootRequired, SLTypeOK, Counted,
     NotifyAll, flags, poolVars, offlineVars, launchVars, outside, history
<1>6. PcInv'
  BY <1>0, <1>2 DEF PcInv
<1>7. FirstInv'
  BY <1>0, <1>2, <1>3, <1>4 DEF FirstInv
<1> QED
  BY <1>0, <1>2, <1>3, <1>5, <1>6, <1>7, QuietStep DEF StopPool

\* The reboot thread changes no instance.
LEMMA KeepsRunRebootThread ==
  ASSUME Inv, RunRebootThread
  PROVE  Inv'
<1>0. SLTypeOK /\ PcInv /\ FirstInv
  BY DEF Inv
<1>2. /\ pc' = [t \in ThreadNames |-> pc'[t]]
      /\ pc'.update = pc.update /\ pc'.main = pc.main /\ pc'.ttl = pc.ttl
  BY <1>0, GotoFacts DEF RunRebootThread, PcInv
<1>3. UNCHANGED <<mIsRunning, mFirstStart, mLaunchInProgress, mInstances, pool,
                  tasks, lost, ttlTasks, req, todo, marking, removeItems,
                  stored, runs, installed, failed, broken, left>>
  BY <1>0 DEF RunRebootThread, flags, poolVars, offlineVars, launchVars, outside,
     history
<1>4. Known' = Known
  BY <1>3 DEF Known
<1>5. SLTypeOK'
  BY <1>0, <1>3, <1>4, MaxCallsIsNatural DEF RunRebootThread, SLTypeOK, Counted,
     NotifyAll, flags, poolVars, offlineVars, launchVars, outside, history
<1>6. PcInv'
  BY <1>0, <1>2 DEF PcInv
<1>7. FirstInv'
  BY <1>0, <1>2, <1>3, <1>4 DEF FirstInv
<1> QED
  BY <1>0, <1>2, <1>3, <1>5, <1>6, <1>7, QuietStep DEF StopPool

\* Waiting on mCondVar changes nothing else.
LEMMA KeepsSleep ==
  ASSUME Inv, NEW u \in {"main", "reboot", "ttl"}, Sleep(u)
  PROVE  Inv'
<1>0. SLTypeOK /\ PcInv /\ FirstInv
  BY DEF Inv
<1>2. /\ pc' = [t \in ThreadNames |-> pc'[t]]
      /\ pc'.update = pc.update /\ pc'.main = pc.main /\ pc'.ttl = pc.ttl
  BY <1>0, GotoFacts DEF Sleep, PcInv
<1>3. UNCHANGED <<mIsRunning, mFirstStart, mLaunchInProgress, mInstances, pool,
                  tasks, lost, ttlTasks, req, todo, marking, removeItems,
                  stored, runs, installed, failed, broken, left>>
  BY <1>0 DEF Sleep, flags, poolVars, offlineVars, launchVars, outside, history
<1>4. Known' = Known
  BY <1>3 DEF Known
<1>5. SLTypeOK'
  BY <1>0, <1>3, <1>4, MaxCallsIsNatural DEF Sleep, SLTypeOK, Counted, NotifyAll,
     flags, poolVars, offlineVars, launchVars, outside, history
<1>6. PcInv'
  BY <1>0, <1>2 DEF PcInv
<1>7. FirstInv'
  BY <1>0, <1>2, <1>3, <1>4 DEF FirstInv
<1> QED
  BY <1>0, <1>2, <1>3, <1>5, <1>6, <1>7, QuietStep DEF StopPool

\* The launcher hears of the connection.
LEMMA KeepsSubscribe ==
  ASSUME Inv, Subscribe
  PROVE  Inv'
<1>0. SLTypeOK /\ PcInv /\ FirstInv
  BY DEF Inv
<1>1. pc.main = "subscribe" /\ Goto("main", "up")
  BY <1>0 DEF Subscribe
<1>2. /\ pc.main = "subscribe" /\ pc'.main = "up"
      /\ pc'.update = pc.update /\ pc'.ttl = pc.ttl
      /\ pc' = [t \in ThreadNames |-> pc'[t]]
  BY <1>0, <1>1, GotoFacts
<1>3. UNCHANGED <<mIsRunning, mFirstStart, mLaunchInProgress, mInstances, pool,
                  tasks, lost, ttlTasks, req, todo, marking, removeItems,
                  stored, runs, installed, failed, broken, left>>
  BY <1>0 DEF Subscribe, flags, poolVars, offlineVars, launchVars, outside, history
<1>4. Known' = Known
  BY <1>3 DEF Known
<1>5. SLTypeOK'
  BY <1>0, <1>3, <1>4, MaxCallsIsNatural DEF Subscribe, SLTypeOK, Counted, NotifyAll,
     flags, poolVars, offlineVars, launchVars, outside, history, OnDisconnect,
     StartsTimer
<1>6. PcInv'
  BY <1>0, <1>2 DEF PcInv
<1>7. FirstInv'
  BY <1>0, <1>2, <1>3, <1>4 DEF FirstInv
<1> QED
  BY <1>0, <1>2, <1>3, <1>5, <1>6, <1>7, QuietStep DEF StopPool

\* Stop begins to wait.
LEMMA KeepsStop ==
  ASSUME Inv, Stop
  PROVE  Inv'
<1>0. SLTypeOK /\ PcInv /\ FirstInv
  BY DEF Inv
<1>1. pc.main = "up" /\ Goto("main", "wait")
  BY <1>0 DEF Stop
<1>2. /\ pc.main = "up" /\ pc'.main = "wait"
      /\ pc'.update = pc.update /\ pc'.ttl = pc.ttl
      /\ pc' = [t \in ThreadNames |-> pc'[t]]
  BY <1>0, <1>1, GotoFacts
<1>3. UNCHANGED <<mIsRunning, mFirstStart, mLaunchInProgress, mInstances, pool,
                  tasks, lost, ttlTasks, req, todo, marking, removeItems,
                  stored, runs, installed, failed, broken, left>>
  BY <1>0 DEF Stop, flags, poolVars, offlineVars, launchVars, outside, history
<1>4. Known' = Known
  BY <1>3 DEF Known
<1>5. SLTypeOK'
  BY <1>0, <1>3, <1>4, MaxCallsIsNatural DEF Stop, SLTypeOK, Counted, NotifyAll, flags,
     poolVars, offlineVars, launchVars, outside, history
<1>6. PcInv'
  BY <1>0, <1>2 DEF PcInv
<1>7. FirstInv'
  BY <1>0, <1>2, <1>3, <1>4 DEF FirstInv
<1> QED
  BY <1>0, <1>2, <1>3, <1>5, <1>6, <1>7, QuietStep DEF StopPool

\* No launch was under way when Stop went on.
LEMMA KeepsStopWaited ==
  ASSUME Inv, StopWaited, ~mFirstStart
  PROVE  Inv'
<1>0. SLTypeOK /\ PcInv /\ FirstInv
  BY DEF Inv
<1>1. pc.main = "wait" /\ Goto("main", "stopAll")
  BY <1>0 DEF StopWaited
<1>2. /\ pc.main = "wait" /\ pc'.main = "stopAll"
      /\ pc'.update = pc.update /\ pc'.ttl = pc.ttl
      /\ pc' = [t \in ThreadNames |-> pc'[t]]
  BY <1>0, <1>1, GotoFacts
<1>3. UNCHANGED <<mIsRunning, mFirstStart, mLaunchInProgress, mInstances, pool,
                  tasks, lost, ttlTasks, req, todo, marking, removeItems,
                  stored, runs, installed, failed, broken, left>>
  BY <1>0 DEF StopWaited, flags, poolVars, offlineVars, launchVars, outside, history
<1>4. Known' = Known
  BY <1>3 DEF Known
<1>5. SLTypeOK'
  BY <1>0, <1>3, <1>4, MaxCallsIsNatural DEF StopWaited, SLTypeOK, Counted, NotifyAll,
     flags, poolVars, offlineVars, launchVars, outside, history
<1>6. PcInv'
  BY <1>0, <1>2 DEF PcInv
<1>7. FirstInv'
  BY <1>0, <1>2, <1>3, <1>4 DEF FirstInv
<1> QED
  BY <1>0, <1>2, <1>3, <1>5, <1>6, <1>7, QuietStep DEF StopPool

\* The threads have ended.
LEMMA KeepsJoinThreads ==
  ASSUME Inv, JoinThreads
  PROVE  Inv'
<1>0. SLTypeOK /\ PcInv /\ FirstInv
  BY DEF Inv
<1>1. pc.main = "joinThreads" /\ Goto("main", "down")
  BY <1>0 DEF JoinThreads
<1>2. /\ pc.main = "joinThreads" /\ pc'.main = "down"
      /\ pc'.update = pc.update /\ pc'.ttl = pc.ttl
      /\ pc' = [t \in ThreadNames |-> pc'[t]]
  BY <1>0, <1>1, GotoFacts
<1>3. UNCHANGED <<mIsRunning, mFirstStart, mLaunchInProgress, mInstances, pool,
                  tasks, lost, ttlTasks, req, todo, marking, removeItems,
                  stored, runs, installed, failed, broken, left>>
  BY <1>0 DEF JoinThreads, flags, poolVars, offlineVars, launchVars, outside, history
<1>4. Known' = Known
  BY <1>3 DEF Known
<1>5. SLTypeOK'
  BY <1>0, <1>3, <1>4, MaxCallsIsNatural DEF JoinThreads, SLTypeOK, Counted, NotifyAll,
     flags, poolVars, offlineVars, launchVars, outside, history
<1>6. PcInv'
  BY <1>0, <1>2 DEF PcInv
<1>7. FirstInv'
  BY <1>0, <1>2, <1>3, <1>4 DEF FirstInv
<1> QED
  BY <1>0, <1>2, <1>3, <1>5, <1>6, <1>7, QuietStep DEF StopPool

\* Nobody waits for a launch that is still the first.
LEMMA StopWaitedIsLater ==
  ASSUME Inv, StopWaited
  PROVE  ~mFirstStart
  BY DEF Inv, FirstInv, LockInv, StopWaited

-----------------------------------------------------------------------------
\* The launcher starts with nothing known and the stored instances' items installed.
LEMMA InitInv ==
  ASSUME SLInit
  PROVE  Inv
<1>1. PICK r \in Requests : /\ stored = r.start
                            /\ installed = {Item(i, r.start[i]) : i \in Listed(r.start)}
  BY DEF SLInit
<1>2. /\ mIsRunning = FALSE /\ mFirstStart = TRUE /\ mLaunchInProgress = FALSE
      /\ mInstances = [i \in Instances |-> None] /\ runs = [i \in Instances |-> None]
      /\ pool = "off" /\ tasks = {} /\ ttlTasks = {} /\ todo = {} /\ marking = None
      /\ req = NoRequest
  BY DEF SLInit
<1>3. /\ pc.main = "down" /\ pc.update = "idle" /\ pc.ttl = "idle"
      /\ pc = [t \in ThreadNames |-> pc[t]]
  BY DEF SLInit, ThreadNames
<1>4. /\ mInstances \in [Instances -> {None} \union
                            [version : Versions, state : InstanceStates]]
      /\ Known = {} /\ runs \in [Instances -> Versions \union {None}]
      /\ \A i \in Instances : runs[i] = None
  BY <1>2 DEF Known
<1>5. req.stop \subseteq Instances /\ req.start \in [Instances -> Versions \union {None}]
  BY <1>2 DEF NoRequest
<1>6. stored \in [Instances -> Versions \union {None}]
  BY <1>1, RequestsAre
<1>7. SLTypeOK
  <2>1. /\ mOffline = FALSE /\ mRebootQueue = FALSE /\ armed = FALSE /\ lost = FALSE
        /\ connected = TRUE /\ owed = FALSE /\ raced = FALSE
        /\ asleep = {} /\ calls = 0
    BY DEF SLInit
  <2>2. calls \in 0 .. MaxCalls
    BY <2>1, MaxCallsIsNatural
  <2>3. {mIsRunning, mFirstStart, mLaunchInProgress, mOffline, mRebootQueue, armed, lost,
         connected, owed, raced} \subseteq BOOLEAN
    BY <1>2, <2>1
  <2> QED
    BY <1>2, <1>4, <1>5, <1>6, <2>1, <2>2, <2>3 DEF SLTypeOK
<1>8. PcInv /\ LockInv /\ PoolInv /\ TaskInv
  BY <1>2, <1>3 DEF PcInv, LockInv, PoolInv, TaskInv, LaunchPool, StopPool
<1>9. LoopInv /\ StopInv /\ RunsKnown
  BY <1>2, <1>3, <1>4 DEF LoopInv, StopInv, RunsKnown
<1>10. KeepInv /\ SyncInv /\ FirstInv /\ ItemsInv
  BY <1>2, <1>3, <1>4 DEF KeepInv, SyncInv, FirstInv, ItemsInv, Before
<1>11. StoredIsInstalled
  BY <1>1, KindsAreInstances DEF StoredIsInstalled, Listed, Item
<1> QED
  BY <1>7, <1>8, <1>9, <1>10, <1>11 DEF Inv

\* Every step of the launcher keeps the invariant.
LEMMA StepInv ==
  ASSUME Inv, [SLNext]_vars
  PROVE  Inv'
<1>1. CASE \E r \in Requests : UpdateInstances(r)
  BY <1>1, KeepsUpdateInstances
<1>2. CASE LaunchStep
  <2>1. CASE BeginLaunch
    BY <2>1, KeepsBeginLaunch, KeepsRefusedLaunch
  <2>2. CASE MarkInactive
    BY <2>2, KeepsMarkInactive
  <2>3. CASE WaitStopped
    BY <2>3, KeepsWaitStopped
  <2>4. CASE UpdateItems
    BY <2>4, KeepsUpdateItems
  <2>5. CASE WaitItems
    BY <2>5, KeepsWaitItems
  <2>6. CASE Prepared
    BY <2>6, KeepsAllPrepared
  <2>7. CASE WaitStarted
    BY <2>7, KeepsWaitStarted
  <2>8. CASE JoinLaunchPool
    BY <2>8, KeepsJoinLaunchPool
  <2>9. CASE SendStatus
    BY <2>9, KeepsSendStatus
  <2>10. CASE FinishLaunch
    BY <2>10, KeepsFinishLaunch
  <2>11. ASSUME NEW i \in Instances, StopInstance(i)
         PROVE  Inv'
    BY <2>11, KeepsStopInstance
  <2>12. ASSUME NEW i \in Instances, RemoveInstanceData(i)
         PROVE  Inv'
    BY <2>12, KeepsRemovedData, KeepsDataKept
  <2>13. ASSUME NEW i \in Instances, PrepareInstance(i)
         PROVE  Inv'
    BY <2>13, KeepsPreparedAgain, KeepsPrepared
  <2>14. ASSUME NEW i \in Instances, StartInstance(i)
         PROVE  Inv'
    BY <2>14, KeepsStartInstance, KeepsNotStarted
  <2> QED
    BY <1>2, <2>1, <2>2, <2>3, <2>4, <2>5, <2>6, <2>7, <2>8, <2>9, <2>10, <2>11, <2>12,
       <2>13, <2>14 DEF LaunchStep
<1>3. CASE TaskStep
  BY <1>3, KeepsStopTask, KeepsStartTask, KeepsItemTask DEF TaskStep
<1>4. CASE TTLStep
  <2>1. CASE HandleOfflineTTLs
    BY <2>1, KeepsHandleOfflineTTLs, KeepsSkipOfflineTTLs
  <2> QED
    BY <1>4, <2>1, KeepsTimerFires, KeepsFinishOfflineTTLs, KeepsStopExpired DEF TTLStep
<1>5. CASE MainStep
  <2>1. CASE Start \/ Subscribe \/ StopWaited
    BY <2>1, KeepsStart, KeepsSubscribe, KeepsStopWaited, StopWaitedIsLater
  <2>2. CASE StopAllInstances
    BY <2>2, KeepsStopAllInstances, KeepsRefusedStop
  <2>3. CASE StopAllWaited \/ StopAllJoined \/ Halt \/ JoinThreads
    BY <2>3, KeepsStopAllWaited, KeepsStopAllJoined, KeepsHalt, KeepsJoinThreads
  <2> QED
    BY <1>5, <2>1, <2>2, <2>3 DEF MainStep
<1>6. CASE RunRebootThread \/ ConnectionChanges \/ RebootRequired \/ Stop \/ Crash
  BY <1>6, KeepsRunRebootThread, KeepsConnectionChanges, KeepsRebootRequired, KeepsStop,
     KeepsCrash
<1>7. CASE \E t \in {"main", "reboot", "ttl"} : Sleep(t)
  BY <1>7, KeepsSleep
<1>8. CASE \E i \in Instances : OnComponentStatus(i)
  BY <1>8, KeepsOnComponentStatus
<1>9. CASE UNCHANGED vars
  <2>1. /\ UNCHANGED <<mIsRunning, mFirstStart, mLaunchInProgress, mInstances, mOffline>>
        /\ UNCHANGED <<mRebootQueue, armed, pool, tasks, lost, ttlTasks, pc, asleep, req>>
        /\ UNCHANGED <<todo, marking, removeItems, connected, stored, runs, installed>>
        /\ UNCHANGED <<owed, failed, broken, left, raced, calls>>
    BY <1>9 DEF vars
  <2>2. SLTypeOK /\ PcInv /\ FirstInv
    BY DEF Inv
  <2>3. SLTypeOK'
    BY <2>1, <2>2 DEF SLTypeOK, Known
  <2>4. PcInv' /\ FirstInv'
    BY <2>1, <2>2 DEF PcInv, FirstInv, Known
  <2> QED
    BY <2>1, <2>3, <2>4, QuietStep
<1> QED
  BY <1>1, <1>2, <1>3, <1>4, <1>5, <1>6, <1>7, <1>8, <1>9 DEF SLNext

-----------------------------------------------------------------------------
\* The launcher keeps the invariant, for all instances, requests and bounds.
THEOREM Invariance == SLSpec => []Inv
  BY InitInv, StepInv, PTL DEF SLSpec

\* Type correctness; above all a task of the pool, the offline TTL handler and the mark of
\* StopInstances never refer to an instance whose data RemoveInstancesData has removed.
THEOREM SLTypeCorrect == SLSpec => []SLTypeOK
<1>1. Inv => SLTypeOK
  BY DEF Inv
<1> QED
  BY <1>1, Invariance, PTL

\* What a runtime runs is what the launcher knows, in the version it knows, unless it
\* could not be stopped.
THEOREM RunsSafe == SLSpec => []RunsKnown
<1>1. Inv => RunsKnown
  BY DEF Inv
<1> QED
  BY <1>1, Invariance, PTL

\* A service is stored only with its update item installed, at every step of a launch and
\* so at every crash.
THEOREM StoredSafe == SLSpec => []StoredIsInstalled
<1>1. Inv => StoredIsInstalled
  BY DEF Inv
<1> QED
  BY <1>1, Invariance, PTL
=============================================================================
