----------------------------- MODULE CmLauncher -----------------------------
(***************************************************************************)
(* The launcher of the communication manager (cm/launcher): how the thread  *)
(* that runs a request, the worker that rebalances after changes, Start and *)
(* Stop, and the callbacks with node infos and node statuses share          *)
(* mUpdateMutex, mBalancingMutex and three condition variables.             *)
(*                                                                         *)
(* Every step holds mUpdateMutex. Which instance goes to which node is left *)
(* out: a balancing fails or sends requests to nodes and waits for their    *)
(* statuses. A wait for statuses ends when all are in or by its timeout.    *)
(***************************************************************************)
EXTENDS Naturals

CONSTANTS
    Nodes,
    Absent,     \* no node
    MaxCalls    \* bound on the calls and messages from outside

ASSUME AbsentIsNoNode ==
    /\ Absent \notin [conn : BOOLEAN, recv : BOOLEAN, prov : BOOLEAN]
    /\ MaxCalls \in Nat

VARIABLES
    mIsRunning,
    mDisableProcessUpdates,
    mNodes,         \* [conn, recv, prov] of every node, or Absent
    mNodesExpectedToSendStatus,
    mUpdatedNodes,
    mNewSubjects, mAlertReceived, mIsNodeInfoChanged,
    mIsOverrideEnvVarsChanged, mForceRebalance,
    balancing,      \* the thread that holds mBalancingMutex, or "nobody"
    pc,             \* the threads: main, runner and worker
    asleep,         \* threads that wait on a condition variable
    asked,          \* nodes with a request they have not answered
    provider,       \* the node info provider: [conn, prov] of every node
    dirty,          \* history: changes no balancing has seen yet
    unnoticed,      \* history: a node got connected and no waiting thread was told
    calls

vars == <<mIsRunning, mDisableProcessUpdates, mNodes, mNodesExpectedToSendStatus,
          mUpdatedNodes, mNewSubjects, mAlertReceived, mIsNodeInfoChanged,
          mIsOverrideEnvVarsChanged, mForceRebalance, balancing, pc, asleep, asked,
          provider, dirty, unnoticed, calls>>

nodeVars == <<mNodes, mNodesExpectedToSendStatus>>
flags == <<mNewSubjects, mAlertReceived, mIsNodeInfoChanged,
           mIsOverrideEnvVarsChanged, mForceRebalance>>

Known == {n \in Nodes : mNodes[n] # Absent}
IsConnected(node) == node.conn /\ node.recv
SomeNodeOff == \E n \in Known : ~IsConnected(mNodes[n])

Goto(t, l) == pc' = [pc EXCEPT ![t] = l]
Counted == calls < MaxCalls /\ calls' = calls + 1

\* The threads left on their condition variable after NotifyAll on those whose
\* waiters are at the steps ls.
Left(ls) == {t \in asleep : pc[t] \notin ls}

CLInit ==
    /\ mIsRunning = FALSE
    /\ mDisableProcessUpdates = FALSE
    /\ mNodes = [n \in Nodes |-> Absent]
    /\ mNodesExpectedToSendStatus = {}
    /\ mUpdatedNodes = {}
    /\ mNewSubjects = FALSE
    /\ mAlertReceived = FALSE
    /\ mIsNodeInfoChanged = FALSE
    /\ mIsOverrideEnvVarsChanged = FALSE
    /\ mForceRebalance = FALSE
    /\ balancing = "nobody"
    /\ pc = [main |-> "down", runner |-> "idle", worker |-> "off"]
    /\ asleep = {}
    /\ asked = {}
    /\ provider \in [Nodes -> [conn : BOOLEAN, prov : BOOLEAN]]
    /\ dirty = {}
    /\ unnoticed = FALSE
    /\ calls = 0

-----------------------------------------------------------------------------
\* Start: the nodes that are provisioned are known, the subjects are checked once, and
\* a stored instance without a node forces a rebalancing.
Start ==
    /\ pc.main = "down"
    /\ balancing = "nobody"
    /\ mIsRunning' = TRUE
    /\ mDisableProcessUpdates' = FALSE
    /\ mNodes' = [n \in Nodes |-> IF provider[n].prov
                    THEN [conn |-> provider[n].conn, recv |-> FALSE, prov |-> TRUE]
                    ELSE Absent]
    /\ mUpdatedNodes' = {}
    /\ mNewSubjects' = TRUE
    /\ mIsOverrideEnvVarsChanged' \in BOOLEAN
    /\ mForceRebalance' \in BOOLEAN
    /\ dirty' = IF mForceRebalance' THEN {"requests"} ELSE {}
    /\ pc' = [pc EXCEPT !.main = "up", !.worker = "wait"]
    /\ UNCHANGED <<mNodesExpectedToSendStatus, mAlertReceived, mIsNodeInfoChanged,
                   balancing, asleep, asked, provider, unnoticed, calls>>

\* Mutant: only the worker's own condition variable is notified.
StopHalfSilently ==
    /\ pc.main = "up"
    /\ Counted
    /\ mIsRunning' = FALSE
    /\ mDisableProcessUpdates' = FALSE
    /\ mAlertReceived' = FALSE
    /\ mUpdatedNodes' = {}
    /\ mNewSubjects' = FALSE
    /\ mNodes' = [n \in Nodes |-> Absent]
    /\ mNodesExpectedToSendStatus' = {}
    /\ asleep' = Left({"wait"})
    /\ dirty' = {}
    /\ Goto("main", "join")
    /\ UNCHANGED <<mIsNodeInfoChanged, mIsOverrideEnvVarsChanged, mForceRebalance,
                   balancing, asked, provider, unnoticed>>

Stop ==
    /\ pc.main = "up"
    /\ Counted
    /\ mIsRunning' = FALSE
    /\ mDisableProcessUpdates' = FALSE
    /\ mAlertReceived' = FALSE
    /\ mUpdatedNodes' = {}
    /\ mNewSubjects' = FALSE
    /\ mNodes' = [n \in Nodes |-> Absent]
    /\ mNodesExpectedToSendStatus' = {}
    /\ asleep' = Left({"wait", "nodes"})
    /\ dirty' = {}
    /\ Goto("main", "join")
    /\ UNCHANGED <<mIsNodeInfoChanged, mIsOverrideEnvVarsChanged, mForceRebalance,
                   balancing, asked, provider, unnoticed>>

JoinWorker ==
    /\ pc.main = "join"
    /\ pc.worker = "off"
    /\ Goto("main", "down")
    /\ UNCHANGED <<mIsRunning, mDisableProcessUpdates, nodeVars, mUpdatedNodes, flags,
                   balancing, asleep, asked, provider, dirty, unnoticed, calls>>

-----------------------------------------------------------------------------
\* WaitAllNodesConnected finds a node that is not.
SleepForNodes(t) ==
    /\ pc[t] = "nodes"
    /\ t \notin asleep
    /\ mIsRunning /\ SomeNodeOff
    /\ asleep' = asleep \union {t}
    /\ UNCHANGED <<mIsRunning, mDisableProcessUpdates, nodeVars, mUpdatedNodes, flags,
                   balancing, pc, asked, provider, dirty, unnoticed, calls>>

NodesAreConnected(t) ==
    /\ pc[t] = "nodes"
    /\ t \notin asleep
    /\ ~mIsRunning \/ ~SomeNodeOff

\* BalanceInstances and SendScheduledInstances: the balancing fails, or a request can
\* not be sent to some of the nodes (some were), or there are no nodes, or all nodes
\* are asked and expected.
BalanceInstances(t, done) ==
    \/ /\ Goto(t, done)
       /\ UNCHANGED <<mNodesExpectedToSendStatus, asked>>
    \/ /\ \E ns \in SUBSET Known : ns # Known /\ asked' = asked \union ns
       /\ Goto(t, done)
       /\ UNCHANGED mNodesExpectedToSendStatus
    \/ /\ Known # {}
       /\ asked' = asked \union Known
       /\ mNodesExpectedToSendStatus' = Known
       /\ Goto(t, "status")

\* The wait for statuses ends: none is missing, or the timeout.
StatusWaitEnds(t, timeout) ==
    /\ pc[t] \in {"status", "resend"}
    /\ timeout = (mNodesExpectedToSendStatus # {})

-----------------------------------------------------------------------------
\* RunInstances

RunInstances ==
    /\ pc.runner = "idle"
    /\ pc.main = "up"
    /\ Counted
    /\ Goto("runner", "lock")
    /\ UNCHANGED <<mIsRunning, mDisableProcessUpdates, nodeVars, mUpdatedNodes, flags,
                   balancing, asleep, asked, provider, dirty, unnoticed>>

\* With both mutexes: the requests are saved, or that fails.
SaveRequests ==
    /\ pc.runner = "lock"
    /\ balancing = "nobody"
    /\ balancing' = "runner"
    /\ mDisableProcessUpdates' = TRUE
    /\ \/ /\ dirty' = IF mIsRunning THEN dirty \union {"requests"} ELSE dirty
          /\ Goto("runner", "nodes")
       \/ Goto("runner", "return") /\ UNCHANGED dirty
    /\ UNCHANGED <<mIsRunning, nodeVars, mUpdatedNodes, flags, asleep, asked, provider,
                   unnoticed, calls>>

RunBalancing ==
    /\ NodesAreConnected("runner")
    /\ IF mIsRunning
       THEN /\ BalanceInstances("runner", "return")
            /\ dirty' = dirty \ {"requests", "nodes"}
       ELSE /\ Goto("runner", "return")
            /\ UNCHANGED <<mNodesExpectedToSendStatus, asked, dirty>>
    /\ UNCHANGED <<mIsRunning, mDisableProcessUpdates, mNodes, mUpdatedNodes, flags,
                   balancing, asleep, provider, unnoticed, calls>>

RunWaited(timeout) ==
    /\ StatusWaitEnds("runner", timeout)
    /\ Goto("runner", "return")
    /\ UNCHANGED <<mIsRunning, mDisableProcessUpdates, nodeVars, mUpdatedNodes, flags,
                   balancing, asleep, asked, provider, dirty, unnoticed, calls>>

\* RunInstances returns: updates are processed again.
RunReturn ==
    /\ pc.runner = "return"
    /\ mDisableProcessUpdates' = FALSE
    /\ asleep' = Left({"wait"})
    /\ balancing' = "nobody"
    /\ Goto("runner", "idle")
    /\ UNCHANGED <<mIsRunning, nodeVars, mUpdatedNodes, flags, asked, provider, dirty,
                   unnoticed, calls>>

-----------------------------------------------------------------------------
\* ProcessUpdate

HasUpdates ==
    /\ \/ mUpdatedNodes # {} \/ mNewSubjects \/ mAlertReceived \/ ~mIsRunning
       \/ mIsNodeInfoChanged \/ mIsOverrideEnvVarsChanged \/ mForceRebalance
    /\ ~mDisableProcessUpdates

WorkerWait ==
    /\ pc.worker = "wait"
    /\ "worker" \notin asleep
    /\ IF HasUpdates
       THEN Goto("worker", "nodes") /\ UNCHANGED asleep
       ELSE asleep' = asleep \union {"worker"} /\ UNCHANGED pc
    /\ UNCHANGED <<mIsRunning, mDisableProcessUpdates, nodeVars, mUpdatedNodes, flags,
                   balancing, asked, provider, dirty, unnoticed, calls>>

\* The nodes are connected; mUpdateMutex is dropped before mBalancingMutex is taken.
WorkerUnlock ==
    /\ NodesAreConnected("worker")
    /\ Goto("worker", "lock")
    /\ UNCHANGED <<mIsRunning, mDisableProcessUpdates, nodeVars, mUpdatedNodes, flags,
                   balancing, asleep, asked, provider, dirty, unnoticed, calls>>

WorkerExit ==
    /\ pc.worker = "lock"
    /\ balancing = "nobody"
    /\ ~mIsRunning
    /\ Goto("worker", "off")
    /\ UNCHANGED <<mIsRunning, mDisableProcessUpdates, nodeVars, mUpdatedNodes, flags,
                   balancing, asleep, asked, provider, dirty, unnoticed, calls>>

\* The flags are taken. New subjects decide about the rebalancing in place of
\* mForceRebalance, which then stays for the next turn; changed variables of
\* instances replace the updated nodes by the nodes of these instances.
TakeFlags(doRebalance, updated) ==
    /\ pc.worker = "lock"
    /\ balancing = "nobody"
    /\ mIsRunning
    /\ IF mAlertReceived \/ mIsNodeInfoChanged THEN doRebalance
       ELSE mNewSubjects \/ doRebalance = mForceRebalance
    /\ IF mIsOverrideEnvVarsChanged THEN updated \subseteq Known
       ELSE updated = mUpdatedNodes
    /\ mNewSubjects' = FALSE
    /\ mAlertReceived' = FALSE
    /\ mIsNodeInfoChanged' = FALSE
    /\ mIsOverrideEnvVarsChanged' = FALSE

Rebalance ==
    \E updated \in SUBSET Nodes :
        /\ TakeFlags(TRUE, updated)
        /\ mUpdatedNodes' = {}
        /\ mForceRebalance' = FALSE
        /\ dirty' = {}
        /\ BalanceInstances("worker", "wait")
        /\ balancing' = IF pc'.worker = "status" THEN "worker" ELSE "nobody"
        /\ UNCHANGED <<mIsRunning, mDisableProcessUpdates, mNodes, asleep, provider,
                       unnoticed, calls>>

\* ResendInstances: those of the updated nodes are asked whose instances differ; when
\* a request fails, or no node is asked, it does not wait.
Resend ==
    \E updated \in SUBSET Nodes :
        /\ TakeFlags(FALSE, updated)
        /\ dirty' = dirty \ {"subjects"}
        /\ \/ /\ updated = {}
              /\ Goto("worker", "wait")
              /\ mUpdatedNodes' = {}
              /\ UNCHANGED <<mNodesExpectedToSendStatus, asked, balancing>>
           \/ /\ updated # {}
              /\ \E sent \in SUBSET (updated \intersect Known) :
                    /\ mNodesExpectedToSendStatus' = sent
                    /\ asked' = asked \union sent
              /\ \/ /\ mNodesExpectedToSendStatus' # {}
                    /\ Goto("worker", "resend")
                    /\ mUpdatedNodes' = updated
                    /\ balancing' = "worker"
                 \/ /\ Goto("worker", "wait")
                    /\ mUpdatedNodes' = {}
                    /\ UNCHANGED balancing
        /\ UNCHANGED <<mIsRunning, mDisableProcessUpdates, mNodes, mForceRebalance,
                       asleep, provider, unnoticed, calls>>

\* After its wait ResendInstances is followed by mUpdatedNodes.Clear(); a rebalancing
\* has cleared them before.
WorkerWaited(timeout) ==
    /\ StatusWaitEnds("worker", timeout)
    /\ mUpdatedNodes' = IF pc.worker = "resend" THEN {} ELSE mUpdatedNodes
    /\ balancing' = "nobody"
    /\ Goto("worker", "wait")
    /\ UNCHANGED <<mIsRunning, mDisableProcessUpdates, nodeVars, flags, asleep, asked,
                   provider, dirty, unnoticed, calls>>

-----------------------------------------------------------------------------
\* Callbacks

\* Mutant: a node that is forgotten is waited for.
UpdateNodeInfoOnly(n, info, differs) ==
    LET node == mNodes[n]
    IN  /\ UNCHANGED mNodesExpectedToSendStatus
        /\ mNodes' = [mNodes EXCEPT ![n] =
              IF ~info.prov THEN Absent
              ELSE [conn |-> info.conn,
                    recv |-> node # Absent /\ info.conn /\ node.recv,
                    prov |-> TRUE]]
        /\ IF node = Absent THEN differs = info.prov
           ELSE ~info.prov \/ ~node.prov => differs

\* NodeManager::UpdateNodeInfo. A node that is not provisioned is forgotten; of a known
\* one a changed connection alone is no change.
UpdateNodeInfo(n, info, differs) ==
    LET node == mNodes[n]
    IN  /\ mNodesExpectedToSendStatus' =
              IF info.prov THEN mNodesExpectedToSendStatus
              ELSE mNodesExpectedToSendStatus \ {n}
        /\ mNodes' = [mNodes EXCEPT ![n] =
              IF ~info.prov THEN Absent
              ELSE [conn |-> info.conn,
                    recv |-> node # Absent /\ info.conn /\ node.recv,
                    prov |-> TRUE]]
        /\ IF node = Absent THEN differs = info.prov
           ELSE ~info.prov \/ ~node.prov => differs

\* The provider's info of a node changes; the launcher hears of it while it runs.
OnNodeInfoChanged(n, info, differs) ==
    /\ Counted
    /\ provider' = [provider EXCEPT ![n] = info]
    /\ IF pc.main = "up"
       THEN /\ UpdateNodeInfo(n, info, differs)
            /\ mIsNodeInfoChanged' = (mIsNodeInfoChanged \/ differs)
            /\ dirty' = IF differs THEN dirty \union {"nodes"} ELSE dirty
            /\ asleep' = IF differs THEN Left({"wait", "nodes"}) ELSE asleep
            /\ unnoticed' = (unnoticed \/ (~differs /\ mNodes[n] # mNodes'[n]
                                              /\ info.prov /\ IsConnected(mNodes'[n])))
       ELSE UNCHANGED <<nodeVars, mIsNodeInfoChanged, dirty, asleep, unnoticed>>
    /\ UNCHANGED <<mIsRunning, mDisableProcessUpdates, mUpdatedNodes, mNewSubjects,
                   mAlertReceived, mIsOverrideEnvVarsChanged, mForceRebalance, balancing,
                   pc, asked>>

\* NodeManager::NotifyNodeStatusReceived. A node nobody has heard of is added, not
\* provisioned and not connected.
NotifyNodeStatusReceived(n) ==
    /\ mNodes' = [mNodes EXCEPT ![n] =
          IF @ = Absent THEN [conn |-> FALSE, recv |-> TRUE, prov |-> FALSE]
          ELSE [@ EXCEPT !.recv = TRUE]]
    /\ mNodesExpectedToSendStatus' =
          IF mNodes'[n].conn /\ mNodes'[n].prov
          THEN mNodesExpectedToSendStatus \ {n} ELSE mNodesExpectedToSendStatus

\* A node's statuses, asked for or not. When one of them is of an instance the instance
\* manager does not expect, UpdateRunningInstances fails and nobody is told.
OnNodeInstancesStatusesReceived(n, accepted) ==
    /\ mIsRunning
    /\ IF n \in asked THEN UNCHANGED calls ELSE Counted
    /\ asked' = asked \ {n}
    /\ NotifyNodeStatusReceived(n)
    /\ IF accepted
       THEN /\ mUpdatedNodes' = mUpdatedNodes \union {n}
            /\ asleep' = Left({"wait", "nodes"})
            /\ UNCHANGED unnoticed
       ELSE /\ unnoticed' = (unnoticed \/ (IsConnected(mNodes'[n]) /\ mNodes[n] # mNodes'[n]))
            /\ UNCHANGED <<mUpdatedNodes, asleep>>
    /\ UNCHANGED <<mIsRunning, mDisableProcessUpdates, flags, balancing, pc, provider,
                   dirty>>

\* Mutant: the worker is not told.
OnAlertSilently ==
    /\ mIsRunning
    /\ Counted
    /\ mAlertReceived' = TRUE
    /\ dirty' = dirty \union {"alert"}
    /\ UNCHANGED <<mIsRunning, mDisableProcessUpdates, nodeVars, mUpdatedNodes,
                   mNewSubjects, mIsNodeInfoChanged, mIsOverrideEnvVarsChanged,
                   mForceRebalance, balancing, pc, asleep, asked, provider, unnoticed>>

\* A quota alert that is raised or continues.
OnAlertReceived ==
    /\ mIsRunning
    /\ Counted
    /\ mAlertReceived' = TRUE
    /\ dirty' = dirty \union {"alert"}
    /\ asleep' = Left({"wait"})
    /\ UNCHANGED <<mIsRunning, mDisableProcessUpdates, nodeVars, mUpdatedNodes,
                   mNewSubjects, mIsNodeInfoChanged, mIsOverrideEnvVarsChanged,
                   mForceRebalance, balancing, pc, asked, provider, unnoticed>>

SubjectsChanged ==
    /\ mIsRunning
    /\ Counted
    /\ mNewSubjects' = TRUE
    /\ dirty' = dirty \union {"subjects"}
    /\ asleep' = Left({"wait"})
    /\ UNCHANGED <<mIsRunning, mDisableProcessUpdates, nodeVars, mUpdatedNodes,
                   mAlertReceived, mIsNodeInfoChanged, mIsOverrideEnvVarsChanged,
                   mForceRebalance, balancing, pc, asked, provider, unnoticed>>

\* ProcessOverrideEnvVars, by a request or by the timer that drops expired variables.
OverrideEnvVars ==
    /\ mIsRunning
    /\ Counted
    /\ mIsOverrideEnvVarsChanged' = TRUE
    /\ asleep' = Left({"wait"})
    /\ UNCHANGED <<mIsRunning, mDisableProcessUpdates, nodeVars, mUpdatedNodes,
                   mNewSubjects, mAlertReceived, mIsNodeInfoChanged, mForceRebalance,
                   balancing, pc, asked, provider, dirty, unnoticed>>

RunnerStep ==
    \/ SaveRequests \/ RunBalancing \/ RunReturn
    \/ \E timeout \in BOOLEAN : RunWaited(timeout)

WorkerStep ==
    \/ WorkerWait \/ WorkerUnlock \/ WorkerExit \/ Rebalance \/ Resend
    \/ \E timeout \in BOOLEAN : WorkerWaited(timeout)

CLNext ==
    \/ Start \/ Stop \/ JoinWorker
    \/ RunInstances \/ RunnerStep \/ WorkerStep
    \/ \E t \in {"runner", "worker"} : SleepForNodes(t)
    \/ \E n \in Nodes :
          \/ \E info \in [conn : BOOLEAN, prov : BOOLEAN], differs \in BOOLEAN :
                OnNodeInfoChanged(n, info, differs)
          \/ \E accepted \in BOOLEAN : OnNodeInstancesStatusesReceived(n, accepted)
    \/ OnAlertReceived \/ SubjectsChanged \/ OverrideEnvVars

CLSpec == CLInit /\ [][CLNext]_vars

\* The threads go on when they can. The mutex of the balancing is handed to each of
\* the two threads that compete for it in turn.
CLFairSpec ==
    /\ CLSpec
    /\ SF_vars(RunnerStep)
    /\ SF_vars(WorkerStep)
    /\ WF_vars(JoinWorker)

-----------------------------------------------------------------------------
\* The states, and that the nodes a thread waits for are known: a node that left the
\* unit is not waited for until the timeout.
CLTypeOK ==
    /\ mIsRunning \in BOOLEAN /\ mDisableProcessUpdates \in BOOLEAN
    /\ mNewSubjects \in BOOLEAN /\ mAlertReceived \in BOOLEAN
    /\ mIsNodeInfoChanged \in BOOLEAN /\ mIsOverrideEnvVarsChanged \in BOOLEAN
    /\ mForceRebalance \in BOOLEAN /\ unnoticed \in BOOLEAN
    /\ mNodes \in [Nodes -> {Absent} \union
                      [conn : BOOLEAN, recv : BOOLEAN, prov : BOOLEAN]]
    /\ mNodesExpectedToSendStatus \subseteq Known
    /\ mUpdatedNodes \subseteq Nodes
    /\ balancing \in {"nobody", "runner", "worker"}
    /\ pc \in [main : {"down", "up", "join"},
              runner : {"idle", "lock", "nodes", "status", "return"},
              worker : {"off", "wait", "nodes", "lock", "status", "resend"}]
    /\ asleep \subseteq {"runner", "worker"}
    /\ asked \subseteq Nodes
    /\ provider \in [Nodes -> [conn : BOOLEAN, prov : BOOLEAN]]
    /\ dirty \subseteq {"requests", "nodes", "subjects", "alert"}
    /\ calls \in 0 .. MaxCalls

\* RunInstances returns, through the worker's balancing, nodes that come and go and
\* Stop, unless a node it has to wait for is off or came back unnoticed.
RunReturns ==
    pc.runner # "idle" ~> (pc.runner = "idle" \/ SomeNodeOff \/ unnoticed)

\* Every change of requests, nodes, subjects or load is looked at by a balancing that
\* starts after it, although changes come while one is in progress and the flags are
\* shared; unless the launcher stops, or has to wait for a node as above.
ChangesAreBalanced ==
    \A c \in {"requests", "nodes", "subjects", "alert"} :
        c \in dirty ~> (c \notin dirty \/ ~mIsRunning \/ SomeNodeOff \/ unnoticed)

\* No thread sleeps in WaitAllNodesConnected once all nodes are connected: "we need to
\* trigger notification for waiting nodes after we handled statuses"
\* (cm/launcher/launcher.cpp:641).
WaitersWoken ==
    \A t \in asleep : pc[t] = "nodes" => mIsRunning /\ SomeNodeOff
=============================================================================
