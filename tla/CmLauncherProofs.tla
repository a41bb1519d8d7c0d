-------------------------- MODULE CmLauncherProofs --------------------------
(***************************************************************************)
(* Proofs about the launcher of the communication manager, for any set of  *)
(* nodes: the nodes a balancing waits for are nodes the launcher has.      *)
(***************************************************************************)
EXTENDS CmLauncher, TLAPS

\* Nothing is waited for while the launcher does not run, so Start, which replaces
\* the nodes and leaves mNodesExpectedToSendStatus alone, disturbs nothing.
DownInv ==
    /\ mIsRunning <=> pc.main = "up"
    /\ ~mIsRunning => mNodesExpectedToSendStatus = {}

IInv == CLTypeOK /\ DownInv

Infos == [conn : BOOLEAN, prov : BOOLEAN]
Labels == [main : {"down", "up", "join"},
           runner : {"idle", "lock", "nodes", "status", "return"},
           worker : {"off", "wait", "nodes", "lock", "status", "resend"}]
NodeStates == [conn : BOOLEAN, recv : BOOLEAN, prov : BOOLEAN]

-----------------------------------------------------------------------------
\* A step to a label of the thread keeps the type of pc.
LEMMA GotoType ==
  ASSUME CLTypeOK
  PROVE  /\ \A l \in {"down", "up", "join"} : Goto("main", l) =>
                /\ pc' \in Labels
                /\ pc'.main = l
         /\ \A l \in {"idle", "lock", "nodes", "status", "return"} : Goto("runner", l) =>
                /\ pc' \in Labels
                /\ pc'.main = pc.main
         /\ \A l \in {"off", "wait", "nodes", "lock", "status", "resend"} :
              Goto("worker", l) =>
                /\ pc' \in Labels
                /\ pc'.main = pc.main
  BY DEF CLTypeOK, Goto, Labels

\* Init establishes the invariant.
LEMMA InitInv == CLInit => IInv
<1> SUFFICES ASSUME CLInit PROVE IInv
  OBVIOUS
<1>1. mNodes \in [Nodes -> {Absent} \union NodeStates]
  BY DEF CLInit, NodeStates
<1>2. DownInv
  BY DEF CLInit, DownInv
<1>3. pc \in Labels
  BY DEF CLInit, Labels
<1>4. calls \in 0 .. MaxCalls
  BY AbsentIsNoNode DEF CLInit
<1>5. mNodesExpectedToSendStatus \subseteq Known /\ provider \in [Nodes -> Infos]
  BY DEF CLInit, Infos
<1>6. CLTypeOK
  BY <1>1, <1>3, <1>4, <1>5 DEF CLInit, CLTypeOK, NodeStates, Labels, Infos
<1> QED
  BY <1>2, <1>6 DEF IInv

-----------------------------------------------------------------------------
\* A step that leaves the nodes and the expected nodes alone, or forgets expected
\* ones, keeps the expected ones known.
LEMMA NodesKept ==
  ASSUME IInv, mNodes' = mNodes,
         mNodesExpectedToSendStatus' \subseteq mNodesExpectedToSendStatus
  PROVE  /\ mNodes' \in [Nodes -> {Absent} \union NodeStates]
         /\ mNodesExpectedToSendStatus' \subseteq Known'
  BY DEF IInv, CLTypeOK, Known, NodeStates

\* A balancing expects statuses of nodes the launcher has.
LEMMA BalanceInv ==
  ASSUME IInv, NEW t \in {"runner", "worker"}, NEW done \in {"return", "wait"},
         BalanceInstances(t, done), mNodes' = mNodes
  PROVE  /\ mNodesExpectedToSendStatus' \subseteq Known'
         /\ asked' \subseteq Nodes
         /\ Goto(t, done) \/ Goto(t, "status")
<1>1. Known' = Known /\ Known \subseteq Nodes
  BY DEF Known
<1>2. mNodesExpectedToSendStatus \subseteq Known /\ asked \subseteq Nodes
  BY DEF IInv, CLTypeOK
<1> QED
  BY <1>1, <1>2 DEF BalanceInstances

\* The flags a turn of the worker takes are Boolean afterwards.
LEMMA TakeFlagsInv ==
  ASSUME NEW doRebalance \in BOOLEAN, NEW updated \in SUBSET Nodes,
         TakeFlags(doRebalance, updated)
  PROVE  /\ mNewSubjects' \in BOOLEAN /\ mAlertReceived' \in BOOLEAN
         /\ mIsNodeInfoChanged' \in BOOLEAN /\ mIsOverrideEnvVarsChanged' \in BOOLEAN
  BY DEF TakeFlags

\* Start and Stop keep the invariant.
LEMMA MainInv == IInv /\ (Start \/ Stop \/ JoinWorker) => IInv'
<1> SUFFICES ASSUME IInv, Start \/ Stop \/ JoinWorker PROVE IInv'
  OBVIOUS
<1> USE DEF IInv
<1>1. CASE Start
  <2>1. mNodesExpectedToSendStatus' = {}
    BY <1>1 DEF Start, DownInv, CLTypeOK
  <2>2. mNodes' \in [Nodes -> {Absent} \union NodeStates]
    <3>1. provider \in [Nodes -> Infos]
      BY DEF CLTypeOK, Infos
    <3>2. \A n \in Nodes : [conn |-> provider[n].conn, recv |-> FALSE, prov |-> TRUE]
                              \in NodeStates
      BY <3>1 DEF Infos, NodeStates
    <3> QED
      BY <1>1, <3>2 DEF Start
  <2>3. pc' \in Labels /\ pc'.main = "up"
    BY <1>1 DEF Start, CLTypeOK, Labels
  <2>4. DownInv'
    BY <1>1, <2>3 DEF Start, DownInv
  <2>5. dirty' \subseteq {"requests", "nodes", "subjects", "alert"}
    BY <1>1 DEF Start
  <2> QED
    BY <1>1, <2>1, <2>2, <2>3, <2>4, <2>5 DEF Start, CLTypeOK, NodeStates, Labels
<1>2. CASE Stop
  <2>1. pc' \in Labels /\ pc'.main = "join"
    BY <1>2, GotoType DEF Stop
  <2>2. mNodes' \in [Nodes -> {Absent} \union NodeStates]
    BY <1>2 DEF Stop
  <2>3. asleep' \subseteq {"runner", "worker"}
    BY <1>2 DEF Stop, Left, CLTypeOK
  <2>4. calls' \in 0 .. MaxCalls
    BY <1>2, AbsentIsNoNode DEF Stop, Counted, CLTypeOK
  <2>5. DownInv'
    BY <1>2, <2>1 DEF Stop, DownInv
  <2> QED
    BY <1>2, <2>1, <2>2, <2>3, <2>4, <2>5 DEF Stop, CLTypeOK, NodeStates, Labels
<1>3. CASE JoinWorker
  <2>1. pc' \in Labels /\ pc'.main = "down" /\ pc.main = "join"
    BY <1>3, GotoType DEF JoinWorker
  <2>2. mNodesExpectedToSendStatus' \subseteq Known'
    BY <1>3, NodesKept DEF JoinWorker, nodeVars
  <2>3. DownInv'
    BY <1>3, <2>1 DEF JoinWorker, DownInv, nodeVars
  <2> QED
    BY <1>3, <2>1, <2>2, <2>3 DEF JoinWorker, CLTypeOK, Labels, nodeVars, flags
<1> QED
  BY <1>1, <1>2, <1>3

\* The steps of RunInstances keep the invariant.
LEMMA RunnerInv == IInv /\ (RunInstances \/ RunnerStep) => IInv'
<1> SUFFICES ASSUME IInv, RunInstances \/ RunnerStep PROVE IInv'
  OBVIOUS
<1> USE DEF IInv
<1>1. CASE RunInstances
  <2>1. pc' \in Labels /\ pc'.main = pc.main
    BY <1>1, GotoType DEF RunInstances
  <2>2. mNodesExpectedToSendStatus' \subseteq Known'
    BY <1>1, NodesKept DEF RunInstances, nodeVars
  <2>3. DownInv'
    BY <1>1, <2>1 DEF RunInstances, DownInv, nodeVars
  <2>4. calls' \in 0 .. MaxCalls
    BY <1>1, AbsentIsNoNode DEF RunInstances, Counted, CLTypeOK
  <2> QED
    BY <1>1, <2>1, <2>2, <2>3, <2>4 DEF RunInstances, CLTypeOK, Labels, nodeVars, flags
<1>2. CASE SaveRequests
  <2>1. pc' \in Labels /\ pc'.main = pc.main
    BY <1>2, GotoType DEF SaveRequests
  <2>2. mNodesExpectedToSendStatus' \subseteq Known'
    BY <1>2, NodesKept DEF SaveRequests, nodeVars
  <2>3. DownInv'
    BY <1>2, <2>1 DEF SaveRequests, DownInv, nodeVars
  <2>4. dirty' \subseteq {"requests", "nodes", "subjects", "alert"}
    BY <1>2 DEF SaveRequests, CLTypeOK
  <2> QED
    BY <1>2, <2>1, <2>2, <2>3, <2>4 DEF SaveRequests, CLTypeOK, Labels, nodeVars, flags
<1>3. CASE RunBalancing
  <2>1. CASE mIsRunning
    <3>1. BalanceInstances("runner", "return") /\ mNodes' = mNodes
      BY <1>3, <2>1 DEF RunBalancing
    <3>2. /\ mNodesExpectedToSendStatus' \subseteq Known' /\ asked' \subseteq Nodes
          /\ Goto("runner", "return") \/ Goto("runner", "status")
      BY <3>1, BalanceInv
    <3>3. pc' \in Labels /\ pc'.main = pc.main
      BY <3>2, GotoType
    <3>4. DownInv'
      BY <1>3, <2>1, <3>3 DEF RunBalancing, DownInv
    <3>5. dirty' \subseteq {"requests", "nodes", "subjects", "alert"}
      BY <1>3, <2>1 DEF RunBalancing, CLTypeOK
    <3> QED
      BY <1>3, <3>2, <3>3, <3>4, <3>5 DEF RunBalancing, CLTypeOK, Labels, flags
  <2>2. CASE ~mIsRunning
    <3>1. pc' \in Labels /\ pc'.main = pc.main
      BY <1>3, <2>2, GotoType DEF RunBalancing
    <3>2. mNodesExpectedToSendStatus' \subseteq Known'
      BY <1>3, <2>2, NodesKept DEF RunBalancing
    <3>3. DownInv'
      BY <1>3, <2>2, <3>1 DEF RunBalancing, DownInv
    <3> QED
      BY <1>3, <2>2, <3>1, <3>2, <3>3 DEF RunBalancing, CLTypeOK, Labels, flags
  <2> QED
    BY <2>1, <2>2
<1>4. CASE RunReturn
  <2>1. pc' \in Labels /\ pc'.main = pc.main
    BY <1>4, GotoType DEF RunReturn
  <2>2. mNodesExpectedToSendStatus' \subseteq Known'
    BY <1>4, NodesKept DEF RunReturn, nodeVars
  <2>3. DownInv'
    BY <1>4, <2>1 DEF RunReturn, DownInv, nodeVars
  <2>4. asleep' \subseteq {"runner", "worker"}
    BY <1>4 DEF RunReturn, Left, CLTypeOK
  <2> QED
    BY <1>4, <2>1, <2>2, <2>3, <2>4 DEF RunReturn, CLTypeOK, Labels, nodeVars, flags
<1>5. CASE \E timeout \in BOOLEAN : RunWaited(timeout)
  <2>1. pc' \in Labels /\ pc'.main = pc.main
    BY <1>5, GotoType DEF RunWaited
  <2>2. mNodesExpectedToSendStatus' \subseteq Known'
    BY <1>5, NodesKept DEF RunWaited, nodeVars
  <2>3. DownInv'
    BY <1>5, <2>1 DEF RunWaited, DownInv, nodeVars
  <2> QED
    BY <1>5, <2>1, <2>2, <2>3 DEF RunWaited, CLTypeOK, Labels, nodeVars, flags
<1> QED
  BY <1>1, <1>2, <1>3, <1>4, <1>5 DEF RunnerStep

\* The steps of the worker keep the invariant.
LEMMA WorkerInv == IInv /\ WorkerStep => IInv'
<1> SUFFICES ASSUME IInv, WorkerStep PROVE IInv'
  OBVIOUS
<1> USE DEF IInv
<1>1. CASE WorkerWait
  <2>1. pc' \in Labels /\ pc'.main = pc.main
    <3>1. CASE HasUpdates
      BY <1>1, <3>1, GotoType DEF WorkerWait
    <3>2. CASE ~HasUpdates
      BY <1>1, <3>2 DEF WorkerWait, CLTypeOK, Labels
    <3> QED
      BY <3>1, <3>2
  <2>2. mNodesExpectedToSendStatus' \subseteq Known'
    BY <1>1, NodesKept DEF WorkerWait, nodeVars
  <2>3. DownInv'
    BY <1>1, <2>1 DEF WorkerWait, DownInv, nodeVars
  <2>4. asleep' \subseteq {"runner", "worker"}
    BY <1>1 DEF WorkerWait, CLTypeOK
  <2> QED
    BY <1>1, <2>1, <2>2, <2>3, <2>4 DEF WorkerWait, CLTypeOK, Labels, nodeVars, flags
<1>2. CASE WorkerUnlock
  <2>1. pc' \in Labels /\ pc'.main = pc.main
    BY <1>2, GotoType DEF WorkerUnlock
  <2>2. mNodesExpectedToSendStatus' \subseteq Known'
    BY <1>2, NodesKept DEF WorkerUnlock, nodeVars
  <2>3. DownInv'
    BY <1>2, <2>1 DEF WorkerUnlock, DownInv, nodeVars
  <2> QED
    BY <1>2, <2>1, <2>2, <2>3 DEF WorkerUnlock, CLTypeOK, Labels, nodeVars, flags
<1>3. CASE WorkerExit
  <2>1. pc' \in Labels /\ pc'.main = pc.main
    BY <1>3, GotoType DEF WorkerExit
  <2>2. mNodesExpectedToSendStatus' \subseteq Known'
    BY <1>3, NodesKept DEF WorkerExit, nodeVars
  <2>3. DownInv'
    BY <1>3, <2>1 DEF WorkerExit, DownInv, nodeVars
  <2> QED
    BY <1>3, <2>1, <2>2, <2>3 DEF WorkerExit, CLTypeOK, Labels, nodeVars, flags
<1>4. CASE Rebalance
  <2> PICK updated \in SUBSET Nodes : Rebalance!(updated)
    BY <1>4 DEF Rebalance
  <2>1. /\ mNewSubjects' \in BOOLEAN /\ mAlertReceived' \in BOOLEAN
        /\ mIsNodeInfoChanged' \in BOOLEAN /\ mIsOverrideEnvVarsChanged' \in BOOLEAN
    BY TakeFlagsInv
  <2>2. /\ mNodesExpectedToSendStatus' \subseteq Known' /\ asked' \subseteq Nodes
        /\ Goto("worker", "wait") \/ Goto("worker", "status")
    BY BalanceInv
  <2>3. pc' \in Labels /\ pc'.main = pc.main
    BY <2>2, GotoType
  <2>4. mIsRunning
    BY DEF TakeFlags
  <2>5. DownInv'
    BY <2>3, <2>4 DEF DownInv
  <2>6. balancing' \in {"nobody", "runner", "worker"}
    OBVIOUS
  <2> QED
    BY <2>1, <2>2, <2>3, <2>5, <2>6 DEF CLTypeOK, Labels
<1>5. CASE Resend
  <2> PICK updated \in SUBSET Nodes : Resend!(updated)
    BY <1>5 DEF Resend
  <2>1. /\ mNewSubjects' \in BOOLEAN /\ mAlertReceived' \in BOOLEAN
        /\ mIsNodeInfoChanged' \in BOOLEAN /\ mIsOverrideEnvVarsChanged' \in BOOLEAN
    BY TakeFlagsInv
  <2>2. Known' = Known /\ Known \subseteq Nodes
    BY DEF Known
  <2>3. mNodesExpectedToSendStatus' \subseteq Known' /\ asked' \subseteq Nodes
    BY <2>2 DEF CLTypeOK
  <2>4. pc' \in Labels /\ pc'.main = pc.main
    BY GotoType
  <2>5. mIsRunning
    BY DEF TakeFlags
  <2>6. DownInv'
    BY <2>4, <2>5 DEF DownInv
  <2>7. /\ balancing' \in {"nobody", "runner", "worker"} /\ mUpdatedNodes' \subseteq Nodes
        /\ dirty' \subseteq {"requests", "nodes", "subjects", "alert"}
    BY DEF CLTypeOK
  <2> QED
    BY <2>1, <2>3, <2>4, <2>6, <2>7 DEF CLTypeOK, Labels
<1>6. CASE \E timeout \in BOOLEAN : WorkerWaited(timeout)
  <2>1. pc' \in Labels /\ pc'.main = pc.main
    BY <1>6, GotoType DEF WorkerWaited
  <2>2. mNodesExpectedToSendStatus' \subseteq Known'
    BY <1>6, NodesKept DEF WorkerWaited, nodeVars
  <2>3. DownInv'
    BY <1>6, <2>1 DEF WorkerWaited, DownInv, nodeVars
  <2>4. mUpdatedNodes' \subseteq Nodes
    BY <1>6 DEF WorkerWaited, CLTypeOK
  <2> QED
    BY <1>6, <2>1, <2>2, <2>3, <2>4 DEF WorkerWaited, CLTypeOK, Labels, nodeVars, flags
<1> QED
  BY <1>1, <1>2, <1>3, <1>4, <1>5, <1>6 DEF WorkerStep

\* A thread that goes to sleep keeps the invariant.
LEMMA SleepInv ==
  ASSUME IInv, NEW t \in {"runner", "worker"}, SleepForNodes(t)
  PROVE  IInv'
<1> USE DEF IInv
<1>1. mNodesExpectedToSendStatus' \subseteq Known'
  BY NodesKept DEF SleepForNodes, nodeVars
<1>2. DownInv'
  BY DEF SleepForNodes, DownInv, nodeVars
<1> QED
  BY <1>1, <1>2 DEF SleepForNodes, CLTypeOK, nodeVars, flags

\* The flags that alerts, subjects and variables raise do not disturb the invariant.
LEMMA FlagsInv == IInv /\ (OnAlertReceived \/ SubjectsChanged \/ OverrideEnvVars) => IInv'
<1> SUFFICES ASSUME IInv, OnAlertReceived \/ SubjectsChanged \/ OverrideEnvVars PROVE IInv'
  OBVIOUS
<1> USE DEF IInv, OnAlertReceived, SubjectsChanged, OverrideEnvVars
<1>1. mNodesExpectedToSendStatus' \subseteq Known'
  BY NodesKept DEF nodeVars
<1>2. DownInv'
  BY DEF DownInv, nodeVars
<1>3. calls' \in 0 .. MaxCalls
  BY AbsentIsNoNode DEF Counted, CLTypeOK
<1>4. asleep' \subseteq {"runner", "worker"}
  BY DEF Left, CLTypeOK
<1>5. dirty' \subseteq {"requests", "nodes", "subjects", "alert"}
  BY DEF CLTypeOK
<1> QED
  BY <1>1, <1>2, <1>3, <1>4, <1>5 DEF CLTypeOK, nodeVars

\* A changed node info: a node that is forgotten is no longer expected.
LEMMA InfoInv ==
  ASSUME IInv, NEW n \in Nodes, NEW info \in Infos, NEW differs \in BOOLEAN,
         OnNodeInfoChanged(n, info, differs)
  PROVE  IInv'
<1> USE DEF IInv
<1>1. provider' \in [Nodes -> Infos]
  BY DEF OnNodeInfoChanged, CLTypeOK, Infos
<1>2. calls' \in 0 .. MaxCalls
  BY AbsentIsNoNode DEF OnNodeInfoChanged, Counted, CLTypeOK
<1>3. CASE pc.main = "up"
  <2>1. UpdateNodeInfo(n, info, differs)
    BY <1>3 DEF OnNodeInfoChanged
  <2> DEFINE new == [conn |-> info.conn,
                     recv |-> mNodes[n] # Absent /\ info.conn /\ mNodes[n].recv,
                     prov |-> TRUE]
  <2>2. info.conn \in BOOLEAN /\ new \in NodeStates
    BY DEF Infos, NodeStates
  <2>3. mNodes' = [mNodes EXCEPT ![n] = IF ~info.prov THEN Absent ELSE new]
    BY <2>1 DEF UpdateNodeInfo
  <2>4. mNodes' \in [Nodes -> {Absent} \union NodeStates]
    BY <2>2, <2>3 DEF CLTypeOK, NodeStates
  <2>5. mNodesExpectedToSendStatus' \subseteq Known'
    <3>1. \A m \in Nodes \ {n} : mNodes'[m] = mNodes[m]
      BY <2>3 DEF CLTypeOK
    <3>2. info.prov => mNodes'[n] # Absent
      BY <2>2, <2>3, AbsentIsNoNode DEF CLTypeOK, NodeStates
    <3>3. mNodesExpectedToSendStatus \subseteq Known
      BY DEF CLTypeOK
    <3>4. mNodesExpectedToSendStatus' =
              IF info.prov THEN mNodesExpectedToSendStatus
              ELSE mNodesExpectedToSendStatus \ {n}
      BY <2>1 DEF UpdateNodeInfo
    <3> QED
      BY <3>1, <3>2, <3>3, <3>4 DEF Known
  <2>6. /\ mIsNodeInfoChanged' \in BOOLEAN /\ unnoticed' \in BOOLEAN
        /\ dirty' \subseteq {"requests", "nodes", "subjects", "alert"}
        /\ asleep' \subseteq {"runner", "worker"}
    BY <1>3 DEF OnNodeInfoChanged, CLTypeOK, Left
  <2>7. DownInv'
    BY <1>3 DEF OnNodeInfoChanged, DownInv
  <2> QED
    BY <1>1, <1>2, <2>4, <2>5, <2>6, <2>7
       DEF OnNodeInfoChanged, CLTypeOK, NodeStates, Infos
<1>4. CASE pc.main # "up"
  <2>1. mNodesExpectedToSendStatus' \subseteq Known'
    BY <1>4, NodesKept DEF OnNodeInfoChanged, nodeVars
  <2>2. DownInv'
    BY <1>4 DEF OnNodeInfoChanged, DownInv, nodeVars
  <2>3. /\ mIsNodeInfoChanged' = mIsNodeInfoChanged /\ unnoticed' = unnoticed
        /\ dirty' = dirty /\ asleep' = asleep /\ mNodes' = mNodes
    BY <1>4 DEF OnNodeInfoChanged, nodeVars
  <2> QED
    BY <1>1, <1>2, <2>1, <2>2, <2>3 DEF OnNodeInfoChanged, CLTypeOK, Infos
<1> QED
  BY <1>3, <1>4

\* The statuses of a node: a node that sends one is known from then on.
LEMMA StatusInv ==
  ASSUME IInv, NEW n \in Nodes, NEW accepted \in BOOLEAN,
         OnNodeInstancesStatusesReceived(n, accepted)
  PROVE  IInv'
<1> USE DEF IInv
<1> DEFINE new == IF mNodes[n] = Absent
                  THEN [conn |-> FALSE, recv |-> TRUE, prov |-> FALSE]
                  ELSE [mNodes[n] EXCEPT !.recv = TRUE]
<1>1. new \in NodeStates
  <2>1. mNodes[n] = Absent \/ mNodes[n] \in NodeStates
    BY DEF CLTypeOK, NodeStates
  <2>2. CASE mNodes[n] = Absent
    BY <2>2 DEF NodeStates
  <2>3. CASE mNodes[n] # Absent
    BY <2>1, <2>3 DEF NodeStates
  <2> QED
    BY <2>2, <2>3
<1>2. mNodes' = [mNodes EXCEPT ![n] = new]
  BY DEF OnNodeInstancesStatusesReceived, NotifyNodeStatusReceived
<1>3. mNodes' \in [Nodes -> {Absent} \union NodeStates]
  BY <1>1, <1>2 DEF CLTypeOK, NodeStates
<1>4. mNodesExpectedToSendStatus' \subseteq Known'
  <2>1. Known \subseteq Known'
    BY <1>1, <1>2, AbsentIsNoNode DEF Known, CLTypeOK, NodeStates
  <2>2. mNodesExpectedToSendStatus' \subseteq mNodesExpectedToSendStatus
    BY DEF OnNodeInstancesStatusesReceived, NotifyNodeStatusReceived
  <2> QED
    BY <2>1, <2>2 DEF CLTypeOK
<1>5. calls' \in 0 .. MaxCalls
  BY AbsentIsNoNode DEF OnNodeInstancesStatusesReceived, Counted, CLTypeOK
<1>6. /\ unnoticed' \in BOOLEAN /\ mUpdatedNodes' \subseteq Nodes
      /\ asleep' \subseteq {"runner", "worker"} /\ asked' \subseteq Nodes
  BY DEF OnNodeInstancesStatusesReceived, CLTypeOK, Left
<1>7. DownInv'
  BY DEF OnNodeInstancesStatusesReceived, DownInv
<1> QED
  BY <1>3, <1>4, <1>5, <1>6, <1>7
     DEF OnNodeInstancesStatusesReceived, CLTypeOK, NodeStates, flags

-----------------------------------------------------------------------------
\* Every step keeps the invariant.
LEMMA StepInv == IInv /\ [CLNext]_vars => IInv'
<1> SUFFICES ASSUME IInv, [CLNext]_vars PROVE IInv'
  OBVIOUS
<1>1. CASE Start \/ Stop \/ JoinWorker
  BY <1>1, MainInv
<1>2. CASE RunInstances \/ RunnerStep
  BY <1>2, RunnerInv
<1>3. CASE WorkerStep
  BY <1>3, WorkerInv
<1>4. CASE \E t \in {"runner", "worker"} : SleepForNodes(t)
  BY <1>4, SleepInv
<1>5. CASE \E n \in Nodes, info \in Infos, differs \in BOOLEAN :
              OnNodeInfoChanged(n, info, differs)
  BY <1>5, InfoInv
<1>6. CASE \E n \in Nodes, accepted \in BOOLEAN :
              OnNodeInstancesStatusesReceived(n, accepted)
  BY <1>6, StatusInv
<1>7. CASE OnAlertReceived \/ SubjectsChanged \/ OverrideEnvVars
  BY <1>7, FlagsInv
<1>8. CASE UNCHANGED vars
  BY <1>8 DEF vars, IInv, CLTypeOK, DownInv, Known
<1> QED
  BY <1>1, <1>2, <1>3, <1>4, <1>5, <1>6, <1>7, <1>8 DEF CLNext, Infos

\* For any set of nodes: the launcher's variables keep their types, and the nodes that
\* SendScheduledInstances and ResendInstances wait for are nodes it has, whatever
\* nodes come, go and answer meanwhile.
THEOREM TypeCorrect == CLSpec => []CLTypeOK
<1>1. IInv => CLTypeOK
  BY DEF IInv
<1> QED
  BY <1>1, InitInv, StepInv, PTL DEF CLSpec

\* A launcher that does not run waits for no statuses, so that the next Start, which
\* keeps mNodesExpectedToSendStatus, begins with none.
THEOREM DownExpectsNothing == CLSpec => []DownInv
<1>1. IInv => DownInv
  BY DEF IInv
<1> QED
  BY <1>1, InitInv, StepInv, PTL DEF CLSpec
=============================================================================
