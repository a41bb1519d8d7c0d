-------------------------- MODULE ThreadPoolProofs --------------------------
(***************************************************************************)
(* Proofs about the thread pool.  The count of pending tasks is tied to    *)
(* the queue and to the threads that have a task; with it, and with what   *)
(* is known of the tasks a Wait was called for, follows that Wait returns  *)
(* only when they have been run.                                           *)
(***************************************************************************)
EXTENDS ThreadPool, FiniteSetTheorems, TLAPS

\* Where the tasks of the present Wait are: queued, or with a thread.
AwaitedInv ==
    /\ \A t \in awaited : \/ \E i \in 1..Len(mQueue) : mQueue[i] = t
                          \/ \E w \in Workers : worker[w] = "run" /\ task[w] = t
    /\ owner \notin {"check", "asleep", "returned"} => awaited = {}

IInv == TypeOK /\ PendingIsCounted

\* The whole invariant.
PoolInv == IInv /\ AwaitedInv /\ WaitMeansFinished /\ NoIdleWorker

-----------------------------------------------------------------------------
\* The sets of threads whose sizes matter are finite.
LEMMA ThreadSets ==
  ASSUME NEW S \in SUBSET Workers
  PROVE  IsFiniteSet(S) /\ Cardinality(S) \in Nat
  BY PoolAssumption, FS_Subset, FS_CardinalityType

\* What NotifyOne does: it moves at most one thread, from "asleep" to "wait".
LEMMA NotifyOneEffect ==
  ASSUME NEW threads \in [Workers -> WorkerPositions], NotifyOne(threads)
  PROVE  /\ worker' \in [Workers -> WorkerPositions]
         /\ \/ worker' = threads /\ \A w \in Workers : threads[w] # "asleep"
            \/ \E w \in Workers : /\ threads[w] = "asleep"
                                  /\ worker' = [threads EXCEPT ![w] = "wait"]
  BY DEF NotifyOne, WorkerPositions

\* Init establishes the invariant.
LEMMA InitInv == Init => IInv
<1> SUFFICES ASSUME Init PROVE IInv
  OBVIOUS
<1>1. TypeOK
  <2>1. mQueue \in Seq(Tasks \cup {NoTask}) /\ Len(mQueue) = 0
    BY DEF Init
  <2>2. worker \in [Workers -> WorkerPositions]
    BY DEF Init, WorkerPositions
  <2>3. task \in [Workers -> Tasks \cup {NoTask}]
    BY DEF Init
  <2>4. /\ mShutdown \in BOOLEAN /\ owner \in OwnerPositions
        /\ awaited \subseteq Tasks
    BY DEF Init, OwnerPositions
  <2>5. 0 <= cQueueSize
    BY PoolAssumption
  <2> QED
    BY <2>1, <2>2, <2>3, <2>4, <2>5 DEF Init, TypeOK
<1>2. Busy = {}
  BY DEF Init, Busy
<1>3. PendingIsCounted
  BY <1>2, FS_EmptySet DEF Init, PendingIsCounted
<1> QED
  BY <1>1, <1>3 DEF IInv

\* Each step keeps the types.
LEMMA StepType == TypeOK /\ [Next]_vars => TypeOK'
<1> SUFFICES ASSUME TypeOK, [Next]_vars PROVE TypeOK'
  OBVIOUS
<1> USE DEF TypeOK
<1>1. ASSUME NEW t \in Tasks, AddTask(t) PROVE TypeOK'
  BY <1>1, NotifyOneEffect, PoolAssumption DEF AddTask
<1>2. ASSUME NEW t \in Tasks, AddOversizedTask(t) PROVE TypeOK'
  BY <1>2, PoolAssumption DEF AddOversizedTask
<1>3. CASE Run
  BY <1>3 DEF Run, WorkerPositions
<1>4. CASE Wait
  <2>1. awaited' \subseteq Tasks
    BY <1>4 DEF Wait, Range, Running, At
  <2> QED
    BY <1>4, <2>1 DEF Wait, OwnerPositions
<1>5. CASE Shutdown
  BY <1>5, PoolAssumption DEF Shutdown, OwnerPositions
<1>6. CASE OwnerStep
  BY <1>6 DEF OwnerStep, WaitCheck, WaitReturn, ShutdownNotify, ShutdownJoin,
     NotifyAll, OwnerPositions, WorkerPositions
<1>7. ASSUME NEW w \in Workers, WorkerStep(w) PROVE TypeOK'
  <2>1. CASE WorkerTake(w)
    <3>1. /\ Head(mQueue) \in Tasks \cup {NoTask}
          /\ Tail(mQueue) \in Seq(Tasks \cup {NoTask})
          /\ Len(Tail(mQueue)) = Len(mQueue) - 1
      BY <2>1 DEF WorkerTake
    <3> QED
      BY <2>1, <3>1, PoolAssumption DEF WorkerTake, WorkerPositions
  <2>2. CASE WorkerRun(w)
    <3>1. [worker EXCEPT ![w] = "count"] \in [Workers -> WorkerPositions]
      BY DEF WorkerPositions
    <3>2. worker' \in [Workers -> WorkerPositions]
      BY <2>2, <3>1, NotifyOneEffect DEF WorkerRun
    <3> QED
      BY <2>2, <3>2 DEF WorkerRun
  <2> QED
    BY <1>7, <2>1, <2>2 DEF WorkerStep, WorkerSleep, WorkerExit, WorkerCount,
       WorkerTell, WorkerPositions, OwnerPositions
<1>8. CASE UNCHANGED vars
  BY <1>8 DEF vars
<1> QED
  BY <1>1, <1>2, <1>3, <1>4, <1>5, <1>6, <1>7, <1>8 DEF Next

\* Each step keeps the count right.
LEMMA StepCount == IInv /\ [Next]_vars => PendingIsCounted'
<1> SUFFICES ASSUME IInv, [Next]_vars PROVE PendingIsCounted'
  OBVIOUS
<1> USE DEF IInv, TypeOK, PendingIsCounted
<1>0. IsFiniteSet(Busy) /\ Cardinality(Busy) \in Nat
  BY ThreadSets DEF Busy
<1>1. ASSUME NEW t \in Tasks, AddTask(t) PROVE PendingIsCounted'
  <2>1. Busy' = Busy
    BY <1>1, NotifyOneEffect DEF AddTask, Busy
  <2> QED
    BY <1>0, <1>1, <2>1 DEF AddTask
<1>2. ASSUME NEW t \in Tasks, AddOversizedTask(t) PROVE PendingIsCounted'
  <2>1. Busy' = Busy
    BY <1>2 DEF AddOversizedTask, Busy
  <2> QED
    BY <1>0, <1>2, <2>1 DEF AddOversizedTask
<1>3. CASE Run
  <2>1. Busy' = Busy
    BY <1>3 DEF Run, Busy
  <2> QED
    BY <1>3, <2>1 DEF Run
<1>4. CASE Wait
  BY <1>4 DEF Wait, Busy
<1>5. CASE Shutdown
  <2>1. Busy' = Busy
    BY <1>5 DEF Shutdown, Busy
  <2> QED
    BY <1>0, <1>5, <2>1 DEF Shutdown
<1>6. CASE OwnerStep
  <2>1. Busy' = Busy
    BY <1>6 DEF OwnerStep, WaitCheck, WaitReturn, ShutdownNotify,
       ShutdownJoin, NotifyAll, Busy
  <2> QED
    BY <1>6, <2>1 DEF OwnerStep, WaitCheck, WaitReturn, ShutdownNotify,
       ShutdownJoin
<1>7. ASSUME NEW w \in Workers, WorkerStep(w) PROVE PendingIsCounted'
  <2>1. CASE WorkerTake(w)
    <3>1. Busy' = Busy \cup {w} /\ w \notin Busy
      BY <2>1 DEF WorkerTake, Busy
    <3>2. Cardinality(Busy') = Cardinality(Busy) + 1
      BY <1>0, <3>1, FS_AddElement
    <3>3. Len(mQueue') = Len(mQueue) - 1 /\ Len(mQueue) \in Nat
      BY <2>1 DEF WorkerTake
    <3> QED
      BY <1>0, <2>1, <3>2, <3>3 DEF WorkerTake
  <2>2. CASE WorkerRun(w)
    <3>1. [worker EXCEPT ![w] = "count"] \in [Workers -> WorkerPositions]
      BY DEF WorkerPositions
    <3>2. Busy' = Busy
      BY <2>2, <3>1, NotifyOneEffect DEF WorkerRun, Busy
    <3> QED
      BY <2>2, <3>2 DEF WorkerRun
  <2>3. CASE WorkerCount(w)
    <3>1. Busy' = Busy \ {w} /\ w \in Busy
      BY <2>3 DEF WorkerCount, Busy
    <3>2. Cardinality(Busy') = Cardinality(Busy) - 1
      BY <1>0, <3>1, FS_RemoveElement
    <3> QED
      BY <1>0, <2>3, <3>2 DEF WorkerCount
  <2>4. CASE WorkerSleep(w) \/ WorkerExit(w) \/ WorkerTell(w)
    <3>1. Busy' = Busy
      BY <2>4 DEF WorkerSleep, WorkerExit, WorkerTell, Busy
    <3> QED
      BY <2>4, <3>1 DEF WorkerSleep, WorkerExit, WorkerTell
  <2> QED
    BY <1>7, <2>1, <2>2, <2>3, <2>4 DEF WorkerStep
<1>8. CASE UNCHANGED vars
  BY <1>8 DEF vars, Busy
<1> QED
  BY <1>1, <1>2, <1>3, <1>4, <1>5, <1>6, <1>7, <1>8 DEF Next

\* Each step keeps the invariant.
LEMMA StepInv == IInv /\ [Next]_vars => IInv'
  BY StepType, StepCount DEF IInv

\* Type correctness of the pool, with any functors.
THEOREM TypeCorrect == Spec => []TypeOK
<1>1. IInv => TypeOK
  BY DEF IInv
<1> QED
  BY <1>1, InitInv, StepInv, PTL DEF Spec

\* mPendingTaskCount is exactly the tasks queued and with a thread, plus what
\* Shutdown dropped and less what a failed AddTask left behind, whatever AddTask,
\* Shutdown and the threads do.
THEOREM CountSafe == Spec => []PendingIsCounted
<1>1. IInv => PendingIsCounted
  BY DEF IInv
<1> QED
  BY <1>1, InitInv, StepInv, PTL DEF Spec

-----------------------------------------------------------------------------
\* Each step keeps what is known of the tasks of a Wait.
LEMMA StepAwaited ==
  ASSUME PoolInv, [Next]_vars
  PROVE  AwaitedInv' /\ WaitMeansFinished'
<1> USE DEF PoolInv, IInv, TypeOK, AwaitedInv, WaitMeansFinished
<1>1. ASSUME NEW t \in Tasks, AddTask(t)
      PROVE  AwaitedInv' /\ WaitMeansFinished'
  <2>1. \A w \in Workers : worker[w] = "run" => worker'[w] = "run"
    BY <1>1, NotifyOneEffect DEF AddTask
  <2>2. /\ Len(mQueue') = Len(mQueue) + 1
        /\ \A i \in 1..Len(mQueue) : mQueue'[i] = mQueue[i]
    BY <1>1 DEF AddTask
  <2> QED
    BY <1>1, <2>1, <2>2 DEF AddTask
<1>2. ASSUME NEW t \in Tasks, AddOversizedTask(t)
      PROVE  AwaitedInv' /\ WaitMeansFinished'
  <2>1. /\ Len(mQueue') = Len(mQueue) + 1
        /\ \A i \in 1..Len(mQueue) : mQueue'[i] = mQueue[i]
        /\ empty' # 0
    BY <1>2 DEF AddOversizedTask
  <2> QED
    BY <1>2, <2>1 DEF AddOversizedTask
<1>3. CASE Run
  BY <1>3 DEF Run
<1>4. CASE Wait
  BY <1>4 DEF Wait, Range, Running, At
<1>5. CASE Shutdown
  BY <1>5 DEF Shutdown
<1>6. CASE WaitCheck
  <2>1. CASE mPendingTaskCount = 0 /\ empty = 0
    <3>1. Len(mQueue) = 0 /\ Cardinality(Busy) = 0
      BY <2>1, ThreadSets DEF PendingIsCounted, Busy
    <3>2. Busy = {}
      BY <3>1, ThreadSets, FS_EmptySet DEF Busy
    <3>3. awaited = {}
      BY <3>1, <3>2 DEF Busy
    <3> QED
      BY <1>6, <3>3 DEF WaitCheck
  <2>2. CASE mPendingTaskCount # 0 \/ empty # 0
    BY <1>6, <2>2 DEF WaitCheck
  <2> QED
    BY <2>1, <2>2
<1>7. CASE WaitReturn
  BY <1>7 DEF WaitReturn
<1>8. CASE ShutdownNotify \/ ShutdownJoin
  BY <1>8 DEF ShutdownNotify, ShutdownJoin, NotifyAll
<1>9. ASSUME NEW w \in Workers, WorkerStep(w)
      PROVE  AwaitedInv' /\ WaitMeansFinished'
  <2>1. CASE WorkerTake(w)
    <3>1. /\ Len(mQueue') = Len(mQueue) - 1
          /\ \A i \in 2..Len(mQueue) : mQueue'[i - 1] = mQueue[i]
          /\ task'[w] = mQueue[1]
          /\ worker'[w] = "run"
      BY <2>1 DEF WorkerTake
    <3>2. ASSUME NEW t \in awaited
          PROVE  \/ \E i \in 1..Len(mQueue') : mQueue'[i] = t
                 \/ \E v \in Workers : worker'[v] = "run" /\ task'[v] = t
      <4>1. CASE \E v \in Workers : worker[v] = "run" /\ task[v] = t
        BY <2>1, <4>1 DEF WorkerTake
      <4>2. CASE \E i \in 1..Len(mQueue) : mQueue[i] = t
        <5>1. PICK i \in 1..Len(mQueue) : mQueue[i] = t
          BY <4>2
        <5>2. CASE i = 1
          BY <3>1, <5>1, <5>2
        <5>3. CASE i # 1
          <6>1. i - 1 \in 1..Len(mQueue') /\ mQueue'[i - 1] = t
            BY <3>1, <5>1, <5>3
          <6> QED
            BY <6>1
        <5> QED
          BY <5>2, <5>3
      <4> QED
        BY <4>1, <4>2
    <3> QED
      BY <2>1, <3>2 DEF WorkerTake
  <2>2. CASE WorkerRun(w)
    <3>0. /\ NotifyOne([worker EXCEPT ![w] = "count"])
          /\ [worker EXCEPT ![w] = "count"] \in [Workers -> WorkerPositions]
      BY <2>2 DEF WorkerRun, WorkerPositions
    <3>1. \/ worker' = [worker EXCEPT ![w] = "count"]
          \/ \E v \in Workers :
                 /\ [worker EXCEPT ![w] = "count"][v] = "asleep"
                 /\ worker' = [[worker EXCEPT ![w] = "count"] EXCEPT ![v] = "wait"]
      BY <3>0, NotifyOneEffect
    <3>2. \A v \in Workers \ {w} : worker[v] = "run" => worker'[v] = "run"
      BY <2>2, <3>1 DEF WorkerRun
    <3> QED
      BY <2>2, <3>2 DEF WorkerRun
  <2>3. CASE WorkerSleep(w) \/ WorkerExit(w) \/ WorkerCount(w) \/ WorkerTell(w)
    BY <2>3 DEF WorkerSleep, WorkerExit, WorkerCount, WorkerTell
  <2> QED
    BY <1>9, <2>1, <2>2, <2>3 DEF WorkerStep
<1>10. CASE UNCHANGED vars
  BY <1>10 DEF vars
<1> QED
  BY <1>1, <1>2, <1>3, <1>4, <1>5, <1>6, <1>7, <1>8, <1>9, <1>10
     DEF Next, OwnerStep

\* Each step keeps a thread on its way to every queued task.
LEMMA StepNoIdle ==
  ASSUME PoolInv, [Next]_vars
  PROVE  NoIdleWorker'
<1> USE DEF PoolInv, IInv, TypeOK
<1>0. /\ IsFiniteSet(At("wait")) /\ Cardinality(At("wait")) \in Nat
      /\ IsFiniteSet(At("wait")') /\ Cardinality(At("wait")') \in Nat
      /\ Len(mQueue) \in Nat
  BY ThreadSets DEF At
<1>1. ASSUME NEW t \in Tasks, AddTask(t) PROVE NoIdleWorker'
  <2>1. CASE \A w \in Workers : worker[w] # "asleep"
    BY <1>1, <2>1, NotifyOneEffect DEF AddTask, NoIdleWorker
  <2>2. CASE \E w \in Workers : worker[w] = "asleep"
    <3>1. PICK w \in Workers : /\ worker[w] = "asleep"
                               /\ worker' = [worker EXCEPT ![w] = "wait"]
      BY <1>1, <2>2, NotifyOneEffect DEF AddTask
    <3>2. At("wait")' = At("wait") \cup {w} /\ w \notin At("wait")
      BY <3>1 DEF At
    <3>3. Cardinality(At("wait")') = Cardinality(At("wait")) + 1
      BY <1>0, <3>2, FS_AddElement
    <3>4. Len(mQueue') = Len(mQueue) + 1
      BY <1>1 DEF AddTask
    <3> QED
      BY <1>0, <1>1, <2>2, <3>3, <3>4 DEF AddTask, NoIdleWorker
  <2> QED
    BY <2>1, <2>2
<1>2. ASSUME NEW t \in Tasks, AddOversizedTask(t) PROVE NoIdleWorker'
  <2>1. empty' # 0
    BY <1>2 DEF AddOversizedTask
  <2> QED
    BY <2>1 DEF NoIdleWorker
<1>3. CASE Run
  BY <1>3 DEF Run, NoIdleWorker
<1>4. CASE Wait \/ WaitCheck \/ WaitReturn \/ ShutdownJoin
  BY <1>4 DEF Wait, WaitCheck, WaitReturn, ShutdownJoin, NoIdleWorker, At
<1>5. CASE Shutdown
  BY <1>5 DEF Shutdown, NoIdleWorker
<1>6. CASE ShutdownNotify
  BY <1>6 DEF ShutdownNotify, NotifyAll, NoIdleWorker
<1>7. ASSUME NEW w \in Workers, WorkerStep(w) PROVE NoIdleWorker'
  <2>1. CASE WorkerSleep(w)
    <3>1. Len(mQueue') = 0
      BY <2>1 DEF WorkerSleep
    <3> QED
      BY <1>0, <3>1 DEF NoIdleWorker
  <2>2. CASE WorkerExit(w)
    BY <2>2 DEF WorkerExit, NoIdleWorker
  <2>3. CASE WorkerTake(w)
    <3>1. At("wait")' = At("wait") \ {w} /\ w \in At("wait")
      BY <2>3 DEF WorkerTake, At
    <3>2. Cardinality(At("wait")') = Cardinality(At("wait")) - 1
      BY <1>0, <3>1, FS_RemoveElement
    <3>3. Len(mQueue') = Len(mQueue) - 1
      BY <2>3 DEF WorkerTake
    <3>4. \A v \in Workers : worker'[v] = "asleep" => worker[v] = "asleep"
      BY <2>3 DEF WorkerTake
    <3> QED
      BY <1>0, <2>3, <3>2, <3>3, <3>4 DEF WorkerTake, NoIdleWorker
  <2>4. CASE WorkerRun(w)
    <3>0. /\ NotifyOne([worker EXCEPT ![w] = "count"])
          /\ [worker EXCEPT ![w] = "count"] \in [Workers -> WorkerPositions]
      BY <2>4 DEF WorkerRun, WorkerPositions
    <3>1. \/ worker' = [worker EXCEPT ![w] = "count"]
          \/ \E v \in Workers :
                 /\ [worker EXCEPT ![w] = "count"][v] = "asleep"
                 /\ worker' = [[worker EXCEPT ![w] = "count"] EXCEPT ![v] = "wait"]
      BY <3>0, NotifyOneEffect
    <3>2. /\ At("wait") \subseteq At("wait")'
          /\ \A v \in Workers : worker'[v] = "asleep" => worker[v] = "asleep"
      BY <2>4, <3>1 DEF WorkerRun, At
    <3>3. Cardinality(At("wait")) <= Cardinality(At("wait")')
      BY <1>0, <3>2, FS_Subset
    <3> QED
      BY <1>0, <2>4, <3>2, <3>3 DEF WorkerRun, NoIdleWorker
  <2>5. CASE WorkerCount(w) \/ WorkerTell(w)
    <3>1. /\ At("wait") \subseteq At("wait")'
          /\ \A v \in Workers : worker'[v] = "asleep" => worker[v] = "asleep"
      BY <2>5 DEF WorkerCount, WorkerTell, At
    <3>2. Cardinality(At("wait")) <= Cardinality(At("wait")')
      BY <1>0, <3>1, FS_Subset
    <3> QED
      BY <1>0, <2>5, <3>1, <3>2 DEF WorkerCount, WorkerTell, NoIdleWorker
  <2> QED
    BY <1>7, <2>1, <2>2, <2>3, <2>4, <2>5 DEF WorkerStep
<1>8. CASE UNCHANGED vars
  BY <1>8 DEF vars, NoIdleWorker, At
<1> QED
  BY <1>1, <1>2, <1>3, <1>4, <1>5, <1>6, <1>7, <1>8 DEF Next, OwnerStep

\* The whole invariant holds.
LEMMA PoolInvariance ==
  Spec => []PoolInv
<1>1. Init => PoolInv
  BY InitInv DEF Init, PoolInv, AwaitedInv, WaitMeansFinished, NoIdleWorker
<1>2. PoolInv /\ [Next]_vars => PoolInv'
  BY StepInv, StepAwaited, StepNoIdle DEF PoolInv
<1> QED
  BY <1>1, <1>2, PTL DEF Spec

\* When Wait returns, the tasks it was called for have been run.
THEOREM WaitSafe ==
  Spec => []WaitMeansFinished
<1>1. PoolInv => WaitMeansFinished
  BY DEF PoolInv
<1> QED
  BY <1>1, PoolInvariance, PTL

\* No thread sleeps beside a task that no other thread is coming for.
THEOREM WakeupSafe ==
  Spec => []NoIdleWorker
<1>1. PoolInv => NoIdleWorker
  BY DEF PoolInv
<1> QED
  BY <1>1, PoolInvariance, PTL
=============================================================================
