----------------------------- MODULE ThreadPool -----------------------------
(***************************************************************************)
(* The thread pool of the common tools (common/tools/thread.hpp), which    *)
(* runs the start and stop tasks of the SM launcher, the timer callbacks   *)
(* and the state requests of the CM storage state.                         *)
(*                                                                         *)
(* A step is a section that holds mMutex, or what a thread does between    *)
(* two of them.  The owner is the thread that runs, awaits and shuts the   *)
(* pool down; AddTask may come from any thread.                            *)
(***************************************************************************)
EXTENDS Integers, Sequences, FiniteSets, Functions

CONSTANTS Workers,     \* mThreads
          Tasks,       \* functors
          Oversized,   \* the functors that do not fit a task (Capture fails)
          NoTask,      \* a function without a functor
          cQueueSize,
          MaxDropped,  \* bound on the tasks dropped by Shutdown
          MaxEmpty     \* bound on the calls whose Capture fails

ASSUME PoolAssumption ==
    /\ IsFiniteSet(Workers) /\ Workers # {}
    /\ Oversized \subseteq Tasks
    /\ NoTask \notin Tasks
    /\ cQueueSize \in Nat \ {0}
    /\ MaxDropped \in Nat /\ MaxEmpty \in Nat

VARIABLES mQueue, mShutdown, mPendingTaskCount,
          worker,   \* where each thread is
          task,     \* the task each thread has taken
          owner,    \* where the owner is
          awaited,  \* ghost: tasks the present Wait still has to see end
          dropped,  \* ghost: the tasks Shutdown has dropped
          empty     \* ghost: the empty functions queued without being counted

vars == <<mQueue, mShutdown, mPendingTaskCount, worker, task, owner, awaited,
          dropped, empty>>

\* "asleep" is blocked on mTaskCondVar; "count" has run its task; "tell" has
\* counted it.
WorkerPositions == {"off", "wait", "asleep", "run", "count", "tell"}

\* "asleep" is blocked on mWaitCondVar.
OwnerPositions == {"idle", "check", "asleep", "returned", "notify", "join"}

TypeOK ==
    /\ mQueue \in Seq(Tasks \cup {NoTask})
    /\ Len(mQueue) <= cQueueSize
    /\ mShutdown \in BOOLEAN
    /\ mPendingTaskCount \in Int
    /\ worker \in [Workers -> WorkerPositions]
    /\ task \in [Workers -> Tasks \cup {NoTask}]
    /\ owner \in OwnerPositions
    /\ awaited \subseteq Tasks
    /\ dropped \in Nat
    /\ empty \in Nat

At(position) == {w \in Workers : worker[w] = position}

Busy == {w \in Workers : worker[w] \in {"run", "count"}}

Running == {task[w] : w \in At("run")}

Init ==
    /\ mQueue = <<>>
    /\ mShutdown = FALSE
    /\ mPendingTaskCount = 0
    /\ worker = [w \in Workers |-> "off"]
    /\ task = [w \in Workers |-> NoTask]
    /\ owner = "idle"
    /\ awaited = {}
    /\ dropped = 0
    /\ empty = 0

-----------------------------------------------------------------------------
\* pthread_cond_signal: one of the sleeping threads goes on, if there is one.
NotifyOne(threads) ==
    IF \E w \in Workers : threads[w] = "asleep"
    THEN \E w \in Workers : /\ threads[w] = "asleep"
                            /\ worker' = [threads EXCEPT ![w] = "wait"]
    ELSE worker' = threads

NotifyAll(threads) ==
    [w \in Workers |-> IF threads[w] = "asleep" THEN "wait" ELSE threads[w]]

\* Mutant: AddTask does not notify.
AddTaskSilently(t) ==
    /\ t \notin Oversized
    /\ t \notin Range(mQueue) \cup Running
    /\ Len(mQueue) < cQueueSize
    /\ mQueue' = Append(mQueue, t)
    /\ mPendingTaskCount' = mPendingTaskCount + 1
    /\ UNCHANGED <<mShutdown, worker, task, owner, awaited,
                   dropped, empty>>

\* Mutant: a task is counted only when a thread has to be woken for it.
AddTaskUncounted(t) ==
    /\ t \notin Oversized
    /\ t \notin Range(mQueue) \cup Running
    /\ Len(mQueue) < cQueueSize
    /\ mQueue' = Append(mQueue, t)
    /\ mPendingTaskCount' =
           mPendingTaskCount + (IF At("asleep") # {} THEN 1 ELSE 0)
    /\ NotifyOne(worker)
    /\ UNCHANGED <<mShutdown, task, owner, awaited,
                   dropped, empty>>

\* Mutant: the size of the queue is not minded.
AddTaskUnbounded(t) ==
    /\ t \notin Oversized
    /\ t \notin Range(mQueue) \cup Running
    /\ mQueue' = Append(mQueue, t)
    /\ mPendingTaskCount' = mPendingTaskCount + 1
    /\ NotifyOne(worker)
    /\ UNCHANGED <<mShutdown, task, owner, awaited,
                   dropped, empty>>

\* A full queue refuses the task and nothing changes.
AddTask(t) ==
    /\ t \notin Oversized
    /\ t \notin Range(mQueue) \cup Running
    /\ Len(mQueue) < cQueueSize
    /\ mQueue' = Append(mQueue, t)
    /\ mPendingTaskCount' = mPendingTaskCount + 1
    /\ NotifyOne(worker)
    /\ UNCHANGED <<mShutdown, task, owner, awaited,
                   dropped, empty>>

\* Capture fails after the push: the empty function stays in the queue.
AddOversizedTask(t) ==
    /\ t \in Oversized
    /\ Len(mQueue) < cQueueSize
    /\ empty < MaxEmpty
    /\ mQueue' = Append(mQueue, NoTask)
    /\ empty' = empty + 1
    /\ UNCHANGED <<mShutdown, mPendingTaskCount, worker, task, owner, awaited,
                   dropped>>

-----------------------------------------------------------------------------
(* The owner.                                                              *)

Run ==
    /\ owner = "idle"
    /\ \A w \in Workers : worker[w] = "off"
    /\ mShutdown' = FALSE
    /\ worker' = [w \in Workers |-> "wait"]
    /\ UNCHANGED <<mQueue, mPendingTaskCount, task, owner, awaited,
                   dropped, empty>>

Wait ==
    /\ owner = "idle"
    /\ \A w \in Workers : worker[w] # "off"
    /\ owner' = "check"
    /\ awaited' = (Range(mQueue) \cup Running) \ {NoTask}
    /\ UNCHANGED <<mQueue, mShutdown, mPendingTaskCount, worker, task, dropped,
                   empty>>

WaitCheck ==
    /\ owner = "check"
    /\ owner' = IF mPendingTaskCount = 0 THEN "returned" ELSE "asleep"
    /\ UNCHANGED <<mQueue, mShutdown, mPendingTaskCount, worker, task, awaited,
                   dropped, empty>>

WaitReturn ==
    /\ owner = "returned"
    /\ owner' = "idle"
    /\ awaited' = {}
    /\ UNCHANGED <<mQueue, mShutdown, mPendingTaskCount, worker, task, dropped,
                   empty>>

Shutdown ==
    /\ owner = "idle"
    /\ \A w \in Workers : worker[w] # "off"
    /\ dropped + Len(mQueue) <= MaxDropped
    /\ mShutdown' = TRUE
    /\ mQueue' = <<>>
    /\ dropped' = dropped + Len(mQueue)
    /\ owner' = "notify"
    /\ UNCHANGED <<mPendingTaskCount, worker, task, awaited, empty>>

\* Mutant: only one thread is told of the shutdown.
ShutdownNotifyOne ==
    /\ owner = "notify"
    /\ NotifyOne(worker)
    /\ owner' = "join"
    /\ UNCHANGED <<mQueue, mShutdown, mPendingTaskCount, task, awaited,
                   dropped, empty>>

ShutdownNotify ==
    /\ owner = "notify"
    /\ worker' = NotifyAll(worker)
    /\ owner' = "join"
    /\ UNCHANGED <<mQueue, mShutdown, mPendingTaskCount, task, awaited,
                   dropped, empty>>

ShutdownJoin ==
    /\ owner = "join"
    /\ \A w \in Workers : worker[w] = "off"
    /\ owner' = "idle"
    /\ UNCHANGED <<mQueue, mShutdown, mPendingTaskCount, worker, task, awaited,
                   dropped, empty>>

-----------------------------------------------------------------------------
(* The threads.                                                            *)

WorkerSleep(w) ==
    /\ worker[w] = "wait"
    /\ ~mShutdown /\ mQueue = <<>>
    /\ worker' = [worker EXCEPT ![w] = "asleep"]
    /\ UNCHANGED <<mQueue, mShutdown, mPendingTaskCount, task, owner, awaited,
                   dropped, empty>>

WorkerExit(w) ==
    /\ worker[w] = "wait"
    /\ mShutdown
    /\ worker' = [worker EXCEPT ![w] = "off"]
    /\ UNCHANGED <<mQueue, mShutdown, mPendingTaskCount, task, owner, awaited,
                   dropped, empty>>

WorkerTake(w) ==
    /\ worker[w] = "wait"
    /\ ~mShutdown /\ mQueue # <<>>
    /\ task' = [task EXCEPT ![w] = Head(mQueue)]
    /\ mQueue' = Tail(mQueue)
    /\ worker' = [worker EXCEPT ![w] = "run"]
    /\ UNCHANGED <<mShutdown, mPendingTaskCount, owner, awaited,
                   dropped, empty>>

\* task(), task.Reset() and the notification after it, without the lock.
WorkerRun(w) ==
    /\ worker[w] = "run"
    /\ task' = [task EXCEPT ![w] = NoTask]
    /\ awaited' = awaited \ {task[w]}
    /\ NotifyOne([worker EXCEPT ![w] = "count"])
    /\ UNCHANGED <<mQueue, mShutdown, mPendingTaskCount, owner, dropped, empty>>

WorkerCount(w) ==
    /\ worker[w] = "count"
    /\ mPendingTaskCount' = mPendingTaskCount - 1
    /\ worker' = [worker EXCEPT ![w] = "tell"]
    /\ UNCHANGED <<mQueue, mShutdown, task, owner, awaited,
                   dropped, empty>>

\* Mutant: the end of a task is not told to Wait.
WorkerTellNobody(w) ==
    /\ worker[w] = "tell"
    /\ worker' = [worker EXCEPT ![w] = "wait"]
    /\ UNCHANGED <<mQueue, mShutdown, mPendingTaskCount, task, owner, awaited,
                   dropped, empty>>

WorkerTell(w) ==
    /\ worker[w] = "tell"
    /\ worker' = [worker EXCEPT ![w] = "wait"]
    /\ owner' = IF owner = "asleep" THEN "check" ELSE owner
    /\ UNCHANGED <<mQueue, mShutdown, mPendingTaskCount, task, awaited,
                   dropped, empty>>

-----------------------------------------------------------------------------
WorkerStep(w) ==
    \/ WorkerSleep(w)
    \/ WorkerExit(w)
    \/ WorkerTake(w)
    \/ WorkerRun(w)
    \/ WorkerCount(w)
    \/ WorkerTell(w)

OwnerStep ==
    \/ WaitCheck
    \/ WaitReturn
    \/ ShutdownNotify
    \/ ShutdownJoin

Next ==
    \/ \E t \in Tasks : AddTask(t) \/ AddOversizedTask(t)
    \/ Run
    \/ Wait
    \/ Shutdown
    \/ OwnerStep
    \/ \E w \in Workers : WorkerStep(w)

Spec == Init /\ [][Next]_vars

\* The threads are scheduled, mMutex is fair, and every task ends.
Fairness == WF_vars(OwnerStep) /\ \A w \in Workers : WF_vars(WorkerStep(w))

FairSpec == Spec /\ Fairness

-----------------------------------------------------------------------------
\* mPendingTaskCount counts the tasks that are queued or with a thread, and the
\* ones a Shutdown has dropped for good; an empty function left in the queue by a
\* failed AddTask takes one off (AddTask, the threads, Shutdown).
PendingIsCounted ==
    mPendingTaskCount = Len(mQueue) + Cardinality(Busy) + dropped - empty

\* While a thread sleeps in a pool that is up, every queued task has a thread
\* that is on its way to the queue: no wakeup is lost between the predicate of
\* mTaskCondVar and the notification, and no thread idles beside a task that
\* waits for another one, as long as every functor fitted a task.
NoIdleWorker ==
    empty = 0 /\ ~mShutdown /\ (\E w \in Workers : worker[w] = "asleep")
        => Len(mQueue) <= Cardinality(At("wait"))

\* When Wait returns, the tasks that were there when it was called have been
\* run: "Waits for all current tasks are finished" (thread.hpp:649), as long as
\* every functor fitted a task.
WaitMeansFinished == empty = 0 /\ owner = "returned" => awaited = {}

\* Shutdown gets every thread to end and then returns.
ShutdownEnds == owner = "notify" ~> owner = "idle"

\* A task in the queue of a pool that is up gets out of it: a thread takes it or
\* Shutdown drops it.
QueuedIsTaken ==
    \A t \in Tasks :
        t \in Range(mQueue) /\ ~mShutdown /\ Workers # At("off")
            ~> t \notin Range(mQueue)

\* Wait returns once no more tasks are added, as long as nothing that was counted
\* has been dropped and every functor fitted a task.
WaitReturns ==
    <>[][\A t \in Tasks : ~AddTask(t)]_vars =>
        (owner = "check" /\ dropped = 0 ~> owner = "returned" \/ empty # 0)
=============================================================================
