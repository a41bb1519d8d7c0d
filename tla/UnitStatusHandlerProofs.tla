----------------------- MODULE UnitStatusHandlerProofs ----------------------
(***************************************************************************)
(* Proofs about the unit status handler, for any number of parts and any   *)
(* interleaving of the two threads that make full statuses, the listeners, *)
(* the two threads of the timer and the connection.                        *)
(*                                                                         *)
(* Neither property is inductive. A held part is sent by whatever is under *)
(* way, so HeldInv says which of the threads and timers still counts; a    *)
(* part the cloud does not know is either to be collected or held as it is *)
(* now, so KnownInv says which thread has still to set it, and FreshInv    *)
(* that what is collected does not get out of date unnoticed. OnConnect    *)
(* sends nothing while a status is in the making: for the worker's status  *)
(* both facts have to survive a lost connection.                           *)
(***************************************************************************)
EXTENDS UnitStatusHandler, TLAPS

Calling == \E i \in Invokers : callback[i] # "idle"

At(states) == \E t \in Threads : full[t] \in states

\* Thread t has still to set part p.
Before(t, p) == \/ full[t] \in {"enter", "mark"}
                \/ full[t] = "set" /\ \E i \in next[t]..Len(Parts) : Parts[i] = p

\* The walk over the parts starts with the first.
NextInv == \A t \in Threads : full[t] # "set" => next[t] = 1

\* The cloud does not know a part whose held value is out of date.
OldInv == \A p \in PartSet : mUnitStatus[p] = "old" => p \notin reported

-----------------------------------------------------------------------------
\* A part that is held is about to be sent. A thread that is about to stop the
\* timer excuses what it takes away from it.
HeldInv ==
    mCloudConnected /\ (~mIsStatusProcessing \/ At({"stop", "leave"})) =>
        \A p \in PartSet \ excused :
            mUnitStatus[p] # "none" =>
                \/ Calling \/ At({"enter", "mark", "set", "send", "clear"})
                \/ /\ timer
                   /\ At({"stop"}) => mUnitStatus[p] = "new" /\ p \notin reported

\* The same through a lost connection, which OnConnect does not answer while a
\* status is in the making.
HeldByUpdateInv ==
    mIsStatusProcessing /\ full["update"] \in {"stop", "leave"} =>
        \A p \in PartSet \ excused :
            mUnitStatus[p] # "none" =>
                Calling \/ full[ConnectThread] \in {"mark", "set", "send", "clear"}

-----------------------------------------------------------------------------
\* A full status being collected holds no value out of date, except that of a part
\* that was dropped, or that some thread has still to set.
FreshInv ==
    mCloudConnected /\ At({"set", "send"}) =>
        \A p \in PartSet \ excused :
            mUnitStatus[p] = "old" => \E t \in Threads : Before(t, p)

\* The same through a lost connection.
FreshByUpdateInv ==
    mIsStatusProcessing /\ full["update"] \in {"set", "send"} =>
        \A p \in PartSet \ excused :
            mUnitStatus[p] = "old" =>
                \E t \in Threads : full[t] # "enter" /\ Before(t, p)

\* A part the cloud does not know is going to be set, or is held and going to be
\* sent.
KnownInv ==
    mCloudConnected /\ ~skipped =>
        \A p \in PartSet \ (reported \cup excused) :
            \/ \E t \in Threads : Before(t, p)
            \/ /\ mUnitStatus[p] = "new"
               /\ timer \/ Calling \/ At({"set", "send", "clear"})

-----------------------------------------------------------------------------
Inv == /\ TypeOK /\ NextInv /\ OldInv
       /\ HeldInv /\ HeldByUpdateInv
       /\ FreshInv /\ FreshByUpdateInv /\ KnownInv

\* The parts SendFullUnitStatus walks over are the parts of the status.
LEMMA PartsFacts == /\ Len(Parts) \in Nat \ {0}
                    /\ \A i \in 1..Len(Parts) : Parts[i] \in PartSet
                    /\ ConnectThread # "update"
                    /\ "update" \in Threads /\ ConnectThread \in Threads
  BY PartsAssumption, ThreadAssumption DEF PartSet, Threads

\* Each part is set in the walk.
LEMMA PartIsSet == \A p \in PartSet : \E i \in 1..Len(Parts) : Parts[i] = p
  BY PartsAssumption DEF PartSet

\* OnConnect either starts a full status or leaves the answer out.
LEMMA OnConnectInv ==
    ASSUME Inv, OnConnect PROVE Inv'
<1> USE PartsFacts DEF Inv, Before, At, Calling, OnConnect
<1>1. TypeOK' /\ NextInv' /\ OldInv'
  BY DEF TypeOK, NextInv, OldInv
<1>2. HeldInv' /\ HeldByUpdateInv'
  BY DEF TypeOK, HeldInv, HeldByUpdateInv, Threads
<1>3. FreshInv' /\ FreshByUpdateInv'
  BY DEF TypeOK, NextInv, FreshInv, FreshByUpdateInv, Threads
<1>4. KnownInv'
  BY DEF TypeOK, NextInv, OldInv, FreshInv, KnownInv, Threads
<1> QED
  BY <1>1, <1>2, <1>3, <1>4

\* OnDisconnect ends what the handler owes the cloud.
LEMMA OnDisconnectInv ==
    ASSUME Inv, OnDisconnect PROVE Inv'
<1> USE PartsFacts DEF Inv, Before, At, Calling, OnDisconnect
<1>1. TypeOK' /\ NextInv' /\ OldInv'
  BY DEF TypeOK, NextInv, OldInv
<1>2. HeldInv' /\ HeldByUpdateInv'
  BY DEF TypeOK, HeldInv, HeldByUpdateInv, Threads
<1>3. FreshInv' /\ FreshByUpdateInv'
  BY DEF TypeOK, NextInv, FreshInv, FreshByUpdateInv, Threads
<1>4. KnownInv'
  BY DEF TypeOK, NextInv, OldInv, FreshInv, KnownInv
<1> QED
  BY <1>1, <1>2, <1>3, <1>4

\* The end of an update starts a full status.
LEMMA FinishUpdateInv ==
    ASSUME Inv, FinishUpdate PROVE Inv'
<1> USE PartsFacts DEF Inv, Before, At, Calling, FinishUpdate
<1>1. TypeOK' /\ NextInv' /\ OldInv'
  BY DEF TypeOK, NextInv, OldInv
<1>2. HeldInv' /\ HeldByUpdateInv'
  BY DEF TypeOK, HeldInv, HeldByUpdateInv, Threads
<1>3. FreshInv' /\ FreshByUpdateInv'
  BY DEF TypeOK, NextInv, FreshInv, FreshByUpdateInv, Threads
<1>4. KnownInv'
  BY DEF TypeOK, NextInv, OldInv, FreshInv, KnownInv
<1> QED
  BY <1>1, <1>2, <1>3, <1>4

\* SendFullUnitStatus goes on, or returns because there is no connection.
LEMMA EnterFullInv ==
    ASSUME Inv, NEW t \in Threads, EnterFull(t) PROVE Inv'
<1> USE PartsFacts DEF Inv, Before, At, Calling, EnterFull
<1>1. TypeOK'
  BY DEF TypeOK
<1>2. NextInv'
  BY DEF TypeOK, NextInv
<1>3. OldInv'
  BY DEF TypeOK, OldInv
<1>4. HeldInv'
  BY DEF TypeOK, HeldInv, HeldByUpdateInv
<1>5. HeldByUpdateInv'
  BY DEF TypeOK, HeldByUpdateInv, Threads
<1>6. FreshInv'
  BY DEF TypeOK, NextInv, FreshInv, FreshByUpdateInv
<1>7. FreshByUpdateInv'
  <2>1. CASE mCloudConnected
    BY <2>1 DEF TypeOK, FreshByUpdateInv, Threads
  <2>2. CASE ~mCloudConnected
    <3>1. \A u \in Threads : full'[u] = full[u] \/ (full[u] = "enter" /\ full'[u] = "idle")
      BY <2>2 DEF TypeOK
    <3>2. SUFFICES ASSUME mIsStatusProcessing, full["update"] \in {"set", "send"},
                          NEW p \in PartSet \ excused, mUnitStatus[p] = "old"
                   PROVE  \E u \in Threads : full'[u] # "enter" /\ Before(u, p)'
      BY <2>2, <3>1 DEF FreshByUpdateInv
    <3>3. PICK u \in Threads : full[u] # "enter" /\ Before(u, p)
      BY <3>2 DEF FreshByUpdateInv
    <3> QED
      BY <3>1, <3>3
  <2> QED
    BY <2>1, <2>2
<1>8. KnownInv'
  BY DEF TypeOK, NextInv, OldInv, FreshInv, KnownInv
<1> QED
  BY <1>1, <1>2, <1>3, <1>4, <1>5, <1>6, <1>7, <1>8

\* From here on all parts are to be set.
LEMMA MarkFullInv ==
    ASSUME Inv, NEW t \in Threads, MarkFull(t) PROVE Inv'
<1> USE PartsFacts DEF Inv, Before, At, Calling, MarkFull
<1>1. TypeOK' /\ NextInv' /\ OldInv'
  BY DEF TypeOK, NextInv, OldInv
<1>2. HeldInv' /\ HeldByUpdateInv'
  BY DEF TypeOK, HeldInv, HeldByUpdateInv, Threads
<1>3. FreshInv' /\ FreshByUpdateInv'
  BY PartIsSet DEF TypeOK, NextInv, FreshInv, FreshByUpdateInv, Threads
<1>4. KnownInv'
  BY PartIsSet DEF TypeOK, NextInv, OldInv, FreshInv, KnownInv
<1> QED
  BY <1>1, <1>2, <1>3, <1>4

\* A part that was to be set still is, or has been set.
LEMMA AfterSetPart ==
    ASSUME TypeOK, NEW t \in Threads, SetPart(t, TRUE)
    PROVE  \A u \in Threads, p \in PartSet :
               Before(u, p) =>
                   \/ Before(u, p)'
                   \/ mUnitStatus'[p] = "new"
<1> USE PartsFacts DEF TypeOK, SetPart, Before
<1>1. CASE next[t] = Len(Parts)
  BY <1>1
<1>2. CASE next[t] # Len(Parts)
  BY <1>2
<1> QED
  BY <1>1, <1>2

\* Setting a part, or giving the status up.
LEMMA SetPartInv ==
    ASSUME Inv, NEW t \in Threads, NEW ok \in BOOLEAN, SetPart(t, ok) PROVE Inv'
<1> USE PartsFacts DEF Inv, Before, At, Calling, SetPart
<1>1. TypeOK'
  <2>1. next[t] # Len(Parts) => next[t] + 1 \in 1..Len(Parts)
    BY DEF TypeOK
  <2>2. CASE ok /\ next[t] = Len(Parts)
    <3>1. /\ mUnitStatus' = [mUnitStatus EXCEPT ![Parts[next[t]]] = "new"]
          /\ full' = [full EXCEPT ![t] = "send"]
          /\ next' = [next EXCEPT ![t] = 1]
          /\ 1 \in 1..Len(Parts)
      BY <2>2
    <3> QED
      BY <2>2, <3>1 DEF TypeOK
  <2>3. CASE ok /\ next[t] # Len(Parts)
    BY <2>1, <2>3 DEF TypeOK
  <2>4. CASE ~ok
    BY <2>4 DEF TypeOK
  <2> QED
    BY <2>2, <2>3, <2>4
<1>2. NextInv'
  BY DEF TypeOK, NextInv
<1>3. OldInv'
  BY DEF TypeOK, OldInv
<1>4. HeldInv'
  BY DEF TypeOK, HeldInv, HeldByUpdateInv
<1>5. HeldByUpdateInv'
  BY DEF TypeOK, HeldByUpdateInv, Threads
<1>6. FreshInv'
  <2>1. CASE ok
    <3>1. SUFFICES ASSUME mCloudConnected, NEW p \in PartSet \ excused,
                          mUnitStatus'[p] = "old"
                   PROVE  \E u \in Threads : Before(u, p)'
      BY <2>1 DEF FreshInv
    <3>2. mUnitStatus[p] = "old"
      BY <2>1, <3>1 DEF TypeOK
    <3>3. PICK u \in Threads : Before(u, p)
      BY <3>1, <3>2 DEF FreshInv
    <3> QED
      BY <2>1, <3>1, <3>3, AfterSetPart
  <2>2. CASE ~ok
    BY <2>2 DEF TypeOK, FreshInv
  <2> QED
    BY <2>1, <2>2
<1>7. FreshByUpdateInv'
  <2>1. CASE ok
    BY <2>1, AfterSetPart DEF TypeOK, FreshByUpdateInv
  <2>2. CASE ~ok
    BY <2>2 DEF TypeOK, FreshByUpdateInv
  <2> QED
    BY <2>1, <2>2
<1>8. KnownInv'
  <2>1. CASE ok
    <3>1. SUFFICES ASSUME mCloudConnected, ~skipped,
                          NEW p \in PartSet \ (reported \cup excused)
                   PROVE  \/ \E u \in Threads : Before(u, p)'
                          \/ mUnitStatus'[p] = "new" /\ At({"set", "send"})'
      BY <2>1 DEF KnownInv
    <3>2. At({"set", "send"})'
      BY <2>1 DEF TypeOK
    <3>3. CASE mUnitStatus[p] = "new"
      BY <2>1, <3>2, <3>3 DEF TypeOK
    <3>4. CASE mUnitStatus[p] # "new"
      <4>1. PICK u \in Threads : Before(u, p)
        BY <3>1, <3>4 DEF KnownInv
      <4> QED
        BY <2>1, <3>2, <4>1, AfterSetPart
    <3> QED
      BY <3>3, <3>4
  <2>2. CASE ~ok
    BY <2>2 DEF TypeOK, KnownInv
  <2> QED
    BY <2>1, <2>2
<1> QED
  BY <1>1, <1>2, <1>3, <1>4, <1>5, <1>6, <1>7, <1>8

\* What is sent is known, unless it is out of date; what is not held is excused.
LEMMA SendFullInv ==
    ASSUME Inv, NEW t \in Threads, NEW ok \in BOOLEAN, SendFull(t, ok) PROVE Inv'
<1> USE PartsFacts DEF Inv, Before, At, Calling, SendFull, SendUnitStatus
<1>1. TypeOK' /\ NextInv' /\ OldInv'
  BY DEF TypeOK, NextInv, OldInv
<1>2. HeldInv' /\ HeldByUpdateInv'
  BY DEF TypeOK, HeldInv, HeldByUpdateInv, Threads
<1>3. FreshInv' /\ FreshByUpdateInv'
  BY DEF TypeOK, NextInv, FreshInv, FreshByUpdateInv, Threads
<1>4. KnownInv'
  BY DEF TypeOK, NextInv, OldInv, FreshInv, KnownInv
<1> QED
  BY <1>1, <1>2, <1>3, <1>4

\* The status that is cleared was sent, or is excused.
LEMMA ClearUnitStatusInv ==
    ASSUME Inv, NEW t \in Threads, ClearUnitStatus(t) PROVE Inv'
<1> USE PartsFacts DEF Inv, Before, At, Calling, ClearUnitStatus, EmptyStatus, Unsent
<1>1. TypeOK' /\ NextInv' /\ OldInv'
  BY DEF TypeOK, NextInv, OldInv
<1>2. HeldInv' /\ HeldByUpdateInv'
  BY DEF TypeOK, HeldInv, HeldByUpdateInv, Threads
<1>3. FreshInv' /\ FreshByUpdateInv'
  BY DEF TypeOK, NextInv, FreshInv, FreshByUpdateInv, Threads
<1>4. KnownInv'
  BY DEF TypeOK, NextInv, OldInv, FreshInv, KnownInv
<1> QED
  BY <1>1, <1>2, <1>3, <1>4

\* The timer is stopped; what it was to send is excused.
LEMMA StopTimerInv ==
    ASSUME Inv, NEW t \in Threads, StopTimer(t) PROVE Inv'
<1> USE PartsFacts DEF Inv, Before, At, Calling, StopTimer, Unsent
<1>1. TypeOK' /\ NextInv' /\ OldInv'
  BY DEF TypeOK, NextInv, OldInv
<1>2. HeldInv' /\ HeldByUpdateInv'
  BY DEF TypeOK, HeldInv, HeldByUpdateInv, Threads
<1>3. FreshInv' /\ FreshByUpdateInv'
  BY DEF TypeOK, NextInv, FreshInv, FreshByUpdateInv, Threads
<1>4. KnownInv'
  BY DEF TypeOK, NextInv, OldInv, FreshInv, KnownInv
<1> QED
  BY <1>1, <1>2, <1>3, <1>4

\* When one thread is through, the other may still be on its way.
LEMMA LeaveFullInv ==
    ASSUME Inv, NEW t \in Threads, LeaveFull(t) PROVE Inv'
<1> USE PartsFacts DEF Inv, Before, At, Calling, LeaveFull
<1>1. TypeOK' /\ NextInv' /\ OldInv'
  BY DEF TypeOK, NextInv, OldInv
<1>2. HeldInv' /\ HeldByUpdateInv'
  BY DEF TypeOK, HeldInv, HeldByUpdateInv, Threads
<1>3. FreshInv' /\ FreshByUpdateInv'
  BY DEF TypeOK, NextInv, FreshInv, FreshByUpdateInv, Threads
<1>4. KnownInv'
  BY DEF TypeOK, NextInv, OldInv, FreshInv, KnownInv
<1> QED
  BY <1>1, <1>2, <1>3, <1>4

\* A listener either takes the change and starts the timer, or drops it.
LEMMA OnChangedInv ==
    ASSUME Inv, NEW p \in PartSet, OnChanged(p) PROVE Inv'
<1> USE PartsFacts DEF Inv, Before, At, Calling, OnChanged, StartTimer
<1>1. TypeOK'
  <2>1. CASE ~mCloudConnected \/ mIsStatusProcessing
    <3>1. mUnitStatus' \in [PartSet -> {"none", "new", "old"}]
      BY <2>1 DEF TypeOK
    <3> QED
      BY <2>1, <3>1 DEF TypeOK
  <2>2. CASE mCloudConnected /\ ~mIsStatusProcessing
    BY <2>2 DEF TypeOK
  <2> QED
    BY <2>1, <2>2
<1>2. NextInv'
  BY DEF TypeOK, NextInv
<1>3. OldInv'
  BY DEF TypeOK, OldInv
<1>4. HeldInv'
  BY DEF TypeOK, HeldInv, HeldByUpdateInv
<1>5. HeldByUpdateInv'
  BY DEF TypeOK, HeldByUpdateInv, Threads
<1>6. FreshInv'
  BY DEF TypeOK, NextInv, FreshInv, FreshByUpdateInv
<1>7. FreshByUpdateInv'
  BY DEF TypeOK, NextInv, FreshByUpdateInv, Threads
<1>8. KnownInv'
  BY DEF TypeOK, NextInv, OldInv, FreshInv, KnownInv
<1> QED
  BY <1>1, <1>2, <1>3, <1>4, <1>5, <1>6, <1>7, <1>8

\* The unit config is taken whenever there is a connection.
LEMMA SetUpdateUnitConfigStatusInv ==
    ASSUME Inv, SetUpdateUnitConfigStatus PROVE Inv'
<1> USE PartsFacts DEF Inv, Before, At, Calling, SetUpdateUnitConfigStatus, StartTimer
<1>1. TypeOK' /\ NextInv' /\ OldInv'
  BY DEF TypeOK, NextInv, OldInv
<1>2. HeldInv' /\ HeldByUpdateInv'
  BY DEF TypeOK, HeldInv, HeldByUpdateInv, Threads
<1>3. FreshInv' /\ FreshByUpdateInv'
  BY DEF TypeOK, NextInv, FreshInv, FreshByUpdateInv, Threads
<1>4. KnownInv'
  BY DEF TypeOK, NextInv, OldInv, FreshInv, KnownInv
<1> QED
  BY <1>1, <1>2, <1>3, <1>4

\* The timer hands over to the callback.
LEMMA FireInv ==
    ASSUME Inv, NEW i \in Invokers, Fire(i) PROVE Inv'
<1> USE PartsFacts DEF Inv, Before, At, Calling, Fire
<1>1. TypeOK' /\ NextInv' /\ OldInv'
  BY DEF TypeOK, NextInv, OldInv
<1>2. HeldInv' /\ HeldByUpdateInv'
  BY DEF TypeOK, HeldInv, HeldByUpdateInv, Threads
<1>3. FreshInv' /\ FreshByUpdateInv'
  BY DEF TypeOK, NextInv, FreshInv, FreshByUpdateInv, Threads
<1>4. KnownInv'
  BY DEF TypeOK, NextInv, OldInv, FreshInv, KnownInv
<1> QED
  BY <1>1, <1>2, <1>3, <1>4

\* A timer restarted in between is stopped, but the callback is still to come.
LEMMA StopOneShotInv ==
    ASSUME Inv, NEW i \in Invokers, StopOneShot(i) PROVE Inv'
<1> USE PartsFacts DEF Inv, Before, At, Calling, StopOneShot
<1>1. TypeOK' /\ NextInv' /\ OldInv'
  BY DEF TypeOK, NextInv, OldInv
<1>2. HeldInv' /\ HeldByUpdateInv'
  BY DEF TypeOK, HeldInv, HeldByUpdateInv, Threads
<1>3. FreshInv' /\ FreshByUpdateInv'
  BY DEF TypeOK, NextInv, FreshInv, FreshByUpdateInv, Threads
<1>4. KnownInv'
  BY DEF TypeOK, NextInv, OldInv, FreshInv, KnownInv
<1> QED
  BY <1>1, <1>2, <1>3, <1>4

\* The callback is about to send.
LEMMA MarkDeltaInv ==
    ASSUME Inv, NEW i \in Invokers, MarkDelta(i) PROVE Inv'
<1> USE PartsFacts DEF Inv, Before, At, Calling, MarkDelta
<1>1. TypeOK' /\ NextInv' /\ OldInv'
  BY DEF TypeOK, NextInv, OldInv
<1>2. HeldInv' /\ HeldByUpdateInv'
  BY DEF TypeOK, HeldInv, HeldByUpdateInv, Threads
<1>3. FreshInv' /\ FreshByUpdateInv'
  BY DEF TypeOK, NextInv, FreshInv, FreshByUpdateInv, Threads
<1>4. KnownInv'
  BY DEF TypeOK, NextInv, OldInv, FreshInv, KnownInv
<1> QED
  BY <1>1, <1>2, <1>3, <1>4

\* The callback sends whatever is held, also of a status half collected.
LEMMA SendDeltaInv ==
    ASSUME Inv, NEW i \in Invokers, NEW ok \in BOOLEAN, SendDelta(i, ok) PROVE Inv'
<1> USE PartsFacts DEF Inv, Before, At, Calling, SendDelta, SendUnitStatus, EmptyStatus
<1>1. TypeOK' /\ NextInv' /\ OldInv'
  BY DEF TypeOK, NextInv, OldInv
<1>2. HeldInv' /\ HeldByUpdateInv'
  BY DEF TypeOK, HeldInv, HeldByUpdateInv, Threads
<1>3. FreshInv' /\ FreshByUpdateInv'
  BY DEF TypeOK, NextInv, FreshInv, FreshByUpdateInv, Threads
<1>4. KnownInv'
  BY DEF TypeOK, NextInv, OldInv, FreshInv, KnownInv
<1> QED
  BY <1>1, <1>2, <1>3, <1>4

\* Init and every step establish the invariant.
LEMMA Invariance == Spec => []Inv
<1>1. Init => Inv
  <2> SUFFICES ASSUME Init PROVE Inv
    OBVIOUS
  <2>1. TypeOK
    <3>1. 1 \in 1..Len(Parts)
      BY PartsFacts
    <3> QED
      BY <3>1 DEF Init, TypeOK
  <2>2. NextInv /\ OldInv /\ HeldInv /\ HeldByUpdateInv
    BY PartsFacts DEF Init, NextInv, OldInv, HeldInv, HeldByUpdateInv
  <2>3. FreshInv /\ FreshByUpdateInv /\ KnownInv
    BY PartsFacts DEF Init, FreshInv, FreshByUpdateInv, KnownInv
  <2> QED
    BY <2>1, <2>2, <2>3 DEF Inv
<1>2. Inv /\ [Next]_vars => Inv'
  <2> SUFFICES ASSUME Inv, [Next]_vars PROVE Inv'
    OBVIOUS
  <2>1. ASSUME NEW t \in Threads, FullStep(t) PROVE Inv'
    BY <2>1, EnterFullInv, MarkFullInv, SetPartInv, SendFullInv, ClearUnitStatusInv,
       StopTimerInv, LeaveFullInv DEF FullStep
  <2>2. ASSUME NEW i \in Invokers, TimerStep(i) PROVE Inv'
    BY <2>2, FireInv, StopOneShotInv, MarkDeltaInv, SendDeltaInv DEF TimerStep
  <2>3. CASE Changed
    BY <2>3, OnChangedInv, SetUpdateUnitConfigStatusInv DEF Changed
  <2>4. CASE UNCHANGED vars
    BY <2>4 DEF vars, Inv, TypeOK, NextInv, OldInv, HeldInv, HeldByUpdateInv, FreshInv,
       FreshByUpdateInv, KnownInv, Calling, At, Before
  <2> QED
    BY <2>1, <2>2, <2>3, <2>4, OnConnectInv, OnDisconnectInv, FinishUpdateInv DEF Next
<1> QED
  BY <1>1, <1>2, PTL DEF Spec

-----------------------------------------------------------------------------
\* The handler's variables keep their types, whatever the number of parts; the walk
\* of SendFullUnitStatus never leaves the list of parts.
THEOREM TypeCorrect == Spec => []TypeOK
<1>1. Inv => TypeOK
  BY DEF Inv
<1> QED
  BY <1>1, Invariance, PTL

\* A change a listener has taken into mUnitStatus never sits there with no timer,
\* callback or full status left to send it.
THEOREM DeltaSafe == Spec => []DeltaIsScheduled
<1>1. Inv => DeltaIsScheduled
  BY DEF Inv, HeldInv, DeltaIsScheduled, Busy, Calling, At
<1> QED
  BY <1>1, Invariance, PTL

\* When the handler is connected and has nothing left to do, the cloud knows every
\* part as it is, except the parts that are excused.
THEOREM QuietSafe == Spec => []QuietMeansReported
<1>1. Inv => QuietMeansReported
  BY DEF Inv, KnownInv, QuietMeansReported, Busy, Calling, At, Before
<1> QED
  BY <1>1, Invariance, PTL
=============================================================================
