-------------------------- MODULE ThreadPoolProofs --------------------------
(***************************************************************************)
(* Theorems about ThreadPool for every pool size, every NUMBER and every   *)
(* set of tasks.                                                           *)
(***************************************************************************)
EXTENDS ThreadPool, FiniteSetTheorems, TLAPS

(***************************************************************************)
(* The manager is in its notification loop only with a call left to make;  *)
(* without this, notifyLeft would not be known to stay natural.            *)
(***************************************************************************)
NotifyPending == manager = "notify" => notifyLeft \in 1 .. NUMBER

\* What RunTask adds to done is a task.
RunnerHoldsTask == \A w \in Slots : worker[w] = "running" => task[w] \in Tasks

Holds(w) == worker[w] \in {"toWait", "toTake"}

(***************************************************************************)
(* mutexPool has one owner at a time, and the task a worker is about to    *)
(* take is there.                                                          *)
(***************************************************************************)
Holding == /\ \A w \in Slots : worker[w] = "toTake" => taskQ # <<>>
           /\ \A v, w \in Slots : Holds(v) /\ Holds(w) => v = w
           /\ adding # NoTask => \A w \in Slots : ~Holds(w)

Form == TypeOK /\ NotifyPending /\ RunnerHoldsTask

\* Shape of the state: what the other invariants take for granted.
Shape == Form /\ Holding

LEMMA NotifyAllType ==
  ASSUME worker \in [Slots -> WorkerState]
  PROVE  /\ NotifyAll \in [Slots -> WorkerState]
         /\ \A w \in Slots : NotifyAll[w] = IF worker[w] = "waiting"
                                            THEN "woken" ELSE worker[w]
  BY DEF NotifyAll, WorkerState

LEMMA LoopTestType ==
  ASSUME TypeOK, RunnerHoldsTask, NEW w \in Slots, LoopTest(w)
  PROVE  /\ taskQ' \in Seq(Tasks)
         /\ busyNum' \in Int
         /\ worker' \in [Slots -> WorkerState]
         /\ task' \in [Slots -> Tasks \cup {NoTask}]
         /\ RunnerHoldsTask'
<1>1. CASE PrepareWait(w)
  BY <1>1 DEF PrepareWait, TypeOK, WorkerState, RunnerHoldsTask
<1>2. CASE Return(w)
  BY <1>2 DEF Return, TypeOK, WorkerState, RunnerHoldsTask
<1>3. CASE SeeTask(w)
  BY <1>3 DEF SeeTask, TypeOK, WorkerState, RunnerHoldsTask
<1>4. QED
  BY <1>1, <1>2, <1>3 DEF LoopTest

LEMMA FormInit == Init => Form
  BY PoolAssumption DEF Init, Form, TypeOK, NotifyPending, RunnerHoldsTask,
                        WorkerState, Slots, NoView

LEMMA FormStep == Shape /\ [Next]_vars => Form'
<1> SUFFICES ASSUME Shape, [Next]_vars PROVE Form'
  OBVIOUS
<1> USE PoolAssumption DEF Shape, Form, NotifyPending
<1>0. ASSUME NEW t \in Tasks, AddTest(t) PROVE Form'
  BY <1>0 DEF AddTest, TypeOK, RunnerHoldsTask, poolVars, managerVars, history
<1>1. CASE AddPush
  <2>1. taskQ' \in Seq(Tasks) /\ added' \in Seq(Tasks) /\ adding' = NoTask
    BY <1>1 DEF AddPush, TypeOK
  <2>2. worker' \in [Slots -> WorkerState] /\ RunnerHoldsTask'
    BY <1>1, NotifyAllType DEF AddPush, TypeOK, RunnerHoldsTask
  <2>3. QED
    BY <1>1, <2>1, <2>2 DEF AddPush, TypeOK, managerVars
<1>2. ASSUME NEW w \in Slots, WorkerEnter(w) PROVE Form'
  BY <1>2, LoopTestType DEF WorkerEnter, TypeOK, managerVars, history
<1>3. ASSUME NEW w \in Slots, WorkerBlock(w) PROVE Form'
  BY <1>3 DEF WorkerBlock, TypeOK, RunnerHoldsTask, WorkerState,
              poolVars, managerVars, history
<1>4. ASSUME NEW w \in Slots, Retire(w) PROVE Form'
  BY <1>4 DEF Retire, TypeOK, RunnerHoldsTask, WorkerState, managerVars, history
<1>5. ASSUME NEW w \in Slots, Resume(w) PROVE Form'
  <2>1. exitNum' \in 0 .. NUMBER
    BY <1>5 DEF Resume, TypeOK
  <2>2. QED
    BY <1>5, <2>1, LoopTestType DEF Resume, TypeOK, managerVars, history
<1>6. ASSUME NEW w \in Slots, RunTask(w) PROVE Form'
  <2>1. task[w] \in Tasks
    BY <1>6 DEF RunTask, RunnerHoldsTask
  <2>2. QED
    BY <1>6, <2>1 DEF RunTask, TypeOK, RunnerHoldsTask, WorkerState,
                      poolVars, managerVars
<1>7. ASSUME NEW w \in Slots, UpdateBusy(w) PROVE Form'
  BY <1>7 DEF UpdateBusy, TypeOK, RunnerHoldsTask, WorkerState, managerVars, history
<1>8. ASSUME NEW w \in Slots, SpuriousWake(w) PROVE Form'
  BY <1>8 DEF SpuriousWake, TypeOK, RunnerHoldsTask, WorkerState,
              poolVars, managerVars, history
<1>9. CASE ManagerLoop
  BY <1>9 DEF ManagerLoop, TypeOK, RunnerHoldsTask, poolVars, history
<1>10. CASE ManagerSample
  <2> DEFINE v == [queuesize |-> Len(taskQ), livenum |-> liveNum, busynum |-> busyNum]
  <2>1. /\ v \in [queuesize : Nat, livenum : Int, busynum : Int]
        /\ NoView \in [queuesize : Nat, livenum : Int, busynum : Int]
    BY DEF TypeOK, NoView
  <2>2. manager' \in {"grow", "shrink", "loop"} /\ view' \in {v, NoView}
    BY <1>10 DEF ManagerSample, AfterGrow
  <2>3. QED
    BY <1>10, <2>1, <2>2 DEF ManagerSample, TypeOK, RunnerHoldsTask, poolVars, history
<1>11. CASE ManagerGrow
  <2>1. PICK new \in SUBSET Slots :
           /\ SlotsToStart(new)
           /\ worker' = [w \in Slots |-> IF w \in new THEN "top" ELSE worker[w]]
           /\ liveNum' = liveNum + Cardinality(new)
    BY <1>11 DEF ManagerGrow
  <2>2. Cardinality(new) \in Nat
    <3>1. IsFiniteSet(Slots)
      BY FS_Interval DEF Slots
    <3>2. QED
      BY <3>1, FS_Subset, FS_CardinalityType
  <2>3. worker' \in [Slots -> WorkerState] /\ RunnerHoldsTask'
    BY <1>11, <2>1 DEF ManagerGrow, TypeOK, RunnerHoldsTask, WorkerState
  <2>4. manager' \in {"shrink", "loop"}
    BY <1>11 DEF ManagerGrow, AfterGrow
  <2>5. view' \in [queuesize : Nat, livenum : Int, busynum : Int]
    BY <1>11 DEF ManagerGrow, NoView
  <2>6. QED
    BY <1>11, <2>1, <2>2, <2>3, <2>4, <2>5 DEF ManagerGrow, TypeOK, history
<1>12. CASE ManagerShrink
  BY <1>12 DEF ManagerShrink, TypeOK, RunnerHoldsTask, history
<1>13. CASE ManagerNotify
  <2>1. worker' \in [Slots -> WorkerState] /\ RunnerHoldsTask'
    BY <1>13, NotifyAllType DEF ManagerNotify, TypeOK, RunnerHoldsTask
  <2>2. /\ notifyLeft' \in 0 .. NUMBER
        /\ manager' \in {"loop", "notify"}
        /\ manager' = "notify" => notifyLeft' \in 1 .. NUMBER
    BY <1>13 DEF ManagerNotify, TypeOK
  <2>3. QED
    BY <1>13, <2>1, <2>2 DEF ManagerNotify, TypeOK, poolVars, history
<1>14. CASE DtorShutdown
  BY <1>14 DEF DtorShutdown, TypeOK, RunnerHoldsTask, managerVars, history
<1>15. CASE DtorNotify
  <2>1. worker' \in [Slots -> WorkerState] /\ RunnerHoldsTask'
    BY <1>15, NotifyAllType DEF DtorNotify, TypeOK, RunnerHoldsTask, managerVars
  <2>2. QED
    BY <1>15, <2>1 DEF DtorNotify, TypeOK, poolVars, managerVars, history
<1>16. CASE DtorJoined
  BY <1>16 DEF DtorJoined, TypeOK, RunnerHoldsTask, poolVars, managerVars, history
<1>17. CASE UNCHANGED vars
  BY <1>17 DEF vars, TypeOK, RunnerHoldsTask, poolVars, managerVars, history
<1>t. ASSUME NEW w \in Slots, TakeTask(w) PROVE Form'
  <2>1. taskQ \in Seq(Tasks) /\ taskQ # <<>>
    BY <1>t DEF TakeTask, Holding, TypeOK
  <2>2. Head(taskQ) \in Tasks /\ Tail(taskQ) \in Seq(Tasks)
    BY <2>1
  <2>3. QED
    BY <1>t, <2>2 DEF TakeTask, TypeOK, WorkerState, RunnerHoldsTask, managerVars, history
<1>18. QED
  BY <1>0, <1>t, <1>1, <1>2, <1>3, <1>4, <1>5, <1>6, <1>7, <1>8, <1>9, <1>10, <1>11, <1>12,
     <1>13, <1>14, <1>15, <1>16, <1>17
     DEF Next, WorkerStep, ManagerStep, DtorStep

LEMMA NotifyAllHolds ==
  ASSUME Form, worker' = NotifyAll, NEW w \in Slots
  PROVE  \/ worker'[w] = worker[w]
         \/ ~Holds(w) /\ worker'[w] = "woken"
<1>1. worker'[w] = IF worker[w] = "waiting" THEN "woken" ELSE worker[w]
  BY NotifyAllType DEF Form, TypeOK
<1>2. QED
  BY <1>1 DEF Holds

\* Who looks at the queue holds mutexPool, which nobody held.
LEMMA LoopTestHolding ==
  ASSUME Shape, MutexFree, NEW w \in Slots, LoopTest(w), UNCHANGED adding
  PROVE  Holding'
  BY DEF LoopTest, PrepareWait, Return, SeeTask, MutexFree, Shape, Form, TypeOK, Holding, Holds

LEMMA HoldingStep == Shape /\ [Next]_vars => Holding'
<1> SUFFICES ASSUME Shape, [Next]_vars PROVE Holding'
  OBVIOUS
<1> USE DEF Holding, Holds, Shape, Form, TypeOK
<1>1. ASSUME NEW t \in Tasks, AddTest(t) PROVE Holding'
  BY <1>1 DEF AddTest, MutexFree, poolVars
<1>2. CASE AddPush
  <2>1. \A w \in Slots : ~Holds(w) /\ worker'[w] \notin {"toWait", "toTake"}
    BY <1>2, NotifyAllHolds DEF AddPush
  <2>2. QED
    BY <2>1
<1>3. ASSUME NEW w \in Slots, WorkerEnter(w) \/ Resume(w) PROVE Holding'
  BY <1>3, LoopTestHolding DEF WorkerEnter, Resume
<1>4. ASSUME NEW w \in Slots, TakeTask(w) PROVE Holding'
  <2>1. \A v \in Slots : ~(worker'[v] \in {"toWait", "toTake"})
    BY <1>4 DEF TakeTask
  <2>2. QED
    BY <1>4, <2>1 DEF TakeTask
<1>5. ASSUME NEW w \in Slots,
             WorkerBlock(w) \/ Retire(w) \/ RunTask(w) \/ UpdateBusy(w) \/ SpuriousWake(w)
      PROVE  Holding'
  <2>1. /\ worker'[w] \notin {"toWait", "toTake"} /\ UNCHANGED <<taskQ, adding>>
        /\ \A v \in Slots \ {w} : worker'[v] = worker[v]
    BY <1>5 DEF WorkerBlock, Retire, RunTask, UpdateBusy, SpuriousWake, poolVars
  <2>2. QED
    BY <2>1
<1>6. CASE ManagerGrow
  <2>1. \A w \in Slots : worker'[w] = worker[w] \/ worker'[w] = "top"
    BY <1>6 DEF ManagerGrow
  <2>2. QED
    BY <1>6, <2>1 DEF ManagerGrow
<1>7. CASE ManagerNotify \/ DtorNotify
  <2>1. \A w \in Slots : worker'[w] = worker[w] \/ worker'[w] = "woken"
    BY <1>7, NotifyAllHolds DEF ManagerNotify, DtorNotify
  <2>2. QED
    BY <1>7, <2>1 DEF ManagerNotify, DtorNotify, poolVars
<1>8. CASE ManagerLoop \/ ManagerSample \/ ManagerShrink \/ DtorShutdown \/ DtorJoined
  BY <1>8 DEF ManagerLoop, ManagerSample, ManagerShrink, DtorShutdown, DtorJoined, poolVars
<1>9. CASE UNCHANGED vars
  BY <1>9 DEF vars, poolVars
<1>10. QED
  BY <1>1, <1>2, <1>3, <1>4, <1>5, <1>6, <1>7, <1>8, <1>9
     DEF Next, WorkerStep, ManagerStep, DtorStep

LEMMA ShapeInit == Init => Shape
<1>1. Init => Holding
  BY DEF Init, Holding, Holds
<1>2. QED
  BY <1>1, FormInit DEF Shape

LEMMA ShapeStep == Shape /\ [Next]_vars => Shape'
  BY FormStep, HoldingStep DEF Shape

(***************************************************************************)
(* The types of the pool's state, in particular that exitNum never exceeds *)
(* NUMBER: a second request to shrink replaces the first.                  *)
(***************************************************************************)
THEOREM TypeCorrect == Spec => []TypeOK
<1>1. Spec => []Shape
  BY ShapeInit, ShapeStep, PTL DEF Spec
<1>2. QED
  BY <1>1, PTL DEF Shape, Form

-----------------------------------------------------------------------------
(* Counters and size *)

Counters == PoolSize /\ CountersMatch

LEMMA SlotsFinite ==
  /\ IsFiniteSet(Slots)
  /\ Cardinality(Slots) = maxNum
  /\ \A S \in SUBSET Slots : IsFiniteSet(S) /\ Cardinality(S) \in 0 .. maxNum
<1>1. IsFiniteSet(Slots) /\ Cardinality(Slots) = maxNum
  BY FS_Interval, PoolAssumption DEF Slots
<1>2. ASSUME NEW S \in SUBSET Slots
      PROVE IsFiniteSet(S) /\ Cardinality(S) \in 0 .. maxNum
  BY <1>1, FS_Subset, FS_CardinalityType, PoolAssumption
<1>3. QED
  BY <1>1, <1>2

\* A step that moves nobody in or out of either set keeps the counters right.
LEMMA SameSlots ==
  ASSUME Counters, UNCHANGED <<liveNum, busyNum>>,
         LiveSlots' = LiveSlots, BusySlots' = BusySlots
  PROVE  Counters'
  BY DEF Counters, PoolSize, CountersMatch

\* notify_all moves workers only among the live, idle ones.
LEMMA NotifyAllSlots ==
  ASSUME Shape, Counters, worker' = NotifyAll, UNCHANGED <<liveNum, busyNum>>
  PROVE  Counters'
  BY NotifyAllType, SameSlots DEF Shape, Form, TypeOK, LiveSlots, BusySlots

LEMMA LoopTestSlots ==
  ASSUME Shape, Counters, NEW w \in Slots, worker[w] \in {"top", "woken"},
         LoopTest(w), UNCHANGED liveNum
  PROVE  Counters'
<1> USE DEF Shape, Form, TypeOK
<1>1. CASE PrepareWait(w)
  BY <1>1, SameSlots DEF PrepareWait, LiveSlots, BusySlots
<1>2. CASE Return(w)
  BY <1>2, SameSlots DEF Return, LiveSlots, BusySlots
<1>3. CASE SeeTask(w)
  BY <1>3, SameSlots DEF SeeTask, LiveSlots, BusySlots
<1>4. QED
  BY <1>1, <1>2, <1>3 DEF LoopTest

LEMMA TakeTaskSlots ==
  ASSUME Shape, Counters, NEW w \in Slots, TakeTask(w)
  PROVE  Counters'
<1>1. /\ LiveSlots' = LiveSlots
      /\ BusySlots' = BusySlots \cup {w}
      /\ w \notin BusySlots
  BY DEF TakeTask, LiveSlots, BusySlots, Shape, Form, TypeOK
<1>2. IsFiniteSet(BusySlots)
  BY SlotsFinite DEF BusySlots
<1>3. Cardinality(BusySlots') = Cardinality(BusySlots) + 1
  BY <1>1, <1>2, FS_AddElement
<1>4. QED
  BY <1>1, <1>3 DEF TakeTask, Counters, PoolSize, CountersMatch

LEMMA CountersInit == Init => Counters
<1> SUFFICES ASSUME Init PROVE Counters
  OBVIOUS
<1>1. LiveSlots = 0 .. minNum - 1 /\ BusySlots = {}
  BY PoolAssumption DEF Init, LiveSlots, BusySlots, Slots
<1>2. Cardinality(LiveSlots) = minNum /\ Cardinality(BusySlots) = 0
  BY <1>1, FS_Interval, FS_EmptySet, PoolAssumption
<1>3. QED
  BY <1>2, PoolAssumption DEF Init, Counters, PoolSize, CountersMatch

LEMMA CountersStep == Shape /\ Counters /\ [Next]_vars => Counters'
<1> SUFFICES ASSUME Shape, Counters, [Next]_vars PROVE Counters'
  OBVIOUS
<1> USE DEF poolVars, managerVars, history
<1>0. ASSUME NEW t \in Tasks, AddTest(t) PROVE Counters'
  BY <1>0, SameSlots DEF AddTest, LiveSlots, BusySlots
<1>1. CASE AddPush
  BY <1>1, NotifyAllSlots DEF AddPush
<1>t. ASSUME NEW w \in Slots, TakeTask(w) PROVE Counters'
  BY <1>t, TakeTaskSlots
<1>2. ASSUME NEW w \in Slots, WorkerEnter(w) PROVE Counters'
  BY <1>2, LoopTestSlots DEF WorkerEnter
<1>3. ASSUME NEW w \in Slots, WorkerBlock(w) PROVE Counters'
  BY <1>3, SameSlots DEF WorkerBlock, LiveSlots, BusySlots, Shape, Form, TypeOK
<1>4. ASSUME NEW w \in Slots, Retire(w) PROVE Counters'
  <2>1. /\ LiveSlots' = LiveSlots \ {w}
        /\ BusySlots' = BusySlots
        /\ w \in LiveSlots
    BY <1>4 DEF Retire, LiveSlots, BusySlots, Shape, Form, TypeOK
  <2>2. IsFiniteSet(LiveSlots)
    BY SlotsFinite DEF LiveSlots
  <2>3. Cardinality(LiveSlots') = Cardinality(LiveSlots) - 1
    BY <2>1, <2>2, FS_RemoveElement
  <2>4. QED
    BY <1>4, <2>1, <2>3, PoolAssumption
       DEF Retire, SpareWorker, Counters, PoolSize, CountersMatch
<1>5. ASSUME NEW w \in Slots, Resume(w) PROVE Counters'
  BY <1>5, LoopTestSlots DEF Resume
<1>6. ASSUME NEW w \in Slots, RunTask(w) PROVE Counters'
  BY <1>6, SameSlots DEF RunTask, LiveSlots, BusySlots, Shape, Form, TypeOK
<1>7. ASSUME NEW w \in Slots, UpdateBusy(w) PROVE Counters'
  <2>1. /\ LiveSlots' = LiveSlots
        /\ BusySlots' = BusySlots \ {w}
        /\ w \in BusySlots
    BY <1>7 DEF UpdateBusy, LiveSlots, BusySlots, Shape, Form, TypeOK
  <2>2. IsFiniteSet(BusySlots)
    BY SlotsFinite DEF BusySlots
  <2>3. Cardinality(BusySlots') = Cardinality(BusySlots) - 1
    BY <2>1, <2>2, FS_RemoveElement
  <2>4. QED
    BY <1>7, <2>1, <2>3 DEF UpdateBusy, Counters, PoolSize, CountersMatch
<1>8. ASSUME NEW w \in Slots, SpuriousWake(w) PROVE Counters'
  BY <1>8, SameSlots DEF SpuriousWake, LiveSlots, BusySlots, Shape, Form, TypeOK
<1>9. CASE ManagerGrow
  <2>1. PICK new \in SUBSET Slots :
           /\ SlotsToStart(new)
           /\ worker' = [w \in Slots |-> IF w \in new THEN "top" ELSE worker[w]]
           /\ liveNum' = liveNum + Cardinality(new)
    BY <1>9 DEF ManagerGrow
  <2>2. /\ LiveSlots' = LiveSlots \cup new
        /\ LiveSlots \cap new = {}
        /\ BusySlots' = BusySlots
    BY <2>1 DEF SlotsToStart, EmptySlots, LiveSlots, BusySlots
  <2>3. /\ IsFiniteSet(LiveSlots) /\ IsFiniteSet(new)
        /\ Cardinality(new) \in Nat
    BY SlotsFinite DEF LiveSlots
  <2>4. Cardinality(LiveSlots') = Cardinality(LiveSlots) + Cardinality(new)
    <3>1. Cardinality(LiveSlots \cap new) = 0
      BY <2>2, FS_EmptySet
    <3>2. Cardinality(LiveSlots) \in Nat
      BY <2>3, FS_CardinalityType
    <3>3. Cardinality(LiveSlots \cup new)
            = Cardinality(LiveSlots) + Cardinality(new) - Cardinality(LiveSlots \cap new)
      BY <2>3, FS_Union, Zenon
    <3>4. QED
      BY <2>2, <2>3, <3>1, <3>2, <3>3
  <2>5. liveNum' \in minNum .. maxNum
    BY <2>1, <2>3, PoolAssumption DEF SlotsToStart, Counters, PoolSize
  <2>6. QED
    BY <1>9, <2>1, <2>2, <2>4, <2>5 DEF ManagerGrow, Counters, PoolSize, CountersMatch
<1>10. CASE ManagerNotify \/ DtorNotify
  BY <1>10, NotifyAllSlots DEF ManagerNotify, DtorNotify
<1>11. CASE ManagerLoop \/ ManagerSample \/ ManagerShrink \/ DtorShutdown \/ DtorJoined
  BY <1>11, SameSlots DEF ManagerLoop, ManagerSample, ManagerShrink, DtorShutdown,
                          DtorJoined, LiveSlots, BusySlots
<1>12. CASE UNCHANGED vars
  BY <1>12, SameSlots DEF vars, LiveSlots, BusySlots
<1>13. QED
  BY <1>0, <1>t, <1>1, <1>2, <1>3, <1>4, <1>5, <1>6, <1>7, <1>8, <1>9, <1>10, <1>11, <1>12
     DEF Next, WorkerStep, ManagerStep, DtorStep

(***************************************************************************)
(* However stale the manager's sample and however late a request to exit   *)
(* is honoured, the pool keeps between minNum and maxNum workers.          *)
(***************************************************************************)
THEOREM PoolSizeCorrect == Spec => []PoolSize
<1>1. Spec => [](Shape /\ Counters)
  BY ShapeInit, ShapeStep, CountersInit, CountersStep, PTL DEF Spec
<1>2. QED
  BY <1>1, PTL DEF Counters

(***************************************************************************)
(* liveNum and busyNum count the workers they are meant to count.          *)
(***************************************************************************)
THEOREM CountersCorrect == Spec => []CountersMatch
<1>1. Spec => [](Shape /\ Counters)
  BY ShapeInit, ShapeStep, CountersInit, CountersStep, PTL DEF Spec
<1>2. QED
  BY <1>1, PTL DEF Counters

-----------------------------------------------------------------------------
(* The queue: nobody sleeps over it, nothing in it is lost *)

\* Whoever is about to block, or blocked, did so on an empty queue; Add wakes
\* them all before anything else can happen.
NobodySleeps ==
    taskQ # <<>> => \A w \in Slots : worker[w] \notin {"toWait", "waiting"}

ReturnsOnShutdown == \A w \in Slots : worker[w] = "returned" => shutdown

Wakeful == NobodySleeps /\ ReturnsOnShutdown

LEMMA LoopTestWakeful ==
  ASSUME Shape, Wakeful, NEW w \in Slots, LoopTest(w), UNCHANGED shutdown
  PROVE  Wakeful'
<1> USE DEF Shape, Form, TypeOK, Wakeful, NobodySleeps, ReturnsOnShutdown
<1>1. CASE PrepareWait(w)
  BY <1>1 DEF PrepareWait
<1>2. CASE Return(w)
  BY <1>2 DEF Return
<1>3. CASE SeeTask(w)
  BY <1>3 DEF SeeTask
<1>4. QED
  BY <1>1, <1>2, <1>3 DEF LoopTest

LEMMA NotifyAllWakeful ==
  ASSUME Shape, Wakeful, adding # NoTask \/ UNCHANGED taskQ, worker' = NotifyAll,
         UNCHANGED shutdown
  PROVE  Wakeful'
  BY NotifyAllType DEF Shape, Form, TypeOK, Wakeful, NobodySleeps, ReturnsOnShutdown, Holding,
                            Holds

LEMMA WakefulInit == Init => Wakeful
  BY DEF Init, Wakeful, NobodySleeps, ReturnsOnShutdown

LEMMA WakefulStep == Shape /\ Wakeful /\ [Next]_vars => Wakeful'
<1> SUFFICES ASSUME Shape, Wakeful, [Next]_vars PROVE Wakeful'
  OBVIOUS
<1> USE DEF poolVars, managerVars, history
<1>0. ASSUME NEW t \in Tasks, AddTest(t) PROVE Wakeful'
  BY <1>0 DEF AddTest, Wakeful, NobodySleeps, ReturnsOnShutdown
<1>1. CASE AddPush
  BY <1>1, NotifyAllWakeful DEF AddPush
<1>2. ASSUME NEW w \in Slots, WorkerEnter(w) \/ Resume(w) PROVE Wakeful'
  BY <1>2, LoopTestWakeful DEF WorkerEnter, Resume
<1>3. ASSUME NEW w \in Slots,
             WorkerBlock(w) \/ Retire(w) \/ TakeTask(w) \/ RunTask(w) \/ UpdateBusy(w)
                \/ SpuriousWake(w)
      PROVE  Wakeful'
  <2>1. taskQ' # <<>> => taskQ # <<>>
    BY <1>3 DEF WorkerBlock, Retire, TakeTask, RunTask, UpdateBusy, SpuriousWake, Holding,
                Shape
  <2>2. QED
    BY <1>3, <2>1 DEF WorkerBlock, Retire, TakeTask, RunTask, UpdateBusy, SpuriousWake, Shape,
                      Form, TypeOK, Wakeful, NobodySleeps, ReturnsOnShutdown
<1>4. CASE ManagerGrow
  BY <1>4 DEF ManagerGrow, Wakeful, NobodySleeps, ReturnsOnShutdown
<1>5. CASE ManagerNotify \/ DtorNotify
  BY <1>5, NotifyAllWakeful DEF ManagerNotify, DtorNotify
<1>6. CASE ManagerLoop \/ ManagerSample \/ ManagerShrink \/ DtorShutdown \/ DtorJoined
  BY <1>6 DEF ManagerLoop, ManagerSample, ManagerShrink, DtorShutdown, DtorJoined,
              Wakeful, NobodySleeps, ReturnsOnShutdown
<1>7. CASE UNCHANGED vars
  BY <1>7 DEF vars, Wakeful, NobodySleeps, ReturnsOnShutdown
<1>8. QED
  BY <1>0, <1>1, <1>2, <1>3, <1>4, <1>5, <1>6, <1>7
     DEF Next, WorkerStep, ManagerStep, DtorStep

(***************************************************************************)
(* A queued task never waits for a wake-up: nobody sleeps while the queue  *)
(* holds one, and before shutdown somebody is awake to take it.  The       *)
(* second half is where the counters matter: liveNum >= minNum > 0 says    *)
(* there is a live worker at all.                                          *)
(***************************************************************************)
THEOREM NoSleepCorrect == Spec => []NoSleepWhileQueued
<1>1. Spec => [](Shape /\ Counters /\ Wakeful)
  BY ShapeInit, ShapeStep, CountersInit, CountersStep, WakefulInit, WakefulStep,
     PTL DEF Spec
<1>2. Shape /\ Counters /\ Wakeful => NoSleepWhileQueued
  <2> SUFFICES ASSUME Shape, Counters, Wakeful, taskQ # <<>>, ~shutdown
               PROVE  \E w \in Slots : worker[w] \in {"top", "woken", "toTake", "running",
                                                      "finished"}
    BY DEF NoSleepWhileQueued, Wakeful, NobodySleeps
  <2>1. LiveSlots # {}
    <3>1. Cardinality(LiveSlots) # 0
      BY PoolAssumption DEF Counters, PoolSize, CountersMatch
    <3>2. QED
      BY <3>1, FS_EmptySet
  <2>2. PICK w \in Slots : worker[w] \notin {"none", "retired"}
    BY <2>1 DEF LiveSlots
  <2>3. worker[w] \notin {"toWait", "waiting", "returned"}
    BY DEF Wakeful, NobodySleeps, ReturnsOnShutdown
  <2>4. QED
    BY <2>2, <2>3 DEF Shape, Form, TypeOK, WorkerState
<1>3. QED
  BY <1>1, <1>2, PTL

\* A task is added once, so it can be told from every other by its place.
AddedOnce == \A i, j \in DOMAIN added : added[i] = added[j] => i = j

\* The task being added is a new one.
AddingIsNew == adding # NoTask => \A i \in DOMAIN added : added[i] # adding

Accounts == Ledger /\ AddedOnce /\ AddingIsNew

LEMMA SameAccounts ==
  ASSUME Accounts, UNCHANGED <<taskQ, added, done, task, adding>>,
         RunningSlots' = RunningSlots
  PROVE  Accounts'
<1>1. Started' = Started /\ RunningTasks' = RunningTasks
  BY DEF Started, RunningTasks
<1>2. AddedOnce' /\ AddingIsNew'
  BY DEF Accounts, AddedOnce, AddingIsNew
<1>3. Ledger'
  BY <1>1, Zenon DEF Accounts, Ledger
<1>4. QED
  BY <1>2, <1>3 DEF Accounts

\* What TakeTask hands to a worker has neither run nor is running.
LEMMA HeadIsNew ==
  ASSUME Shape, Accounts, taskQ # <<>>
  PROVE  /\ Started + 1 \in DOMAIN added
         /\ Started \in Nat
         /\ Head(taskQ) = added[Started + 1]
         /\ Head(taskQ) \in Tasks
         /\ Head(taskQ) \notin RunningTasks \cup done
<1>1. /\ Len(taskQ) \in Nat \ {0} /\ Len(added) \in Nat
      /\ Len(taskQ) <= Len(added)
      /\ DOMAIN added = 1 .. Len(added)
      /\ Head(taskQ) = taskQ[1] /\ Head(taskQ) \in Tasks
  BY DEF Shape, Form, TypeOK, Accounts, Ledger
<1>2. Started + 1 \in DOMAIN added /\ Started \in Nat
  BY <1>1 DEF Started
<1>3. Head(taskQ) = added[Started + 1]
  BY <1>1 DEF Accounts, Ledger
<1>4. ASSUME Head(taskQ) \in RunningTasks \cup done PROVE FALSE
  <2>1. PICK i \in 1 .. Started : added[i] = Head(taskQ)
    BY <1>1, <1>4 DEF Accounts, Ledger
  <2>2. i \in DOMAIN added /\ i # Started + 1
    BY <1>1, <1>2, <2>1
  <2>3. QED
    BY <1>2, <1>3, <2>1, <2>2 DEF Accounts, AddedOnce
<1>5. QED
  BY <1>1, <1>2, <1>3, <1>4

LEMMA TakeTaskRunning ==
  ASSUME Shape, NEW w \in Slots, TakeTask(w)
  PROVE  /\ RunningSlots' = RunningSlots \cup {w}
         /\ RunningTasks' = RunningTasks \cup {Head(taskQ)}
<1>1. RunningSlots' = RunningSlots \cup {w} /\ w \notin RunningSlots
  BY DEF TakeTask, RunningSlots, Shape, Form, TypeOK
<1>2. task'[w] = Head(taskQ) /\ \A v \in Slots \ {w} : task'[v] = task[v]
  BY DEF TakeTask, Shape, Form, TypeOK
<1>3. QED
  BY <1>1, <1>2 DEF RunningTasks, RunningSlots

LEMMA LoopTestAccounts ==
  ASSUME Shape, Accounts, NEW w \in Slots, worker[w] # "running", LoopTest(w),
         UNCHANGED <<added, done, adding>>
  PROVE  Accounts'
  BY SameAccounts DEF LoopTest, PrepareWait, Return, SeeTask, RunningSlots, Shape, Form, TypeOK

LEMMA TakeTaskAccounts ==
  ASSUME Shape, Accounts, NEW w \in Slots, TakeTask(w)
  PROVE  Accounts'
<1> DEFINE h == Head(taskQ)
<1>1. /\ taskQ # <<>> /\ taskQ' = Tail(taskQ)
      /\ taskQ \in Seq(Tasks) /\ added \in Seq(Tasks)
      /\ task' = [task EXCEPT ![w] = h]
      /\ worker[w] = "toTake" /\ UNCHANGED <<added, done, adding>>
  BY DEF TakeTask, Holding, Shape, Form, TypeOK, history
<1>2. /\ Len(taskQ') = Len(taskQ) - 1 /\ Len(taskQ) \in Nat \ {0}
      /\ \A i \in 1 .. Len(taskQ) - 1 : taskQ'[i] = taskQ[i + 1]
      /\ Len(added) \in Nat
  BY <1>1
<1>3. /\ RunningSlots' = RunningSlots \cup {w}
      /\ RunningTasks' = RunningTasks \cup {h}
  BY TakeTaskRunning
<1>4. h = added[Started + 1] /\ h \notin RunningTasks \cup done /\ h \in Tasks
  BY <1>1, HeadIsNew
<1>5. Started' = Started + 1 /\ Started \in Nat
  BY <1>1, <1>2 DEF Started, Accounts, Ledger
<1>6. Len(taskQ') <= Len(added')
  BY <1>1, <1>2 DEF Accounts, Ledger
<1>7. \A i \in 1 .. Len(taskQ') : taskQ'[i] = added'[Started' + i]
  <2> SUFFICES ASSUME NEW i \in 1 .. Len(taskQ')
               PROVE  taskQ'[i] = added[Started + 1 + i]
    BY <1>1, <1>5
  <2>1. i + 1 \in 1 .. Len(taskQ) /\ taskQ'[i] = taskQ[i + 1]
    BY <1>2
  <2>2. taskQ[i + 1] = added[Started + (i + 1)]
    BY <2>1 DEF Accounts, Ledger
  <2>3. Started + (i + 1) = Started + 1 + i
    BY <1>2, <1>5
  <2>4. QED
    BY <2>1, <2>2, <2>3
<1>8. ASSUME NEW t \in Tasks
      PROVE  t \in RunningTasks' \cup done' <=> \E i \in 1 .. Started' : added'[i] = t
  <2>1. t \in RunningTasks \cup done <=> \E i \in 1 .. Started : added[i] = t
    BY DEF Accounts, Ledger
  <2>2. 1 .. Started' = (1 .. Started) \cup {Started + 1}
    BY <1>5
  <2>3. QED
    BY <1>1, <1>3, <1>4, <2>1, <2>2
<1>9. RunningTasks' \cap done' = {}
  BY <1>1, <1>3, <1>4 DEF Accounts, Ledger
<1>10. ASSUME NEW u \in RunningSlots', NEW v \in RunningSlots', task'[u] = task'[v]
       PROVE  u = v
  <2>1. /\ task'[w] = h
        /\ \A x \in RunningSlots : x # w /\ task'[x] = task[x] /\ task[x] \in RunningTasks
    BY <1>1 DEF RunningSlots, RunningTasks, Shape, Form, TypeOK
  <2>2. QED
    BY <1>3, <1>4, <1>10, <2>1 DEF Accounts, Ledger
<1>11. QED
  BY <1>1, <1>6, <1>7, <1>8, <1>9, <1>10 DEF Accounts, Ledger, AddedOnce,
                                       AddingIsNew

LEMMA AddAccounts ==
  ASSUME Shape, Accounts, AddPush
  PROVE  Accounts'
<1> DEFINE t == adding
<1>1. /\ taskQ' = Append(taskQ, t) /\ added' = Append(added, t) /\ t \in Tasks
      /\ taskQ \in Seq(Tasks) /\ added \in Seq(Tasks)
      /\ \A i \in DOMAIN added : added[i] # t
  BY DEF AddPush, Shape, Form, TypeOK, Accounts, AddingIsNew
<1> HIDE DEF t
<1>2. /\ Len(taskQ) \in Nat /\ Len(added) \in Nat
      /\ Len(taskQ') = Len(taskQ) + 1 /\ Len(added') = Len(added) + 1
      /\ taskQ'[Len(taskQ) + 1] = t /\ added'[Len(added) + 1] = t
      /\ \A i \in 1 .. Len(taskQ) : taskQ'[i] = taskQ[i]
      /\ \A i \in 1 .. Len(added) : added'[i] = added[i]
      /\ DOMAIN added = 1 .. Len(added) /\ DOMAIN added' = 1 .. (Len(added) + 1)
  BY <1>1
<1>3. /\ Started' = Started /\ Started \in 0 .. Len(added)
      /\ Started + Len(taskQ) + 1 = Len(added) + 1
  BY <1>2 DEF Started, Accounts, Ledger
<1>4. RunningSlots' = RunningSlots /\ RunningTasks' = RunningTasks
  BY NotifyAllType DEF AddPush, RunningSlots, RunningTasks, Shape, Form, TypeOK
<1>5. AddedOnce'
  BY <1>1, <1>2 DEF Accounts, AddedOnce
<1>6. \A i \in 1 .. Len(taskQ') : taskQ'[i] = added'[Started' + i]
  <2> SUFFICES ASSUME NEW i \in 1 .. Len(taskQ') PROVE taskQ'[i] = added'[Started' + i]
    OBVIOUS
  <2>1. CASE i = Len(taskQ) + 1
    BY <1>2, <1>3, <2>1
  <2>2. CASE i \in 1 .. Len(taskQ)
    BY <1>2, <1>3, <2>2 DEF Accounts, Ledger
  <2>3. QED
    BY <1>2, <2>1, <2>2
<1>7. \A s \in Tasks : s \in RunningTasks' \cup done' <=> \E i \in 1 .. Started' : added'[i] = s
  <2>1. \A i \in 1 .. Started : added'[i] = added[i]
    BY <1>2, <1>3
  <2>2. \A s \in Tasks : s \in RunningTasks \cup done <=> \E i \in 1 .. Started : added[i] = s
    BY DEF Accounts, Ledger
  <2>3. UNCHANGED <<done, Started, RunningTasks>>
    BY <1>3, <1>4 DEF AddPush
  <2>4. QED
    BY <2>1, <2>2, <2>3
<1>8. Len(taskQ') <= Len(added')
  BY <1>2 DEF Accounts, Ledger
<1>9. /\ RunningTasks' \cap done' = {}
      /\ \A v, w \in RunningSlots' : task'[v] = task'[w] => v = w
  BY <1>4 DEF AddPush, Accounts, Ledger
<1>10. QED
  BY <1>5, <1>6, <1>7, <1>8, <1>9 DEF AddPush, Accounts, Ledger, AddingIsNew

LEMMA RunTaskRunning ==
  ASSUME Shape, Accounts, NEW w \in Slots, RunTask(w)
  PROVE  /\ RunningSlots' = RunningSlots \ {w}
         /\ task[w] \in RunningTasks /\ task[w] \in Tasks
         /\ RunningTasks' = RunningTasks \ {task[w]}
         /\ \A v \in RunningSlots' : task'[v] = task[v]
<1>1. /\ RunningSlots' = RunningSlots \ {w} /\ w \in RunningSlots
      /\ \A v \in Slots \ {w} : task'[v] = task[v]
  BY DEF RunTask, RunningSlots, Shape, Form, TypeOK
<1>2. task[w] \in RunningTasks /\ task[w] \in Tasks
  BY <1>1 DEF RunningTasks, Shape, Form, RunnerHoldsTask, RunningSlots
<1>3. \A v \in RunningSlots : task[v] = task[w] => v = w
  BY <1>1 DEF Accounts, Ledger
<1>4. RunningTasks' = RunningTasks \ {task[w]}
  BY <1>1, <1>3 DEF RunningTasks, RunningSlots
<1>5. QED
  BY <1>1, <1>2, <1>4 DEF RunningSlots

LEMMA RunTaskAccounts ==
  ASSUME Shape, Accounts, NEW w \in Slots, RunTask(w)
  PROVE  Accounts'
<1>1. UNCHANGED <<taskQ, added>> /\ Started' = Started /\ done' = done \cup {task[w]}
  BY DEF RunTask, poolVars, Started
<1>2. RunningTasks' \cup done' = RunningTasks \cup done
  BY <1>1, RunTaskRunning
<1>3. RunningTasks' \cap done' = {}
  BY <1>1, RunTaskRunning DEF Accounts, Ledger
<1>4. \A u, v \in RunningSlots' : task'[u] = task'[v] => u = v
  BY RunTaskRunning DEF Accounts, Ledger
<1>5. QED
  BY <1>1, <1>2, <1>3, <1>4 DEF RunTask, Accounts, Ledger, AddedOnce, AddingIsNew

\* notify_all, and starting workers, leave the running ones alone.
LEMMA QuietAccounts ==
  ASSUME Shape, Accounts, [Next]_vars,
         ~AddPush, ~ \E t \in Tasks : AddTest(t),
         ~ \E w \in Slots : WorkerEnter(w) \/ Resume(w) \/ TakeTask(w) \/ RunTask(w)
  PROVE  UNCHANGED <<taskQ, added, done, task, adding>> /\ RunningSlots' = RunningSlots
<1> USE DEF RunningSlots, poolVars, managerVars, history, Shape, Form, TypeOK
<1>1. ASSUME NEW w \in Slots,
             WorkerBlock(w) \/ Retire(w) \/ UpdateBusy(w) \/ SpuriousWake(w)
      PROVE  UNCHANGED <<taskQ, added, done, task, adding>> /\ RunningSlots' = RunningSlots
  BY <1>1 DEF WorkerBlock, Retire, UpdateBusy, SpuriousWake
<1>2. CASE ManagerGrow
  <2>1. PICK new \in SUBSET Slots :
           /\ SlotsToStart(new)
           /\ worker' = [w \in Slots |-> IF w \in new THEN "top" ELSE worker[w]]
    BY <1>2 DEF ManagerGrow
  <2>2. QED
    BY <1>2, <2>1 DEF ManagerGrow, SlotsToStart, EmptySlots
<1>3. CASE ManagerNotify \/ DtorNotify
  BY <1>3, NotifyAllType DEF ManagerNotify, DtorNotify
<1>4. CASE ManagerLoop \/ ManagerSample \/ ManagerShrink \/ DtorShutdown \/ DtorJoined
  BY <1>4 DEF ManagerLoop, ManagerSample, ManagerShrink, DtorShutdown, DtorJoined
<1>5. CASE UNCHANGED vars
  BY <1>5 DEF vars
<1>6. QED
  BY <1>1, <1>2, <1>3, <1>4, <1>5 DEF Next, WorkerStep, ManagerStep, DtorStep

LEMMA AccountsInit == Init => Accounts
<1> SUFFICES ASSUME Init PROVE Accounts
  OBVIOUS
<1>1. RunningSlots = {}
  BY DEF Init, RunningSlots
<1>2. taskQ = <<>> /\ added = <<>> /\ done = {}
  BY DEF Init
<1>3. QED
  BY <1>1, <1>2 DEF Init, Accounts, AddedOnce, AddingIsNew, Ledger, Started, RunningTasks

LEMMA AccountsStep == Shape /\ Accounts /\ [Next]_vars => Accounts'
<1> SUFFICES ASSUME Shape, Accounts, [Next]_vars PROVE Accounts'
  OBVIOUS
<1>0. ASSUME NEW t \in Tasks, AddTest(t) PROVE Accounts'
  <2>1. RunningSlots' = RunningSlots /\ UNCHANGED <<taskQ, added, done, task>>
    BY <1>0 DEF AddTest, RunningSlots, poolVars, history
  <2>2. Started' = Started /\ RunningTasks' = RunningTasks
    BY <2>1 DEF Started, RunningTasks
  <2>3. Ledger' /\ AddedOnce'
    BY <2>1, <2>2, Zenon DEF Accounts, Ledger, AddedOnce
  <2>4. AddingIsNew'
    BY <1>0 DEF AddTest, AddingIsNew, history
  <2>5. QED
    BY <2>3, <2>4 DEF Accounts
<1>1. CASE AddPush
  BY <1>1, AddAccounts
<1>t. ASSUME NEW w \in Slots, TakeTask(w) PROVE Accounts'
  BY <1>t, TakeTaskAccounts
<1>2. ASSUME NEW w \in Slots, WorkerEnter(w) \/ Resume(w) PROVE Accounts'
  BY <1>2, LoopTestAccounts DEF WorkerEnter, Resume, history
<1>3. ASSUME NEW w \in Slots, RunTask(w) PROVE Accounts'
  BY <1>3, RunTaskAccounts
<1>4. QED
  BY <1>0, <1>1, <1>t, <1>2, <1>3, QuietAccounts, SameAccounts

(***************************************************************************)
(* Tasks leave the queue in the order they entered it, each to one worker, *)
(* and none is dropped or run twice.                                       *)
(***************************************************************************)
THEOREM LedgerCorrect == Spec => []Ledger
<1>1. Spec => [](Shape /\ Accounts)
  BY ShapeInit, ShapeStep, AccountsInit, AccountsStep, PTL DEF Spec
<1>2. QED
  BY <1>1, PTL DEF Accounts

-----------------------------------------------------------------------------
(* ThreadPool implements Executor *)

\* A worker that is about to start a task leaves room for it among maxNum.
LEMMA RoomToStart ==
  ASSUME NEW w \in Slots, worker[w] # "running"
  PROVE  Cardinality(RunningTasks) < maxNum
<1> DEFINE f == [v \in RunningSlots |-> task[v]]
<1>1. f \in Surjection(RunningSlots, RunningTasks)
  BY DEF Surjection, RunningTasks
<1>2. /\ IsFiniteSet(RunningSlots)
      /\ RunningSlots \in SUBSET (Slots \ {w})
  BY SlotsFinite DEF RunningSlots
<1>3. Cardinality(RunningTasks) <= Cardinality(RunningSlots) /\ IsFiniteSet(RunningTasks)
  BY <1>1, <1>2, FS_Surjection, Zenon
<1>4. Cardinality(Slots \ {w}) = maxNum - 1 /\ IsFiniteSet(Slots \ {w})
  BY SlotsFinite, FS_RemoveElement
<1>5. Cardinality(RunningSlots) <= maxNum - 1
  BY <1>2, <1>4, FS_Subset
<1>6. /\ Cardinality(RunningTasks) \in Nat
      /\ Cardinality(RunningSlots) \in Nat
  BY <1>2, <1>3, FS_CardinalityType
<1>7. QED
  BY <1>3, <1>5, <1>6, PoolAssumption

\* What Executor calls late: the owner of mutexPool has seen shutdown unset.
Late == shutdown /\ (adding # NoTask \/ TakingSlots # {})

LEMMA LoopTestImplements ==
  ASSUME Shape, NEW w \in Slots, worker[w] \in {"top", "woken"}, LoopTest(w),
         UNCHANGED <<shutdown, done, adding>>
  PROVE  UNCHANGED Abstract!execVars
<1>1. RunningTasks' = RunningTasks /\ UNCHANGED taskQ
  BY DEF LoopTest, PrepareWait, Return, SeeTask, RunningTasks, RunningSlots, Shape, Form, TypeOK
<1>2. Late' = Late
  <2>1. CASE shutdown
    <3>1. TakingSlots' = TakingSlots
      BY <2>1 DEF LoopTest, PrepareWait, Return, SeeTask, TakingSlots, Shape, Form, TypeOK
    <3>2. QED
      BY <3>1 DEF Late
  <2>2. QED
    BY <2>1 DEF Late
<1>3. QED
  BY <1>1, <1>2 DEF Abstract!execVars, Late

LEMMA TakeTaskImplements ==
  ASSUME Shape, NEW w \in Slots, TakeTask(w)
  PROVE  Abstract!Start
<1>1. RunningTasks' = RunningTasks \cup {Head(taskQ)}
  BY TakeTaskRunning
<1>2. Abstract!Cardinality(RunningTasks) < maxNum
  BY RoomToStart DEF TakeTask, Abstract!Cardinality, Cardinality
<1>3. taskQ # <<>> /\ TakingSlots # {} /\ adding = NoTask /\ adding' = NoTask
  BY DEF TakeTask, TakingSlots, Shape, Holding, Holds
<1>4. TakingSlots' = {}
  <2>1. ASSUME NEW v \in Slots, worker'[v] = "toTake" PROVE FALSE
    <3>1. worker[v] = "toTake" /\ v # w /\ worker[w] = "toTake"
      BY <2>1 DEF TakeTask, Shape, Form, TypeOK
    <3>2. QED
      BY <3>1 DEF Shape, Holding, Holds
  <2>2. QED
    BY <2>1 DEF TakingSlots
<1>5. (shutdown \/ ~shutdown) /\ UNCHANGED <<shutdown, done>> /\ taskQ' = Tail(taskQ)
  BY DEF TakeTask, history
<1>6. Abstract!InTime
  BY <1>3, <1>4, <1>5 DEF Abstract!InTime
<1>7. QED
  BY <1>1, <1>2, <1>3, <1>5, <1>6 DEF Abstract!Start

LEMMA ImplementsInit == Init => Abstract!ExecInit
<1> SUFFICES ASSUME Init PROVE Abstract!ExecInit
  OBVIOUS
<1>1. RunningTasks = {} /\ TakingSlots = {}
  BY DEF Init, RunningTasks, RunningSlots, TakingSlots
<1>2. QED
  BY <1>1 DEF Init, Abstract!ExecInit

LEMMA QuietTaking ==
  ASSUME Shape, [Next]_vars,
         ~AddPush, ~ \E t \in Tasks : AddTest(t),
         ~ \E w \in Slots : WorkerEnter(w) \/ Resume(w) \/ TakeTask(w) \/ RunTask(w)
  PROVE  TakingSlots' = TakingSlots
<1> USE DEF TakingSlots, poolVars, managerVars, history, Shape, Form, TypeOK
<1>1. ASSUME NEW w \in Slots,
             WorkerBlock(w) \/ Retire(w) \/ UpdateBusy(w) \/ SpuriousWake(w)
      PROVE  TakingSlots' = TakingSlots
  BY <1>1 DEF WorkerBlock, Retire, UpdateBusy, SpuriousWake
<1>2. CASE ManagerGrow
  <2>1. PICK new \in SUBSET Slots :
           /\ SlotsToStart(new)
           /\ worker' = [w \in Slots |-> IF w \in new THEN "top" ELSE worker[w]]
    BY <1>2 DEF ManagerGrow
  <2>2. QED
    BY <2>1 DEF SlotsToStart, EmptySlots
<1>3. CASE ManagerNotify \/ DtorNotify
  BY <1>3, NotifyAllType DEF ManagerNotify, DtorNotify
<1>4. CASE ManagerLoop \/ ManagerSample \/ ManagerShrink \/ DtorShutdown \/ DtorJoined
  BY <1>4 DEF ManagerLoop, ManagerSample, ManagerShrink, DtorShutdown, DtorJoined
<1>5. CASE UNCHANGED vars
  BY <1>5 DEF vars
<1>6. QED
  BY <1>1, <1>2, <1>3, <1>4, <1>5 DEF Next, WorkerStep, ManagerStep, DtorStep

LEMMA ImplementsStep ==
  Shape /\ Accounts /\ [Next]_vars => [Abstract!ExecNext]_Abstract!execVars
<1> SUFFICES ASSUME Shape, Accounts, [Next]_vars
             PROVE  [Abstract!ExecNext]_Abstract!execVars
  OBVIOUS
<1>0. ASSUME NEW t \in Tasks, AddTest(t) PROVE UNCHANGED Abstract!execVars
  <2>1. ~shutdown /\ UNCHANGED <<shutdown, taskQ, done, task, worker>>
    BY <1>0 DEF AddTest, poolVars, history
  <2>2. RunningTasks' = RunningTasks
    BY <2>1 DEF RunningTasks, RunningSlots
  <2>3. QED
    BY <2>1, <2>2 DEF Abstract!execVars
<1>1. CASE AddPush
  <2> DEFINE t == adding
  <2>1. RunningTasks' = RunningTasks
    BY <1>1, NotifyAllType DEF AddPush, RunningTasks, RunningSlots, Shape, Form, TypeOK
  <2>2. /\ Len(taskQ) \in Nat /\ Len(added) \in Nat
        /\ Started \in 0 .. Len(added) /\ Started + Len(taskQ) = Len(added)
        /\ DOMAIN taskQ = 1 .. Len(taskQ) /\ DOMAIN added = 1 .. Len(added)
    BY DEF Shape, Form, TypeOK, Started, Accounts, Ledger
  <2>n. t \in Tasks /\ \A i \in DOMAIN added : added[i] # t
    BY <1>1 DEF AddPush, Shape, Form, TypeOK, Accounts, AddingIsNew
  <2>3. t \notin RunningTasks \cup done
    <3>1. t \in RunningTasks \cup done <=> \E i \in 1 .. Started : added[i] = t
      BY <2>n DEF Accounts, Ledger
    <3>2. 1 .. Started \subseteq DOMAIN added
      BY <2>2
    <3>3. QED
      BY <2>n, <3>1, <3>2
  <2>4. ASSUME NEW i \in DOMAIN taskQ PROVE taskQ[i] # t
    <3>1. Started + i \in DOMAIN added /\ taskQ[i] = added[Started + i]
      BY <2>2 DEF Accounts, Ledger
    <3>2. QED
      BY <2>n, <3>1
  <2>5. TakingSlots' = {}
    <3>1. \A w \in Slots : worker[w] # "toTake" /\ worker'[w] # "toTake"
      BY <1>1, NotifyAllHolds DEF AddPush, Shape, Holding, Holds
    <3>2. QED
      BY <3>1 DEF TakingSlots
  <2>6. /\ adding # NoTask /\ adding' = NoTask /\ taskQ' = Append(taskQ, t)
        /\ UNCHANGED <<shutdown, done>>
    BY <1>1 DEF AddPush
  <2>7. Abstract!InTime
    BY <2>5, <2>6 DEF Abstract!InTime
  <2>8. Abstract!Submit(t)
    BY <2>1, <2>3, <2>4, <2>6, <2>7 DEF Abstract!Submit
  <2>9. QED
    BY <2>n, <2>8 DEF Abstract!ExecNext
<1>t. ASSUME NEW w \in Slots, TakeTask(w) PROVE Abstract!Start
  BY <1>t, TakeTaskImplements
<1>2. ASSUME NEW w \in Slots, WorkerEnter(w) \/ Resume(w) PROVE UNCHANGED Abstract!execVars
  BY <1>2, LoopTestImplements DEF WorkerEnter, Resume, history
<1>3. ASSUME NEW w \in Slots, RunTask(w)
      PROVE  task[w] \in Tasks /\ Abstract!Finish(task[w])
  <2>1. TakingSlots' = TakingSlots
    BY <1>3 DEF RunTask, TakingSlots, Shape, Form, TypeOK
  <2>2. QED
    BY <1>3, <2>1, RunTaskRunning DEF RunTask, poolVars, Abstract!Finish
<1>4. CASE DtorShutdown
  <2>1. RunningTasks' = RunningTasks /\ TakingSlots' = TakingSlots /\ shutdown'
    BY <1>4 DEF DtorShutdown, RunningTasks, RunningSlots, TakingSlots
  <2>2. UNCHANGED <<taskQ, done, adding>>
    BY <1>4 DEF DtorShutdown, history
  <2>3. CASE shutdown
    BY <2>1, <2>2, <2>3, <1>4 DEF DtorShutdown, Abstract!execVars
  <2>4. CASE ~shutdown
    <3>1. Abstract!Close
      BY <1>4, <2>1, <2>2, <2>4 DEF DtorShutdown, Abstract!Close
    <3>2. QED
      BY <3>1 DEF Abstract!ExecNext
  <2>5. QED
    BY <2>3, <2>4
<1>5. ASSUME ~AddPush, ~ \E t \in Tasks : AddTest(t),
             ~ \E w \in Slots : WorkerEnter(w) \/ Resume(w) \/ TakeTask(w) \/ RunTask(w),
             ~DtorShutdown
      PROVE  UNCHANGED Abstract!execVars
  <2>1. UNCHANGED <<taskQ, added, done, task, adding>> /\ RunningSlots' = RunningSlots
    BY <1>5, QuietAccounts
  <2>2. UNCHANGED shutdown
    BY <1>5 DEF Next, WorkerStep, ManagerStep, DtorStep, WorkerBlock, Retire, UpdateBusy,
                SpuriousWake, ManagerLoop, ManagerSample, ManagerGrow, ManagerShrink,
                ManagerNotify, DtorNotify, DtorJoined, poolVars, vars
  <2>3. TakingSlots' = TakingSlots
    BY <1>5, QuietTaking
  <2>4. QED
    BY <2>1, <2>2, <2>3 DEF Abstract!execVars, RunningTasks
<1>6. QED
  BY <1>0, <1>t, <1>1, <1>2, <1>3, <1>4, <1>5 DEF Abstract!ExecNext

(***************************************************************************)
(* The pool is an executor: tasks start in submission order, at most       *)
(* maxNum at a time, and once shutdown is set one task more is pushed or   *)
(* started at most, by the thread that held mutexPool at that moment       *)
(* (ThreadPool.cpp 38, 95-102).                                            *)
(***************************************************************************)
THEOREM ThreadPoolImplementsExecutor == Spec => ImplementsExecutor
<1>1. Spec => [](Shape /\ Accounts)
  BY ShapeInit, ShapeStep, AccountsInit, AccountsStep, PTL DEF Spec
<1>2. QED
  BY <1>1, ImplementsInit, ImplementsStep,
     PTL DEF Spec, ImplementsExecutor, Abstract!ExecSafety

-----------------------------------------------------------------------------
(***************************************************************************)
(* Destruction.  The manager has returned before the destructor wakes the  *)
(* workers; whoever writes shutdown is the destructor.                     *)
(***************************************************************************)
Over(w) == worker[w] \in {"none", "retired", "returned"}

Ended == /\ shutdown <=> dtor # "alive"
         /\ dtor \in {"joinWorkers", "destroyed"} => manager = "exited"

LEMMA EndedInit == Init => Ended
  BY DEF Init, Ended

\* Once shutdown is set the loop only returns.
LEMMA LoopTestReturns ==
  ASSUME NEW w \in Slots, shutdown, LoopTest(w)
  PROVE  Return(w)
  BY DEF LoopTest, PrepareWait, SeeTask

LEMMA EndedStep == Shape /\ Ended /\ [Next]_vars => Ended'
<1> SUFFICES ASSUME Shape, Ended, [Next]_vars PROVE Ended'
  OBVIOUS
<1> USE DEF Shape, Form, TypeOK, Ended, poolVars, managerVars
<1>1. ASSUME AddPush \/ \E t \in Tasks : AddTest(t) PROVE Ended'
  BY <1>1 DEF AddPush, AddTest
<1>2. ASSUME NEW w \in Slots, WorkerStep(w) \/ SpuriousWake(w) PROVE Ended'
  BY <1>2 DEF WorkerStep, WorkerEnter, WorkerBlock, Retire, Resume, TakeTask, RunTask,
              UpdateBusy, SpuriousWake
<1>3. CASE ManagerStep
  <2>1. manager # "exited" /\ UNCHANGED <<shutdown, dtor>>
    BY <1>3 DEF ManagerStep, ManagerLoop, ManagerSample, ManagerGrow, ManagerShrink,
                ManagerNotify
  <2>2. QED
    BY <2>1
<1>4. CASE DtorShutdown
  BY <1>4 DEF DtorShutdown
<1>5. CASE DtorNotify
  BY <1>5 DEF DtorNotify
<1>6. CASE DtorJoined
  BY <1>6 DEF DtorJoined
<1>7. CASE UNCHANGED vars
  BY <1>7 DEF vars
<1>8. QED
  BY <1>1, <1>2, <1>3, <1>4, <1>5, <1>6, <1>7 DEF Next, DtorStep

LEMMA EndedAlways == Spec => [](Shape /\ Ended)
  BY ShapeInit, ShapeStep, EndedInit, EndedStep, PTL DEF Spec

(***************************************************************************)
(* The safety half of DestructionCompletes.  A worker that is joined while *)
(* it sleeps is one that was between its test and its wait both when       *)
(* shutdown was written and when notify_all was called.                    *)
(***************************************************************************)
NobodyMissed ==
    dtor \in {"joinWorkers", "destroyed"} =>
        \A w \in Slots : worker[w] \notin {"toWait", "waiting"}

NobodyGoesToSleep == \A w \in Slots : worker[w] # "toWait"

\* From here on no worker will go to sleep, and the sleeping ones are woken.
Told == shutdown /\ NobodyGoesToSleep /\ NobodyMissed

LEMMA ToldStep ==
  Shape /\ Ended /\ Told /\ [Next]_vars => Told'
<1> SUFFICES ASSUME Shape, Ended, Told, [Next]_vars PROVE Told'
  OBVIOUS
<1> USE DEF Shape, Form, TypeOK, Told, NobodyGoesToSleep, NobodyMissed, poolVars, managerVars
<1>0. ASSUME NEW t \in Tasks, AddTest(t) PROVE Told'
  BY <1>0 DEF AddTest
<1>1. CASE AddPush
  BY <1>1, NotifyAllType DEF AddPush
<1>2. ASSUME NEW w \in Slots, LoopTest(w), UNCHANGED <<shutdown, dtor>> PROVE Told'
  BY <1>2, LoopTestReturns DEF Return
<1>3. ASSUME NEW w \in Slots, WorkerEnter(w) \/ Resume(w) PROVE Told'
  BY <1>2, <1>3 DEF WorkerEnter, Resume
<1>4. ASSUME NEW w \in Slots,
             WorkerBlock(w) \/ Retire(w) \/ TakeTask(w) \/ RunTask(w) \/ UpdateBusy(w)
                \/ SpuriousWake(w)
      PROVE  Told'
  BY <1>4 DEF WorkerBlock, Retire, TakeTask, RunTask, UpdateBusy, SpuriousWake
<1>5. CASE ManagerStep
  <2>1. manager # "exited" /\ UNCHANGED <<shutdown, dtor>>
    BY <1>5 DEF ManagerStep, ManagerLoop, ManagerSample, ManagerGrow, ManagerShrink,
                ManagerNotify
  <2>2. dtor \notin {"joinWorkers", "destroyed"}
    BY <2>1 DEF Ended
  <2>3. \A w \in Slots : worker'[w] # "toWait"
    BY <1>5, NotifyAllType
       DEF ManagerStep, ManagerLoop, ManagerSample, ManagerGrow, ManagerShrink, ManagerNotify
  <2>4. QED
    BY <2>1, <2>2, <2>3
<1>6. CASE DtorShutdown
  BY <1>6 DEF DtorShutdown, Ended
<1>7. CASE DtorNotify
  BY <1>7, NotifyAllType DEF DtorNotify
<1>8. CASE DtorJoined
  BY <1>8 DEF DtorJoined
<1>9. CASE UNCHANGED vars
  BY <1>9 DEF vars
<1>10. QED
  BY <1>0, <1>1, <1>3, <1>4, <1>5, <1>6, <1>7, <1>8, <1>9 DEF Next, WorkerStep, DtorStep

(***************************************************************************)
(* If, after shutdown was written and before notify_all was called, there  *)
(* is a moment when no worker is between its test and its wait, the        *)
(* destructor never joins a worker that sleeps, or is about to.            *)
(***************************************************************************)
THEOREM WakeUpReachesAll ==
  Spec => [](dtor = "joinManager" /\ NobodyGoesToSleep => []NobodyMissed)
<1>1. Ended /\ dtor = "joinManager" /\ NobodyGoesToSleep => Told
  BY DEF Ended, Told, NobodyMissed
<1>2. Told => NobodyMissed
  BY DEF Told
<1>3. QED
  BY <1>1, <1>2, ToldStep, EndedAlways, PTL DEF Spec

(***************************************************************************)
(* The steps a worker is still to take once it is told to end.             *)
(***************************************************************************)
ToGo(w) == IF worker[w] = "toTake" THEN 4
           ELSE IF worker[w] = "running" THEN 3
           ELSE IF worker[w] = "finished" THEN 2
           ELSE IF Over(w) THEN 0
           ELSE 1

\* A step brings one worker nearer to its end and leaves the others alone.
OneNearer == \E w \in Slots : /\ ToGo(w)' < ToGo(w)
                              /\ \A v \in Slots \ {w} : worker'[v] = worker[v]

\* The caller that was inside Add when shutdown was written leaves it.
CallerGone == adding # NoTask /\ adding' = NoTask /\ \A w \in Slots : worker'[w] = worker[w]

LEMMA ToldApproaches ==
  ASSUME Shape, Ended, Told, Next, dtor = "joinWorkers"
  PROVE  OneNearer \/ CallerGone \/ dtor' = "destroyed"
<1> USE DEF Shape, Form, TypeOK, Told, NobodyMissed
<1>1. ASSUME NEW w \in Slots, WorkerStep(w) PROVE OneNearer
  <2>1. /\ worker[w] \in {"top", "woken", "toTake", "running", "finished"}
        /\ ToGo(w) = IF worker[w] = "toTake" THEN 4
                     ELSE IF worker[w] = "running" THEN 3
                     ELSE IF worker[w] = "finished" THEN 2 ELSE 1
    BY <1>1 DEF WorkerStep, WorkerEnter, WorkerBlock, Retire, Resume, TakeTask, RunTask,
                UpdateBusy, ToGo, Over
  <2>2. CASE worker[w] \in {"top", "woken"}
    <3>1. Retire(w) \/ Return(w)
      BY <1>1, <2>2, LoopTestReturns
         DEF WorkerStep, WorkerEnter, WorkerBlock, Resume, TakeTask, RunTask, UpdateBusy
    <3>2. \/ worker' = [worker EXCEPT ![w] = "retired"]
          \/ worker' = [worker EXCEPT ![w] = "returned"]
      BY <3>1 DEF Retire, Return
    <3>3. ToGo(w)' = 0
      BY <3>2 DEF ToGo, Over
    <3>4. ToGo(w) = 1
      BY <2>1, <2>2
    <3>5. QED
      BY <3>2, <3>3, <3>4 DEF OneNearer
  <2>3. CASE worker[w] = "running"
    <3>1. worker' = [worker EXCEPT ![w] = "finished"]
      BY <1>1, <2>3 DEF WorkerStep, WorkerEnter, WorkerBlock, Retire, Resume, TakeTask,
                        RunTask, UpdateBusy
    <3>2. ToGo(w)' = 2
      BY <3>1 DEF ToGo
    <3>3. QED
      BY <2>1, <2>3, <3>1, <3>2 DEF OneNearer
  <2>4. CASE worker[w] = "finished"
    <3>1. worker' = [worker EXCEPT ![w] = "top"]
      BY <1>1, <2>4 DEF WorkerStep, WorkerEnter, WorkerBlock, Retire, Resume, TakeTask,
                        RunTask, UpdateBusy
    <3>2. ToGo(w)' = 1
      BY <3>1 DEF ToGo, Over
    <3>3. QED
      BY <2>1, <2>4, <3>1, <3>2 DEF OneNearer
  <2>5. CASE worker[w] = "toTake"
    <3>1. worker' = [worker EXCEPT ![w] = "running"]
      BY <1>1, <2>5 DEF WorkerStep, WorkerEnter, WorkerBlock, Retire, Resume, TakeTask,
                        RunTask, UpdateBusy
    <3>2. ToGo(w)' = 3
      BY <3>1 DEF ToGo
    <3>3. QED
      BY <2>1, <2>5, <3>1, <3>2 DEF OneNearer
  <2>6. QED
    BY <2>1, <2>2, <2>3, <2>4, <2>5
<1>2. \A t \in Tasks : ~AddTest(t)
  BY DEF AddTest
<1>a. AddPush => CallerGone
  BY NotifyAllType DEF AddPush, CallerGone
<1>3. \A w \in Slots : ~SpuriousWake(w)
  BY DEF SpuriousWake
<1>4. ~ManagerStep
  BY DEF Ended, ManagerStep, ManagerLoop, ManagerSample, ManagerGrow, ManagerShrink,
         ManagerNotify
<1>5. ~DtorShutdown /\ (DtorStep => dtor' = "destroyed")
  BY DEF DtorShutdown, DtorStep, DtorNotify, DtorJoined
<1>6. QED
  BY <1>a, <1>1, <1>2, <1>3, <1>4, <1>5 DEF Next

(***************************************************************************)
(* Under the same condition the join is a matter of finitely many steps:   *)
(* each one but the last takes a worker nearer to its end, at most four    *)
(* per worker, and nothing takes one back (ThreadPool.cpp 36-47).          *)
(***************************************************************************)
THEOREM JoinIsBounded ==
  Spec => [](dtor = "joinManager" /\ NobodyGoesToSleep =>
                [][dtor = "joinWorkers" =>
                       OneNearer \/ CallerGone \/ dtor' = "destroyed"]_vars)
<1>1. Ended /\ dtor = "joinManager" /\ NobodyGoesToSleep => Told
  BY DEF Ended, Told, NobodyMissed
<1>2. Shape /\ Ended /\ Told /\ [Next]_vars
        => [dtor = "joinWorkers" =>
                       OneNearer \/ CallerGone \/ dtor' = "destroyed"]_vars
  BY ToldApproaches
<1>3. QED
  BY <1>1, <1>2, ToldStep, EndedAlways, PTL DEF Spec
=============================================================================
