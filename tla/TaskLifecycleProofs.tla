------------------------ MODULE TaskLifecycleProofs -------------------------
(***************************************************************************)
(* Theorems about TaskLifecycle for each of the three tasks and every      *)
(* sequence of calls.                                                      *)
(***************************************************************************)
EXTENDS TaskLifecycle, Naturals, TLAPS

(***************************************************************************)
(* Types *)
(***************************************************************************)
LEMMA TypeInit == Init => TypeOK
  BY DEF Init, TypeOK, InitialStates, States

LEMMA TypeThread == TypeOK /\ (ThreadStep \/ SpuriousWake) => TypeOK'
<1> SUFFICES ASSUME TypeOK, ThreadStep \/ SpuriousWake PROVE TypeOK'
  OBVIOUS
<1> USE DEF TypeOK
<1>1. CASE TestState
  BY <1>1 DEF TestState, States
<1>2. CASE WorkDone
  BY <1>2 DEF WorkDone, States
<1>3. CASE LockAndWait
  BY <1>3 DEF LockAndWait, States
<1>4. CASE Wake
  BY <1>4 DEF Wake, States
<1>5. CASE SpuriousWake
  BY <1>5 DEF SpuriousWake, Upset, States
<1>6. QED
  BY <1>1, <1>2, <1>3, <1>4, <1>5 DEF ThreadStep

LEMMA TypeCall == TypeOK /\ Call => TypeOK'
<1> SUFFICES ASSUME TypeOK, Call PROVE TypeOK'
  OBVIOUS
<1> USE DEF TypeOK, NotifyAll, Upset, Told
<1>1. CASE Start
  BY <1>1 DEF Start, States
<1>2. CASE Pause
  BY <1>2 DEF Pause, States
<1>3. CASE Resume
  BY <1>3 DEF Resume, Resumed, States
<1>4. CASE Stop
  BY <1>4 DEF Stop, States
<1>5. QED
  BY <1>1, <1>2, <1>3, <1>4 DEF Call

LEMMA TypeDestructor == TypeOK /\ (Destroy \/ DestroyUnjoined \/ Join) => TypeOK'
<1> SUFFICES ASSUME TypeOK, Destroy \/ DestroyUnjoined \/ Join PROVE TypeOK'
  OBVIOUS
<1> USE DEF TypeOK
<1>1. CASE Destroy
  BY <1>1 DEF Destroy, NotifyAll, States
<1>2. CASE DestroyUnjoined
  BY <1>2 DEF DestroyUnjoined, States
<1>3. CASE Join
  BY <1>3 DEF Join, States
<1>4. QED
  BY <1>1, <1>2, <1>3

LEMMA TypeStep == TypeOK /\ [Next]_vars => TypeOK'
<1>1. ASSUME TypeOK, UNCHANGED vars PROVE TypeOK'
  BY <1>1 DEF TypeOK, vars
<1>2. QED
  BY <1>1, TypeThread, TypeCall, TypeDestructor DEF Next

(***************************************************************************)
(* The types hold (the flags of TaskHttp.cpp, TaskWebSocket.cpp and        *)
(* TaskSerial.cpp); once isStopThread is set, taskstate stays "cancel".    *)
(***************************************************************************)
THEOREM TypeCorrect == Spec => []TypeOK
  BY TypeInit, TypeStep, PTL DEF Spec

-----------------------------------------------------------------------------
(***************************************************************************)
(* Sleep.  The thread goes to sleep only after a test that did not find    *)
(* "start", so the fact to keep begins at that test.                       *)
(***************************************************************************)
PastTest == thread \in {"toLock", "waiting"} /\ taskstate = "start" => "missed" \in upsets

LEMMA PastTestInit == Init => PastTest
  BY DEF Init, PastTest

LEMMA PastTestStep == PastTest /\ TypeOK /\ [Next]_vars => PastTest'
<1> SUFFICES ASSUME PastTest, TypeOK, [Next]_vars PROVE PastTest'
  OBVIOUS
<1> USE DEF PastTest
<1>1. CASE TestState
  BY <1>1 DEF TestState
<1>2. CASE WorkDone
  BY <1>2 DEF WorkDone
<1>3. CASE LockAndWait
  BY <1>3 DEF LockAndWait
<1>4. CASE Wake
  BY <1>4 DEF Wake
<1>5. CASE SpuriousWake
  BY <1>5 DEF SpuriousWake
<1>6. CASE Start
  BY <1>6 DEF Start, NotifyAll, Told
<1>7. CASE Pause
  BY <1>7 DEF Pause
<1>8. CASE Resume
  <2>1. CASE taskstate # "cancel"
    BY <1>8, <2>1 DEF Resume, NotifyAll, Told
  <2>2. CASE taskstate = "cancel"
    BY <1>8, <2>2 DEF Resume, Resumed
  <2>3. QED
    BY <2>1, <2>2
<1>9. CASE Stop
  BY <1>9 DEF Stop
<1>10. CASE Destroy
  BY <1>10 DEF Destroy
<1>11. CASE DestroyUnjoined
  BY <1>11 DEF DestroyUnjoined
<1>12. CASE Join
  BY <1>12 DEF Join
<1>13. CASE UNCHANGED vars
  BY <1>13 DEF vars
<1>14. QED
  BY <1>1, <1>2, <1>3, <1>4, <1>5, <1>6, <1>7, <1>8, <1>9, <1>10, <1>11, <1>12, <1>13
     DEF Next, ThreadStep, Call

(***************************************************************************)
(* The thread sleeps on a state "start" only if that start or resume fell  *)
(* between its test and its wait (TaskHttp.cpp 17-21).                     *)
(***************************************************************************)
THEOREM SleepCorrect == Spec => []SleepsOnlyIfMissed
<1>1. PastTest => SleepsOnlyIfMissed
  BY DEF PastTest, SleepsOnlyIfMissed
<1>2. QED
  BY <1>1, PastTestInit, PastTestStep, TypeCorrect, PTL DEF Spec

-----------------------------------------------------------------------------
(***************************************************************************)
(* Control.  Two things let a pass begin: the state, and a wake-up that    *)
(* will set it.  While the task lives, each is owed to a call to work or   *)
(* to something the flags do not foresee; after that, isStopThread is set. *)
(***************************************************************************)
Led == /\ dtor = "alive" /\ (taskstate = "start" \/ thread = "woken") => wanted \/ Excused
       /\ dtor \in {"joining", "joined"} => isStopThread

LEMMA LedInit == Init => Led
  BY DEF Init, Led, Excused

LEMMA LedStep == Led /\ TypeOK /\ [Next]_vars => Led'
<1> SUFFICES ASSUME Led, TypeOK, [Next]_vars PROVE Led'
  OBVIOUS
<1> USE DEF Led, Excused
<1>1. CASE TestState
  BY <1>1 DEF TestState
<1>2. CASE WorkDone
  BY <1>2 DEF WorkDone
<1>3. CASE LockAndWait
  BY <1>3 DEF LockAndWait
<1>4. CASE Wake
  BY <1>4 DEF Wake
<1>5. CASE SpuriousWake
  BY <1>5 DEF SpuriousWake, Upset
<1>6. CASE Start
  BY <1>6 DEF Start, Told, TypeOK
<1>7. CASE Pause
  BY <1>7 DEF Pause, Upset
<1>8. CASE Resume
  <2>1. CASE taskstate # "cancel"
    BY <1>8, <2>1 DEF Resume, Told
  <2>2. CASE taskstate = "cancel"
    BY <1>8, <2>2 DEF Resume, Resumed, NotifyAll, Upset
  <2>3. QED
    BY <2>1, <2>2
<1>9. CASE Stop
  BY <1>9 DEF Stop, Upset
<1>10. CASE Destroy
  BY <1>10 DEF Destroy
<1>11. CASE DestroyUnjoined
  BY <1>11 DEF DestroyUnjoined
<1>12. CASE Join
  BY <1>12 DEF Join
<1>13. CASE UNCHANGED vars
  BY <1>13 DEF vars
<1>14. QED
  BY <1>1, <1>2, <1>3, <1>4, <1>5, <1>6, <1>7, <1>8, <1>9, <1>10, <1>11, <1>12, <1>13
     DEF Next, ThreadStep, Call

(***************************************************************************)
(* No step but the test of taskstate begins a pass of the work, and the    *)
(* test does so only before the destructor.                                *)
(***************************************************************************)
LEMMA BeginsAlive ==
  ASSUME Led, TypeOK, [Next]_vars, thread # "work", thread' = "work"
  PROVE  TestState /\ taskstate = "start" /\ dtor = "alive"
<1>1. TestState
  BY DEF Next, ThreadStep, Call, WorkDone, LockAndWait, Wake, SpuriousWake, Start, Pause,
         Resume, Stop, Destroy, DestroyUnjoined, Join, NotifyAll, vars
<1>2. taskstate = "start"
  BY <1>1 DEF TestState
<1>3. dtor = "alive"
  BY <1>1, <1>2 DEF TestState, Runs, Led, TypeOK
<1>4. QED
  BY <1>1, <1>2, <1>3

(***************************************************************************)
(* From the moment the destructor has left its critical section, or has    *)
(* terminated the program, no pass of the work begins.                     *)
(***************************************************************************)
THEOREM DestroyCorrect == Spec => NoWorkAfterDestroy
<1>1. Led /\ TypeOK /\ [Next]_vars =>
        [thread # "work" /\ thread' = "work" => dtor = "alive"]_<<thread, dtor>>
  BY BeginsAlive
<1>2. QED
  BY <1>1, LedInit, LedStep, TypeCorrect, PTL DEF Spec, NoWorkAfterDestroy

(***************************************************************************)
(* Every step is one of TaskControl, or leaves it unchanged, unless it is  *)
(* excused.                                                                *)
(***************************************************************************)
LEMMA StepAsTold ==
  Led /\ TypeOK /\ [Next]_vars => [Control!ControlNext \/ Excused]_(Control!controlVars)
<1> SUFFICES ASSUME Led, TypeOK, [Next]_vars, ~Excused
             PROVE  Control!ControlNext \/ UNCHANGED Control!controlVars
  OBVIOUS
<1> USE DEF Control!ControlNext, Control!controlVars
<1>1. CASE TestState
  <2>1. CASE taskstate = "start"
    <3>1. dtor = "alive" /\ thread' = "work"
      BY <1>1, <2>1 DEF TestState, Runs, Led, TypeOK
    <3>2. wanted
      BY <2>1, <3>1 DEF Led
    <3>3. QED
      BY <1>1, <3>1, <3>2 DEF TestState, Control!Begin
  <2>2. CASE taskstate # "start"
    BY <1>1, <2>2 DEF TestState
  <2>3. QED
    BY <2>1, <2>2
<1>2. CASE WorkDone
  BY <1>2 DEF WorkDone, Control!End
<1>3. CASE LockAndWait
  BY <1>3 DEF LockAndWait
<1>4. CASE Wake
  BY <1>4 DEF Wake
<1>5. CASE SpuriousWake
  BY <1>5 DEF SpuriousWake
<1>6. CASE Start
  BY <1>6 DEF Start, NotifyAll, Told, Control!Tell
<1>7. CASE Pause
  BY <1>7 DEF Pause, Control!Tell
<1>8. CASE Resume
  BY <1>8 DEF Resume, NotifyAll, Told, Control!Tell
<1>9. CASE Stop
  BY <1>9 DEF Stop, Control!Tell
<1>10. CASE Destroy
  BY <1>10 DEF Destroy, NotifyAll, Control!Close
<1>11. CASE DestroyUnjoined
  BY <1>11 DEF DestroyUnjoined, Control!Close
<1>12. CASE Join
  BY <1>12 DEF Join
<1>13. CASE UNCHANGED vars
  BY <1>13 DEF vars
<1>14. QED
  BY <1>1, <1>2, <1>3, <1>4, <1>5, <1>6, <1>7, <1>8, <1>9, <1>10, <1>11, <1>12, <1>13
     DEF Next, ThreadStep, Call

(***************************************************************************)
(* The task implements TaskControl: a pass begins only while the last call *)
(* was one to work, unless something the flags do not foresee has happened *)
(* since it was last told to work.                                         *)
(***************************************************************************)
THEOREM ImplementsControl == Spec => AsTold
<1>1. Init => Control!ControlInit
  BY DEF Init, Control!ControlInit
<1>2. QED
  BY <1>1, StepAsTold, LedInit, LedStep, TypeCorrect, PTL DEF Spec, AsTold

-----------------------------------------------------------------------------
(***************************************************************************)
(* The safety half of JoinReturns.  The destructor's notification reaches  *)
(* a thread that waits, and a thread that does not finds isStopThread when *)
(* it locks: nobody is asleep while it is joined.                          *)
(***************************************************************************)
AwakeWhileJoined == dtor = "joining" => isStopThread /\ thread # "waiting"

LEMMA AwakeStep == AwakeWhileJoined /\ TypeOK /\ [Next]_vars => AwakeWhileJoined'
<1> SUFFICES ASSUME AwakeWhileJoined, TypeOK, [Next]_vars PROVE AwakeWhileJoined'
  OBVIOUS
<1> USE DEF AwakeWhileJoined
<1>1. CASE ThreadStep \/ SpuriousWake
  BY <1>1 DEF ThreadStep, TestState, WorkDone, LockAndWait, Wake, SpuriousWake
<1>2. CASE Call
  BY <1>2 DEF Call, Start, Pause, Resume, Stop
<1>3. CASE Destroy
  BY <1>3 DEF Destroy, NotifyAll
<1>4. CASE DestroyUnjoined \/ Join
  BY <1>4 DEF DestroyUnjoined, Join
<1>5. CASE UNCHANGED vars
  BY <1>5 DEF vars
<1>6. QED
  BY <1>1, <1>2, <1>3, <1>4, <1>5 DEF Next

LEMMA AwakeAlways == Spec => [](AwakeWhileJoined /\ Led /\ TypeOK)
<1>1. Init => AwakeWhileJoined
  BY DEF Init, AwakeWhileJoined
<1>2. QED
  BY <1>1, AwakeStep, LedInit, LedStep, TypeCorrect, PTL DEF Spec

(***************************************************************************)
(* The thread is never asleep while the destructor waits for it, wherever  *)
(* it was when the destructor took the lock.                               *)
(***************************************************************************)
THEOREM AwakeCorrect == Spec => []AwakeWhileJoined
  BY AwakeAlways, PTL

\* How far the thread is from the end of its loop once isStopThread is set.
ToGo == IF thread = "work" THEN 3
        ELSE IF thread = "test" THEN 2
        ELSE IF thread = "returned" THEN 0
        ELSE 1

(***************************************************************************)
(* join() is a matter of at most three steps of the thread: while it is    *)
(* called nothing happens but a step that takes the thread nearer to its   *)
(* end, and the return of join itself (TaskHttp.cpp 13-40, 46-56).         *)
(***************************************************************************)
JoinIsNear == [][dtor = "joining" => ToGo' < ToGo \/ dtor' # "joining"]_vars

THEOREM JoinIsBounded == Spec => JoinIsNear
<1>1. AwakeWhileJoined /\ Led /\ TypeOK /\ [Next]_vars
        => [dtor = "joining" => ToGo' < ToGo \/ dtor' # "joining"]_vars
  <2> SUFFICES ASSUME AwakeWhileJoined, TypeOK, Next, dtor = "joining"
               PROVE  ToGo' < ToGo \/ dtor' # "joining"
    OBVIOUS
  <2>1. taskstate = "cancel" /\ isStopThread /\ thread # "waiting"
    BY DEF AwakeWhileJoined, TypeOK
  <2>2. CASE ThreadStep
    <3>1. \/ thread = "work" /\ thread' = "test"
          \/ thread = "test" /\ thread' = "toLock"
          \/ thread \in {"toLock", "woken"} /\ thread' = "returned"
      BY <2>1, <2>2 DEF ThreadStep, TestState, WorkDone, LockAndWait, Wake
    <3>2. QED
      BY <3>1 DEF ToGo
  <2>3. ~SpuriousWake /\ ~Call /\ ~Destroy /\ ~DestroyUnjoined
    BY <2>1 DEF SpuriousWake, Call, Start, Pause, Resume, Stop, Destroy, DestroyUnjoined
  <2>4. CASE Join
    BY <2>4 DEF Join
  <2>5. QED
    BY <2>2, <2>3, <2>4 DEF Next
<1>2. QED
  BY <1>1, AwakeAlways, PTL DEF Spec, JoinIsNear

-----------------------------------------------------------------------------
(***************************************************************************)
(* The safety half of WantedWorks.  The state of a task that is wanted is  *)
(* "start", whatever the thread itself writes to it, and unless the call   *)
(* was missed the thread is at work or on its way there.                   *)
(***************************************************************************)
WantedReady ==
    wanted => /\ taskstate = "start"
              /\ dtor = "alive"
              /\ "missed" \notin upsets => thread \in {"work", "test", "woken"}

\* A living task has a thread: a call to work finds somebody to do it.
Ready == WantedReady /\ (thread = "returned" => isStopThread)

LEMMA ReadyStep == Ready /\ TypeOK /\ [Next]_vars => Ready'
<1> SUFFICES ASSUME Ready, TypeOK, [Next]_vars PROVE Ready'
  OBVIOUS
<1> USE DEF Ready, WantedReady, TypeOK
<1>1. CASE ThreadStep
  BY <1>1 DEF ThreadStep, TestState, WorkDone, LockAndWait, Wake
<1>2. CASE SpuriousWake
  BY <1>2 DEF SpuriousWake, Upset
<1>3. CASE Start
  BY <1>3 DEF Start, NotifyAll, Told
<1>4. CASE Pause \/ Stop
  BY <1>4 DEF Pause, Stop
<1>5. CASE Resume
  <2>1. CASE taskstate # "cancel"
    BY <1>5, <2>1 DEF Resume, Resumed, NotifyAll, Told
  <2>2. CASE taskstate = "cancel"
    BY <1>5, <2>2 DEF Resume, NotifyAll
  <2>3. QED
    BY <2>1, <2>2
<1>6. CASE Destroy \/ DestroyUnjoined
  BY <1>6 DEF Destroy, DestroyUnjoined, NotifyAll
<1>7. CASE Join
  BY <1>7 DEF Join
<1>8. CASE UNCHANGED vars
  BY <1>8 DEF vars
<1>9. QED
  BY <1>1, <1>2, <1>3, <1>4, <1>5, <1>6, <1>7, <1>8 DEF Next, Call

LEMMA ReadyAlways == Spec => [](WantedReady /\ TypeOK)
<1>1. Init => Ready
  BY DEF Init, Ready, WantedReady
<1>2. Ready => WantedReady
  BY DEF Ready
<1>3. QED
  BY <1>1, <1>2, ReadyStep, TypeCorrect, PTL DEF Spec

(***************************************************************************)
(* A wanted task is in state "start" and, unless the call was missed, its  *)
(* thread neither sleeps nor is about to.                                  *)
(***************************************************************************)
THEOREM ReadyCorrect == Spec => []WantedReady
  BY ReadyAlways, PTL

\* How far the thread is from its work, when it is on its way there.
ToWork == IF thread = "work" THEN 0 ELSE IF thread = "test" THEN 1 ELSE 2

(***************************************************************************)
(* A task that is wanted, by a call that was not missed, is at most two    *)
(* steps of its thread from its work, and each step of the thread that is  *)
(* not the end of a pass brings it nearer (TaskHttp.cpp 13-40).            *)
(***************************************************************************)
WantedIsNear ==
    [][wanted /\ "missed" \notin upsets /\ ThreadStep
          => thread = "work" \/ ToWork' < ToWork]_vars

THEOREM WantedIsNearCorrect == Spec => WantedIsNear
<1>1. WantedReady /\ TypeOK /\ [Next]_vars
        => [wanted /\ "missed" \notin upsets /\ ThreadStep
              => thread = "work" \/ ToWork' < ToWork]_vars
  <2> SUFFICES ASSUME WantedReady, TypeOK, wanted, "missed" \notin upsets, ThreadStep,
                      thread # "work"
               PROVE  ToWork' < ToWork
    OBVIOUS
  <2>1. /\ taskstate = "start" /\ ~isStopThread
        /\ thread \in {"test", "woken"}
    BY DEF WantedReady, TypeOK
  <2>2. \/ thread = "test" /\ thread' = "work"
        \/ thread = "woken" /\ thread' = "test"
    BY <2>1 DEF ThreadStep, TestState, WorkDone, LockAndWait, Wake
  <2>3. QED
    BY <2>2 DEF ToWork
<1>2. QED
  BY <1>1, ReadyAlways, PTL DEF Spec, WantedIsNear
=============================================================================
