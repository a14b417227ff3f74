--------------------------- MODULE TaskLifecycle ----------------------------
(***************************************************************************)
(* The life of a task of src/code/task: the thread its constructor starts, *)
(* the calls that control it, its destructor.  TaskHttp, TaskWebSocket and *)
(* TaskSerial contain the same loop and the same four calls; they differ   *)
(* in what the constructor sets and in what the destructor does.           *)
(*                                                                         *)
(* Every call is one critical section of handle_mutex.  The thread tests   *)
(* taskstate without it, then locks, and waits without a predicate; when   *)
(* it wakes up it sets taskstate itself, whatever woke it.                 *)
(***************************************************************************)
CONSTANT Kinds   \* the tasks considered

ASSUME LifecycleAssumption == Kinds \subseteq {"TaskHttp", "TaskWebSocket", "TaskSerial"}

VARIABLES kind,
          taskstate, isStopThread,
          thread,    \* where the thread is
          dtor,      \* where the destructor is
          wanted,    \* history: the last call was start, or a resume that had effect
          upsets     \* history: what has happened since that call, or since the
                     \* beginning, that the flags do not foresee

vars == <<kind, taskstate, isStopThread, thread, dtor, wanted, upsets>>

States == {"ready", "start", "stop", "cancel"}

\* TaskSerial never initialises taskstate.
InitialStates(k) == IF k = "TaskSerial" THEN States ELSE {"ready"}

Init == /\ kind \in Kinds
        /\ taskstate \in InitialStates(kind)
        /\ isStopThread = FALSE
        /\ thread = "test"
        /\ dtor = "alive"
        /\ wanted = FALSE
        /\ upsets = IF taskstate = "start" THEN {"uninitialised"} ELSE {}

Upset(what, if) == upsets' = IF if THEN upsets \cup {what} ELSE upsets

\* A new call to work; it is missed if the thread is between test and wait.
Told == /\ wanted' = TRUE
        /\ upsets' = IF thread = "toLock" THEN {"missed"} ELSE {}

-----------------------------------------------------------------------------
(* The thread *)

Runs == dtor # "terminated"

TestState ==
    /\ Runs /\ thread = "test"
    /\ thread' = IF taskstate = "start" THEN "work" ELSE "toLock"
    /\ UNCHANGED <<kind, taskstate, isStopThread, dtor, wanted, upsets>>

\* operation() or serialTaskRun() returns, which it need not: serialTaskRun waits for
\* a reply without a timeout (SerialPoll), operation() for an answer of Setting.
WorkDone ==
    /\ Runs /\ thread = "work"
    /\ thread' = "test"
    /\ UNCHANGED <<kind, taskstate, isStopThread, dtor, wanted, upsets>>

\* Slip: the wait is not guarded by isStopThread.
LockAndWaitSlip ==
    /\ Runs /\ thread = "toLock"
    /\ thread' = "waiting"
    /\ UNCHANGED <<kind, taskstate, isStopThread, dtor, wanted, upsets>>

LockAndWait ==
    /\ Runs /\ thread = "toLock"
    /\ thread' = IF isStopThread THEN "returned" ELSE "waiting"
    /\ UNCHANGED <<kind, taskstate, isStopThread, dtor, wanted, upsets>>

SpuriousWake ==
    /\ Runs /\ thread = "waiting"
    /\ thread' = "woken"
    /\ Upset("spurious", ~wanted)
    /\ UNCHANGED <<kind, taskstate, isStopThread, dtor, wanted>>

\* Slip: isStopThread is tested before the wait only.
WakeSlip ==
    /\ Runs /\ thread = "woken"
    /\ taskstate' = "start" /\ thread' = "test"
    /\ UNCHANGED <<kind, isStopThread, dtor, wanted, upsets>>

Wake ==
    /\ Runs /\ thread = "woken"
    /\ \/ isStopThread /\ thread' = "returned" /\ UNCHANGED taskstate
       \/ ~isStopThread /\ taskstate' = "start" /\ thread' = "test"
    /\ UNCHANGED <<kind, isStopThread, dtor, wanted, upsets>>

-----------------------------------------------------------------------------
(* The calls *)

\* Slip: the waiting thread is not notified.
NotifyAllSlip == thread' = thread

NotifyAll == thread' = IF thread = "waiting" THEN "woken" ELSE thread

Start ==
    /\ dtor = "alive"
    /\ taskstate' = "start"
    /\ NotifyAll
    /\ Told
    /\ UNCHANGED <<kind, isStopThread, dtor>>

\* A thread that has been notified and has yet to lock overwrites the pause.
Pause ==
    /\ dtor = "alive"
    /\ taskstate' = "stop"
    /\ wanted' = FALSE
    /\ Upset("stale", thread = "woken")
    /\ UNCHANGED <<kind, isStopThread, thread, dtor>>

\* Slip: a cancelled task is started again.
ResumedSlip == "start"

Resumed == IF taskstate # "cancel" THEN "start" ELSE taskstate

\* The thread is notified even if the task stays cancelled.
Resume ==
    /\ dtor = "alive"
    /\ taskstate' = Resumed
    /\ NotifyAll
    /\ \/ taskstate # "cancel" /\ Told
       \/ /\ taskstate = "cancel"
          /\ UNCHANGED wanted
          /\ Upset("revived", thread = "waiting")
    /\ UNCHANGED <<kind, isStopThread, dtor>>

\* Slip: stop ends the thread, which the destructor should do.
StopSlip ==
    /\ dtor = "alive"
    /\ taskstate' = "cancel"
    /\ isStopThread' = TRUE
    /\ wanted' = FALSE
    /\ Upset("stale", thread = "woken")
    /\ UNCHANGED <<kind, thread, dtor>>

Stop ==
    /\ dtor = "alive"
    /\ taskstate' = "cancel"
    /\ wanted' = FALSE
    /\ Upset("stale", thread = "woken")
    /\ UNCHANGED <<kind, isStopThread, thread, dtor>>

-----------------------------------------------------------------------------
(* The destructor *)

\* Slip: the state is left as it is, so a working thread never looks at isStopThread.
DestroySlip ==
    /\ dtor = "alive" /\ kind # "TaskWebSocket"
    /\ isStopThread' = TRUE
    /\ NotifyAll
    /\ dtor' = "joining"
    /\ wanted' = FALSE
    /\ UNCHANGED <<kind, taskstate, upsets>>

Destroy ==
    /\ dtor = "alive" /\ kind # "TaskWebSocket"
    /\ isStopThread' = TRUE
    /\ taskstate' = "cancel"
    /\ NotifyAll
    /\ dtor' = "joining"
    /\ wanted' = FALSE
    /\ UNCHANGED <<kind, upsets>>

\* A joinable std::thread member is destroyed: std::terminate.
DestroyUnjoined ==
    /\ dtor = "alive" /\ kind = "TaskWebSocket"
    /\ dtor' = "terminated"
    /\ wanted' = FALSE
    /\ UNCHANGED <<kind, taskstate, isStopThread, thread, upsets>>

\* TaskSerial joins one of its two threads; the other, recv_thread, never ends.
Join ==
    /\ dtor = "joining"
    /\ thread = "returned"
    /\ dtor' = IF kind = "TaskSerial" THEN "terminated" ELSE "joined"
    /\ UNCHANGED <<kind, taskstate, isStopThread, thread, wanted, upsets>>

-----------------------------------------------------------------------------
ThreadStep == TestState \/ WorkDone \/ LockAndWait \/ Wake

Call == Start \/ Pause \/ Resume \/ Stop

Next == ThreadStep \/ SpuriousWake \/ Call \/ Destroy \/ DestroyUnjoined \/ Join

Spec == Init /\ [][Next]_vars

\* The loop of the thread and the destructor are scheduled; a pass of the work need
\* not end, and nobody need call anything.
FairSpec == Spec /\ WF_vars(TestState \/ LockAndWait \/ Wake) /\ WF_vars(Join)

-----------------------------------------------------------------------------
(* Properties *)

TypeOK ==
    /\ kind \in Kinds
    /\ taskstate \in States
    /\ isStopThread \in BOOLEAN
    /\ thread \in {"test", "work", "toLock", "waiting", "woken", "returned"}
    /\ dtor \in {"alive", "joining", "joined", "terminated"}
    /\ isStopThread => dtor # "alive" /\ taskstate = "cancel"
    /\ wanted \in BOOLEAN
    /\ upsets \subseteq {"uninitialised", "spurious", "missed", "stale", "revived"}

Control == INSTANCE TaskControl
           WITH working <- thread = "work", closed <- dtor # "alive"

(***************************************************************************)
(* The task does as it is told: it implements TaskControl, unless, since   *)
(* it was last told to work, it was told to pause while a wake-up was      *)
(* under way, or resumed although cancelled, or woken up spuriously, or    *)
(* its first state was whatever the memory held.                           *)
(***************************************************************************)
Excused == upsets \cap {"stale", "revived", "spurious", "uninitialised"} # {}

AsTold == /\ Control!ControlInit
          /\ [][Control!ControlNext \/ Excused]_(Control!controlVars)

(***************************************************************************)
(* The thread sleeps although taskstate says start only if that start or   *)
(* resume came between its test and its wait.                              *)
(***************************************************************************)
SleepsOnlyIfMissed ==
    thread = "waiting" /\ taskstate = "start" => "missed" \in upsets

(***************************************************************************)
(* A task that is wanted from some time on works again and again, unless   *)
(* the call that wanted it fell between the thread's test and its wait;    *)
(* nothing else keeps it from working.                                     *)
(***************************************************************************)
WantedWorks == <>[](wanted /\ "missed" \notin upsets) => []<>(thread = "work")

(***************************************************************************)
(* From the moment the destructor has left its critical section no pass of *)
(* the work begins, whatever calls, wake-ups and tests were under way.     *)
(***************************************************************************)
NoWorkAfterDestroy ==
    [][thread # "work" /\ thread' = "work" => dtor = "alive"]_<<thread, dtor>>

(***************************************************************************)
(* The destructor's join() returns, unless the pass of the work that is    *)
(* under way never does; a thread that sleeps, or is about to, never holds *)
(* it up.                                                                  *)
(***************************************************************************)
JoinReturns == dtor = "joining" ~> dtor # "joining" \/ [](thread = "work")
=============================================================================
