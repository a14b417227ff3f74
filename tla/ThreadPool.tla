----------------------------- MODULE ThreadPool -----------------------------
(***************************************************************************)
(* CommonLib::ThreadPool (src/code/common/ThreadPool.{h,cpp}): a queue of  *)
(* tasks, workers that take from it, a manager thread that starts and      *)
(* retires workers every three seconds, and a destructor that joins them   *)
(* all.  MessageQueue and ServiceQueue hand every callback of the program  *)
(* to such a pool.                                                         *)
(*                                                                         *)
(* A worker is named by the element of threadIDs that holds its            *)
(* std::thread.  An element whose worker returned still holds a joinable   *)
(* std::thread, so the manager never sees it as free again: a slot is used *)
(* at most once, and a slot and a worker are the same thing.               *)
(*                                                                         *)
(* mutexPool: a critical section is a single step, unless it tests         *)
(* shutdown.  The destructor writes shutdown and calls notify_all without  *)
(* the mutex, so it can act between such a test and what the owner of the  *)
(* mutex does next: wait ("toWait"), take a task ("toTake"), or push one   *)
(* (adding).                                                               *)
(***************************************************************************)
EXTENDS Integers, Sequences, FiniteSets

CONSTANTS minNum, maxNum,   \* the pool's smallest and largest size
          NUMBER,           \* workers started or retired at a time
          Tasks,            \* the tasks callers may add, each once
          NoTask            \* the task of a worker that holds none

ASSUME PoolAssumption == /\ minNum \in Nat \ {0}
                         /\ maxNum \in Nat
                         /\ minNum <= maxNum
                         /\ NUMBER \in Nat \ {0}
                         /\ NoTask \notin Tasks

Slots == 0 .. maxNum - 1

WorkerState == {"none",      \* threadIDs[i] is default-constructed
                "top",       \* about to lock mutexPool at the top of the loop
                "toWait",    \* holds mutexPool, will block in cond.wait
                "toTake",    \* holds mutexPool, will take a task
                "waiting",   \* blocked in cond.wait
                "woken",     \* left cond.wait, needs mutexPool again
                "running",   \* executing its task
                "finished",  \* task done, busyNum not yet decremented
                "retired",   \* returned on the manager's request
                "returned"}  \* returned because of shutdown

VARIABLES taskQ, busyNum, liveNum, exitNum, shutdown,
          worker,      \* [Slots -> WorkerState]
          task,        \* the local variable task of each worker
          manager,     \* where the manager thread is
          view,        \* queuesize, livenum and busynum, as it sampled them
          notifyLeft,  \* notify_all calls left in the manager's last loop
          adding,      \* the task of the caller that holds mutexPool in Add
          dtor,        \* where the destructor is
          added,       \* history: every task accepted, in order
          done         \* history: every task that was run

poolVars == <<taskQ, busyNum, liveNum, exitNum, shutdown>>
managerVars == <<manager, view, notifyLeft>>
history == <<added, done>>
vars == <<poolVars, worker, task, managerVars, adding, dtor, history>>

NoView == [queuesize |-> 0, livenum |-> 0, busynum |-> 0]

-----------------------------------------------------------------------------
(* Helpers *)

\* Who holds mutexPool across two steps has tested shutdown and found it unset.
MutexFree == /\ adding = NoTask
             /\ \A w \in Slots : worker[w] \notin {"toWait", "toTake"}

\* Slip: notify_one instead of notify_all.
NotifyOneSlip ==
    [w \in Slots |-> IF /\ worker[w] = "waiting"
                        /\ \A v \in Slots : worker[v] = "waiting" => w <= v
                     THEN "woken" ELSE worker[w]]

\* cond.notify_all(): everybody blocked in cond.wait leaves it.
NotifyAll == [w \in Slots |-> IF worker[w] = "waiting" THEN "woken" ELSE worker[w]]

\* Slip: off by one.
SpareWorkerSlip == liveNum >= minNum

\* A worker asked to exit does so only while the pool is above its minimum.
SpareWorker == liveNum > minNum

\* The elements of threadIDs whose get_id() is thread::id().
EmptySlots == {w \in Slots : worker[w] = "none"}

\* The for loop that starts workers: the lowest empty slots, as many as
\* NUMBER and the maximum size allow.
SlotsToStart(new) ==
    /\ new \subseteq EmptySlots
    /\ \A w \in new, e \in EmptySlots \ new : w < e
    /\ Cardinality(new) <= NUMBER
    /\ liveNum + Cardinality(new) <= maxNum
    /\ \/ new = EmptySlots
       \/ Cardinality(new) = NUMBER
       \/ liveNum + Cardinality(new) = maxNum

WantsGrow(v) == v.queuesize > v.livenum /\ v.livenum < maxNum

WantsShrink(v) == v.busynum * 2 < v.livenum /\ v.livenum > minNum

-----------------------------------------------------------------------------
Init ==
    /\ taskQ = <<>>
    /\ busyNum = 0
    /\ liveNum = minNum
    /\ exitNum = 0
    /\ shutdown = FALSE
    /\ worker = [w \in Slots |-> IF w < minNum THEN "top" ELSE "none"]
    /\ task = [w \in Slots |-> NoTask]
    /\ manager = "loop"
    /\ view = NoView
    /\ notifyLeft = 0
    /\ adding = NoTask
    /\ dtor = "alive"
    /\ added = <<>>
    /\ done = {}

(***************************************************************************)
(* Callers.  A call of Add once shutdown is set returns without a trace.   *)
(***************************************************************************)
AddTest(t) ==
    /\ dtor # "destroyed"
    /\ MutexFree
    /\ ~shutdown
    /\ \A i \in DOMAIN added : added[i] # t
    /\ adding' = t
    /\ UNCHANGED <<poolVars, worker, task, managerVars, dtor, history>>

AddPush ==
    /\ adding # NoTask
    /\ taskQ' = Append(taskQ, adding)
    /\ added' = Append(added, adding)
    /\ worker' = NotifyAll
    /\ adding' = NoTask
    /\ UNCHANGED <<busyNum, liveNum, exitNum, shutdown, task, managerVars, dtor, done>>

(***************************************************************************)
(* Workers *)
(***************************************************************************)
\* The loop found nothing to do: the wait is certain, but not begun.
PrepareWait(w) ==
    /\ taskQ = <<>>
    /\ ~shutdown
    /\ worker' = [worker EXCEPT ![w] = "toWait"]
    /\ UNCHANGED <<taskQ, busyNum, task>>

Return(w) ==
    /\ shutdown
    /\ worker' = [worker EXCEPT ![w] = "returned"]
    /\ UNCHANGED <<taskQ, busyNum, task>>

\* Slip: the second test of shutdown is missing.
SeeTaskAfterShutdownSlip(w) ==
    /\ taskQ # <<>>
    /\ worker' = [worker EXCEPT ![w] = "toTake"]
    /\ UNCHANGED <<taskQ, busyNum, task>>

\* Both tests passed, as the queue holds a task.
SeeTask(w) ==
    /\ taskQ # <<>>
    /\ ~shutdown
    /\ worker' = [worker EXCEPT ![w] = "toTake"]
    /\ UNCHANGED <<taskQ, busyNum, task>>

\* One evaluation of the while condition and what follows from it.
LoopTest(w) == PrepareWait(w) \/ Return(w) \/ SeeTask(w)

\* Slip: front() without pop().
TakeWithoutPopSlip(w) ==
    /\ worker[w] = "toTake"
    /\ worker' = [worker EXCEPT ![w] = "running"]
    /\ task' = [task EXCEPT ![w] = Head(taskQ)]
    /\ busyNum' = busyNum + 1
    /\ UNCHANGED <<taskQ, liveNum, exitNum, shutdown, managerVars, adding, dtor, history>>

TakeTask(w) ==
    /\ worker[w] = "toTake"
    /\ worker' = [worker EXCEPT ![w] = "running"]
    /\ task' = [task EXCEPT ![w] = Head(taskQ)]
    /\ taskQ' = Tail(taskQ)
    /\ busyNum' = busyNum + 1
    /\ UNCHANGED <<liveNum, exitNum, shutdown, managerVars, adding, dtor, history>>

WorkerEnter(w) ==
    /\ worker[w] = "top"
    /\ MutexFree
    /\ LoopTest(w)
    /\ UNCHANGED <<liveNum, exitNum, shutdown, managerVars, adding, dtor, history>>

WorkerBlock(w) ==
    /\ worker[w] = "toWait"
    /\ worker' = [worker EXCEPT ![w] = "waiting"]
    /\ UNCHANGED <<poolVars, task, managerVars, adding, dtor, history>>

\* cond.wait may return with no notification.
SpuriousWake(w) ==
    /\ worker[w] = "waiting"
    /\ worker' = [worker EXCEPT ![w] = "woken"]
    /\ UNCHANGED <<poolVars, task, managerVars, adding, dtor, history>>

\* Slip: the early return forgets liveNum.
RetireUncountedSlip(w) ==
    /\ worker[w] = "woken"
    /\ MutexFree
    /\ exitNum > 0
    /\ SpareWorker
    /\ exitNum' = exitNum - 1
    /\ worker' = [worker EXCEPT ![w] = "retired"]
    /\ UNCHANGED <<taskQ, busyNum, liveNum, shutdown, task, managerVars, adding, dtor, history>>

Retire(w) ==
    /\ worker[w] = "woken"
    /\ MutexFree
    /\ exitNum > 0
    /\ SpareWorker
    /\ exitNum' = exitNum - 1
    /\ liveNum' = liveNum - 1
    /\ worker' = [worker EXCEPT ![w] = "retired"]
    /\ UNCHANGED <<taskQ, busyNum, shutdown, task, managerVars, adding, dtor, history>>

Resume(w) ==
    /\ worker[w] = "woken"
    /\ MutexFree
    /\ ~(exitNum > 0 /\ SpareWorker)
    /\ exitNum' = IF exitNum > 0 THEN exitNum - 1 ELSE exitNum
    /\ LoopTest(w)
    /\ UNCHANGED <<liveNum, shutdown, managerVars, adding, dtor, history>>

RunTask(w) ==
    /\ worker[w] = "running"
    /\ worker' = [worker EXCEPT ![w] = "finished"]
    /\ done' = done \cup {task[w]}
    /\ task' = [task EXCEPT ![w] = NoTask]
    /\ UNCHANGED <<poolVars, managerVars, adding, dtor, added>>

UpdateBusy(w) ==
    /\ worker[w] = "finished"
    /\ MutexFree
    /\ busyNum' = busyNum - 1
    /\ worker' = [worker EXCEPT ![w] = "top"]
    /\ UNCHANGED <<taskQ, liveNum, exitNum, shutdown, task, managerVars, adding, dtor, history>>

WorkerStep(w) == \/ WorkerEnter(w) \/ WorkerBlock(w) \/ Retire(w) \/ Resume(w)
                 \/ TakeTask(w) \/ RunTask(w) \/ UpdateBusy(w)

(***************************************************************************)
(* The manager.  It decides on what it sampled, after giving up the mutex. *)
(***************************************************************************)
ManagerLoop ==
    /\ manager = "loop"
    /\ manager' = IF shutdown THEN "exited" ELSE "sleep"
    /\ UNCHANGED <<poolVars, worker, task, view, notifyLeft, adding, dtor, history>>

AfterGrow(v) == IF WantsShrink(v) THEN "shrink" ELSE "loop"

ManagerSample ==
    /\ manager = "sleep"
    /\ MutexFree
    /\ LET v == [queuesize |-> Len(taskQ), livenum |-> liveNum, busynum |-> busyNum]
       IN /\ manager' = IF WantsGrow(v) THEN "grow" ELSE AfterGrow(v)
          /\ view' = IF WantsGrow(v) THEN v ELSE NoView
    /\ UNCHANGED <<poolVars, worker, task, notifyLeft, adding, dtor, history>>

ManagerGrow ==
    /\ manager = "grow"
    /\ MutexFree
    /\ \E new \in SUBSET Slots :
          /\ SlotsToStart(new)
          /\ worker' = [w \in Slots |-> IF w \in new THEN "top" ELSE worker[w]]
          /\ liveNum' = liveNum + Cardinality(new)
    /\ manager' = AfterGrow(view)
    /\ view' = NoView
    /\ UNCHANGED <<taskQ, busyNum, exitNum, shutdown, task, notifyLeft, adding, dtor, history>>

\* Slip: requests to exit pile up.
ShrinkAccumulatesSlip ==
    /\ manager = "shrink"
    /\ MutexFree
    /\ exitNum' = exitNum + NUMBER
    /\ manager' = "notify"
    /\ notifyLeft' = NUMBER
    /\ UNCHANGED <<taskQ, busyNum, liveNum, shutdown, worker, task, view, adding, dtor, history>>

ManagerShrink ==
    /\ manager = "shrink"
    /\ MutexFree
    /\ exitNum' = NUMBER
    /\ manager' = "notify"
    /\ notifyLeft' = NUMBER
    /\ UNCHANGED <<taskQ, busyNum, liveNum, shutdown, worker, task, view, adding, dtor, history>>

ManagerNotify ==
    /\ manager = "notify"
    /\ worker' = NotifyAll
    /\ notifyLeft' = notifyLeft - 1
    /\ manager' = IF notifyLeft = 1 THEN "loop" ELSE "notify"
    /\ UNCHANGED <<poolVars, task, view, adding, dtor, history>>

ManagerStep == \/ ManagerLoop \/ ManagerSample \/ ManagerGrow
               \/ ManagerShrink \/ ManagerNotify

(***************************************************************************)
(* The destructor.  It takes no lock at any point.  Nobody may be inside   *)
(* Add when it ends: that is undefined, and left out.                      *)
(***************************************************************************)
DtorShutdown ==
    /\ dtor = "alive"
    /\ shutdown' = TRUE
    /\ dtor' = "joinManager"
    /\ UNCHANGED <<taskQ, busyNum, liveNum, exitNum, worker, task, managerVars, adding, history>>

\* Slip: notify_one instead of notify_all.
DtorNotifySlip ==
    /\ dtor = "joinManager"
    /\ manager = "exited"
    /\ worker' = NotifyOneSlip
    /\ dtor' = "joinWorkers"
    /\ UNCHANGED <<poolVars, task, managerVars, adding, history>>

DtorNotify ==
    /\ dtor = "joinManager"
    /\ manager = "exited"
    /\ worker' = NotifyAll
    /\ dtor' = "joinWorkers"
    /\ UNCHANGED <<poolVars, task, managerVars, adding, history>>

DtorJoined ==
    /\ dtor = "joinWorkers"
    /\ adding = NoTask
    /\ \A w \in Slots : worker[w] \in {"none", "retired", "returned"}
    /\ dtor' = "destroyed"
    /\ UNCHANGED <<poolVars, worker, task, managerVars, adding, history>>

DtorStep == DtorNotify \/ DtorJoined

-----------------------------------------------------------------------------
Next == \/ \E t \in Tasks : AddTest(t)
        \/ AddPush
        \/ \E w \in Slots : WorkerStep(w) \/ SpuriousWake(w)
        \/ ManagerStep
        \/ DtorShutdown
        \/ DtorStep

Spec == Init /\ [][Next]_vars

(***************************************************************************)
(* Threads are scheduled; callers need not call, and nothing has to wake   *)
(* spuriously.  A critical section of the pool is short, so weak fairness  *)
(* of its owner is enough; RunTask is fair because tasks are taken to      *)
(* return.  A call of Add that has begun goes on.                          *)
(***************************************************************************)
Fairness == /\ \A w \in Slots : WF_vars(WorkerStep(w))
            /\ WF_vars(AddPush)
            /\ WF_vars(ManagerStep)
            /\ WF_vars(DtorStep)

FairSpec == Spec /\ Fairness
-----------------------------------------------------------------------------
(* Properties *)

TypeOK ==
    /\ taskQ \in Seq(Tasks)
    /\ busyNum \in Int
    /\ liveNum \in Int
    /\ exitNum \in 0 .. NUMBER
    /\ shutdown \in BOOLEAN
    /\ worker \in [Slots -> WorkerState]
    /\ task \in [Slots -> Tasks \cup {NoTask}]
    /\ manager \in {"loop", "sleep", "grow", "shrink", "notify", "exited"}
    /\ view \in [queuesize : Nat, livenum : Int, busynum : Int]
    /\ notifyLeft \in 0 .. NUMBER
    /\ adding \in Tasks \cup {NoTask}
    /\ dtor \in {"alive", "joinManager", "joinWorkers", "destroyed"}
    /\ added \in Seq(Tasks)
    /\ done \in SUBSET Tasks

\* Workers counted by liveNum: started and not retired.  A worker that left
\* because of shutdown is not subtracted.
LiveSlots == {w \in Slots : worker[w] \notin {"none", "retired"}}

\* Workers counted by busyNum: between taking a task and reporting it done.
BusySlots == {w \in Slots : worker[w] \in {"running", "finished"}}

(***************************************************************************)
(* The pool never drops below minNum workers nor exceeds maxNum, although  *)
(* the manager decides on a sample it took earlier and a request to exit   *)
(* (exitNum) may be honoured at any later wake-up, when the load has       *)
(* changed (ThreadPool.cpp 82-92, 137-164).                                *)
(***************************************************************************)
PoolSize == liveNum \in minNum .. maxNum

(***************************************************************************)
(* The counters the manager sizes the pool by are the truth about the      *)
(* threads: no path through worker() forgets or repeats an update.         *)
(***************************************************************************)
CountersMatch == /\ liveNum = Cardinality(LiveSlots)
                 /\ busyNum = Cardinality(BusySlots)

\* How many accepted tasks have left the queue.
Started == Len(added) - Len(taskQ)

RunningSlots == {w \in Slots : worker[w] = "running"}

RunningTasks == {task[w] : w \in RunningSlots}

(***************************************************************************)
(* Nothing accepted is lost, duplicated or overtaken on its way through    *)
(* the queue: the queue is the newest part of what was added, the older    *)
(* part is exactly what runs or has run, and no task runs twice.           *)
(***************************************************************************)
Ledger ==
    /\ Len(taskQ) <= Len(added)
    /\ \A i \in 1 .. Len(taskQ) : taskQ[i] = added[Started + i]
    /\ \A t \in Tasks : t \in RunningTasks \cup done
                          <=> \E i \in 1 .. Started : added[i] = t
    /\ RunningTasks \cap done = {}
    /\ \A v, w \in RunningSlots : task[v] = task[w] => v = w

(***************************************************************************)
(* No lost wake-up of a task: while the queue holds one, no worker sleeps  *)
(* or is about to (it was woken by Add's notify_all, or never slept), and  *)
(* until shutdown at least minNum workers are awake to get to it, however  *)
(* many of the woken ones the manager makes retire.                        *)
(***************************************************************************)
NoSleepWhileQueued ==
    taskQ # <<>> =>
        /\ \A w \in Slots : worker[w] \notin {"toWait", "waiting"}
        /\ ~shutdown => \E w \in Slots :
                            worker[w] \in {"top", "woken", "toTake", "running", "finished"}

TakingSlots == {w \in Slots : worker[w] = "toTake"}

(***************************************************************************)
(* ThreadPool implements Executor: a task is submitted by Add, starts when *)
(* a worker takes it, finishes when it returns, and the pool closes the    *)
(* moment the destructor sets shutdown, late for the thread that holds     *)
(* mutexPool at that moment and has seen it unset, and for no other        *)
(* (ThreadPool.cpp 38, 95-102; ThreadPool.h 27-35).                        *)
(***************************************************************************)
Abstract == INSTANCE Executor WITH
                Work <- Tasks, Limit <- maxNum, pending <- taskQ,
                running <- RunningTasks, finished <- done, open <- ~shutdown,
                late <- shutdown /\ (adding # NoTask \/ TakingSlots # {})

ImplementsExecutor == Abstract!ExecSafety

(***************************************************************************)
(* The executor's fairness holds too: an open pool keeps starting and      *)
(* finishing tasks while there are any.                                    *)
(***************************************************************************)
ImplementsExecutorFairly == Abstract!ExecSpec

(***************************************************************************)
(* Every task accepted by Add is run, unless the pool is shut down first.  *)
(***************************************************************************)
TaskEventuallyRuns ==
    \A t \in Tasks : (\E i \in DOMAIN taskQ : taskQ[i] = t)
                         ~> (t \in done \/ shutdown)

(***************************************************************************)
(* ThreadPool.cpp:135-136, "add threads: tasks > live threads and live     *)
(* threads < maximum": a manager that got that far with room left adds at  *)
(* least one.                                                              *)
(***************************************************************************)
GrowAddsThread ==
    [][ManagerGrow /\ liveNum < maxNum => liveNum' > liveNum]_vars

(***************************************************************************)
(* The destructor wakes and joins every worker (ThreadPool.cpp 36-47), so  *)
(* it comes to its end, if between its writing shutdown and its notify_all *)
(* there is a moment when no worker is between its test and its wait.      *)
(* Neither write nor notification takes mutexPool: a worker that stays     *)
(* there all the time misses both and is joined for ever.                  *)
(***************************************************************************)
DestructionCompletes ==
    dtor = "joinManager" /\ (\A w \in Slots : worker[w] # "toWait") ~> dtor = "destroyed"
=============================================================================
