----------------------------- MODULE TaskThread -----------------------------
(***************************************************************************)
(* TTaskThread<TaskType> (src/Core/Thread/SeptemThread.hpp): one worker    *)
(* thread that takes tasks from a queue under a mutex and hands them to    *)
(* the TaskDelegate, a controller that creates, stops and joins the        *)
(* worker, and clients that push tasks or clear the queue.                 *)
(*                                                                         *)
(* bRunning is a plain bool, written by the controller and the worker and  *)
(* read by everybody without a lock: each access is a step of its own.     *)
(* The pool TTaskThread inherits is RecyclePool; it shares no state with   *)
(* what is modelled here.                                                  *)
(***************************************************************************)
EXTENDS Naturals, Sequences, FiniteSets

CONSTANTS
    Clients,    \* threads that call PushTask and ClearTaskQueue
    Worker,     \* the thread that runs ThreadRun
    NoThread,   \* "the mutex is free"
    Tasks,      \* the shared_ptrs clients push, each at most once
    NullTask,   \* the null shared_ptr; it may be pushed like any other
    NoTask,     \* pCacheTask before the first pop
    MaxOffers,  \* bound: calls of PushTask, each with another task
    MaxLives,   \* bound: times the thread is created, one after the other
    MaxClears   \* bound: calls of ClearTaskQueue

ASSUME WorkerAssumption == Worker \notin Clients
ASSUME NoThreadAssumption == NoThread \notin Clients \union {Worker}
ASSUME NoTaskAssumption == NoTask \notin Tasks

VARIABLES
    bRunning,
    i_ThreadState,  \* 0 nothing, 1 init, 2 running, 3 stoping
    m_Thread,       \* the handle of the last thread created, 0 before
    joined,         \* the handle the controller has joined last
    taskQueue,      \* its front is the first element
    locker,         \* the thread that has m_QueueLocker, or NoThread
    cpc,            \* where the controller is
    wpc,            \* where the worker is
    pCacheTask,     \* the worker's local of Run
    pc,             \* pc[c]: where client c is
    InTask,         \* InTask[c]: the argument of PushTask
    accepted,       \* history: tasks put into the queue, in that order
    removed,        \* history: tasks popped or cleared, in that order
    offered,        \* history: the tasks PushTask was called with
    clears,         \* history: calls of ClearTaskQueue
    stopped,        \* history: Run has been told to stop in this life
    afterStop       \* history: tasks done in this life since then

threadVars == <<bRunning, i_ThreadState, m_Thread, joined, cpc>>
clientVars == <<pc, InTask, offered, clears>>
stopVars == <<stopped, afterStop>>
vars == <<threadVars, taskQueue, locker, wpc, pCacheTask, clientVars,
          accepted, removed, stopVars>>

-----------------------------------------------------------------------------
\* The worker has passed `bRunning = true' and has not left Run.
InRun == {"state2", "loop", "pop_lock", "pop_empty", "pop_pop", "test", "do"}

WorkerPlaces == {"none", "init", "set_running", "leave", "destory", "done"} \union InRun
ClientPlaces == {"idle", "push_test", "push_lock", "push", "clear_lock", "clear"}

PopQueue == taskQueue' = SubSeq(taskQueue, 2, Len(taskQueue))
Goto(c, place) == pc' = [pc EXCEPT ![c] = place]

Init ==
    /\ bRunning = FALSE
    /\ i_ThreadState = 0
    /\ m_Thread = 0
    /\ joined = 0
    /\ taskQueue = <<>>
    /\ locker = NoThread
    /\ cpc = "idle"
    /\ wpc = "none"
    /\ pCacheTask = NoTask
    /\ pc = [c \in Clients |-> "idle"]
    /\ InTask = [c \in Clients |-> NoTask]
    /\ accepted = <<>>
    /\ removed = <<>>
    /\ offered = {}
    /\ clears = 0
    /\ stopped = FALSE
    /\ afterStop = 0

-----------------------------------------------------------------------------
(* The controller *)

\* A derived class that wants tasks pushed before Init() sets the flag.
PresetRunning ==
    /\ cpc = "idle"
    /\ wpc = "none"
    /\ ~bRunning
    /\ bRunning' = TRUE
    /\ UNCHANGED <<i_ThreadState, m_Thread, joined, cpc, taskQueue, locker, wpc,
                   pCacheTask, clientVars, accepted, removed, stopVars>>

\* pthread_create succeeds.  The controller has joined the thread it created
\* before, which keeps one worker at a time.
CreateThread ==
    /\ cpc = "idle"
    /\ joined = m_Thread
    /\ m_Thread < MaxLives
    /\ m_Thread' = m_Thread + 1
    /\ wpc' = "init"
    /\ pCacheTask' = NoTask
    /\ stopped' = FALSE
    /\ afterStop' = 0
    /\ UNCHANGED <<bRunning, i_ThreadState, joined, cpc, taskQueue, locker,
                   clientVars, accepted, removed>>

\* `bRunning = false', in StopThread or at the start of DelayStopThread.
ClearFlag ==
    /\ bRunning' = FALSE
    /\ stopped' = (stopped \/ wpc \in InRun)
    /\ UNCHANGED <<i_ThreadState, m_Thread, joined, taskQueue, locker, wpc,
                   pCacheTask, clientVars, accepted, removed, afterStop>>

StopThread ==
    /\ cpc = "idle"
    /\ ClearFlag
    /\ UNCHANGED cpc

DelayStopThread ==
    /\ cpc = "idle"
    /\ joined # m_Thread \/ m_Thread = 0
    /\ ClearFlag
    /\ cpc' = "delay_join"

\* JoinThread by itself.  Joining a handle twice is undefined, and JoinThread
\* does not reset m_Thread: the controller calls it once for each thread.
JoinThread ==
    /\ cpc = "idle"
    /\ joined # m_Thread \/ m_Thread = 0
    /\ cpc' = "join"
    /\ UNCHANGED <<bRunning, i_ThreadState, m_Thread, joined, taskQueue, locker,
                   wpc, pCacheTask, clientVars, accepted, removed, stopVars>>

\* Without a thread JoinThread returns at once; else when ThreadRun has.
JoinReturn ==
    /\ cpc \in {"join", "delay_join"}
    /\ m_Thread > 0 => wpc = "done"
    /\ joined' = m_Thread
    /\ cpc' = "idle"
    /\ UNCHANGED <<bRunning, i_ThreadState, m_Thread, taskQueue, locker, wpc,
                   pCacheTask, clientVars, accepted, removed, stopVars>>

Controller ==
    PresetRunning \/ CreateThread \/ StopThread \/ DelayStopThread \/ JoinThread

-----------------------------------------------------------------------------
(* The worker: ThreadRun *)

\* Init() is empty unless a derived class overrides it.
WorkerInit ==
    /\ wpc = "init"
    /\ i_ThreadState' = 1
    /\ wpc' = "set_running"
    /\ UNCHANGED <<bRunning, m_Thread, joined, cpc, taskQueue, locker, pCacheTask,
                   clientVars, accepted, removed, stopVars>>

\* The flag is set whatever it was: a stop that came before is forgotten.
WorkerSetRunning ==
    /\ wpc = "set_running"
    /\ bRunning' = TRUE
    /\ wpc' = "state2"
    /\ UNCHANGED <<i_ThreadState, m_Thread, joined, cpc, taskQueue, locker,
                   pCacheTask, clientVars, accepted, removed, stopVars>>

WorkerState2 ==
    /\ wpc = "state2"
    /\ i_ThreadState' = 2
    /\ wpc' = "loop"
    /\ UNCHANGED <<bRunning, m_Thread, joined, cpc, taskQueue, locker, pCacheTask,
                   clientVars, accepted, removed, stopVars>>

\* Mutated forms: Run goes on until the queue is empty; Run never looks.
RunLoopDrains ==
    /\ wpc = "loop"
    /\ wpc' = IF bRunning \/ taskQueue # <<>> THEN "pop_lock" ELSE "leave"
    /\ UNCHANGED <<threadVars, taskQueue, locker, pCacheTask, clientVars,
                   accepted, removed, stopVars>>

RunLoopForever ==
    /\ wpc = "loop"
    /\ wpc' = "pop_lock"
    /\ UNCHANGED <<threadVars, taskQueue, locker, pCacheTask, clientVars,
                   accepted, removed, stopVars>>

\* while (bRunning)
RunLoop ==
    /\ wpc = "loop"
    /\ wpc' = IF bRunning THEN "pop_lock" ELSE "leave"
    /\ UNCHANGED <<threadVars, taskQueue, locker, pCacheTask, clientVars,
                   accepted, removed, stopVars>>

PopLock ==
    /\ wpc = "pop_lock"
    /\ locker = NoThread
    /\ locker' = Worker
    /\ wpc' = "pop_empty"
    /\ UNCHANGED <<threadVars, taskQueue, pCacheTask, clientVars, accepted,
                   removed, stopVars>>

PopEmpty ==
    /\ wpc = "pop_empty"
    /\ taskQueue = <<>>
    /\ locker' = NoThread
    /\ wpc' = "loop"
    /\ UNCHANGED <<threadVars, taskQueue, pCacheTask, clientVars, accepted,
                   removed, stopVars>>

\* Mutated form: the out parameter is not assigned.
PopFrontUnassigned ==
    /\ wpc = "pop_empty"
    /\ taskQueue # <<>>
    /\ wpc' = "pop_pop"
    /\ UNCHANGED <<threadVars, taskQueue, locker, pCacheTask, clientVars,
                   accepted, removed, stopVars>>

PopFront ==
    /\ wpc = "pop_empty"
    /\ taskQueue # <<>>
    /\ pCacheTask' = Head(taskQueue)
    /\ wpc' = "pop_pop"
    /\ UNCHANGED <<threadVars, taskQueue, locker, clientVars, accepted, removed,
                   stopVars>>

\* Mutated form: the front stays in the queue.
PopForgotten ==
    /\ wpc = "pop_pop"
    /\ locker' = NoThread
    /\ wpc' = "test"
    /\ UNCHANGED <<threadVars, taskQueue, pCacheTask, clientVars, accepted, removed,
                   stopVars>>

\* taskQueue.pop(); return true.  PopTask has removed what it returns.
PopPop ==
    /\ wpc = "pop_pop"
    /\ PopQueue
    /\ removed' = Append(removed, pCacheTask)
    /\ locker' = NoThread
    /\ wpc' = "test"
    /\ UNCHANGED <<threadVars, pCacheTask, clientVars, accepted, stopVars>>

\* PopTask(pCacheTask) && pCacheTask
RunTest ==
    /\ wpc = "test"
    /\ wpc' = IF pCacheTask = NullTask THEN "loop" ELSE "do"
    /\ UNCHANGED <<threadVars, taskQueue, locker, pCacheTask, clientVars, accepted,
                   removed, stopVars>>

\* TaskDelegate is the user's; it returns.
OnDoTask ==
    /\ wpc = "do"
    /\ wpc' = "loop"
    /\ afterStop' = IF stopped THEN afterStop + 1 ELSE 0
    /\ UNCHANGED <<threadVars, taskQueue, locker, pCacheTask, clientVars, accepted,
                   removed, stopped>>

WorkerLeave ==
    /\ wpc = "leave"
    /\ i_ThreadState' = 3
    /\ wpc' = "destory"
    /\ UNCHANGED <<bRunning, m_Thread, joined, cpc, taskQueue, locker, pCacheTask,
                   clientVars, accepted, removed, stopVars>>

\* Destory() is empty unless overridden; then ThreadRun returns.
WorkerDestory ==
    /\ wpc = "destory"
    /\ wpc' = "done"
    /\ UNCHANGED <<threadVars, taskQueue, locker, pCacheTask, clientVars, accepted,
                   removed, stopVars>>

WorkerNext ==
    \/ WorkerInit \/ WorkerSetRunning \/ WorkerState2
    \/ RunLoop \/ PopLock \/ PopEmpty \/ PopFront \/ PopPop
    \/ RunTest \/ OnDoTask \/ WorkerLeave \/ WorkerDestory

-----------------------------------------------------------------------------
(* The clients: PushTask and ClearTaskQueue *)

CallPushTask(c, task) ==
    /\ pc[c] = "idle"
    /\ task \notin offered
    /\ Cardinality(offered) < MaxOffers
    /\ offered' = offered \union {task}
    /\ InTask' = [InTask EXCEPT ![c] = task]
    /\ Goto(c, "push_test")
    /\ UNCHANGED <<threadVars, taskQueue, locker, wpc, pCacheTask, clears,
                   accepted, removed, stopVars>>

\* if (bRunning), before the lock; otherwise the task is dropped silently.
PushTest(c) ==
    /\ pc[c] = "push_test"
    /\ Goto(c, IF bRunning THEN "push_lock" ELSE "idle")
    /\ UNCHANGED <<threadVars, taskQueue, locker, wpc, pCacheTask, InTask, offered,
                   clears, accepted, removed, stopVars>>

\* Mutated form: the mutex is not waited for.
ClientLockIgnored(c) ==
    /\ pc[c] \in {"push_lock", "clear_lock"}
    /\ locker' = c
    /\ Goto(c, IF pc[c] = "push_lock" THEN "push" ELSE "clear")
    /\ UNCHANGED <<threadVars, taskQueue, wpc, pCacheTask, InTask, offered, clears,
                   accepted, removed, stopVars>>

ClientLock(c) ==
    /\ pc[c] \in {"push_lock", "clear_lock"}
    /\ locker = NoThread
    /\ locker' = c
    /\ Goto(c, IF pc[c] = "push_lock" THEN "push" ELSE "clear")
    /\ UNCHANGED <<threadVars, taskQueue, wpc, pCacheTask, InTask, offered, clears,
                   accepted, removed, stopVars>>

PushTask(c) ==
    /\ pc[c] = "push"
    /\ taskQueue' = Append(taskQueue, InTask[c])
    /\ accepted' = Append(accepted, InTask[c])
    /\ locker' = NoThread
    /\ Goto(c, "idle")
    /\ UNCHANGED <<threadVars, wpc, pCacheTask, InTask, offered, clears, removed,
                   stopVars>>

CallClearTaskQueue(c) ==
    /\ pc[c] = "idle"
    /\ clears < MaxClears
    /\ clears' = clears + 1
    /\ Goto(c, "clear_lock")
    /\ UNCHANGED <<threadVars, taskQueue, locker, wpc, pCacheTask, InTask, offered,
                   accepted, removed, stopVars>>

\* while (taskQueue.size() > 0) taskQueue.pop();
ClearPop(c) ==
    /\ pc[c] = "clear"
    /\ taskQueue # <<>>
    /\ PopQueue
    /\ removed' = Append(removed, Head(taskQueue))
    /\ UNCHANGED <<threadVars, locker, wpc, pCacheTask, clientVars, accepted,
                   stopVars>>

ClearDone(c) ==
    /\ pc[c] = "clear"
    /\ taskQueue = <<>>
    /\ locker' = NoThread
    /\ Goto(c, "idle")
    /\ UNCHANGED <<threadVars, taskQueue, wpc, pCacheTask, InTask, offered, clears,
                   accepted, removed, stopVars>>

ClientStep(c) ==
    PushTest(c) \/ ClientLock(c) \/ PushTask(c) \/ ClearPop(c) \/ ClearDone(c)

ClientCall(c) ==
    \/ \E task \in Tasks : CallPushTask(c, task)
    \/ CallClearTaskQueue(c)

-----------------------------------------------------------------------------
Next ==
    \/ Controller
    \/ JoinReturn
    \/ WorkerNext
    \/ \E c \in Clients : ClientStep(c) \/ ClientCall(c)

Spec == Init /\ [][Next]_vars

\* Threads that are inside the code are scheduled.  Each client makes a
\* bounded number of calls, so waiting for the mutex under weak fairness
\* ends; nobody has to call anything.
FairSpec ==
    /\ Spec
    /\ WF_vars(WorkerNext)
    /\ WF_vars(JoinReturn)
    /\ \A c \in Clients : WF_vars(ClientStep(c))

-----------------------------------------------------------------------------
(* Properties *)

TypeOK ==
    /\ bRunning \in BOOLEAN
    /\ i_ThreadState \in 0..3
    /\ m_Thread \in Nat
    /\ joined \in Nat
    /\ taskQueue \in Seq(Tasks)
    /\ locker \in Clients \union {Worker, NoThread}
    /\ cpc \in {"idle", "join", "delay_join"}
    /\ wpc \in WorkerPlaces
    /\ pCacheTask \in Tasks \union {NoTask}
    /\ pc \in [Clients -> ClientPlaces]
    /\ InTask \in [Clients -> Tasks \union {NoTask}]
    /\ accepted \in Seq(Tasks)
    /\ removed \in Seq(Tasks)
    /\ offered \in SUBSET Tasks
    /\ clears \in Nat
    /\ stopped \in BOOLEAN
    /\ afterStop \in Nat

\* No task is lost, doubled or overtaken: what was accepted is what PopTask
\* has returned or ClearTaskQueue has discarded, followed by what waits, in
\* the order of acceptance, with pushes, pops and clears interleaved.
QueueAccounting == accepted = removed \o taskQueue

\* A worker that has read the flag may still do the task it then finds, but
\* a stop during Run lets at most that one task be done.
AtMostOneAfterStop == afterStop <= 1

\* A stop during Run ends the thread.
StopEndsRun == stopped ~> wpc = "done"

\* A waiting task of a running thread leaves the queue unless it is stopped.
InQueue(task) == \E i \in 1..Len(taskQueue) : taskQueue[i] = task

TasksServed ==
    \A task \in Tasks :
        (InQueue(task) /\ m_Thread # joined) ~> (~InQueue(task) \/ ~bRunning)

\* SeptemThread.hpp:63, "block call & delay stop thread": the thread stops
\* and the call returns.
DelayStopStops == cpc = "delay_join" ~> cpc = "idle"

=============================================================================
