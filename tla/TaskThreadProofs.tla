-------------------------- MODULE TaskThreadProofs --------------------------
(***************************************************************************)
(* The task queue keeps its tasks, and a stop lets at most one more task   *)
(* be done, for every set of clients and tasks and any number of lives.    *)
(***************************************************************************)
EXTENDS TaskThread, SequenceTheorems, TLAPS

\* The mutex is with whoever is between its lock and its unlock.
LockInv ==
    /\ wpc \in {"pop_empty", "pop_pop"} <=> locker = Worker
    /\ \A c \in Clients : pc[c] \in {"push", "clear"} <=> locker = c

\* A thread that has been joined is over, and before the first there is none.
LifeInv ==
    /\ joined = m_Thread => wpc \in {"none", "done"}
    /\ m_Thread = 0 => wpc = "none"

\* What the worker and the clients carry are tasks; about to pop, the worker
\* carries the front of the queue.
CarryInv ==
    /\ wpc \in {"pop_pop", "test", "do"} => pCacheTask \in Tasks
    /\ wpc = "pop_pop" => taskQueue # <<>> /\ pCacheTask = Head(taskQueue)
    /\ \A c \in Clients :
          pc[c] \in {"push_test", "push_lock", "push"} => InTask[c] \in Tasks

\* After a stop during Run nobody sets the flag again in that life, and a
\* task that is done after it brings the worker back to the loop's test.
StopInv ==
    /\ stopped => ~bRunning /\ wpc \in InRun \union {"leave", "destory", "done"}
    /\ afterStop = 0 \/ (afterStop = 1 /\ stopped /\
                         wpc \in {"loop", "leave", "destory", "done"})

IInv == TypeOK /\ LockInv /\ LifeInv /\ CarryInv /\ StopInv /\ QueueAccounting

-----------------------------------------------------------------------------
(* The queue on sequences *)

\* pop() of a nonempty queue takes its front and nothing else.
LEMMA PopSeq ==
    ASSUME NEW S, NEW q \in Seq(S), q # <<>>
    PROVE  /\ Head(q) \in S
           /\ SubSeq(q, 2, Len(q)) \in Seq(S)
           /\ q = <<Head(q)>> \o SubSeq(q, 2, Len(q))
  <1>1. Len(q) \in Nat \ {0} /\ Head(q) = q[1]
    BY EmptySeq
  <1>2. 1 \in 1..Len(q) /\ Len(q) \in 1..Len(q)
    BY <1>1
  <1>3. SubSeq(q, 1, Len(q)) = <<q[1]>> \o SubSeq(q, 1 + 1, Len(q))
    BY <1>2, SubSeqRecursiveFirst
  <1>4. SubSeq(q, 1, Len(q)) = q
    BY SubSeqFull
  <1>5. Tail(q) = SubSeq(q, 2, Len(q)) /\ Tail(q) \in Seq(S) /\ Head(q) \in S
    BY TailIsSubSeq, HeadTailProperties
  <1>6. 1 + 1 = 2
    OBVIOUS
  <1> QED BY <1>1, <1>3, <1>4, <1>5, <1>6

\* Moving the front of the queue to the removed tasks keeps the account.
LEMMA PopAccount ==
    ASSUME NEW S, NEW r \in Seq(S), NEW q \in Seq(S), q # <<>>
    PROVE  r \o q = Append(r, Head(q)) \o SubSeq(q, 2, Len(q))
  <1> DEFINE h == <<Head(q)>>
             t == SubSeq(q, 2, Len(q))
  <1>1. Head(q) \in S /\ t \in Seq(S) /\ q = h \o t
    BY PopSeq
  <1>2. h \in Seq(S)
    BY <1>1
  <1>3. Append(r, Head(q)) = r \o h
    BY <1>1, AppendIsConcat
  <1> HIDE DEF h, t
  <1>4. (r \o h) \o t = r \o (h \o t)
    BY <1>1, <1>2, ConcatAssociative
  <1> QED BY <1>1, <1>3, <1>4 DEF t

-----------------------------------------------------------------------------
(* The inductive invariant *)

\* Nothing runs and nothing waits at the start.
LEMMA InitIInv == Init => IInv
  <1> SUFFICES ASSUME Init PROVE IInv
    OBVIOUS
  <1> USE WorkerAssumption, NoThreadAssumption
  <1>1. TypeOK
    <2>1. <<>> \in Seq(Tasks)
      BY EmptySeq
    <2>2. i_ThreadState \in 0..3 /\ m_Thread \in Nat /\ joined \in Nat
            /\ clears \in Nat /\ afterStop \in Nat
      BY DEF Init
    <2> QED BY <2>1, <2>2, Zenon DEF Init, TypeOK, WorkerPlaces, ClientPlaces
  <1>2. LockInv /\ LifeInv /\ CarryInv /\ StopInv
    BY DEF Init, LockInv, LifeInv, CarryInv, StopInv
  <1>3. QueueAccounting
    BY ConcatEmptySeq DEF Init, QueueAccounting
  <1> QED BY <1>1, <1>2, <1>3 DEF IInv

\* A step of the controller.
LEMMA ControllerIInv == ASSUME IInv, Controller \/ JoinReturn PROVE IInv'
  <1> USE DEF IInv, clientVars, stopVars
  <1>1. CASE PresetRunning
    BY <1>1 DEF PresetRunning, TypeOK, LockInv, LifeInv, CarryInv, StopInv,
                InRun, QueueAccounting
  <1>2. CASE CreateThread
    <2> USE <1>2 DEF CreateThread
    <2>0. m_Thread' \in Nat /\ afterStop' \in Nat
      BY DEF TypeOK
    <2>1. TypeOK'
      BY <2>0, Zenon DEF TypeOK, WorkerPlaces
    <2>2. LockInv' /\ LifeInv' /\ CarryInv' /\ StopInv' /\ QueueAccounting'
      BY DEF TypeOK, LockInv, LifeInv, CarryInv, StopInv, QueueAccounting
    <2> QED BY <2>1, <2>2
  <1>3. CASE StopThread \/ DelayStopThread
    <2> USE <1>3 DEF StopThread, DelayStopThread, ClearFlag
    <2>1. TypeOK'
      BY DEF TypeOK
    <2>2. LockInv' /\ LifeInv' /\ CarryInv' /\ QueueAccounting'
      BY DEF LockInv, LifeInv, CarryInv, QueueAccounting
    <2>3. StopInv'
      BY DEF TypeOK, StopInv
    <2> QED BY <2>1, <2>2, <2>3
  <1>4. CASE JoinThread
    BY <1>4 DEF JoinThread, TypeOK, LockInv, LifeInv, CarryInv, StopInv,
                QueueAccounting
  <1>5. CASE JoinReturn
    BY <1>5 DEF JoinReturn, TypeOK, LockInv, LifeInv, CarryInv, StopInv,
                QueueAccounting
  <1> QED BY <1>1, <1>2, <1>3, <1>4, <1>5 DEF Controller

\* A step of the worker.
LEMMA WorkerIInv == ASSUME IInv, WorkerNext PROVE IInv'
  <1> USE WorkerAssumption, NoThreadAssumption
  <1> USE DEF IInv, threadVars, clientVars, stopVars
  <1>8. CASE WorkerInit
    <2> USE <1>8 DEF WorkerInit
    <2>1. TypeOK'
      BY DEF TypeOK, WorkerPlaces, InRun
    <2>2. LockInv' /\ LifeInv' /\ CarryInv' /\ QueueAccounting'
      BY DEF LockInv, LifeInv, CarryInv, QueueAccounting
    <2>3. StopInv'
      BY DEF StopInv, InRun
    <2> QED BY <2>1, <2>2, <2>3
  <1>9. CASE WorkerSetRunning
    <2> USE <1>9 DEF WorkerSetRunning
    <2>1. TypeOK'
      BY DEF TypeOK, WorkerPlaces, InRun
    <2>2. LockInv' /\ LifeInv' /\ CarryInv' /\ QueueAccounting'
      BY DEF LockInv, LifeInv, CarryInv, QueueAccounting
    <2>3. StopInv'
      BY DEF StopInv, InRun
    <2> QED BY <2>1, <2>2, <2>3
  <1>10. CASE WorkerState2
    <2> USE <1>10 DEF WorkerState2
    <2>1. TypeOK'
      BY DEF TypeOK, WorkerPlaces, InRun
    <2>2. LockInv' /\ LifeInv' /\ CarryInv' /\ QueueAccounting'
      BY DEF LockInv, LifeInv, CarryInv, QueueAccounting
    <2>3. StopInv'
      BY DEF StopInv, InRun
    <2> QED BY <2>1, <2>2, <2>3
  <1>11. CASE WorkerLeave
    <2> USE <1>11 DEF WorkerLeave
    <2>1. TypeOK'
      BY DEF TypeOK, WorkerPlaces, InRun
    <2>2. LockInv' /\ LifeInv' /\ CarryInv' /\ QueueAccounting'
      BY DEF LockInv, LifeInv, CarryInv, QueueAccounting
    <2>3. StopInv'
      BY DEF StopInv, InRun
    <2> QED BY <2>1, <2>2, <2>3
  <1>12. CASE WorkerDestory
    <2> USE <1>12 DEF WorkerDestory
    <2>1. TypeOK'
      BY DEF TypeOK, WorkerPlaces, InRun
    <2>2. LockInv' /\ LifeInv' /\ CarryInv' /\ QueueAccounting'
      BY DEF LockInv, LifeInv, CarryInv, QueueAccounting
    <2>3. StopInv'
      BY DEF StopInv, InRun
    <2> QED BY <2>1, <2>2, <2>3
  <1>2. CASE RunLoop
    <2> USE <1>2 DEF RunLoop
    <2>0. wpc' \in {"pop_lock", "leave"} /\ (~bRunning => wpc' = "leave")
      OBVIOUS
    <2>1. TypeOK'
      BY <2>0 DEF TypeOK, WorkerPlaces, InRun
    <2>2. LockInv' /\ LifeInv' /\ CarryInv' /\ QueueAccounting'
      BY <2>0 DEF LockInv, LifeInv, CarryInv, QueueAccounting
    <2>3. StopInv'
      BY <2>0 DEF StopInv, InRun
    <2> QED BY <2>1, <2>2, <2>3
  <1>7. CASE RunTest
    <2> USE <1>7 DEF RunTest
    <2>0. wpc' \in {"loop", "do"}
      OBVIOUS
    <2>1. TypeOK'
      BY <2>0 DEF TypeOK, WorkerPlaces, InRun
    <2>2. LockInv' /\ LifeInv' /\ CarryInv' /\ QueueAccounting'
      BY <2>0 DEF LockInv, LifeInv, CarryInv, QueueAccounting
    <2>3. StopInv'
      BY <2>0 DEF StopInv, InRun
    <2> QED BY <2>1, <2>2, <2>3
  <1>6. CASE PopLock \/ PopEmpty
    <2> USE <1>6 DEF PopLock, PopEmpty
    <2>1. TypeOK'
      BY DEF TypeOK, WorkerPlaces, InRun
    <2>2. LockInv' /\ LifeInv' /\ CarryInv' /\ QueueAccounting'
      BY DEF LockInv, LifeInv, CarryInv, QueueAccounting
    <2>3. StopInv'
      BY DEF StopInv, InRun
    <2> QED BY <2>1, <2>2, <2>3
  <1>3. CASE PopFront
    <2> USE <1>3 DEF PopFront
    <2>1. Head(taskQueue) \in Tasks
      BY PopSeq DEF TypeOK
    <2>2. TypeOK'
      BY <2>1 DEF TypeOK, WorkerPlaces, InRun
    <2>3. LockInv' /\ LifeInv' /\ CarryInv' /\ QueueAccounting'
      BY <2>1 DEF LockInv, LifeInv, CarryInv, QueueAccounting
    <2>4. StopInv'
      BY DEF StopInv, InRun
    <2> QED BY <2>2, <2>3, <2>4
  <1>4. CASE PopPop
    <2> USE <1>4 DEF PopPop, PopQueue
    <2>1. taskQueue # <<>> /\ pCacheTask = Head(taskQueue) /\ pCacheTask \in Tasks
      BY DEF CarryInv
    <2>2. taskQueue' \in Seq(Tasks)
      BY <2>1, PopSeq DEF TypeOK
    <2>3. TypeOK'
      BY <2>1, <2>2 DEF TypeOK, WorkerPlaces, InRun
    <2>4. LockInv' /\ LifeInv' /\ CarryInv'
      BY <2>1 DEF LockInv, LifeInv, CarryInv
    <2>5. StopInv'
      BY DEF StopInv, InRun
    <2>6. removed \o taskQueue
            = Append(removed, Head(taskQueue)) \o SubSeq(taskQueue, 2, Len(taskQueue))
      BY <2>1, PopAccount DEF TypeOK
    <2>7. QueueAccounting'
      BY <2>1, <2>6, Zenon DEF QueueAccounting
    <2> QED BY <2>3, <2>4, <2>5, <2>7
  <1>5. CASE OnDoTask
    <2> USE <1>5 DEF OnDoTask
    <2>1. afterStop = 0
      BY DEF StopInv
    <2>2. TypeOK'
      BY <2>1 DEF TypeOK, WorkerPlaces, InRun
    <2>3. LockInv' /\ LifeInv' /\ CarryInv' /\ QueueAccounting'
      BY DEF LockInv, LifeInv, CarryInv, QueueAccounting
    <2>4. StopInv'
      BY <2>1 DEF StopInv, InRun
    <2> QED BY <2>2, <2>3, <2>4
  <1> QED BY <1>2, <1>3, <1>4, <1>5, <1>6, <1>7, <1>8, <1>9, <1>10, <1>11, <1>12
         DEF WorkerNext

\* A step of a client.
LEMMA ClientIInv ==
    ASSUME IInv, NEW c \in Clients, ClientStep(c) \/ ClientCall(c)
    PROVE  IInv'
  <1> USE WorkerAssumption, NoThreadAssumption
  <1> USE DEF IInv, threadVars, clientVars, stopVars, Goto
  <1>1. ASSUME NEW task \in Tasks, CallPushTask(c, task) PROVE IInv'
    <2> USE <1>1 DEF CallPushTask
    <2>1. TypeOK'
      BY DEF TypeOK, ClientPlaces
    <2>2. LockInv' /\ LifeInv' /\ StopInv' /\ QueueAccounting'
      BY DEF TypeOK, LockInv, LifeInv, StopInv, QueueAccounting
    <2>3. CarryInv'
      BY DEF TypeOK, CarryInv
    <2> QED BY <2>1, <2>2, <2>3
  <1>2. CASE CallClearTaskQueue(c)
    <2> USE <1>2 DEF CallClearTaskQueue
    <2>1. TypeOK'
      <3>1. clears' \in Nat
        BY DEF TypeOK
      <3> QED BY <3>1, Zenon DEF TypeOK, ClientPlaces
    <2>2. LockInv'
      BY DEF TypeOK, LockInv
    <2>3. LifeInv' /\ StopInv' /\ QueueAccounting' /\ CarryInv'
      BY DEF TypeOK, LifeInv, StopInv, QueueAccounting, CarryInv
    <2> QED BY <2>1, <2>2, <2>3
  <1>5. CASE PushTest(c) \/ ClientLock(c) \/ ClearDone(c)
    <2> USE <1>5 DEF PushTest, ClientLock, ClearDone
    <2>1. TypeOK'
      BY DEF TypeOK, ClientPlaces
    <2>2. LockInv'
      BY DEF TypeOK, LockInv
    <2>3. LifeInv' /\ StopInv' /\ QueueAccounting'
      BY DEF LifeInv, StopInv, QueueAccounting
    <2>4. CarryInv'
      BY DEF TypeOK, CarryInv
    <2> QED BY <2>1, <2>2, <2>3, <2>4
  <1>3. CASE PushTask(c)
    <2> USE <1>3 DEF PushTask
    <2>1. InTask[c] \in Tasks /\ locker = c /\ wpc # "pop_pop"
      BY DEF CarryInv, LockInv
    <2>2. TypeOK'
      BY <2>1 DEF TypeOK, ClientPlaces
    <2>3. LockInv'
      BY <2>1 DEF TypeOK, LockInv
    <2>4. LifeInv' /\ StopInv'
      BY DEF LifeInv, StopInv
    <2>5. CarryInv'
      BY <2>1 DEF TypeOK, CarryInv
    <2>6. Append(removed \o taskQueue, InTask[c])
            = removed \o Append(taskQueue, InTask[c])
      <3>1. PICK task \in Tasks : task = InTask[c]
        BY <2>1
      <3>2. /\ removed \in Seq(Tasks) /\ taskQueue \in Seq(Tasks)
            /\ <<task>> \in Seq(Tasks) /\ task \in Tasks
        BY DEF TypeOK
      <3>3. removed \o taskQueue \in Seq(Tasks)
        BY ONLY <3>2, ConcatProperties
      <3>4. (removed \o taskQueue) \o <<task>> = removed \o (taskQueue \o <<task>>)
        BY ONLY <3>2, ConcatAssociative
      <3>5. /\ Append(taskQueue, task) = taskQueue \o <<task>>
            /\ Append(removed \o taskQueue, task) = (removed \o taskQueue) \o <<task>>
        BY ONLY <3>2, <3>3, AppendIsConcat
      <3> QED BY ONLY <3>1, <3>4, <3>5
    <2>7. QueueAccounting'
      BY <2>6, Zenon DEF QueueAccounting
    <2> QED BY <2>2, <2>3, <2>4, <2>5, <2>7
  <1>4. CASE ClearPop(c)
    <2> USE <1>4 DEF ClearPop, PopQueue
    <2>1. locker = c /\ wpc # "pop_pop"
      BY DEF LockInv
    <2>2. Head(taskQueue) \in Tasks /\ taskQueue' \in Seq(Tasks)
      BY PopSeq DEF TypeOK
    <2>3. TypeOK'
      BY <2>2 DEF TypeOK
    <2>4. LockInv' /\ LifeInv' /\ StopInv'
      BY DEF LockInv, LifeInv, StopInv
    <2>5. CarryInv'
      BY <2>1 DEF CarryInv
    <2>6. removed \o taskQueue
            = Append(removed, Head(taskQueue)) \o SubSeq(taskQueue, 2, Len(taskQueue))
      BY PopAccount DEF TypeOK
    <2>7. QueueAccounting'
      BY <2>6, Zenon DEF QueueAccounting
    <2> QED BY <2>3, <2>4, <2>5, <2>7
  <1> QED BY <1>1, <1>2, <1>3, <1>4, <1>5 DEF ClientStep, ClientCall

\* Every step preserves the inductive invariant.
LEMMA NextIInv == IInv /\ [Next]_vars => IInv'
  <1> SUFFICES ASSUME IInv, [Next]_vars PROVE IInv'
    OBVIOUS
  <1>1. CASE UNCHANGED vars
    BY <1>1 DEF vars, threadVars, clientVars, stopVars, IInv, TypeOK, LockInv,
                LifeInv, CarryInv, StopInv, QueueAccounting
  <1>2. CASE Next
    BY <1>2, ControllerIInv, WorkerIInv, ClientIInv DEF Next
  <1> QED BY <1>1, <1>2

\* The inductive invariant holds in every reachable state.
THEOREM Invariance == Spec => []IInv
  BY InitIInv, NextIInv, PTL DEF Spec

\* Every variable of the task thread keeps its type.
THEOREM TypeCorrect == Spec => []TypeOK
  BY Invariance, PTL DEF IInv

\* No accepted task is lost, doubled or overtaken, whatever PushTask, PopTask
\* and ClearTaskQueue do at the same time.
THEOREM QueueAccountingHolds == Spec => []QueueAccounting
  BY Invariance, PTL DEF IInv

\* A stop during Run lets at most one more task be done.
THEOREM AtMostOneAfterStopHolds == Spec => []AtMostOneAfterStop
  <1>1. IInv => AtMostOneAfterStop
    BY DEF IInv, StopInv, TypeOK, AtMostOneAfterStop
  <1> QED BY <1>1, Invariance, PTL

=============================================================================
