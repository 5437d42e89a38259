---------------------------- MODULE ServoProtocol ----------------------------
(***************************************************************************)
(* FServoProtocol (src/Servo/Protocol/ServoProtocol.{h,cpp}) over          *)
(* TNetPacketQueue (NetPacketPool.hpp): received packets wait in a queue,  *)
(* PacketPoolCount counts them, and packets that are done with go back to  *)
(* a recycle pool.  Queue and recycle pool lock themselves, each operation *)
(* on them is one step here (RecyclePool shows what that step stands for); *)
(* the counter is a plain int32, read and written outside every lock.      *)
(*                                                                         *)
(* If careful, the clients follow "not thread safe, need use mutex        *)
(* outside" (NetPacketPool.hpp:29): they hold a mutex of their own around  *)
(* Push and Pop and pop only if PacketPoolNum() > 0.  Without it they call *)
(* Push and Pop as they like.                                              *)
(*                                                                         *)
(* Push and DeallockNetPacket take a const shared_ptr& and leave the       *)
(* caller's copy alive.  All clients keep one discipline that the code     *)
(* does not enforce: what they have pushed or deallocated they do not use, *)
(* push or deallocate again through the copy they are left with (given),   *)
(* until they get the packet from AllocNetPacket anew; and what Out points *)
(* to when PopWithRecycle returns is theirs to use.                        *)
(***************************************************************************)
EXTENDS Integers, Sequences, FiniteSets

CONSTANTS
    Producers,  \* threads that push received packets
    Consumers,  \* threads that pop packets
    NoThread,   \* "the clients' mutex is free"
    Packets,    \* identities of FSNetPacket objects, reused once freed
    NoPacket,   \* the null shared_ptr
    InitRecycled, \* RecyclePoolMaxnum, the initial size of the recycle pool
    MaxHeld,    \* bound: packets one thread holds at a time
    MaxDebt,    \* bound: pops of the empty queue
    MaxCount    \* bound: the counter is read in -MaxDebt..MaxCount

Threads == Producers \union Consumers

ASSUME NoPacketAssumption == NoPacket \notin Packets
ASSUME NoThreadAssumption == NoThread \notin Threads
ASSUME InitRecycledAssumption == InitRecycled \in Nat
ASSUME MaxDebtAssumption == MaxDebt \in Nat

VARIABLES
    careful,        \* the clients lock, and ask before they pop
    Pool,           \* PacketPool->Pool; its front is the first element
    PacketPoolCount,
    RecyclePool,    \* its top is the last element
    locker,         \* the thread that has the clients' mutex
    pc,             \* pc[t]: where thread t is
    op,             \* op[t]: the member function it is in
    arg,            \* arg[t]: InNetPacket, InSharedPtr or OutRecyclePacket
    reg,            \* reg[t]: PacketPoolCount as read by ++ or --
    held,           \* held[t]: packets a shared_ptr of t's client points to
    given,          \* given[t]: those t has given away, but still points to
    data,           \* packets that carry a session id and a body
    debt,           \* pops of the empty queue that no push has made good
    crashed         \* the process has died of a pop of the empty queue

vars == <<Pool, PacketPoolCount, RecyclePool, locker, pc, op, arg, reg,
          held, given, data, debt, crashed, careful>>
queueVars == <<Pool, debt, crashed, careful>>

-----------------------------------------------------------------------------
Ops == {"none", "push", "pop", "pop_recycle", "dealloc"}
Places == {"idle", "enter", "num", "push_queue", "pop_queue", "count_read",
           "count_write", "on_dealloc", "recycle", "assign_out", "return"}

InSeq(s) == {s[i] : i \in 1..Len(s)}
Usable(t) == held[t] \ given[t]

\* What make_shared may return: memory that no shared_ptr points to.
Fresh == {p \in Packets :
             /\ p \notin InSeq(Pool) \union InSeq(RecyclePool)
             /\ \A t \in Threads : p \notin held[t]}

Goto(t, place) == pc' = [pc EXCEPT ![t] = place]
Begin(t, f, a, place) ==
    /\ pc[t] = "idle"
    /\ op' = [op EXCEPT ![t] = f]
    /\ arg' = [arg EXCEPT ![t] = a]
    /\ Goto(t, place)

Init ==
    /\ careful \in BOOLEAN
    /\ Pool = <<>>
    /\ PacketPoolCount = 0
    /\ RecyclePool \in {s \in [1..InitRecycled -> Packets] :
                           \A i, j \in 1..InitRecycled : s[i] = s[j] => i = j}
    /\ locker = NoThread
    /\ pc = [t \in Threads |-> "idle"]
    /\ op = [t \in Threads |-> "none"]
    /\ arg = [t \in Threads |-> NoPacket]
    /\ reg = [t \in Threads |-> 0]
    /\ held = [t \in Threads |-> {}]
    /\ given = [t \in Threads |-> {}]
    /\ data = {}
    /\ debt = 0
    /\ crashed = FALSE

-----------------------------------------------------------------------------
(* What the clients do *)

\* AllocNetPacket, and AllocHeartbeat, which fills in head and foot besides.
AllocNetPacket(t) ==
    /\ pc[t] = "idle"
    /\ Cardinality(held[t]) < MaxHeld
    /\ \E p \in Packets :
          /\ \/ /\ RecyclePool # <<>>
                /\ p = RecyclePool[Len(RecyclePool)]
                /\ RecyclePool' = SubSeq(RecyclePool, 1, Len(RecyclePool) - 1)
                /\ UNCHANGED data
             \/ /\ RecyclePool = <<>>
                /\ p \in Fresh
                /\ data' = data \ {p}
                /\ UNCHANGED RecyclePool
          /\ held' = [held EXCEPT ![t] = @ \union {p}]
          /\ given' = [given EXCEPT ![t] = @ \ {p}]
    /\ UNCHANGED <<queueVars, PacketPoolCount, locker, pc, op, arg, reg>>

\* The client fills its packet with ReUse.
FillPacket(t, p) ==
    /\ pc[t] = "idle"
    /\ p \in Usable(t)
    /\ data' = data \union {p}
    /\ UNCHANGED <<queueVars, PacketPoolCount, RecyclePool, locker, pc, op, arg, reg,
                   held, given>>

\* The client's shared_ptr to p is reset or goes out of scope.
LetGo(t, p) ==
    /\ pc[t] = "idle"
    /\ p \in held[t]
    /\ held' = [held EXCEPT ![t] = @ \ {p}]
    /\ given' = [given EXCEPT ![t] = @ \ {p}]
    /\ UNCHANGED <<queueVars, PacketPoolCount, RecyclePool, locker, pc, op, arg, reg,
                   data>>

CallPush(t, p) ==
    /\ p \in Usable(t)
    /\ Begin(t, "push", p, IF careful THEN "enter" ELSE "push_queue")
    /\ UNCHANGED <<queueVars, PacketPoolCount, RecyclePool, locker, reg, held, given,
                   data>>

\* Pop does not touch its Out parameter.
CallPop(t) ==
    /\ Begin(t, "pop", NoPacket, IF careful THEN "enter" ELSE "pop_queue")
    /\ UNCHANGED <<queueVars, PacketPoolCount, RecyclePool, locker, reg, held, given,
                   data>>

\* Out holds no packet, or one the consumer is done with.
CallPopWithRecycle(t, p) ==
    /\ p \in Usable(t) \union {NoPacket}
    /\ Begin(t, "pop_recycle", p, IF careful THEN "enter" ELSE "pop_queue")
    /\ UNCHANGED <<queueVars, PacketPoolCount, RecyclePool, locker, reg, held, given,
                   data>>

\* DeallockNetPacket returns at once for a null pointer.
CallDeallockNetPacket(t, p) ==
    /\ p \in Usable(t)
    /\ Begin(t, "dealloc", p, "on_dealloc")
    /\ UNCHANGED <<queueVars, PacketPoolCount, RecyclePool, locker, reg, held, given,
                   data>>

\* The careful client locks its mutex ...
Enter(t) ==
    /\ pc[t] = "enter"
    /\ locker = NoThread
    /\ locker' = t
    /\ Goto(t, IF op[t] = "push" THEN "push_queue" ELSE "num")
    /\ UNCHANGED <<queueVars, PacketPoolCount, RecyclePool, op, arg, reg,
                   held, given, data>>

\* Mutated form: the number is compared with >= 0.
AskNumZero(t) ==
    /\ pc[t] = "num"
    /\ Goto(t, IF PacketPoolCount >= 0 THEN "pop_queue" ELSE "return")
    /\ UNCHANGED <<queueVars, PacketPoolCount, RecyclePool, locker, op, arg, reg,
                   held, given, data>>

\* ... and does not pop unless PacketPoolNum() > 0.
AskNum(t) ==
    /\ pc[t] = "num"
    /\ Goto(t, IF PacketPoolCount > 0 THEN "pop_queue" ELSE "return")
    /\ UNCHANGED <<queueVars, PacketPoolCount, RecyclePool, locker, op, arg, reg,
                   held, given, data>>

-----------------------------------------------------------------------------
(* Push and Pop *)

\* Mutated form: a push into the queue that empties it first.
PushOverwrites(t) ==
    /\ pc[t] = "push_queue"
    /\ Pool' = <<arg[t]>>
    /\ given' = [given EXCEPT ![t] = @ \union {arg[t]}]
    /\ Goto(t, "count_read")
    /\ UNCHANGED <<careful, debt, crashed, PacketPoolCount, RecyclePool, locker, op, arg,
                   reg, held, data>>

\* PacketPool->Push, under PoolLock; it returns true.  After a pop of the
\* empty queue the element ends up outside the queue's bounds.
PushQueue(t) ==
    /\ pc[t] = "push_queue"
    /\ IF debt = 0
       THEN Pool' = Append(Pool, arg[t]) /\ UNCHANGED debt
       ELSE debt' = debt - 1 /\ UNCHANGED Pool
    /\ given' = [given EXCEPT ![t] = @ \union {arg[t]}]
    /\ Goto(t, "count_read")
    /\ UNCHANGED <<careful, crashed, PacketPoolCount, RecyclePool, locker, op, arg, reg,
                   held, data>>

\* PacketPool->Pop, under PoolLock: Pool.pop(); return true, always, where
\* NetPacketPool.hpp:54 says "true if a value was returned, false if the pool
\* was empty".  No value is returned either: the out parameter is not
\* assigned, and the queue's pointer to the front packet is dropped.
PopQueue(t) ==
    /\ pc[t] = "pop_queue"
    /\ Pool # <<>>
    /\ Pool' = Tail(Pool)
    /\ Goto(t, "count_read")
    /\ UNCHANGED <<careful, debt, crashed, PacketPoolCount, RecyclePool, locker, op, arg,
                   reg, held, given, data>>

\* pop() of an empty std::queue is undefined: with the usual deque it moves
\* the front past the end, or it destroys what it finds there and crashes.
PopEmptyQueue(t) ==
    /\ pc[t] = "pop_queue"
    /\ Pool = <<>>
    /\ \/ /\ debt < MaxDebt
          /\ debt' = debt + 1
          /\ UNCHANGED crashed
       \/ /\ crashed' = TRUE
          /\ UNCHANGED debt
    /\ Goto(t, "count_read")
    /\ UNCHANGED <<careful, Pool, PacketPoolCount, RecyclePool, locker, op, arg, reg,
                   held, given, data>>

\* ++PacketPoolCount and --PacketPoolCount: a read, then a write.
CountRead(t) ==
    /\ pc[t] = "count_read"
    /\ PacketPoolCount \in -MaxDebt..MaxCount
    /\ reg' = [reg EXCEPT ![t] = PacketPoolCount]
    /\ Goto(t, "count_write")
    /\ UNCHANGED <<queueVars, PacketPoolCount, RecyclePool, locker, op, arg, held,
                   given, data>>

\* Mutated form: PopWithRecycle recycles a null Out.
CountWriteNullUnseen(t) ==
    /\ pc[t] = "count_write"
    /\ PacketPoolCount' = IF op[t] = "push" THEN reg[t] + 1 ELSE reg[t] - 1
    /\ reg' = [reg EXCEPT ![t] = 0]
    /\ Goto(t, IF op[t] = "pop_recycle" THEN "on_dealloc" ELSE "return")
    /\ UNCHANGED <<queueVars, RecyclePool, locker, op, arg, held,
                   given, data>>

\* PopWithRecycle goes on to recycle the packet its Out parameter held.
CountWrite(t) ==
    /\ pc[t] = "count_write"
    /\ PacketPoolCount' = IF op[t] = "push" THEN reg[t] + 1 ELSE reg[t] - 1
    /\ reg' = [reg EXCEPT ![t] = 0]
    /\ Goto(t, IF op[t] = "pop_recycle" /\ arg[t] # NoPacket
               THEN "on_dealloc" ELSE "return")
    /\ UNCHANGED <<queueVars, RecyclePool, locker, op, arg, held,
                   given, data>>

-----------------------------------------------------------------------------
(* DeallockNetPacket, called by itself or from PopWithRecycle *)

\* Mutated form: the packet is recycled as it is.
OnDeallocSkipped(t) ==
    /\ pc[t] = "on_dealloc"
    /\ Goto(t, "recycle")
    /\ UNCHANGED <<queueVars, PacketPoolCount, RecyclePool, locker, op, arg, reg,
                   held, given, data>>

\* InSharedPtr->OnDealloc(): session id and body are cleared.
OnDealloc(t) ==
    /\ pc[t] = "on_dealloc"
    /\ data' = data \ {arg[t]}
    /\ Goto(t, "recycle")
    /\ UNCHANGED <<queueVars, PacketPoolCount, RecyclePool, locker, op, arg, reg,
                   held, given>>

\* RecyclePool.Dealloc(InSharedPtr), under the pool's own lock.  The packet
\* is anybody's now, while the caller's copy, and Out in PopWithRecycle, still
\* point to it.
RecycleDealloc(t) ==
    /\ pc[t] = "recycle"
    /\ RecyclePool' = Append(RecyclePool, arg[t])
    /\ given' = [given EXCEPT ![t] = @ \union {arg[t]}]
    /\ Goto(t, IF op[t] = "pop_recycle" THEN "assign_out" ELSE "return")
    /\ UNCHANGED <<queueVars, PacketPoolCount, locker, op, arg, reg, held, data>>

\* Mutated form: PopWithRecycle leaves Out as it is.
AssignOutSkipped(t) ==
    /\ pc[t] = "assign_out"
    /\ Goto(t, "return")
    /\ UNCHANGED <<queueVars, PacketPoolCount, RecyclePool, locker, op, arg, reg,
                   held, given, data>>

\* Out = std::move(newPacket), which is null: Pop has not assigned it.
AssignOut(t) ==
    /\ pc[t] = "assign_out"
    /\ arg' = [arg EXCEPT ![t] = NoPacket]
    /\ held' = [held EXCEPT ![t] = @ \ {arg[t]}]
    /\ given' = [given EXCEPT ![t] = @ \ {arg[t]}]
    /\ Goto(t, "return")
    /\ UNCHANGED <<queueVars, PacketPoolCount, RecyclePool, locker, op, reg, data>>

\* After PopWithRecycle the client uses what Out points to; a careful client
\* unlocks.
Return(t) ==
    /\ pc[t] = "return"
    /\ given' = IF op[t] = "pop_recycle"
                THEN [given EXCEPT ![t] = @ \ {arg[t]}] ELSE given
    /\ arg' = [arg EXCEPT ![t] = NoPacket]
    /\ op' = [op EXCEPT ![t] = "none"]
    /\ locker' = IF locker = t THEN NoThread ELSE locker
    /\ Goto(t, "idle")
    /\ UNCHANGED <<queueVars, PacketPoolCount, RecyclePool, reg, held, data>>

-----------------------------------------------------------------------------
Step(t) ==
    \/ Enter(t) \/ AskNum(t)
    \/ PushQueue(t) \/ PopQueue(t) \/ PopEmptyQueue(t)
    \/ CountRead(t) \/ CountWrite(t)
    \/ OnDealloc(t) \/ RecycleDealloc(t) \/ AssignOut(t) \/ Return(t)

Call(t) ==
    \/ AllocNetPacket(t)
    \/ \E p \in Packets :
          FillPacket(t, p) \/ LetGo(t, p) \/ CallDeallockNetPacket(t, p)
    \/ t \in Producers /\ \E p \in Packets : CallPush(t, p)
    \/ t \in Consumers /\ CallPop(t)
    \/ t \in Consumers /\ \E p \in Packets \union {NoPacket} : CallPopWithRecycle(t, p)

Next == ~crashed /\ \E t \in Threads : Step(t) \/ Call(t)

Spec == Init /\ [][Next]_vars

-----------------------------------------------------------------------------
(* Properties *)

TypeOK ==
    /\ careful \in BOOLEAN
    /\ Pool \in Seq(Packets)
    /\ PacketPoolCount \in Int
    /\ RecyclePool \in Seq(Packets)
    /\ locker \in Threads \union {NoThread}
    /\ pc \in [Threads -> Places]
    /\ op \in [Threads -> Ops]
    /\ arg \in [Threads -> Packets \union {NoPacket}]
    /\ reg \in [Threads -> Int]
    /\ held \in [Threads -> SUBSET Packets]
    /\ given \in [Threads -> SUBSET Packets]
    /\ data \in SUBSET Packets
    /\ debt \in 0..MaxDebt
    /\ crashed \in BOOLEAN

\* A packet is once in the queue, or once in the recycle pool, or in use by
\* one thread: clients that do not use what they have given away never share
\* one, although Push, DeallockNetPacket and PopWithRecycle put it into a pool
\* while the caller's pointer is still there, and somebody else may pop it,
\* fill it and give it back before PopWithRecycle overwrites Out.
PlacedOnce ==
    /\ \A i, j \in 1..Len(Pool) : Pool[i] = Pool[j] => i = j
    /\ \A i, j \in 1..Len(RecyclePool) : RecyclePool[i] = RecyclePool[j] => i = j
    /\ InSeq(Pool) \intersect InSeq(RecyclePool) = {}
    /\ \A t \in Threads :
          /\ Usable(t) \intersect (InSeq(Pool) \union InSeq(RecyclePool)) = {}
          /\ \A u \in Threads \ {t} : Usable(t) \intersect Usable(u) = {}

\* No packet is recycled with the session id or the body of its last use.
RecycledBlank == InSeq(RecyclePool) \intersect data = {}

\* Whenever no careful client is in Push or Pop, PacketPoolNum() is the
\* number of packets that wait.
CountExact == careful /\ locker = NoThread => PacketPoolCount = Len(Pool)

\* Asking PacketPoolNum() under the mutex is enough to keep pop() from the
\* empty queue.
NeverPopsEmpty == careful => debt = 0 /\ ~crashed

-----------------------------------------------------------------------------
(* What a comment of the code says *)

\* ServoProtocol.h:21, "Pool Healthy = pool.num() / max", for a queue that is
\* "Multiple-producers single-consumer" (NetPacketPool.hpp:110): at rest
\* PacketPoolNum() is the number of packets in the queue.
CountAtRest ==
    (\A t \in Threads : pc[t] = "idle") => PacketPoolCount = Len(Pool)

=============================================================================
