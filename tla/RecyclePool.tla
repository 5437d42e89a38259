----------------------------- MODULE RecyclePool -----------------------------
(***************************************************************************)
(* TSharedRecyclePool<T> (src/Core/Templates/SeptemRecyclePool.hpp): a     *)
(* stack of shared_ptr<T> behind one pthread mutex, used by any number of  *)
(* threads.  A member function is a sequence of steps: each read or write  *)
(* of m_pool is a step of its own, so what the mutex has to forbid is      *)
(* possible in the model as soon as a step forgets the mutex.              *)
(*                                                                         *)
(* The threads are disciplined clients, as the callers in this repository  *)
(* intend: a thread passes to Dealloc an object it holds, and does not use *)
(* it afterwards.  Dealloc itself does not enforce that.                   *)
(*                                                                         *)
(* Nothing checks the argument of the constructor, of Reset or of Resize:  *)
(* it may be negative.  The model subtracts ideal integers; the int32      *)
(* difference of the code is the same unless the argument is within the    *)
(* size of the stack of INT32_MIN, and that wrap is left out.              *)
(***************************************************************************)
EXTENDS Integers, Sequences, FiniteSets

CONSTANTS
    Threads,    \* client threads
    Obj,        \* identities of T objects; an identity is reused once freed
    NoThread,   \* "the mutex is free"
    NoObj,      \* the null shared_ptr
    InitNum,    \* argument of the constructor
    PoolCounts, \* arguments clients pass to Reset and Resize
    MaxOwned    \* bound: objects one thread holds at a time

ASSUME NoThreadAssumption == NoThread \notin Threads
ASSUME NoObjAssumption == NoObj \notin Obj
ASSUME InitNumAssumption == InitNum \in Int
ASSUME PoolCountsAssumption == PoolCounts \subseteq Int

VARIABLES
    m_pool,     \* the stack; its top is the last element
    locker,     \* the thread that has m_pool_locker, or NoThread
    pc,         \* pc[t]: where thread t is
    ret,        \* ret[t]: local ret of Alloc, argument of Dealloc
    poolCount,  \* poolCount[t]: argument of Reset or Resize
    imax,       \* imax[t]: iterations left in the loop of Reset or Resize
    owned,      \* owned[t]: objects the client code of thread t may use
    crashed     \* the process has died in pop() of an empty stack

vars == <<m_pool, locker, pc, ret, poolCount, imax, owned, crashed>>

-----------------------------------------------------------------------------
LockOf == [alloc_lock   |-> "alloc_top",
           dealloc_lock |-> "dealloc_push",
           reset_lock   |-> "reset_size",
           resize_lock  |-> "resize_size"]

Waiting == {"alloc_lock", "dealloc_lock", "reset_lock", "resize_lock"}

\* The places between the constructor and the destructor of _scopelock.
Critical == {"alloc_top", "alloc_pop", "alloc_return", "dealloc_push",
             "reset_size", "resize_size", "grow", "shrink", "unlock"}

Places == {"idle", "alloc_new"} \union Waiting \union Critical

Top == m_pool[Len(m_pool)]
Pooled == {m_pool[i] : i \in 1..Len(m_pool)}
Push(o) == m_pool' = Append(m_pool, o)
Pop == m_pool' = SubSeq(m_pool, 1, Len(m_pool) - 1)

\* The objects thread t can reach although they are not the pool's.
Held(t) ==
    owned[t] \union
    (IF pc[t] \in {"alloc_return", "dealloc_lock", "dealloc_push"}
     THEN {ret[t]} ELSE {})

\* What make_shared<T>() may return: memory that nobody refers to.
Fresh == {o \in Obj : o \notin Pooled /\ \A t \in Threads : o \notin Held(t)}

Goto(t, place) == pc' = [pc EXCEPT ![t] = place]

\* The constructor has run Reset(InNum) on an empty stack; 1..InitNum is empty
\* when InNum is not positive, and so is the stack.
Init ==
    /\ m_pool \in {s \in [1..InitNum -> Obj] :
                      \A i, j \in 1..InitNum : s[i] = s[j] => i = j}
    /\ locker = NoThread
    /\ pc = [t \in Threads |-> "idle"]
    /\ ret = [t \in Threads |-> NoObj]
    /\ poolCount = [t \in Threads |-> 0]
    /\ imax = [t \in Threads |-> 0]
    /\ owned = [t \in Threads |-> {}]
    /\ crashed = FALSE

-----------------------------------------------------------------------------
(* The calls of the client threads. *)

CallAlloc(t) ==
    /\ pc[t] = "idle"
    /\ Cardinality(owned[t]) < MaxOwned
    /\ Goto(t, "alloc_lock")
    /\ UNCHANGED <<m_pool, locker, ret, poolCount, imax, owned>>

\* With a null pointer Dealloc returns at once, which changes nothing.
CallDealloc(t, o) ==
    /\ pc[t] = "idle"
    /\ o \in owned[t]
    /\ Goto(t, "dealloc_lock")
    /\ ret' = [ret EXCEPT ![t] = o]
    /\ owned' = [owned EXCEPT ![t] = @ \ {o}]
    /\ UNCHANGED <<m_pool, locker, poolCount, imax>>

CallReset(t, n) ==
    /\ pc[t] = "idle"
    /\ Goto(t, "reset_lock")
    /\ poolCount' = [poolCount EXCEPT ![t] = n]
    /\ UNCHANGED <<m_pool, locker, ret, imax, owned>>

CallResize(t, n) ==
    /\ pc[t] = "idle"
    /\ Goto(t, "resize_lock")
    /\ poolCount' = [poolCount EXCEPT ![t] = n]
    /\ UNCHANGED <<m_pool, locker, ret, imax, owned>>

\* The client lets its last shared_ptr go: the object is freed.
Drop(t, o) ==
    /\ pc[t] = "idle"
    /\ o \in owned[t]
    /\ owned' = [owned EXCEPT ![t] = @ \ {o}]
    /\ UNCHANGED <<m_pool, locker, pc, ret, poolCount, imax>>

-----------------------------------------------------------------------------
(* ScopeLock _scopelock(&m_pool_locker): constructor and destructor.  The   *)
(* locals of a call are forgotten when it returns.                         *)

\* Mutated form: the mutex is not waited for.
LockIgnored(t) ==
    /\ pc[t] \in Waiting
    /\ locker' = t
    /\ Goto(t, LockOf[pc[t]])
    /\ UNCHANGED <<m_pool, ret, poolCount, imax, owned>>

Lock(t) ==
    /\ pc[t] \in Waiting
    /\ locker = NoThread
    /\ locker' = t
    /\ Goto(t, LockOf[pc[t]])
    /\ UNCHANGED <<m_pool, ret, poolCount, imax, owned>>

Unlock(t) ==
    /\ \/ pc[t] = "unlock"
       \/ pc[t] \in {"grow", "shrink"} /\ imax[t] = 0
    /\ locker' = NoThread
    /\ Goto(t, "idle")
    /\ ret' = [ret EXCEPT ![t] = NoObj]
    /\ poolCount' = [poolCount EXCEPT ![t] = 0]
    /\ UNCHANGED <<m_pool, imax, owned>>

-----------------------------------------------------------------------------
(* Alloc *)

AllocTop(t) ==
    /\ pc[t] = "alloc_top"
    /\ m_pool # <<>>
    /\ ret' = [ret EXCEPT ![t] = Top]
    /\ Goto(t, "alloc_pop")
    /\ UNCHANGED <<m_pool, locker, poolCount, imax, owned>>

\* Mutated form: the element is returned and stays on the stack.
AllocKeepsTop(t) ==
    /\ pc[t] = "alloc_pop"
    /\ Goto(t, "alloc_return")
    /\ UNCHANGED <<m_pool, locker, ret, poolCount, imax, owned>>

AllocPop(t) ==
    /\ pc[t] = "alloc_pop"
    /\ m_pool # <<>>
    /\ Pop
    /\ Goto(t, "alloc_return")
    /\ UNCHANGED <<locker, ret, poolCount, imax, owned>>

AllocReturn(t) ==
    /\ pc[t] = "alloc_return"
    /\ owned' = [owned EXCEPT ![t] = @ \union {ret[t]}]
    /\ ret' = [ret EXCEPT ![t] = NoObj]
    /\ locker' = NoThread
    /\ Goto(t, "idle")
    /\ UNCHANGED <<m_pool, poolCount, imax>>

\* Mutated form: the early way out forgets the mutex.
AllocEmptyKeepsLock(t) ==
    /\ pc[t] = "alloc_top"
    /\ m_pool = <<>>
    /\ Goto(t, "alloc_new")
    /\ UNCHANGED <<m_pool, locker, ret, poolCount, imax, owned>>

\* The stack is empty: the scope ends and the mutex is released ...
AllocEmpty(t) ==
    /\ pc[t] = "alloc_top"
    /\ m_pool = <<>>
    /\ locker' = NoThread
    /\ Goto(t, "alloc_new")
    /\ UNCHANGED <<m_pool, ret, poolCount, imax, owned>>

\* ... and the new object is made without it.
AllocNew(t) ==
    /\ pc[t] = "alloc_new"
    /\ \E o \in Fresh : owned' = [owned EXCEPT ![t] = @ \union {o}]
    /\ Goto(t, "idle")
    /\ UNCHANGED <<m_pool, locker, ret, poolCount, imax>>

-----------------------------------------------------------------------------
(* Dealloc *)

DeallocPush(t) ==
    /\ pc[t] = "dealloc_push"
    /\ Push(ret[t])
    /\ Goto(t, "unlock")
    /\ UNCHANGED <<locker, ret, poolCount, imax, owned>>

-----------------------------------------------------------------------------
(* Reset and Resize: the number of iterations is computed once, from the   *)
(* size the stack has then.                                                *)

\* Mutated form: as many new elements as asked for, whatever is there.
ResetAdds(t) ==
    /\ pc[t] = "reset_size"
    /\ imax' = [imax EXCEPT ![t] = poolCount[t]]
    /\ Goto(t, "grow")
    /\ UNCHANGED <<m_pool, locker, ret, poolCount, owned>>

ResetSize(t) ==
    /\ pc[t] = "reset_size"
    /\ LET d == poolCount[t] - Len(m_pool) IN
         IF d > 0
         THEN /\ imax' = [imax EXCEPT ![t] = d]
              /\ Goto(t, "grow")
         ELSE /\ Goto(t, "unlock")
              /\ UNCHANGED imax
    /\ UNCHANGED <<m_pool, locker, ret, poolCount, owned>>

\* Mutated forms: the difference keeps its sign; one pop too many.
ResizeSigned(t) ==
    /\ pc[t] = "resize_size"
    /\ imax' = [imax EXCEPT ![t] = poolCount[t] - Len(m_pool)]
    /\ Goto(t, IF imax'[t] > 0 THEN "grow" ELSE "shrink")
    /\ UNCHANGED <<m_pool, locker, ret, poolCount, owned>>

ResizeOneMore(t) ==
    /\ pc[t] = "resize_size"
    /\ poolCount[t] < Len(m_pool)
    /\ imax' = [imax EXCEPT ![t] = Len(m_pool) - poolCount[t] + 1]
    /\ Goto(t, "shrink")
    /\ UNCHANGED <<m_pool, locker, ret, poolCount, owned>>

ResizeSize(t) ==
    /\ pc[t] = "resize_size"
    /\ LET d == poolCount[t] - Len(m_pool) IN
         IF d > 0
         THEN /\ imax' = [imax EXCEPT ![t] = d]
              /\ Goto(t, "grow")
         ELSE /\ imax' = [imax EXCEPT ![t] = -d]
              /\ Goto(t, "shrink")
    /\ UNCHANGED <<m_pool, locker, ret, poolCount, owned>>

GrowPush(t) ==
    /\ pc[t] = "grow"
    /\ imax[t] > 0
    /\ \E o \in Fresh : Push(o)
    /\ imax' = [imax EXCEPT ![t] = @ - 1]
    /\ UNCHANGED <<locker, pc, ret, poolCount, owned>>

ShrinkPop(t) ==
    /\ pc[t] = "shrink"
    /\ imax[t] > 0
    /\ m_pool # <<>>
    /\ Pop
    /\ imax' = [imax EXCEPT ![t] = @ - 1]
    /\ UNCHANGED <<locker, pc, ret, poolCount, owned>>

-----------------------------------------------------------------------------
(* pop() of an empty std::stack is undefined.  The stack is a std::deque,   *)
(* whose pop_back then frees its only node and destroys a shared_ptr        *)
(* through a pointer it never wrote: the process dies.                      *)

AtPop(t) ==
    /\ pc[t] \in {"alloc_pop", "shrink"}
    /\ pc[t] = "shrink" => imax[t] > 0

PopEmpty(t) ==
    /\ AtPop(t)
    /\ m_pool = <<>>
    /\ crashed' = TRUE
    /\ UNCHANGED <<m_pool, locker, pc, ret, poolCount, imax, owned>>

-----------------------------------------------------------------------------
\* What a thread does on its own inside a member function.
Step(t) ==
    /\ ~crashed
    /\ \/ PopEmpty(t)
       \/ /\ UNCHANGED crashed
          /\ \/ Lock(t) \/ Unlock(t)
             \/ AllocTop(t) \/ AllocPop(t) \/ AllocReturn(t)
             \/ AllocEmpty(t) \/ AllocNew(t)
             \/ DeallocPush(t)
             \/ ResetSize(t) \/ ResizeSize(t) \/ GrowPush(t) \/ ShrinkPop(t)

\* What its client code decides.
Call(t) ==
    /\ ~crashed
    /\ UNCHANGED crashed
    /\ \/ CallAlloc(t)
       \/ \E o \in Obj : CallDealloc(t, o) \/ Drop(t, o)
       \/ \E n \in PoolCounts : CallReset(t, n) \/ CallResize(t, n)

\* The dead process does nothing; every other stop is a deadlock.
Terminated == crashed /\ UNCHANGED vars

Next == Terminated \/ \E t \in Threads : Step(t) \/ Call(t)

Spec == Init /\ [][Next]_vars

\* A running thread is scheduled; whether it calls anything is its choice.
FairSpec == Spec /\ \A t \in Threads : WF_vars(Step(t))

-----------------------------------------------------------------------------
(* Properties *)

TypeOK ==
    /\ m_pool \in Seq(Obj)
    /\ locker \in Threads \union {NoThread}
    /\ pc \in [Threads -> Places]
    /\ ret \in [Threads -> Obj \union {NoObj}]
    /\ poolCount \in [Threads -> Int]
    /\ imax \in [Threads -> Nat]
    /\ owned \in [Threads -> SUBSET Obj]
    /\ crashed \in BOOLEAN

\* No object is in the stack twice.
PoolDistinct ==
    \A i, j \in 1..Len(m_pool) : m_pool[i] = m_pool[j] => i = j

\* No object that a thread can use is in the stack.
PoolNotHeld == \A t \in Threads : Pooled \intersect Held(t) = {}

\* No object can be used by two threads.
HeldDisjoint ==
    \A t, u \in Threads : t # u => Held(t) \intersect Held(u) = {}

\* Two Allocs never hand out the same live object, and the pool never hands
\* out an object somebody still uses: what Alloc, Dealloc, Reset and Resize
\* owe their callers in every interleaving of their steps.
Exclusive == PoolDistinct /\ PoolNotHeld /\ HeldDisjoint

\* pop() meets an empty stack, and the process dies of it, only in a Resize
\* whose argument is negative.  What Alloc pops is the element it has read,
\* and the loop of any other Resize does not outrun what it counted, whatever
\* the other threads did between the count, the read and the pop().
OnlyNegativePopsEmpty ==
    /\ \A t \in Threads :
          /\ pc[t] = "alloc_pop" => m_pool # <<>> /\ ret[t] = Top
          /\ pc[t] = "shrink" /\ imax[t] > Len(m_pool) => poolCount[t] < 0
    /\ crashed =>
          \E t \in Threads : pc[t] = "shrink" /\ poolCount[t] < 0

\* When the loop of Reset or Resize is over, and before another thread can
\* take the mutex, the stack has the number of elements that was asked for.
\* (The loop of a Resize to a negative number never gets there.)
SizeReached ==
    \A t \in Threads :
        pc[t] \in {"grow", "shrink"} /\ imax[t] = 0 =>
            Len(m_pool) = poolCount[t]

\* A thread that got into the critical section, or that left it to make a
\* new object, releases the mutex and returns from its call: the loops end,
\* and no path out of Alloc, Dealloc, Reset or Resize keeps the mutex.  The
\* one way not to return is the death of the process.
AdmittedCallReturns ==
    \A t \in Threads :
        (locker = t \/ pc[t] = "alloc_new") ~>
            (crashed \/ (locker # t /\ pc[t] = "idle"))

\* The holder of an object in the terms of ExclusiveLease.  Alloc acquires
\* by its pop(), Dealloc releases by its push().
HolderOf(o) ==
    IF o \in Pooled THEN "parked"
    ELSE IF \E t \in Threads : o \in Held(t)
    THEN CHOOSE t \in Threads : o \in Held(t)
    ELSE "free"

Lease == INSTANCE ExclusiveLease WITH
            Free <- "free", Parked <- "parked",
            holder <- [o \in Obj |-> HolderOf(o)]

\* The pool implements exclusive leases of its objects.
LeaseRefined == Lease!LeaseSpec

=============================================================================
