-------------------------- MODULE RecyclePoolProofs --------------------------
(***************************************************************************)
(* RecyclePool keeps its objects exclusive for every set of threads, every *)
(* initial size and every sequence of Reset and Resize arguments, negative  *)
(* ones included.                                                          *)
(***************************************************************************)
EXTENDS RecyclePool, SequenceTheorems, TLAPS

Returning == {"alloc_return", "dealloc_lock", "dealloc_push"}

\* The mutex is with the thread that is between its lock and its unlock.
LockInv == \A t \in Threads : pc[t] \in Critical <=> locker = t

\* The local ret: a thread's own object, or the element about to be popped.
RetInv ==
    \A t \in Threads :
        /\ pc[t] \in Returning => ret[t] \in Obj /\ ret[t] \notin owned[t]
        /\ pc[t] = "alloc_pop" => m_pool # <<>> /\ ret[t] = Top

\* What the loops of Reset and Resize have left to do.
LoopInv ==
    \A t \in Threads :
        /\ pc[t] = "grow" => Len(m_pool) + imax[t] = poolCount[t]
        /\ pc[t] = "shrink" => Len(m_pool) - imax[t] = poolCount[t]

\* The process died in the loop of a Resize to a negative number.
CrashInv ==
    crashed => \E t \in Threads : pc[t] = "shrink" /\ poolCount[t] < 0

\* A step of a running process.
Alive == ~crashed /\ crashed' = crashed

IInv == TypeOK /\ LockInv /\ RetInv /\ LoopInv /\ Exclusive /\ CrashInv

-----------------------------------------------------------------------------
(* The stack operations on sequences *)

\* pop() of a nonempty stack removes its last element and nothing else.
LEMMA PopSeq ==
    ASSUME NEW S, NEW s \in Seq(S), s # <<>>
    PROVE  LET f == SubSeq(s, 1, Len(s) - 1) IN
             /\ f \in Seq(S)
             /\ Len(f) = Len(s) - 1
             /\ \A i \in 1..Len(f) : f[i] = s[i]
             /\ Len(s) \in Nat \ {0}
             /\ s[Len(s)] \in S
  <1>1. Len(s) \in Nat \ {0}
    BY EmptySeq
  <1>2. \A i \in 1..Len(s) : s[i] \in S
    OBVIOUS
  <1>3. \A i \in 1..Len(s) - 1 : s[i] \in S
    BY <1>1, <1>2
  <1> DEFINE f == SubSeq(s, 1, Len(s) - 1)
  <1>4. /\ f \in Seq(S)
        /\ Len(f) = IF 1 <= Len(s) - 1 THEN (Len(s) - 1) - 1 + 1 ELSE 0
        /\ \A i \in 1..(Len(s) - 1) - 1 + 1 : f[i] = s[1 + i - 1]
    <2> HIDE DEF f
    <2>1. 1 \in Int /\ Len(s) - 1 \in Int
      BY <1>1
    <2> QED BY <1>3, <2>1, SubSeqProperties DEF f
  <1>5. Len(f) = Len(s) - 1
    <2> DEFINE n == Len(s)
    <2> HIDE DEF f, n
    <2>1. n \in Nat \ {0}
      BY <1>1 DEF n
    <2>2. Len(f) = IF 1 <= n - 1 THEN (n - 1) - 1 + 1 ELSE 0
      BY <1>4, Zenon DEF n
    <2>3. Len(f) = n - 1
      BY <2>1, <2>2
    <2> QED BY <2>3 DEF n
  <1>6. \A i \in 1..Len(f) : f[i] = s[i]
    BY <1>1, <1>4, <1>5
  <1> QED BY <1>1, <1>2, <1>4, <1>5, <1>6

\* push() adds an element on the top and nothing else.
LEMMA PushSeq ==
    ASSUME NEW S, NEW s \in Seq(S), NEW o \in S
    PROVE  LET f == Append(s, o) IN
             /\ f \in Seq(S)
             /\ Len(f) = Len(s) + 1
             /\ \A i \in 1..Len(s) : f[i] = s[i]
             /\ f[Len(f)] = o
             /\ f # <<>>
  OBVIOUS

-----------------------------------------------------------------------------
(* The two ways the stack changes, for a thread that has the mutex *)

\* After pop() the stack holds what it held, except its former top.
LEMMA PopPool ==
    ASSUME TypeOK, PoolDistinct, m_pool # <<>>, Pop
    PROVE  /\ m_pool' \in Seq(Obj)
           /\ Len(m_pool') = Len(m_pool) - 1
           /\ Len(m_pool) \in Nat \ {0}
           /\ Pooled' = Pooled \ {Top}
           /\ Top \in Pooled
           /\ Top \in Obj
           /\ PoolDistinct'
  <1>1. /\ m_pool' \in Seq(Obj)
        /\ Len(m_pool') = Len(m_pool) - 1
        /\ \A i \in 1..Len(m_pool') : m_pool'[i] = m_pool[i]
        /\ Len(m_pool) \in Nat \ {0}
        /\ Top \in Obj
    BY PopSeq DEF TypeOK, Pop, Top
  <1>2. Pooled' = Pooled \ {Top}
    BY <1>1 DEF Pooled, Top, PoolDistinct
  <1>3. Top \in Pooled
    BY <1>1 DEF Pooled, Top
  <1>4. PoolDistinct'
    BY <1>1 DEF PoolDistinct
  <1> QED BY <1>1, <1>2, <1>3, <1>4

\* After push() of an object that was not there, the stack holds it too.
LEMMA PushPool ==
    ASSUME TypeOK, PoolDistinct, NEW o \in Obj, o \notin Pooled, Push(o)
    PROVE  /\ m_pool' \in Seq(Obj)
           /\ Len(m_pool') = Len(m_pool) + 1
           /\ Len(m_pool) \in Nat
           /\ Pooled' = Pooled \union {o}
           /\ PoolDistinct'
  <1>1. /\ m_pool' \in Seq(Obj)
        /\ Len(m_pool') = Len(m_pool) + 1
        /\ Len(m_pool) \in Nat
        /\ \A i \in 1..Len(m_pool) : m_pool'[i] = m_pool[i]
        /\ m_pool'[Len(m_pool')] = o
    BY PushSeq DEF TypeOK, Push
  <1>2. \A i \in 1..Len(m_pool) : m_pool[i] # o
    BY DEF Pooled
  <1>3. Pooled' = Pooled \union {o}
    <2>1. Pooled' \subseteq Pooled \union {o}
      BY <1>1 DEF Pooled
    <2>2. Pooled \subseteq Pooled'
      BY <1>1 DEF Pooled
    <2>3. o \in Pooled'
      BY <1>1 DEF Pooled
    <2> QED BY <2>1, <2>2, <2>3
  <1>4. PoolDistinct'
    BY <1>1, <1>2 DEF PoolDistinct
  <1> QED BY <1>1, <1>3, <1>4

\* A step that leaves the stack alone and gives nobody anything.
LEMMA ExclusiveKept ==
    ASSUME Exclusive, m_pool' = m_pool,
           \A u \in Threads : Held(u)' \subseteq Held(u)
    PROVE  Exclusive'
  <1>1. Pooled' = Pooled
    BY DEF Pooled
  <1>2. PoolDistinct'
    BY DEF Exclusive, PoolDistinct
  <1>3. PoolNotHeld' /\ HeldDisjoint'
    BY <1>1 DEF Exclusive, PoolNotHeld, HeldDisjoint
  <1> QED BY <1>2, <1>3 DEF Exclusive

-----------------------------------------------------------------------------
(* The inductive invariant *)

\* The constructed pool satisfies the inductive invariant.
LEMMA InitIInv == Init => IInv
  <1> SUFFICES ASSUME Init PROVE IInv
    OBVIOUS
  <1>1. m_pool \in Seq(Obj) /\ DOMAIN m_pool = 1..InitNum
    <2>1. m_pool \in [1..InitNum -> Obj]
      BY DEF Init
    <2>2. CASE InitNum \in Nat
      BY <2>1, <2>2
    <2>3. CASE InitNum \notin Nat
      <3>1. 1..InitNum = 1..0
        BY <2>3, InitNumAssumption
      <3>2. m_pool \in [1..0 -> Obj]
        BY <2>1, <3>1
      <3>3. m_pool \in Seq(Obj)
        BY <3>2
      <3> QED BY <2>1, <3>3
    <2> QED BY <2>2, <2>3
  <1>2. TypeOK
    <2>1. poolCount \in [Threads -> Int] /\ imax \in [Threads -> Nat]
      BY DEF Init
    <2>2. /\ locker \in Threads \union {NoThread}
          /\ pc \in [Threads -> Places]
          /\ ret \in [Threads -> Obj \union {NoObj}]
          /\ owned \in [Threads -> SUBSET Obj]
          /\ crashed \in BOOLEAN
      BY DEF Init, Places
    <2> QED BY <1>1, <2>1, <2>2 DEF TypeOK
  <1>3. LockInv
    BY NoThreadAssumption DEF Init, LockInv, Critical
  <1>4. RetInv /\ LoopInv
    BY DEF Init, RetInv, LoopInv, Returning
  <1>5. Exclusive
    <2>1. PoolDistinct
      <3>1. DOMAIN m_pool = 1..Len(m_pool)
        BY <1>1
      <3> QED BY <1>1, <3>1, Zenon DEF Init, PoolDistinct
    <2>2. PoolNotHeld /\ HeldDisjoint
      BY DEF Init, PoolNotHeld, HeldDisjoint, Held
    <2> QED BY <2>1, <2>2 DEF Exclusive
  <1>6. CrashInv
    BY DEF Init, CrashInv
  <1> QED BY <1>2, <1>3, <1>4, <1>5, <1>6 DEF IInv

\* Every step of every thread preserves the inductive invariant.
LEMMA NextIInv == IInv /\ [Next]_vars => IInv'
  <1> SUFFICES ASSUME IInv, [Next]_vars PROVE IInv'
    OBVIOUS
  <1> USE DEF IInv
  <1> USE NoThreadAssumption, NoObjAssumption, PoolCountsAssumption
  <1>1. ASSUME NEW t \in Threads, CallAlloc(t), Alive
        PROVE  IInv'
    <2> USE <1>1 DEF CallAlloc, Goto
    <2>1. TypeOK'
      BY DEF Alive, TypeOK, Places, Waiting
    <2>2. LockInv'
      BY DEF TypeOK, LockInv, Critical
    <2>3. RetInv' /\ LoopInv'
      BY DEF TypeOK, RetInv, LoopInv, Returning, Top
    <2>4. Exclusive'
      <3>1. \A u \in Threads : Held(u)' \subseteq Held(u)
        BY DEF TypeOK, Held
      <3> QED BY <3>1, ExclusiveKept
    <2> QED BY <2>1, <2>2, <2>3, <2>4 DEF Alive, CrashInv
  <1>2. ASSUME NEW t \in Threads, NEW o \in Obj, CallDealloc(t, o), Alive
        PROVE  IInv'
    <2> USE <1>2 DEF CallDealloc, Goto
    <2>1. TypeOK'
      BY DEF Alive, TypeOK, Places, Waiting
    <2>2. LockInv'
      BY DEF TypeOK, LockInv, Critical
    <2>3. RetInv' /\ LoopInv'
      BY DEF TypeOK, RetInv, LoopInv, Returning, Top
    <2>4. Held(t)' = Held(t) /\ \A u \in Threads \ {t} : Held(u)' = Held(u)
      BY DEF TypeOK, Held
    <2>5. Exclusive'
      BY <2>4 DEF Exclusive, PoolDistinct, PoolNotHeld, HeldDisjoint, Pooled
    <2> QED BY <2>1, <2>2, <2>3, <2>5 DEF Alive, CrashInv
  <1>3. ASSUME NEW t \in Threads, NEW n \in PoolCounts,
               CallReset(t, n) \/ CallResize(t, n), Alive
        PROVE  IInv'
    <2> USE <1>3 DEF CallReset, CallResize, Goto
    <2>1. TypeOK'
      BY DEF Alive, TypeOK, Places, Waiting
    <2>2. LockInv'
      BY DEF TypeOK, LockInv, Critical
    <2>3. RetInv' /\ LoopInv'
      BY DEF TypeOK, RetInv, LoopInv, Returning, Top
    <2>4. Exclusive'
      <3>1. \A u \in Threads : Held(u)' \subseteq Held(u)
        BY DEF TypeOK, Held
      <3> QED BY <3>1, ExclusiveKept
    <2> QED BY <2>1, <2>2, <2>3, <2>4 DEF Alive, CrashInv
  <1>4. ASSUME NEW t \in Threads, NEW o \in Obj, Drop(t, o), Alive
        PROVE  IInv'
    <2> USE <1>4 DEF Drop, Goto
    <2>1. TypeOK'
      BY DEF Alive, TypeOK
    <2>2. LockInv'
      BY DEF LockInv
    <2>3. RetInv' /\ LoopInv'
      BY DEF TypeOK, RetInv, LoopInv, Returning, Top
    <2>4. Exclusive'
      <3>1. \A u \in Threads : Held(u)' \subseteq Held(u)
        BY DEF TypeOK, Held
      <3> QED BY <3>1, ExclusiveKept
    <2> QED BY <2>1, <2>2, <2>3, <2>4 DEF Alive, CrashInv
  <1>5. ASSUME NEW t \in Threads, Lock(t), Alive
        PROVE  IInv'
    <2> USE <1>5 DEF Lock, Goto
    <2>0. /\ pc[t] = "alloc_lock" => pc'[t] = "alloc_top"
          /\ pc[t] = "dealloc_lock" => pc'[t] = "dealloc_push"
          /\ pc[t] = "reset_lock" => pc'[t] = "reset_size"
          /\ pc[t] = "resize_lock" => pc'[t] = "resize_size"
          /\ pc[t] \in {"alloc_lock", "dealloc_lock", "reset_lock", "resize_lock"}
          /\ \A u \in Threads \ {t} : pc'[u] = pc[u]
          /\ pc' = [pc EXCEPT ![t] = pc'[t]]
      BY DEF TypeOK, LockOf, Waiting
    <2>1. TypeOK'
      BY <2>0 DEF Alive, TypeOK, Places, Critical
    <2>2. LockInv'
      BY <2>0 DEF TypeOK, LockInv, Critical
    <2>3. RetInv' /\ LoopInv'
      BY <2>0 DEF TypeOK, RetInv, LoopInv, Returning, Top
    <2>4. Exclusive'
      <3>1. \A u \in Threads : Held(u)' \subseteq Held(u)
        BY <2>0 DEF TypeOK, Held
      <3> QED BY <3>1, ExclusiveKept
    <2> QED BY <2>1, <2>2, <2>3, <2>4 DEF Alive, CrashInv
  <1>6. ASSUME NEW t \in Threads, Unlock(t), Alive
        PROVE  IInv'
    <2> USE <1>6 DEF Unlock, Goto
    <2>1. TypeOK'
      BY DEF Alive, TypeOK, Places
    <2>2. LockInv'
      BY DEF TypeOK, LockInv, Critical
    <2>3. RetInv' /\ LoopInv'
      BY DEF TypeOK, RetInv, LoopInv, Returning, Top
    <2>4. Exclusive'
      <3>1. \A u \in Threads : Held(u)' \subseteq Held(u)
        BY DEF TypeOK, Held
      <3> QED BY <3>1, ExclusiveKept
    <2> QED BY <2>1, <2>2, <2>3, <2>4 DEF Alive, CrashInv
  <1>7. ASSUME NEW t \in Threads, AllocTop(t), Alive
        PROVE  IInv'
    <2> USE <1>7 DEF AllocTop, Goto
    <2>1. Top \in Obj
      BY PopSeq DEF TypeOK, Top
    <2>2. TypeOK'
      BY <2>1 DEF Alive, TypeOK, Places, Critical
    <2>3. LockInv'
      BY DEF TypeOK, LockInv, Critical
    <2>4. RetInv' /\ LoopInv'
      BY DEF TypeOK, RetInv, LoopInv, Returning, Top
    <2>5. Exclusive'
      <3>1. \A u \in Threads : Held(u)' \subseteq Held(u)
        BY DEF TypeOK, Held
      <3> QED BY <3>1, ExclusiveKept
    <2> QED BY <2>2, <2>3, <2>4, <2>5 DEF Alive, CrashInv
  <1>8. ASSUME NEW t \in Threads, AllocPop(t), Alive
        PROVE  IInv'
    <2> USE <1>8 DEF AllocPop, Goto
    <2>1. m_pool # <<>> /\ ret[t] = Top
      BY DEF RetInv
    <2>2. /\ m_pool' \in Seq(Obj)
          /\ Len(m_pool') = Len(m_pool) - 1
          /\ Pooled' = Pooled \ {Top}
          /\ Top \in Pooled
          /\ Top \in Obj
          /\ PoolDistinct'
      BY <2>1, PopPool DEF Exclusive
    <2>3. /\ Held(t)' = Held(t) \union {Top}
          /\ \A u \in Threads \ {t} : Held(u)' = Held(u)
      BY <2>1 DEF TypeOK, Held
    <2>4. \A u \in Threads \ {t} : pc[u] \notin Critical
      BY DEF LockInv, Critical
    <2>5. TypeOK'
      BY <2>2 DEF Alive, TypeOK, Places, Critical
    <2>6. LockInv'
      BY DEF TypeOK, LockInv, Critical
    <2>7. RetInv' /\ LoopInv'
      <3>1. ret[t] \notin owned[t]
        BY <2>1, <2>2 DEF Exclusive, PoolNotHeld, Held
      <3> QED BY <2>1, <2>2, <2>4, <3>1
              DEF TypeOK, RetInv, LoopInv, Returning, Critical
    <2>8. Exclusive'
      BY <2>2, <2>3 DEF Exclusive, PoolNotHeld, HeldDisjoint
    <2> QED BY <2>5, <2>6, <2>7, <2>8 DEF Alive, CrashInv
  <1>9. ASSUME NEW t \in Threads, AllocReturn(t), Alive
        PROVE  IInv'
    <2> USE <1>9 DEF AllocReturn, Goto
    <2>1. TypeOK'
      BY DEF Alive, TypeOK, Places, RetInv, Returning
    <2>2. LockInv'
      BY DEF TypeOK, LockInv, Critical
    <2>3. RetInv' /\ LoopInv'
      BY DEF TypeOK, RetInv, LoopInv, Returning, Top
    <2>4. Held(t)' = Held(t) /\ \A u \in Threads \ {t} : Held(u)' = Held(u)
      BY DEF TypeOK, Held
    <2>5. Exclusive'
      BY <2>4 DEF Exclusive, PoolDistinct, PoolNotHeld, HeldDisjoint, Pooled
    <2> QED BY <2>1, <2>2, <2>3, <2>5 DEF Alive, CrashInv
  <1>10. ASSUME NEW t \in Threads, AllocEmpty(t), Alive
        PROVE  IInv'
    <2> USE <1>10 DEF AllocEmpty, Goto
    <2>1. TypeOK'
      BY DEF Alive, TypeOK, Places
    <2>2. LockInv'
      BY DEF TypeOK, LockInv, Critical
    <2>3. RetInv' /\ LoopInv'
      BY DEF TypeOK, RetInv, LoopInv, Returning, Top
    <2>4. Exclusive'
      <3>1. \A u \in Threads : Held(u)' \subseteq Held(u)
        BY DEF TypeOK, Held
      <3> QED BY <3>1, ExclusiveKept
    <2> QED BY <2>1, <2>2, <2>3, <2>4 DEF Alive, CrashInv
  <1>11. ASSUME NEW t \in Threads, AllocNew(t), Alive
        PROVE  IInv'
    <2> USE <1>11 DEF AllocNew, Goto
    <2>1. PICK o \in Fresh : owned' = [owned EXCEPT ![t] = @ \union {o}]
      OBVIOUS
    <2>2. /\ o \in Obj
          /\ o \notin Pooled
          /\ \A u \in Threads : o \notin Held(u)
      BY DEF Fresh
    <2>3. TypeOK'
      BY <2>1, <2>2 DEF Alive, TypeOK, Places
    <2>4. LockInv'
      BY DEF TypeOK, LockInv, Critical
    <2>5. RetInv' /\ LoopInv'
      BY <2>1 DEF TypeOK, RetInv, LoopInv, Returning, Top
    <2>6. /\ Held(t)' = Held(t) \union {o}
          /\ \A u \in Threads \ {t} : Held(u)' = Held(u)
          /\ Pooled' = Pooled
      BY <2>1 DEF TypeOK, Held, Pooled
    <2>7. Exclusive'
      BY <2>2, <2>6 DEF Exclusive, PoolDistinct, PoolNotHeld, HeldDisjoint
    <2> QED BY <2>3, <2>4, <2>5, <2>7 DEF Alive, CrashInv
  <1>12. ASSUME NEW t \in Threads, DeallocPush(t), Alive
        PROVE  IInv'
    <2> USE <1>12 DEF DeallocPush, Goto
    <2>1. ret[t] \in Obj /\ ret[t] \notin owned[t] /\ ret[t] \in Held(t)
      BY DEF RetInv, Returning, Held
    <2>2. ret[t] \notin Pooled
      BY <2>1 DEF Exclusive, PoolNotHeld
    <2>3. /\ m_pool' \in Seq(Obj)
          /\ Pooled' = Pooled \union {ret[t]}
          /\ PoolDistinct'
      BY <2>1, <2>2, PushPool DEF Exclusive
    <2>4. \A u \in Threads \ {t} : pc[u] \notin Critical
      BY DEF LockInv, Critical
    <2>5. /\ Held(t)' = owned[t]
          /\ Held(t) = owned[t] \union {ret[t]}
          /\ \A u \in Threads \ {t} : Held(u)' = Held(u)
      BY DEF TypeOK, Held
    <2>6. TypeOK'
      BY <2>3 DEF Alive, TypeOK, Places, Critical
    <2>7. LockInv'
      BY DEF TypeOK, LockInv, Critical
    <2>8. RetInv' /\ LoopInv'
      BY <2>4 DEF TypeOK, RetInv, LoopInv, Returning, Critical
    <2>9. Exclusive'
      BY <2>1, <2>3, <2>5 DEF Exclusive, PoolNotHeld, HeldDisjoint
    <2> QED BY <2>6, <2>7, <2>8, <2>9 DEF Alive, CrashInv
  <1>13. ASSUME NEW t \in Threads, ResetSize(t) \/ ResizeSize(t), Alive
        PROVE  IInv'
    <2> USE <1>13 DEF ResetSize, ResizeSize, Goto
    <2> DEFINE d == poolCount[t] - Len(m_pool)
    <2>0. /\ Len(m_pool) \in Nat
          /\ poolCount[t] \in Int
          /\ \/ pc' = [pc EXCEPT ![t] = "unlock"] /\ imax' = imax
             \/ /\ d > 0
                /\ pc' = [pc EXCEPT ![t] = "grow"]
                /\ imax' = [imax EXCEPT ![t] = d]
             \/ /\ ~(d > 0)
                /\ pc' = [pc EXCEPT ![t] = "shrink"]
                /\ imax' = [imax EXCEPT ![t] = -d]
      BY DEF TypeOK
    <2>1. TypeOK'
      <3>1. pc' \in [Threads -> Places]
        BY <2>0 DEF TypeOK, Places, Critical
      <3>2. imax' \in [Threads -> Nat]
        BY <2>0 DEF TypeOK
      <3> QED BY <3>1, <3>2 DEF Alive, TypeOK
    <2>2. LockInv'
      BY DEF TypeOK, LockInv, Critical
    <2>3. RetInv'
      BY <2>0 DEF TypeOK, RetInv, Returning, Top
    <2>4. LoopInv'
      <3>1. \A u \in Threads \ {t} :
              pc'[u] = pc[u] /\ imax'[u] = imax[u]
        BY <2>0 DEF TypeOK
      <3>2. pc'[t] = "grow" => Len(m_pool) + imax'[t] = poolCount[t]
        BY <2>0 DEF TypeOK
      <3>3. pc'[t] = "shrink" => Len(m_pool) - imax'[t] = poolCount[t]
        <4> SUFFICES ASSUME pc'[t] = "shrink" PROVE Len(m_pool) - imax'[t] = poolCount[t]
          OBVIOUS
        <4>1. imax'[t] = -d
          BY <2>0 DEF TypeOK
        <4> QED BY <2>0, <4>1
      <3>4. m_pool' = m_pool /\ poolCount' = poolCount
        OBVIOUS
      <3> QED BY <3>1, <3>2, <3>3, <3>4 DEF LoopInv
    <2>5. Exclusive'
      <3>1. \A u \in Threads : Held(u)' \subseteq Held(u)
        BY DEF TypeOK, Held
      <3> QED BY <3>1, ExclusiveKept
    <2> QED BY <2>1, <2>2, <2>3, <2>4, <2>5 DEF Alive, CrashInv
  <1>14. ASSUME NEW t \in Threads, GrowPush(t), Alive
        PROVE  IInv'
    <2> USE <1>14 DEF GrowPush
    <2>1. PICK o \in Fresh : Push(o)
      OBVIOUS
    <2>2. o \in Obj /\ o \notin Pooled /\ \A u \in Threads : o \notin Held(u)
      BY DEF Fresh
    <2>3. /\ m_pool' \in Seq(Obj)
          /\ Len(m_pool') = Len(m_pool) + 1
          /\ Len(m_pool) \in Nat
          /\ Pooled' = Pooled \union {o}
          /\ PoolDistinct'
      BY <2>1, <2>2, PushPool DEF Exclusive
    <2>4. \A u \in Threads \ {t} : pc[u] \notin Critical
      BY DEF LockInv, Critical
    <2>5. TypeOK'
      BY <2>3 DEF Alive, TypeOK
    <2>6. LockInv'
      BY DEF LockInv
    <2>7. RetInv'
      BY <2>4 DEF TypeOK, RetInv, Returning, Critical
    <2>8. LoopInv'
      BY <2>3, <2>4 DEF TypeOK, LoopInv, Critical
    <2>9. \A u \in Threads : Held(u)' = Held(u)
      BY DEF Held
    <2>10. Exclusive'
      BY <2>2, <2>3, <2>9 DEF Exclusive, PoolNotHeld, HeldDisjoint
    <2> QED BY <2>5, <2>6, <2>7, <2>8, <2>10 DEF Alive, CrashInv
  <1>15. ASSUME NEW t \in Threads, ShrinkPop(t), Alive
        PROVE  IInv'
    <2> USE <1>15 DEF ShrinkPop
    <2>1. m_pool # <<>>
      OBVIOUS
    <2>2. /\ m_pool' \in Seq(Obj)
          /\ Len(m_pool') = Len(m_pool) - 1
          /\ Len(m_pool) \in Nat \ {0}
          /\ Pooled' = Pooled \ {Top}
          /\ PoolDistinct'
      BY <2>1, PopPool DEF Exclusive
    <2>4. \A u \in Threads \ {t} : pc[u] \notin Critical
      BY DEF LockInv, Critical
    <2>5. TypeOK'
      BY <2>2 DEF Alive, TypeOK
    <2>6. LockInv'
      BY DEF LockInv
    <2>7. RetInv'
      BY <2>4 DEF TypeOK, RetInv, Returning, Critical
    <2>8. LoopInv'
      BY <2>2, <2>4 DEF TypeOK, LoopInv, Critical
    <2>9. \A u \in Threads : Held(u)' = Held(u)
      BY DEF Held
    <2>10. Exclusive'
      BY <2>2, <2>9 DEF Exclusive, PoolNotHeld, HeldDisjoint
    <2> QED BY <2>5, <2>6, <2>7, <2>8, <2>10 DEF Alive, CrashInv
  <1>16. ASSUME NEW t \in Threads, PopEmpty(t), ~crashed
        PROVE  IInv'
    <2> USE <1>16 DEF PopEmpty, AtPop
    <2>1. TypeOK' /\ LockInv' /\ RetInv' /\ LoopInv'
      BY DEF TypeOK, LockInv, RetInv, LoopInv, Top
    <2>2. Exclusive'
      <3>1. \A u \in Threads : Held(u)' \subseteq Held(u)
        BY DEF Held
      <3> QED BY <3>1, ExclusiveKept
    <2>3. pc[t] = "shrink" /\ imax[t] > 0
      BY DEF RetInv
    <2>4. poolCount[t] < 0
      <3>1. Len(m_pool) = 0
        OBVIOUS
      <3> QED BY <2>3, <3>1 DEF LoopInv, TypeOK
    <2>5. CrashInv'
      BY <2>3, <2>4 DEF CrashInv
    <2> QED BY <2>1, <2>2, <2>5
  <1>17. CASE UNCHANGED vars
    BY <1>17 DEF vars, TypeOK, LockInv, RetInv, LoopInv, Returning, Top,
                 Exclusive, PoolDistinct, PoolNotHeld, HeldDisjoint, Held,
                 Pooled, CrashInv
  <1>18. CASE \E t \in Threads : Step(t)
    <2>1. PICK t \in Threads : Step(t)
      BY <1>18
    <2>2. ~crashed /\ (PopEmpty(t) \/ Alive)
      BY <2>1 DEF Step, Alive
    <2> QED BY <2>1, <2>2, <1>5, <1>6, <1>7, <1>8, <1>9, <1>10, <1>11, <1>12,
               <1>13, <1>14, <1>15, <1>16 DEF Step
  <1>19. CASE \E t \in Threads : Call(t)
    <2>1. PICK t \in Threads : Call(t)
      BY <1>19
    <2>2. Alive
      BY <2>1 DEF Call, Alive
    <2> QED BY <2>1, <2>2, <1>1, <1>2, <1>3, <1>4 DEF Call
  <1> QED BY <1>17, <1>18, <1>19 DEF Next, Terminated

\* The inductive invariant holds in every reachable state.
THEOREM Invariance == Spec => []IInv
  BY InitIInv, NextIInv, PTL DEF Spec

\* Every variable of the pool keeps its type.
THEOREM TypeCorrect == Spec => []TypeOK
  BY Invariance, PTL DEF IInv

\* No interleaving of Alloc, Dealloc, Reset and Resize gives one object to
\* two threads, or keeps in the pool an object that a thread uses.
THEOREM ExclusiveHolds == Spec => []Exclusive
  BY Invariance, PTL DEF IInv

\* The only pop() of an empty stack is in a Resize to a negative number,
\* whatever arguments the constructor, Reset and Resize get.
THEOREM OnlyNegativePopsEmptyHolds == Spec => []OnlyNegativePopsEmpty
  <1>1. ASSUME IInv PROVE OnlyNegativePopsEmpty
    <2> USE <1>1 DEF IInv
    <2>1. ASSUME NEW t \in Threads, pc[t] = "shrink", imax[t] > Len(m_pool)
          PROVE  poolCount[t] < 0
      BY <2>1 DEF LoopInv, TypeOK
    <2> QED BY <2>1 DEF OnlyNegativePopsEmpty, RetInv, CrashInv
  <1> QED BY <1>1, Invariance, PTL

\* Reset and Resize leave the mutex with the stack at the requested size.
THEOREM SizeReachedHolds == Spec => []SizeReached
  <1>1. IInv => SizeReached
    BY DEF IInv, SizeReached, LoopInv, TypeOK
  <1> QED BY <1>1, Invariance, PTL

-----------------------------------------------------------------------------
(* The pool implements ExclusiveLease *)

holderFn == [o \in Obj |-> HolderOf(o)]

\* Under Exclusive the holder of an object is determined.
LEMMA HolderCases ==
    ASSUME Exclusive, NEW o \in Obj
    PROVE  /\ o \in Pooled => HolderOf(o) = "parked"
           /\ \A t \in Threads : o \in Held(t) => HolderOf(o) = t
           /\ o \notin Pooled /\ (\A t \in Threads : o \notin Held(t))
                => HolderOf(o) = "free"
  <1>1. \A t, u \in Threads : o \in Held(t) /\ o \in Held(u) => t = u
    BY DEF Exclusive, HeldDisjoint
  <1>2. \A t \in Threads : o \in Held(t) => o \notin Pooled
    BY DEF Exclusive, PoolNotHeld
  <1>3. ASSUME NEW t \in Threads, o \in Held(t) PROVE HolderOf(o) = t
    <2>1. (CHOOSE u \in Threads : o \in Held(u)) = t
      BY <1>1, <1>3
    <2> QED BY <1>2, <1>3, <2>1 DEF HolderOf
  <1> QED BY <1>3 DEF HolderOf

\* The same after a step.
LEMMA HolderCasesNext ==
    ASSUME Exclusive', NEW o \in Obj
    PROVE  /\ o \in Pooled' => HolderOf(o)' = "parked"
           /\ \A t \in Threads : o \in Held(t)' => HolderOf(o)' = t
           /\ o \notin Pooled' /\ (\A t \in Threads : o \notin Held(t)')
                => HolderOf(o)' = "free"
  <1>1. \A t, u \in Threads : o \in Held(t)' /\ o \in Held(u)' => t = u
    BY DEF Exclusive, HeldDisjoint
  <1>2. \A t \in Threads : o \in Held(t)' => o \notin Pooled'
    BY DEF Exclusive, PoolNotHeld
  <1>3. ASSUME NEW t \in Threads, o \in Held(t)' PROVE HolderOf(o)' = t
    <2>1. (CHOOSE u \in Threads : o \in Held(u)') = t
      BY <1>1, <1>3
    <2> QED BY <1>2, <1>3, <2>1 DEF HolderOf
  <1> QED BY <1>3 DEF HolderOf

\* A step that moves no object in or out of a place keeps its holder.
LEMMA HolderKept ==
    ASSUME Exclusive, Exclusive', NEW o \in Obj,
           o \in Pooled' <=> o \in Pooled,
           \A t \in Threads : o \in Held(t)' <=> o \in Held(t)
    PROVE  HolderOf(o)' = HolderOf(o)
  BY HolderCases, HolderCasesNext

\* A step that moves one object changes the holder of that object only.
LEMMA OneMoved ==
    ASSUME Exclusive, Exclusive', NEW o \in Obj, NEW to, HolderOf(o)' = to,
           \A p \in Obj \ {o} :
              /\ p \in Pooled' <=> p \in Pooled
              /\ \A t \in Threads : p \in Held(t)' <=> p \in Held(t)
    PROVE  holderFn' = [holderFn EXCEPT ![o] = to]
  <1>1. \A p \in Obj \ {o} : HolderOf(p)' = HolderOf(p)
    BY HolderKept
  <1> QED BY <1>1 DEF holderFn

\* A step that moves no object is a stutter of the abstract pool.
LEMMA NoneMoved ==
    ASSUME Exclusive, Exclusive', Pooled' = Pooled,
           \A t \in Threads : Held(t)' = Held(t)
    PROVE  holderFn' = holderFn
  BY HolderKept DEF holderFn

\* At the start every object is in the stack or does not exist.
LEMMA LeaseInitial == Init => Lease!LeaseInit
  <1> SUFFICES ASSUME Init PROVE Lease!LeaseInit
    OBVIOUS
  <1>1. \A t \in Threads : Held(t) = {}
    BY DEF Init, Held
  <1>2. \A o \in Obj : HolderOf(o) \in {"free", "parked"}
    BY <1>1 DEF HolderOf
  <1> QED BY <1>2 DEF Lease!LeaseInit

\* Every step of the pool is a step of the abstract pool or a stutter.
LEMMA LeaseStep ==
    ASSUME IInv, IInv', [Next]_vars
    PROVE  [Lease!LeaseNext]_holderFn
  <1> USE NoThreadAssumption, NoObjAssumption
  <1>0. TypeOK /\ Exclusive /\ Exclusive' /\ RetInv
    BY DEF IInv
  <1> USE DEF Goto
  <1>1. ASSUME NEW t \in Threads,
               \/ CallAlloc(t)
               \/ \E n \in PoolCounts : CallReset(t, n) \/ CallResize(t, n)
               \/ Unlock(t) \/ AllocTop(t) \/ AllocEmpty(t)
               \/ ResetSize(t) \/ ResizeSize(t) \/ PopEmpty(t)
        PROVE  holderFn' = holderFn
    <2>1. Pooled' = Pooled
      BY <1>1 DEF CallAlloc, CallReset, CallResize, Unlock, AllocTop,
                  AllocEmpty, ResetSize, ResizeSize, PopEmpty, Pooled
    <2>2. \A u \in Threads : Held(u)' = Held(u)
      <3>1. CASE CallAlloc(t) \/ Unlock(t) \/ AllocTop(t) \/ AllocEmpty(t)
        BY <1>0, <3>1 DEF TypeOK, CallAlloc, Unlock, AllocTop, AllocEmpty, Held
      <3>2. CASE \E n \in PoolCounts : CallReset(t, n) \/ CallResize(t, n)
        BY <1>0, <3>2 DEF TypeOK, CallReset, CallResize, Held
      <3>3. CASE ResetSize(t) \/ ResizeSize(t) \/ PopEmpty(t)
        BY <1>0, <3>3 DEF TypeOK, ResetSize, ResizeSize, PopEmpty, Held
      <3> QED BY <1>1, <3>1, <3>2, <3>3
    <2> QED BY <1>0, <2>1, <2>2, NoneMoved
  <1>2. ASSUME NEW t \in Threads,
               \/ \E o \in Obj : CallDealloc(t, o)
               \/ Lock(t) \/ AllocReturn(t)
        PROVE  holderFn' = holderFn
    <2>1. Pooled' = Pooled
      BY <1>2 DEF CallDealloc, Lock, AllocReturn, Pooled
    <2>2. \A u \in Threads : Held(u)' = Held(u)
      <3>1. CASE \E o \in Obj : CallDealloc(t, o)
        BY <1>0, <3>1 DEF TypeOK, CallDealloc, Held
      <3>2. CASE Lock(t)
        <4>1. /\ pc[t] = "dealloc_lock" <=> pc'[t] = "dealloc_push"
              /\ pc[t] \in Waiting
              /\ pc'[t] \in {"alloc_top", "dealloc_push", "reset_size", "resize_size"}
              /\ \A u \in Threads \ {t} : pc'[u] = pc[u]
          BY <1>0, <3>2 DEF TypeOK, Lock, LockOf, Waiting
        <4> QED BY <1>0, <3>2, <4>1 DEF TypeOK, Lock, Held, Waiting
      <3>3. CASE AllocReturn(t)
        BY <1>0, <3>3 DEF TypeOK, AllocReturn, Held
      <3> QED BY <1>2, <3>1, <3>2, <3>3
    <2> QED BY <1>0, <2>1, <2>2, NoneMoved
  <1>3. ASSUME NEW t \in Threads, NEW o \in Obj, Drop(t, o)
        PROVE  Lease!Release(t, o, "free")
    <2>1. o \in Held(t) /\ Pooled' = Pooled
      BY <1>3 DEF Drop, Held, Pooled
    <2>2. /\ Held(t)' = Held(t) \ {o}
          /\ \A u \in Threads \ {t} : Held(u)' = Held(u)
      BY <1>0, <1>3 DEF TypeOK, Drop, Held
    <2>3. o \notin Pooled /\ \A u \in Threads \ {t} : o \notin Held(u)
      BY <1>0, <2>1 DEF Exclusive, PoolNotHeld, HeldDisjoint
    <2>4. HolderOf(o) = t /\ HolderOf(o)' = "free"
      BY <1>0, <2>1, <2>2, <2>3, HolderCases, HolderCasesNext
    <2>5. holderFn' = [holderFn EXCEPT ![o] = "free"]
      BY <1>0, <2>1, <2>2, <2>4, OneMoved
    <2> QED BY <2>4, <2>5 DEF Lease!Release, holderFn
  <1>4. ASSUME NEW t \in Threads, AllocPop(t)
        PROVE  Top \in Obj /\ Lease!Acquire(t, Top)
    <2>1. m_pool # <<>> /\ ret[t] = Top /\ PoolDistinct
      BY <1>0, <1>4 DEF RetInv, Exclusive, AllocPop
    <2>2. Pooled' = Pooled \ {Top} /\ Top \in Pooled /\ Top \in Obj
      BY <1>0, <1>4, <2>1, PopPool DEF AllocPop
    <2>3. /\ Held(t)' = Held(t) \union {Top}
          /\ \A u \in Threads \ {t} : Held(u)' = Held(u)
      BY <1>0, <1>4, <2>1 DEF TypeOK, AllocPop, Held
    <2>4. HolderOf(Top) = "parked"
      BY <1>0, <2>2, HolderCases
    <2>5. PICK o \in Obj : o = Top
      BY <2>2
    <2>6. HolderOf(o)' = t
      BY <1>0, <2>3, <2>5, HolderCasesNext
    <2>7. holderFn' = [holderFn EXCEPT ![o] = t]
      BY <1>0, <2>2, <2>3, <2>5, <2>6, OneMoved
    <2>8. HolderOf(o) = "parked"
      BY <2>4, <2>5
    <2>9. Lease!Acquire(t, o)
      BY <2>7, <2>8 DEF Lease!Acquire, holderFn
    <2> QED BY <2>5, <2>9
  <1>5. ASSUME NEW t \in Threads, AllocNew(t)
        PROVE  \E o \in Obj : Lease!Acquire(t, o)
    <2>1. PICK o \in Fresh : owned' = [owned EXCEPT ![t] = @ \union {o}]
      BY <1>5 DEF AllocNew
    <2>2. o \in Obj /\ o \notin Pooled /\ \A u \in Threads : o \notin Held(u)
      BY DEF Fresh
    <2>3. /\ Held(t)' = Held(t) \union {o}
          /\ \A u \in Threads \ {t} : Held(u)' = Held(u)
          /\ Pooled' = Pooled
      BY <1>0, <1>5, <2>1 DEF TypeOK, AllocNew, Held, Pooled
    <2>4. HolderOf(o) = "free" /\ HolderOf(o)' = t
      BY <1>0, <2>2, <2>3, HolderCases, HolderCasesNext
    <2>5. holderFn' = [holderFn EXCEPT ![o] = t]
      BY <1>0, <2>2, <2>3, <2>4, OneMoved
    <2> QED BY <2>2, <2>4, <2>5 DEF Lease!Acquire, holderFn
  <1>6. ASSUME NEW t \in Threads, DeallocPush(t)
        PROVE  \E o \in Obj : Lease!Release(t, o, "parked")
    <2>1. PICK o \in Obj : o = ret[t] /\ o \notin owned[t] /\ o \in Held(t)
      BY <1>0, <1>6 DEF RetInv, Returning, DeallocPush, Held
    <2>2. o \notin Pooled /\ \A u \in Threads \ {t} : o \notin Held(u)
      BY <1>0, <2>1 DEF Exclusive, PoolNotHeld, HeldDisjoint
    <2>3. Pooled' = Pooled \union {o}
      BY <1>0, <1>6, <2>1, <2>2, PushPool DEF DeallocPush, Exclusive
    <2>4. /\ Held(t)' = Held(t) \ {o}
          /\ \A u \in Threads \ {t} : Held(u)' = Held(u)
      BY <1>0, <1>6, <2>1 DEF TypeOK, DeallocPush, Held
    <2>5. HolderOf(o) = t /\ HolderOf(o)' = "parked"
      BY <1>0, <2>1, <2>3, HolderCases, HolderCasesNext
    <2>6. holderFn' = [holderFn EXCEPT ![o] = "parked"]
      BY <1>0, <2>2, <2>3, <2>4, <2>5, OneMoved
    <2> QED BY <2>5, <2>6 DEF Lease!Release, holderFn
  <1>7. ASSUME NEW t \in Threads, GrowPush(t)
        PROVE  \E o \in Obj : Lease!Park(o)
    <2>1. PICK o \in Fresh : Push(o)
      BY <1>7 DEF GrowPush
    <2>2. o \in Obj /\ o \notin Pooled /\ \A u \in Threads : o \notin Held(u)
      BY DEF Fresh
    <2>3. Pooled' = Pooled \union {o}
      BY <1>0, <2>1, <2>2, PushPool DEF Exclusive
    <2>4. \A u \in Threads : Held(u)' = Held(u)
      BY <1>7 DEF GrowPush, Held
    <2>5. HolderOf(o) = "free" /\ HolderOf(o)' = "parked"
      BY <1>0, <2>2, <2>3, HolderCases, HolderCasesNext
    <2>6. holderFn' = [holderFn EXCEPT ![o] = "parked"]
      BY <1>0, <2>2, <2>3, <2>4, <2>5, OneMoved
    <2> QED BY <2>2, <2>5, <2>6 DEF Lease!Park, holderFn
  <1>8. ASSUME NEW t \in Threads, ShrinkPop(t)
        PROVE  \E o \in Obj : Lease!Discard(o)
    <2>1. m_pool # <<>>
      BY <1>8 DEF ShrinkPop
    <2>2. Pooled' = Pooled \ {Top} /\ Top \in Pooled /\ Top \in Obj
      BY <1>0, <1>8, <2>1, PopPool DEF ShrinkPop, Exclusive
    <2>3. PICK o \in Obj : o = Top
      BY <2>2
    <2>4. \A u \in Threads : Held(u)' = Held(u) /\ o \notin Held(u)
      BY <1>0, <1>8, <2>2, <2>3 DEF ShrinkPop, Held, Exclusive, PoolNotHeld
    <2>5. HolderOf(o) = "parked" /\ HolderOf(o)' = "free"
      BY <1>0, <2>2, <2>3, <2>4, HolderCases, HolderCasesNext
    <2>6. holderFn' = [holderFn EXCEPT ![o] = "free"]
      BY <1>0, <2>2, <2>3, <2>4, <2>5, OneMoved
    <2> QED BY <2>5, <2>6 DEF Lease!Discard, holderFn
  <1>9. CASE UNCHANGED vars
    <2>1. Pooled' = Pooled
      BY <1>9 DEF vars, Pooled
    <2>2. \A u \in Threads : Held(u)' = Held(u)
      BY <1>9 DEF vars, Held
    <2> QED BY <1>0, <2>1, <2>2, NoneMoved
  <1>10. CASE \E t \in Threads : Step(t) \/ Call(t)
    <2>1. PICK t \in Threads : Step(t) \/ Call(t)
      BY <1>10
    <2>2. CASE Step(t)
      BY <2>2, <1>1, <1>2, <1>4, <1>5, <1>6, <1>7, <1>8
         DEF Step, Lease!LeaseNext
    <2>3. CASE Call(t)
      BY <2>3, <1>1, <1>2, <1>3 DEF Call, Lease!LeaseNext
    <2> QED BY <2>1, <2>2, <2>3
  <1> QED BY <1>9, <1>10 DEF Next, Terminated

\* The pool implements exclusive leases, for every value of the constants.
THEOREM Refinement == Spec => LeaseRefined
  <1>1. Init => Lease!LeaseInit
    BY LeaseInitial
  <1>2. IInv /\ IInv' /\ [Next]_vars => [Lease!LeaseNext]_holderFn
    BY LeaseStep
  <1> QED BY <1>1, <1>2, Invariance, PTL
          DEF Spec, LeaseRefined, Lease!LeaseSpec, holderFn

=============================================================================
