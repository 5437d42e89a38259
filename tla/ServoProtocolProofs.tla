------------------------ MODULE ServoProtocolProofs ------------------------
(***************************************************************************)
(* Proofs about ServoProtocol, for every number of threads and packets.    *)
(*                                                                         *)
(* PlacedOnce needs that the packet a thread is about to push or to       *)
(* recycle is its own to use (Flow): calls do not take the client's        *)
(* pointer away, they only add to what it has given.  RecycledBlank needs  *)
(* that this packet is blank between OnDealloc and Dealloc (Flow), which   *)
(* nobody else can undo because nobody else may use it (PlacedOnce).  The  *)
(* exact count of careful clients needs that whoever is in Push or Pop has *)
(* the clients' mutex, and by how much the count is off between the queue  *)
(* and the counter (CountInv).                                             *)
(***************************************************************************)
EXTENDS ServoProtocol, SequenceTheorems, TLAPS

USE NoPacketAssumption, NoThreadAssumption, MaxDebtAssumption

\* Thread t has a packet as its argument, and may use it.
Own(t) == arg[t] \in Usable(t)

\* Where PopWithRecycle has what Out points to when it is called.
PopPlaces == {"enter", "num", "pop_queue", "count_read", "count_write", "return"}

Flow ==
    \A t \in Threads :
        /\ pc[t] \in {"push_queue", "on_dealloc", "recycle"} => Own(t)
        /\ pc[t] = "enter" /\ op[t] = "push" => Own(t)
        /\ pc[t] = "push_queue" => op[t] = "push"
        /\ pc[t] \in PopPlaces /\ op[t] = "pop_recycle" =>
              arg[t] = NoPacket \/ Own(t)
        /\ pc[t] = "recycle" => arg[t] \notin data

Locked == {"num", "push_queue", "pop_queue", "count_read", "count_write"}
Counting == {"count_read", "count_write"}

\* What the counter lacks while thread t is between the queue and the counter.
Off(t) == IF op[t] = "push" THEN -1 ELSE 1

CountInv ==
    careful =>
        /\ debt = 0 /\ ~crashed
        /\ \A t \in Threads :
            /\ pc[t] \in Locked => locker = t
            /\ pc[t] = "push_queue" => op[t] = "push"
            /\ pc[t] \in {"num", "pop_queue"} => op[t] # "push"
            /\ pc[t] = "pop_queue" => PacketPoolCount > 0
            /\ pc[t] = "count_read" => PacketPoolCount = Len(Pool) + Off(t)
            /\ pc[t] = "count_write" => reg[t] = Len(Pool) + Off(t)
        /\ (\A t \in Threads : pc[t] \notin Counting) => PacketPoolCount = Len(Pool)

IInv == TypeOK /\ PlacedOnce /\ Flow /\ RecycledBlank /\ CountInv

-----------------------------------------------------------------------------
(* Sequences without repetitions *)

Once(s) == \A i, j \in 1..Len(s) : s[i] = s[j] => i = j

\* A push of a packet the container does not have.
LEMMA AppendOnce ==
    ASSUME NEW s \in Seq(Packets), NEW p \in Packets, NEW r, r = Append(s, p),
           Once(s), p \notin InSeq(s)
    PROVE  /\ r \in Seq(Packets) /\ Len(r) = Len(s) + 1
           /\ Once(r) /\ InSeq(r) = InSeq(s) \union {p}
<1>1. /\ r \in Seq(Packets) /\ Len(r) = Len(s) + 1 /\ Len(s) \in Nat
      /\ \A i \in 1..Len(s) : r[i] = s[i]
      /\ r[Len(s) + 1] = p
  OBVIOUS
<1>2. \A i \in 1..Len(s) : s[i] # p  BY DEF InSeq
<1>3. Once(r)
  <2> SUFFICES ASSUME NEW i \in 1..Len(r), NEW j \in 1..Len(r), r[i] = r[j]
               PROVE  i = j
    BY DEF Once
  <2>1. CASE i \in 1..Len(s) /\ j \in 1..Len(s)  BY <1>1, <2>1 DEF Once
  <2>2. CASE i \notin 1..Len(s) /\ j \in 1..Len(s)
    <3>1. i = Len(s) + 1  BY <1>1, <2>2
    <3> QED  BY <1>1, <1>2, <2>2, <3>1
  <2>3. CASE i \in 1..Len(s) /\ j \notin 1..Len(s)
    <3>1. j = Len(s) + 1  BY <1>1, <2>3
    <3> QED  BY <1>1, <1>2, <2>3, <3>1
  <2>4. CASE i \notin 1..Len(s) /\ j \notin 1..Len(s)  BY <1>1, <2>4
  <2> QED  BY <2>1, <2>2, <2>3, <2>4
<1>4. InSeq(r) = InSeq(s) \union {p}
  <2>1. InSeq(r) \subseteq InSeq(s) \union {p}
    <3> SUFFICES ASSUME NEW i \in 1..Len(r)  PROVE r[i] \in InSeq(s) \union {p}
      BY DEF InSeq
    <3>1. CASE i \in 1..Len(s)  BY <1>1, <3>1 DEF InSeq
    <3>2. CASE i = Len(s) + 1  BY <1>1, <3>2
    <3> QED  BY <1>1, <3>1, <3>2
  <2>2. p \in InSeq(r)
    <3>1. Len(s) + 1 \in 1..Len(r)  BY <1>1
    <3> QED  BY <1>1, <3>1 DEF InSeq
  <2>3. InSeq(s) \subseteq InSeq(r)
    <3> SUFFICES ASSUME NEW i \in 1..Len(s)  PROVE s[i] \in InSeq(r)
      BY DEF InSeq
    <3>1. i \in 1..Len(r)  BY <1>1
    <3> QED  BY <1>1, <3>1 DEF InSeq
  <2> QED  BY <2>1, <2>2, <2>3
<1> QED  BY <1>1, <1>3, <1>4

\* A pop of the front (queue).
LEMMA TailOnce ==
    ASSUME NEW s \in Seq(Packets), s # <<>>, NEW r, r = Tail(s), Once(s)
    PROVE  /\ r \in Seq(Packets) /\ Len(r) = Len(s) - 1
           /\ Once(r) /\ InSeq(r) = InSeq(s) \ {Head(s)} /\ Head(s) \in InSeq(s)
<1>1. /\ r \in Seq(Packets) /\ Len(r) = Len(s) - 1 /\ Len(s) \in Nat \ {0}
      /\ \A i \in 1..Len(r) : r[i] = s[i + 1]
      /\ Head(s) = s[1]
  OBVIOUS
<1>2. Once(r)  BY <1>1 DEF Once
<1>3. Head(s) \in InSeq(s)  BY <1>1 DEF InSeq
<1>4. InSeq(r) \subseteq InSeq(s) \ {Head(s)}
  <2> SUFFICES ASSUME NEW i \in 1..Len(r)  PROVE r[i] \in InSeq(s) \ {Head(s)}
    BY DEF InSeq
  <2>1. i + 1 \in 1..Len(s) /\ 1 \in 1..Len(s) /\ i + 1 # 1  BY <1>1
  <2> QED  BY <1>1, <2>1 DEF InSeq, Once
<1>5. InSeq(s) \ {Head(s)} \subseteq InSeq(r)
  <2> SUFFICES ASSUME NEW i \in 1..Len(s), s[i] # s[1]  PROVE s[i] \in InSeq(r)
    BY <1>1 DEF InSeq
  <2>1. i - 1 \in 1..Len(r) /\ (i - 1) + 1 = i  BY <1>1
  <2>2. r[i - 1] = s[i]  BY <1>1, <2>1
  <2> QED  BY <2>1, <2>2 DEF InSeq
<1> QED  BY <1>1, <1>2, <1>3, <1>4, <1>5

\* What is left of a stack without its top.
LEMMA FrontType ==
    ASSUME NEW s \in Seq(Packets), s # <<>>, NEW r, r = SubSeq(s, 1, Len(s) - 1)
    PROVE  /\ Len(s) \in 1..Len(s) /\ s[Len(s)] \in Packets
           /\ r \in Seq(Packets) /\ Len(r) = Len(s) - 1
           /\ \A i \in 1..Len(r) : r[i] = s[i]
<1>1. Len(s) \in Nat \ {0}  OBVIOUS
<1>2. PICK n \in Nat : Len(s) = n + 1 /\ n = Len(s) - 1  BY <1>1
<1>3. \A i \in 1..(n + 1) : s[i] \in Packets  BY <1>2, ElementOfSeq
<1>4. r = [i \in 1..n |-> s[i]]  BY <1>1, <1>2
<1>5. r \in Seq(Packets) /\ Len(r) = n  BY <1>3, <1>4
<1>6. n + 1 \in 1..(n + 1)  OBVIOUS
<1> QED  BY <1>2, <1>3, <1>4, <1>5, <1>6

\* A pop of the top (stack).
LEMMA FrontOnce ==
    ASSUME NEW s \in Seq(Packets), s # <<>>, NEW r, r = SubSeq(s, 1, Len(s) - 1), Once(s)
    PROVE  /\ r \in Seq(Packets)
           /\ Once(r) /\ InSeq(r) = InSeq(s) \ {s[Len(s)]} /\ s[Len(s)] \in InSeq(s)
<1>1. Len(s) \in Nat \ {0}  OBVIOUS
<1>2. /\ r \in Seq(Packets) /\ Len(r) = Len(s) - 1
      /\ \A i \in 1..Len(r) : r[i] = s[i]
  BY FrontType
<1>3. Once(r)  BY <1>1, <1>2 DEF Once
<1>4. Len(s) \in 1..Len(s)  BY <1>1
<1>5. InSeq(r) \subseteq InSeq(s) \ {s[Len(s)]}
  <2> SUFFICES ASSUME NEW i \in 1..Len(r)  PROVE r[i] \in InSeq(s) \ {s[Len(s)]}
    BY DEF InSeq
  <2>1. i \in 1..Len(s) /\ i # Len(s)  BY <1>1, <1>2
  <2> QED  BY <1>2, <1>4, <2>1 DEF InSeq, Once
<1>6. InSeq(s) \ {s[Len(s)]} \subseteq InSeq(r)
  <2> SUFFICES ASSUME NEW i \in 1..Len(s), s[i] # s[Len(s)]  PROVE s[i] \in InSeq(r)
    BY DEF InSeq
  <2>1. i \in 1..Len(r)  BY <1>1, <1>2
  <2> QED  BY <1>2, <2>1 DEF InSeq
<1> QED  BY <1>2, <1>3, <1>4, <1>5, <1>6 DEF InSeq

-----------------------------------------------------------------------------
(* Types *)

\* The packets a thread may use are packets, and NoPacket is none of them.
LEMMA UsableType ==
    ASSUME TypeOK, NEW t \in Threads
    PROVE  Usable(t) \subseteq Packets /\ NoPacket \notin Usable(t)
  BY DEF TypeOK, Usable

LEMMA CallTypes ==
    ASSUME TypeOK, NEW t \in Threads, Call(t)
    PROVE  TypeOK'
<1> USE DEF TypeOK, Begin, Goto, queueVars, Places, Ops
<1>1. CASE AllocNetPacket(t)
  <2>1. PICK p \in Packets :
            /\ held' = [held EXCEPT ![t] = @ \union {p}]
            /\ given' = [given EXCEPT ![t] = @ \ {p}]
            /\ data' = data \/ data' = data \ {p}
            /\ \/ RecyclePool' = RecyclePool
               \/ /\ RecyclePool # <<>>
                  /\ RecyclePool' = SubSeq(RecyclePool, 1, Len(RecyclePool) - 1)
    BY <1>1 DEF AllocNetPacket
  <2>2. RecyclePool' \in Seq(Packets)
    BY <2>1, FrontType
  <2>3. /\ held' \in [Threads -> SUBSET Packets]
        /\ given' \in [Threads -> SUBSET Packets]
        /\ data' \in SUBSET Packets
    BY <2>1
  <2> QED  BY <1>1, <2>2, <2>3 DEF AllocNetPacket
<1>2. CASE \E p \in Packets : FillPacket(t, p)  BY <1>2 DEF FillPacket
<1>3. CASE \E p \in Packets : CallDeallockNetPacket(t, p)  BY <1>3 DEF CallDeallockNetPacket
<1>4. CASE \E p \in Packets : CallPush(t, p)  BY <1>4 DEF CallPush
<1>5. CASE CallPop(t)  BY <1>5 DEF CallPop
<1>6. CASE \E p \in Packets \union {NoPacket} : CallPopWithRecycle(t, p)
  BY <1>6 DEF CallPopWithRecycle
<1>7. CASE \E p \in Packets : LetGo(t, p)  BY <1>7 DEF LetGo
<1> QED  BY <1>1, <1>2, <1>3, <1>4, <1>5, <1>6, <1>7 DEF Call

LEMMA StepTypes ==
    ASSUME TypeOK, Flow, NEW t \in Threads, Step(t)
    PROVE  TypeOK'
<1>0. pc[t] \in {"push_queue", "recycle"} => arg[t] \in Packets
  BY UsableType DEF Flow, Own
<1> USE DEF TypeOK, Goto, queueVars, Places, Ops
<1>1. CASE Enter(t)  BY <1>1 DEF Enter
<1>2. CASE AskNum(t)  BY <1>2 DEF AskNum
<1>3. CASE PushQueue(t)
  <2>1. arg[t] \in Packets  BY <1>0, <1>3 DEF PushQueue
  <2>2. Pool' \in Seq(Packets) /\ debt' \in 0..MaxDebt
    <3>1. CASE debt = 0
      <4>1. Pool' = Append(Pool, arg[t]) /\ debt' = debt  BY <1>3, <3>1 DEF PushQueue
      <4>2. Pool' \in Seq(Packets)  BY <2>1, <4>1
      <4> QED  BY <4>1, <4>2
    <3>2. CASE debt # 0  BY <1>3, <3>2 DEF PushQueue
    <3> QED  BY <3>1, <3>2
  <2>3. given' \in [Threads -> SUBSET Packets] /\ pc' \in [Threads -> Places]
    BY <1>3, <2>1 DEF PushQueue
  <2> QED  BY <1>3, <2>2, <2>3 DEF PushQueue
<1>4. CASE PopQueue(t)  BY <1>4 DEF PopQueue
<1>5. CASE PopEmptyQueue(t)
  <2>1. debt' \in 0..MaxDebt /\ crashed' \in BOOLEAN
    <3>1. debt' \in 0..MaxDebt  BY <1>5 DEF PopEmptyQueue
    <3>2. crashed' = crashed \/ crashed' = TRUE  BY <1>5 DEF PopEmptyQueue
    <3> QED  BY <3>1, <3>2
  <2> QED  BY <1>5, <2>1 DEF PopEmptyQueue
<1>6. CASE CountRead(t)  BY <1>6 DEF CountRead
<1>7. CASE CountWrite(t)  BY <1>7 DEF CountWrite
<1>8. CASE OnDealloc(t)  BY <1>8 DEF OnDealloc
<1>9. CASE RecycleDealloc(t)
  <2>1. arg[t] \in Packets  BY <1>0, <1>9 DEF RecycleDealloc
  <2>2. RecyclePool' \in Seq(Packets)  BY <1>9, <2>1 DEF RecycleDealloc
  <2>3. given' \in [Threads -> SUBSET Packets]  BY <1>9, <2>1 DEF RecycleDealloc
  <2> QED  BY <1>9, <2>2, <2>3 DEF RecycleDealloc
<1>10. CASE AssignOut(t)  BY <1>10 DEF AssignOut
<1>11. CASE Return(t)
  <2>1. given' \in [Threads -> SUBSET Packets]  BY <1>11 DEF Return
  <2> QED  BY <1>11, <2>1 DEF Return
<1> QED  BY <1>1, <1>2, <1>3, <1>4, <1>5, <1>6, <1>7, <1>8, <1>9, <1>10, <1>11
         DEF Step

-----------------------------------------------------------------------------
(* Packets are in one place *)

\* PlacedOnce in terms of sets.
Apart ==
    /\ InSeq(Pool) \intersect InSeq(RecyclePool) = {}
    /\ \A t \in Threads :
          /\ Usable(t) \intersect (InSeq(Pool) \union InSeq(RecyclePool)) = {}
          /\ \A u \in Threads \ {t} : Usable(t) \intersect Usable(u) = {}

LEMMA PlacedIsApart == PlacedOnce <=> Once(Pool) /\ Once(RecyclePool) /\ Apart
  BY DEF PlacedOnce, Once, Apart

\* A step of t that moves packets among the queue, the recycle pool and what
\* t may use, or brings in a fresh one, keeps them apart from those of the
\* other threads.
LEMMA MoveKeepsApart ==
    ASSUME Apart, NEW t \in Threads,
           \A u \in Threads \ {t} : Usable(u)' = Usable(u),
           (InSeq(Pool) \union InSeq(RecyclePool) \union Usable(t))'
              \subseteq InSeq(Pool) \union InSeq(RecyclePool) \union Usable(t) \union Fresh,
           (InSeq(Pool) \intersect InSeq(RecyclePool))' = {},
           (Usable(t) \intersect (InSeq(Pool) \union InSeq(RecyclePool)))' = {}
    PROVE  Apart'
<1> DEFINE All == InSeq(Pool) \union InSeq(RecyclePool) \union Usable(t) \union Fresh
<1>1. ASSUME NEW u \in Threads \ {t}  PROVE Usable(u) \intersect All = {}
  BY DEF Apart, Usable, Fresh
<1>2. ASSUME NEW u \in Threads \ {t}
      PROVE  /\ Usable(u)' \intersect (InSeq(Pool) \union InSeq(RecyclePool))' = {}
             /\ Usable(u)' \intersect Usable(t)' = {}
  BY <1>1
<1>3. ASSUME NEW u \in Threads \ {t}, NEW v \in Threads \ {t, u}
      PROVE  Usable(u)' \intersect Usable(v)' = {}
  BY DEF Apart
<1> QED  BY <1>2, <1>3 DEF Apart

\* Steps that move no packet, or only take one from what a client may use.
LEMMA StayPlaced ==
    ASSUME PlacedOnce, UNCHANGED <<Pool, RecyclePool>>,
           \A u \in Threads : Usable(u)' \subseteq Usable(u)
    PROVE  PlacedOnce'
<1>1. Apart /\ Once(Pool) /\ Once(RecyclePool)  BY PlacedIsApart
<1>2. Apart'  BY <1>1 DEF Apart
<1>3. (Once(Pool) /\ Once(RecyclePool))'  BY <1>1 DEF Once
<1> QED  BY <1>2, <1>3, PlacedIsApart DEF PlacedOnce, Apart, Once

LEMMA CallPlaces ==
    ASSUME TypeOK, PlacedOnce, NEW t \in Threads, Call(t)
    PROVE  PlacedOnce'
<1> USE DEF queueVars
<1>1. CASE AllocNetPacket(t)
  <2>1. Apart /\ Once(Pool) /\ Once(RecyclePool) /\ Pool' = Pool
    BY <1>1, PlacedIsApart DEF AllocNetPacket
  <2>2. PICK p \in Packets :
            /\ held' = [held EXCEPT ![t] = @ \union {p}]
            /\ given' = [given EXCEPT ![t] = @ \ {p}]
            /\ \/ /\ RecyclePool # <<>> /\ p = RecyclePool[Len(RecyclePool)]
                  /\ RecyclePool' = SubSeq(RecyclePool, 1, Len(RecyclePool) - 1)
               \/ /\ p \in Fresh /\ RecyclePool' = RecyclePool
    BY <1>1 DEF AllocNetPacket
  <2>3. /\ p \in Fresh \union InSeq(RecyclePool)
        /\ Once(RecyclePool')
        /\ InSeq(RecyclePool') = InSeq(RecyclePool) \ {p}
    <3>1. CASE /\ RecyclePool # <<>> /\ p = RecyclePool[Len(RecyclePool)]
               /\ RecyclePool' = SubSeq(RecyclePool, 1, Len(RecyclePool) - 1)
      <4>1. RecyclePool \in Seq(Packets)  BY DEF TypeOK
      <4>2. /\ Once(RecyclePool')
            /\ InSeq(RecyclePool') = InSeq(RecyclePool) \ {RecyclePool[Len(RecyclePool)]}
            /\ RecyclePool[Len(RecyclePool)] \in InSeq(RecyclePool)
        BY <2>1, <3>1, <4>1, FrontOnce
      <4>3. p = RecyclePool[Len(RecyclePool)]  BY <3>1
      <4> QED  BY <4>2, <4>3, Zenon
    <3>2. CASE p \in Fresh /\ RecyclePool' = RecyclePool
      <4>1. p \notin InSeq(RecyclePool)  BY <3>2 DEF Fresh
      <4> QED  BY <2>1, <3>2, <4>1
    <3> QED  BY <2>2, <3>1, <3>2
  <2>4. /\ Usable(t)' = Usable(t) \union {p}
        /\ \A u \in Threads \ {t} : Usable(u)' = Usable(u)
    BY <2>2 DEF TypeOK, Usable
  <2>5. p \notin InSeq(Pool)
    BY <2>1, <2>3 DEF Fresh, Apart
  <2>6. InSeq(Pool)' = InSeq(Pool) /\ InSeq(RecyclePool)' = InSeq(RecyclePool) \ {p}
    BY <2>1, <2>3
  <2>7. /\ (InSeq(Pool) \union InSeq(RecyclePool) \union Usable(t))'
              \subseteq InSeq(Pool) \union InSeq(RecyclePool) \union Usable(t) \union Fresh
        /\ (InSeq(Pool) \intersect InSeq(RecyclePool))' = {}
        /\ (Usable(t) \intersect (InSeq(Pool) \union InSeq(RecyclePool)))' = {}
    BY <2>1, <2>3, <2>4, <2>5, <2>6 DEF Apart
  <2>8. Apart'  BY <2>1, <2>4, <2>7, MoveKeepsApart
  <2>9. (Once(Pool) /\ Once(RecyclePool))'  BY <2>1, <2>3
  <2> QED  BY <2>8, <2>9 DEF PlacedOnce, Apart, Once
<1>2. CASE \/ \E p \in Packets : FillPacket(t, p) \/ CallDeallockNetPacket(t, p)
           \/ \E p \in Packets : CallPush(t, p)
           \/ CallPop(t)
           \/ \E p \in Packets \union {NoPacket} : CallPopWithRecycle(t, p)
  <2>1. UNCHANGED <<Pool, RecyclePool, held, given>>
    BY <1>2 DEF FillPacket, CallDeallockNetPacket, CallPush, CallPop,
                CallPopWithRecycle
  <2> QED  BY <2>1, StayPlaced DEF Usable
<1>3. CASE \E p \in Packets : LetGo(t, p)
  <2>1. PICK p \in Packets : LetGo(t, p)  BY <1>3
  <2>2. \A u \in Threads : Usable(u)' \subseteq Usable(u)
    BY <2>1 DEF LetGo, Usable, TypeOK
  <2> QED  BY <2>1, <2>2, StayPlaced DEF LetGo
<1> QED  BY <1>1, <1>2, <1>3 DEF Call

\* The packet goes from the thread to the end of a container.
LEMMA GivePlaces ==
    ASSUME TypeOK, PlacedOnce, NEW t \in Threads, Own(t),
           held' = held, given' = [given EXCEPT ![t] = @ \union {arg[t]}]
    PROVE  /\ arg[t] \in Packets
           /\ arg[t] \notin InSeq(Pool) /\ arg[t] \notin InSeq(RecyclePool)
           /\ Usable(t)' = Usable(t) \ {arg[t]}
           /\ \A u \in Threads \ {t} : Usable(u)' = Usable(u)
<1>1. Apart /\ arg[t] \in Packets  BY PlacedIsApart, UsableType DEF Own
<1>2. arg[t] \notin InSeq(Pool) /\ arg[t] \notin InSeq(RecyclePool)
  BY <1>1 DEF Apart, Own
<1>3. /\ Usable(t)' = Usable(t) \ {arg[t]}
      /\ \A u \in Threads \ {t} : Usable(u)' = Usable(u)
  BY DEF TypeOK, Usable
<1> QED  BY <1>1, <1>2, <1>3

LEMMA StepPlaces ==
    ASSUME TypeOK, PlacedOnce, Flow, NEW t \in Threads, Step(t)
    PROVE  PlacedOnce'
<1> USE DEF queueVars
<1>1. CASE Enter(t) \/ AskNum(t) \/ PopEmptyQueue(t) \/ CountRead(t) \/ CountWrite(t)
           \/ OnDealloc(t)
  <2>1. UNCHANGED <<Pool, RecyclePool, held, given>>
    BY <1>1 DEF Enter, AskNum, PopEmptyQueue, CountRead, CountWrite, OnDealloc
  <2> QED  BY <2>1, StayPlaced DEF Usable
<1>2. Apart /\ Once(Pool) /\ Once(RecyclePool)
      /\ Pool \in Seq(Packets) /\ RecyclePool \in Seq(Packets)
  BY PlacedIsApart DEF TypeOK
<1>3. CASE PushQueue(t)
  <2>1. /\ RecyclePool' = RecyclePool /\ held' = held /\ Own(t)
        /\ given' = [given EXCEPT ![t] = @ \union {arg[t]}]
    BY <1>3 DEF PushQueue, Flow
  <2>2. /\ arg[t] \in Packets
        /\ arg[t] \notin InSeq(Pool) /\ arg[t] \notin InSeq(RecyclePool)
        /\ Usable(t)' = Usable(t) \ {arg[t]}
        /\ \A u \in Threads \ {t} : Usable(u)' = Usable(u)
    BY <2>1, GivePlaces
  <2>3. Once(Pool') /\ InSeq(Pool') \subseteq InSeq(Pool) \union {arg[t]}
    <3>1. CASE debt = 0
      <4>1. Pool' = Append(Pool, arg[t])  BY <1>3, <3>1 DEF PushQueue
      <4>2. Once(Pool') /\ InSeq(Pool') = InSeq(Pool) \union {arg[t]}
        BY <1>2, <2>2, <4>1, AppendOnce
      <4> QED  BY <4>2
    <3>2. CASE debt # 0  BY <1>2, <1>3, <3>2 DEF PushQueue
    <3> QED  BY <3>1, <3>2
  <2>4. Apart'  BY <1>2, <2>1, <2>2, <2>3, MoveKeepsApart DEF Apart, Own
  <2> QED  BY <1>2, <2>1, <2>3, <2>4 DEF PlacedOnce, Apart, Once
<1>4. CASE PopQueue(t)
  <2>1. /\ RecyclePool' = RecyclePool /\ held' = held /\ given' = given
        /\ Pool # <<>> /\ Pool' = Tail(Pool)
    BY <1>4 DEF PopQueue
  <2>2. Once(Pool') /\ InSeq(Pool') = InSeq(Pool) \ {Head(Pool)}
    BY <1>2, <2>1, TailOnce
  <2>3. \A u \in Threads : Usable(u)' = Usable(u)  BY <2>1 DEF Usable
  <2>4. Apart'  BY <1>2, <2>1, <2>2, <2>3 DEF Apart
  <2> QED  BY <1>2, <2>1, <2>2, <2>4 DEF PlacedOnce, Apart, Once
<1>5. CASE RecycleDealloc(t)
  <2>1. /\ Pool' = Pool /\ held' = held /\ Own(t)
        /\ RecyclePool' = Append(RecyclePool, arg[t])
        /\ given' = [given EXCEPT ![t] = @ \union {arg[t]}]
    BY <1>5 DEF RecycleDealloc, Flow
  <2>2. /\ arg[t] \in Packets
        /\ arg[t] \notin InSeq(Pool) /\ arg[t] \notin InSeq(RecyclePool)
        /\ Usable(t)' = Usable(t) \ {arg[t]}
        /\ \A u \in Threads \ {t} : Usable(u)' = Usable(u)
    BY <2>1, GivePlaces
  <2>3. Once(RecyclePool') /\ InSeq(RecyclePool') = InSeq(RecyclePool) \union {arg[t]}
    BY <1>2, <2>1, <2>2, AppendOnce
  <2>4. Apart'  BY <1>2, <2>1, <2>2, <2>3, MoveKeepsApart DEF Apart, Own
  <2> QED  BY <1>2, <2>1, <2>3, <2>4 DEF PlacedOnce, Apart, Once
\* Out forgets a packet that was given away.
<1>6. CASE AssignOut(t)
  <2>1. \A u \in Threads : Usable(u)' \subseteq Usable(u)
    BY <1>6 DEF AssignOut, Usable, TypeOK
  <2> QED  BY <1>6, <2>1, StayPlaced DEF AssignOut
\* Out does not point to a packet that was given away.
<1>7. CASE Return(t)
  <2>1. op[t] = "pop_recycle" => arg[t] \notin given[t]
    <3> SUFFICES ASSUME op[t] = "pop_recycle"  PROVE arg[t] \notin given[t]
      OBVIOUS
    <3>1. arg[t] = NoPacket \/ Own(t)  BY <1>7 DEF Return, Flow, PopPlaces
    <3> QED  BY <3>1 DEF Own, Usable, TypeOK
  <2>2. \A u \in Threads : Usable(u)' \subseteq Usable(u)
    BY <1>7, <2>1 DEF Return, Usable, TypeOK
  <2> QED  BY <1>7, <2>2, StayPlaced DEF Return
<1> QED  BY <1>1, <1>3, <1>4, <1>5, <1>6, <1>7 DEF Step

-----------------------------------------------------------------------------
(* Recycled packets are blank *)

LEMMA BlankCalls ==
    ASSUME TypeOK, PlacedOnce, Flow, RecycledBlank, NEW t \in Threads, Call(t)
    PROVE  Flow' /\ RecycledBlank'
<1> USE DEF queueVars
\* A client that is in no call.
<1>1. ASSUME UNCHANGED <<pc, op, arg>>, pc[t] = "idle",
             \A u \in Threads \ {t} : Usable(u)' = Usable(u),
             \A u \in Threads \ {t} : pc[u] = "recycle" => arg[u] \notin data'
      PROVE  Flow'
  BY <1>1 DEF Flow, Own, PopPlaces
<1>2. CASE AllocNetPacket(t)
  <2>1. PICK p \in Packets :
            /\ held' = [held EXCEPT ![t] = @ \union {p}]
            /\ given' = [given EXCEPT ![t] = @ \ {p}]
            /\ data' = data \/ data' = data \ {p}
            /\ \/ RecyclePool' = RecyclePool
               \/ /\ RecyclePool # <<>>
                  /\ RecyclePool' = SubSeq(RecyclePool, 1, Len(RecyclePool) - 1)
    BY <1>2 DEF AllocNetPacket
  <2>2. InSeq(RecyclePool') \subseteq InSeq(RecyclePool)
    <3>1. RecyclePool \in Seq(Packets) /\ Once(RecyclePool)
      BY PlacedIsApart DEF TypeOK
    <3> QED  BY <2>1, <3>1, FrontOnce
  <2>3. \A u \in Threads \ {t} : Usable(u)' = Usable(u)
    BY <2>1 DEF Usable, TypeOK
  <2>4. UNCHANGED <<pc, op, arg>> /\ pc[t] = "idle"  BY <1>2 DEF AllocNetPacket
  <2>5. data' \subseteq data  BY <2>1
  <2>6. \A u \in Threads : pc[u] = "recycle" => arg[u] \notin data'
    BY <2>5 DEF Flow
  <2>7. Flow'  BY <1>1, <2>3, <2>4, <2>6
  <2> QED  BY <2>2, <2>5, <2>7 DEF RecycledBlank
<1>3. ASSUME NEW p \in Packets, FillPacket(t, p)  PROVE Flow' /\ RecycledBlank'
  <2>1. p \in Usable(t) /\ data' = data \union {p}
        /\ UNCHANGED <<RecyclePool, pc, op, arg, held, given>> /\ pc[t] = "idle"
    BY <1>3 DEF FillPacket
  <2>2. p \notin InSeq(RecyclePool)
    BY <2>1 DEF PlacedOnce
  <2>3. ASSUME NEW u \in Threads \ {t}, pc[u] = "recycle"  PROVE arg[u] \notin data'
    <3>1. arg[u] \in Usable(u) /\ arg[u] \notin data  BY <2>3 DEF Flow, Own
    <3>2. arg[u] # p  BY <2>1, <3>1 DEF PlacedOnce
    <3> QED  BY <2>1, <3>1, <3>2
  <2>4. Flow'  BY <1>1, <2>1, <2>3 DEF Usable
  <2> QED  BY <2>1, <2>2, <2>4 DEF RecycledBlank
<1>4. ASSUME NEW p \in Packets, LetGo(t, p)  PROVE Flow' /\ RecycledBlank'
  <2>1. UNCHANGED <<RecyclePool, pc, op, arg, data>> /\ pc[t] = "idle"
    BY <1>4 DEF LetGo
  <2>2. \A u \in Threads \ {t} : Usable(u)' = Usable(u)
    BY <1>4 DEF LetGo, Usable, TypeOK
  <2>3. \A u \in Threads : pc[u] = "recycle" => arg[u] \notin data'
    BY <2>1 DEF Flow
  <2>4. Flow'  BY <1>1, <2>1, <2>2, <2>3
  <2> QED  BY <2>1, <2>4 DEF RecycledBlank
\* A call, with a packet the client may use where the call needs one.
<1>5. ASSUME NEW f, NEW p, NEW place \in {"enter", "push_queue", "pop_queue", "on_dealloc"},
             Begin(t, f, p, place),
             UNCHANGED <<data, RecyclePool, held, given>>,
             place \in {"push_queue", "on_dealloc"} => p \in Usable(t),
             place = "push_queue" => f = "push",
             f = "push" => p \in Usable(t),
             f = "pop_recycle" => p = NoPacket \/ p \in Usable(t)
      PROVE  Flow' /\ RecycledBlank'
  <2>1. /\ pc' = [pc EXCEPT ![t] = place] /\ op' = [op EXCEPT ![t] = f]
        /\ arg' = [arg EXCEPT ![t] = p]
    BY <1>5 DEF Begin, Goto
  <2>2. \A u \in Threads : Usable(u)' = Usable(u)  BY <1>5 DEF Usable
  <2>3. pc'[t] = place /\ op'[t] = f /\ arg'[t] = p  BY <2>1 DEF TypeOK
  <2>4. \A u \in Threads \ {t} : pc'[u] = pc[u] /\ op'[u] = op[u] /\ arg'[u] = arg[u]
    BY <2>1 DEF TypeOK
  <2>5. Flow'  BY <1>5, <2>2, <2>3, <2>4 DEF Flow, Own
  <2> QED  BY <1>5, <2>5 DEF RecycledBlank
<1>6. CASE \E p \in Packets : CallDeallockNetPacket(t, p)
  <2>1. PICK p \in Usable(t) : Begin(t, "dealloc", p, "on_dealloc")
    BY <1>6 DEF CallDeallockNetPacket
  <2> QED  BY <1>5, <1>6, <2>1 DEF CallDeallockNetPacket
<1>7. CASE \E p \in Packets : CallPush(t, p)
  <2>1. PICK p \in Usable(t), place \in {"enter", "push_queue"} : Begin(t, "push", p, place)
    BY <1>7 DEF CallPush
  <2> QED  BY <1>5, <1>7, <2>1 DEF CallPush
<1>8. CASE CallPop(t)
  <2>1. PICK place \in {"enter", "pop_queue"} : Begin(t, "pop", NoPacket, place)
    BY <1>8 DEF CallPop
  <2> QED  BY <1>5, <1>8, <2>1 DEF CallPop
<1>9. CASE \E p \in Packets \union {NoPacket} : CallPopWithRecycle(t, p)
  <2>1. PICK p \in Usable(t) \union {NoPacket}, place \in {"enter", "pop_queue"} :
            Begin(t, "pop_recycle", p, place)
    BY <1>9 DEF CallPopWithRecycle
  <2> QED  BY <1>5, <1>9, <2>1 DEF CallPopWithRecycle
<1> QED  BY <1>2, <1>3, <1>4, <1>6, <1>7, <1>8, <1>9 DEF Call

LEMMA BlankSteps ==
    ASSUME TypeOK, PlacedOnce, Flow, RecycledBlank, NEW t \in Threads, Step(t)
    PROVE  Flow' /\ RecycledBlank'
<1> USE DEF queueVars, Goto
\* The place t goes to, with its packet.
<1>1. ASSUME NEW place, pc' = [pc EXCEPT ![t] = place], place # "enter",
             \A u \in Threads \ {t} :
                arg'[u] = arg[u] /\ op'[u] = op[u] /\ Usable(u)' = Usable(u),
             data' \subseteq data,
             place \in {"push_queue", "on_dealloc", "recycle"} => Own(t)',
             place = "push_queue" => op'[t] = "push",
             place \in PopPlaces /\ op'[t] = "pop_recycle" =>
                arg'[t] = NoPacket \/ Own(t)',
             place = "recycle" => arg'[t] \notin data'
      PROVE  Flow'
  <2>1. pc'[t] = place /\ \A u \in Threads \ {t} : pc'[u] = pc[u]
    BY <1>1 DEF TypeOK
  <2>2. \A u \in Threads \ {t} : Own(u)' <=> Own(u)  BY <1>1 DEF Own
  <2> QED  BY <1>1, <2>1, <2>2 DEF Flow
\* The steps that leave the packets alone.
<1>2. ASSUME NEW place, pc' = [pc EXCEPT ![t] = place], place # "enter",
             UNCHANGED <<arg, op, held, given>>, data' \subseteq data,
             place \in {"push_queue", "on_dealloc", "recycle"} => Own(t),
             place = "push_queue" => op[t] = "push",
             place \in PopPlaces /\ op[t] = "pop_recycle" =>
                arg[t] = NoPacket \/ Own(t),
             place = "recycle" => arg[t] \notin data'
      PROVE  Flow'
  <2>1. \A u \in Threads : Usable(u)' = Usable(u) /\ (Own(u)' <=> Own(u))
    BY <1>2 DEF Usable, Own
  <2> QED  BY <1>1, <1>2, <2>1
<1>3. ASSUME data' \subseteq data, RecyclePool' = RecyclePool
      PROVE  RecycledBlank'
  BY <1>3 DEF RecycledBlank
<1>4. CASE Enter(t)
  <2>1. PICK place \in {"push_queue", "num"} :
            /\ pc' = [pc EXCEPT ![t] = place] /\ pc[t] = "enter"
            /\ place = "push_queue" => op[t] = "push"
    BY <1>4 DEF Enter
  <2>2. UNCHANGED <<arg, op, held, given, data, RecyclePool>>  BY <1>4 DEF Enter
  <2>3. op[t] = "push" => Own(t)  BY <2>1 DEF Flow
  <2>4. op[t] = "pop_recycle" => arg[t] = NoPacket \/ Own(t)
    BY <2>1 DEF Flow, PopPlaces
  <2> QED  BY <1>2, <1>3, <2>1, <2>2, <2>3, <2>4
<1>5. CASE AskNum(t) \/ PopQueue(t) \/ PopEmptyQueue(t) \/ CountRead(t)
  <2>1. PICK place \in {"pop_queue", "return", "count_read", "count_write"} :
            /\ pc' = [pc EXCEPT ![t] = place]
            /\ pc[t] \in {"num", "pop_queue", "count_read"}
    BY <1>5 DEF AskNum, PopQueue, PopEmptyQueue, CountRead
  <2>2. UNCHANGED <<arg, op, held, given, data, RecyclePool>>
    BY <1>5 DEF AskNum, PopQueue, PopEmptyQueue, CountRead
  <2>3. op[t] = "pop_recycle" => arg[t] = NoPacket \/ Own(t)
    BY <2>1 DEF Flow, PopPlaces
  <2> QED  BY <1>2, <1>3, <2>1, <2>2, <2>3
<1>6. CASE PushQueue(t)
  <2>1. /\ pc' = [pc EXCEPT ![t] = "count_read"] /\ op[t] = "push"
        /\ UNCHANGED <<arg, op, held, data, RecyclePool>>
        /\ given' = [given EXCEPT ![t] = @ \union {arg[t]}]
    BY <1>6 DEF PushQueue, Flow
  <2>2. \A u \in Threads \ {t} : Usable(u)' = Usable(u)
    BY <2>1 DEF Usable, TypeOK
  <2> QED  BY <1>1, <1>3, <2>1, <2>2
<1>7. CASE CountWrite(t)
  <2>1. PICK place \in {"on_dealloc", "return"} :
            /\ pc' = [pc EXCEPT ![t] = place] /\ pc[t] = "count_write"
            /\ place = "on_dealloc" => op[t] = "pop_recycle" /\ arg[t] # NoPacket
    BY <1>7 DEF CountWrite
  <2>2. UNCHANGED <<arg, op, held, given, data, RecyclePool>>
    BY <1>7 DEF CountWrite
  <2>3. op[t] = "pop_recycle" => arg[t] = NoPacket \/ Own(t)
    BY <2>1 DEF Flow, PopPlaces
  <2> QED  BY <1>2, <1>3, <2>1, <2>2, <2>3
<1>8. CASE OnDealloc(t)
  <2>1. /\ pc' = [pc EXCEPT ![t] = "recycle"] /\ Own(t)
        /\ data' = data \ {arg[t]}
        /\ UNCHANGED <<arg, op, held, given, RecyclePool>>
    BY <1>8 DEF OnDealloc, Flow
  <2> QED  BY <1>2, <1>3, <2>1 DEF PopPlaces
<1>9. CASE RecycleDealloc(t)
  <2>1. PICK place \in {"assign_out", "return"} :
            /\ pc' = [pc EXCEPT ![t] = place]
            /\ place = "return" => op[t] # "pop_recycle"
    BY <1>9 DEF RecycleDealloc
  <2>2. /\ arg[t] \notin data /\ Own(t)
        /\ RecyclePool' = Append(RecyclePool, arg[t])
        /\ UNCHANGED <<arg, op, held, data>>
        /\ given' = [given EXCEPT ![t] = @ \union {arg[t]}]
    BY <1>9 DEF RecycleDealloc, Flow
  <2>3. RecyclePool \in Seq(Packets) /\ Once(RecyclePool)
    BY PlacedIsApart DEF TypeOK
  <2>4. arg[t] \in Packets /\ arg[t] \notin InSeq(RecyclePool)
    BY <2>2, GivePlaces
  <2>5. InSeq(RecyclePool') = InSeq(RecyclePool) \union {arg[t]}
    BY <2>2, <2>3, <2>4, AppendOnce
  <2>6. RecycledBlank'  BY <2>2, <2>5 DEF RecycledBlank
  <2>7. \A u \in Threads \ {t} : Usable(u)' = Usable(u)
    BY <2>2 DEF Usable, TypeOK
  <2>8. Flow'  BY <1>1, <2>1, <2>2, <2>7 DEF PopPlaces
  <2> QED  BY <2>6, <2>8
<1>10. CASE AssignOut(t) \/ Return(t)
  <2>1. PICK place \in {"return", "idle"} :
            pc' = [pc EXCEPT ![t] = place] /\ arg' = [arg EXCEPT ![t] = NoPacket]
    BY <1>10 DEF AssignOut, Return
  <2>2. data' = data /\ RecyclePool' = RecyclePool  BY <1>10 DEF AssignOut, Return
  <2>3. \A u \in Threads \ {t} :
            arg'[u] = arg[u] /\ op'[u] = op[u] /\ Usable(u)' = Usable(u)
    BY <1>10 DEF AssignOut, Return, Usable, TypeOK
  <2>4. arg'[t] = NoPacket  BY <2>1 DEF TypeOK
  <2> QED  BY <1>1, <1>3, <2>1, <2>2, <2>3, <2>4 DEF PopPlaces
<1> QED  BY <1>4, <1>5, <1>6, <1>7, <1>8, <1>9, <1>10 DEF Step

-----------------------------------------------------------------------------
(* The count of careful clients *)

LEMMA CountCalls ==
    ASSUME TypeOK, CountInv, NEW t \in Threads, Call(t)
    PROVE  CountInv'
<1> SUFFICES ASSUME careful'  PROVE CountInv'  BY DEF CountInv
<1> USE DEF queueVars
\* A call of a careful client goes to a place outside the mutex.
<1>1. ASSUME NEW f, NEW p, NEW place \in {"enter", "on_dealloc"}, Begin(t, f, p, place),
             UNCHANGED <<careful, debt, crashed, Pool, PacketPoolCount, locker, reg>>
      PROVE  CountInv'
  <2>1. /\ pc' = [pc EXCEPT ![t] = place] /\ op' = [op EXCEPT ![t] = f]
        /\ pc[t] = "idle"
    BY <1>1 DEF Begin, Goto
  <2>2. \A u \in Threads \ {t} : pc'[u] = pc[u] /\ op'[u] = op[u] /\ Off(u)' = Off(u)
    BY <2>1 DEF TypeOK, Off
  <2>3. pc'[t] \in {"enter", "on_dealloc"}  BY <2>1 DEF TypeOK
  <2>4. (\A u \in Threads : pc'[u] \notin Counting) => (\A u \in Threads : pc[u] \notin Counting)
    BY <2>1, <2>2 DEF Counting
  <2> QED  BY <1>1, <2>2, <2>3, <2>4 DEF CountInv, Locked, Counting
<1>2. careful  BY DEF Call, AllocNetPacket, FillPacket, LetGo, CallDeallockNetPacket,
                      CallPush, CallPop, CallPopWithRecycle
<1>3. CASE AllocNetPacket(t) \/ \E p \in Packets : FillPacket(t, p) \/ LetGo(t, p)
  <2>1. UNCHANGED <<careful, debt, crashed, Pool, PacketPoolCount, locker, reg, pc, op>>
    BY <1>3 DEF AllocNetPacket, FillPacket, LetGo
  <2> QED  BY <2>1 DEF CountInv, Off
<1>4. CASE \E p \in Packets : CallDeallockNetPacket(t, p)
  <2>1. PICK p \in Packets : Begin(t, "dealloc", p, "on_dealloc")
    BY <1>4 DEF CallDeallockNetPacket
  <2> QED  BY <1>1, <1>4, <2>1 DEF CallDeallockNetPacket
<1>5. CASE \E p \in Packets : CallPush(t, p)
  <2>1. PICK p \in Packets : Begin(t, "push", p, "enter")  BY <1>2, <1>5 DEF CallPush
  <2> QED  BY <1>1, <1>5, <2>1 DEF CallPush
<1>6. CASE CallPop(t)
  <2>1. Begin(t, "pop", NoPacket, "enter")  BY <1>2, <1>6 DEF CallPop
  <2> QED  BY <1>1, <1>6, <2>1 DEF CallPop
<1>7. CASE \E p \in Packets \union {NoPacket} : CallPopWithRecycle(t, p)
  <2>1. PICK p \in Packets \union {NoPacket} : Begin(t, "pop_recycle", p, "enter")
    BY <1>2, <1>7 DEF CallPopWithRecycle
  <2> QED  BY <1>1, <1>7, <2>1 DEF CallPopWithRecycle
<1> QED  BY <1>3, <1>4, <1>5, <1>6, <1>7 DEF Call

LEMMA CountSteps ==
    ASSUME TypeOK, PlacedOnce, Flow, CountInv, ~crashed, NEW t \in Threads, Step(t)
    PROVE  CountInv'
<1> USE DEF queueVars, Goto
<1>1. careful' = careful
  BY DEF Step, Enter, AskNum, PushQueue, PopQueue, PopEmptyQueue, CountRead,
         CountWrite, OnDealloc, RecycleDealloc, AssignOut, Return
<1> SUFFICES ASSUME careful  PROVE CountInv'  BY <1>1 DEF CountInv
<1>2. /\ debt = 0 /\ Len(Pool) \in Nat /\ PacketPoolCount \in Int
      /\ \A u \in Threads : reg[u] \in Int /\ Off(u) \in Int
  BY DEF CountInv, TypeOK, Off
\* Nobody but t is in a locked place while t is, so the count is exact but
\* for what t lacks.
<1>3. ASSUME pc[t] \in Locked
      PROVE  /\ \A u \in Threads \ {t} : pc[u] \notin Locked
             /\ pc[t] \notin Counting => PacketPoolCount = Len(Pool)
  BY <1>3 DEF CountInv, Locked, Counting
<1>4. CASE Enter(t)
  <2>1. PICK place \in {"push_queue", "num"} :
            /\ pc' = [pc EXCEPT ![t] = place]
            /\ place = "push_queue" <=> op[t] = "push"
    BY <1>4 DEF Enter
  <2>2. /\ UNCHANGED <<Pool, debt, crashed, careful, PacketPoolCount, op, reg>>
        /\ locker = NoThread /\ locker' = t /\ pc[t] = "enter"
    BY <1>4 DEF Enter
  <2>3. \A u \in Threads : pc[u] \notin Locked  BY <2>2 DEF CountInv
  <2>4. PacketPoolCount = Len(Pool)  BY <2>3 DEF CountInv, Locked, Counting
  <2>5. \A u \in Threads \ {t} : pc'[u] \notin Locked  BY <2>1, <2>3 DEF TypeOK
  <2>6. pc'[t] = place  BY <2>1 DEF TypeOK
  <2> QED  BY <2>1, <2>2, <2>4, <2>5, <2>6 DEF CountInv, Locked
<1>5. CASE AskNum(t)
  <2>1. PICK place \in {"pop_queue", "return"} :
            /\ pc' = [pc EXCEPT ![t] = place]
            /\ place = "pop_queue" => PacketPoolCount > 0
    BY <1>5 DEF AskNum
  <2>2. /\ UNCHANGED <<Pool, debt, crashed, careful, PacketPoolCount, op, reg, locker>>
        /\ pc[t] = "num"
    BY <1>5 DEF AskNum
  <2>3. pc[t] \in Locked /\ pc[t] \notin Counting  BY <2>2 DEF Locked, Counting
  <2>4. \A u \in Threads \ {t} : pc'[u] \notin Locked  BY <1>3, <2>1, <2>3 DEF TypeOK
  <2>5. pc'[t] = place /\ locker = t /\ op[t] # "push"
    BY <2>1, <2>2, <2>3 DEF TypeOK, CountInv
  <2> QED  BY <1>3, <2>1, <2>2, <2>3, <2>4, <2>5 DEF CountInv, Locked
<1>6. CASE PushQueue(t)
  <2>1. /\ Pool' = Append(Pool, arg[t]) /\ debt' = debt
        /\ UNCHANGED <<crashed, careful, PacketPoolCount, op, reg, locker>>
        /\ pc' = [pc EXCEPT ![t] = "count_read"] /\ pc[t] = "push_queue"
    BY <1>2, <1>6 DEF PushQueue
  <2>2. Len(Pool') = Len(Pool) + 1
    <3>1. Pool \in Seq(Packets)  BY DEF TypeOK
    <3> QED  BY <2>1, <3>1
  <2>3. pc[t] \in Locked /\ pc[t] \notin Counting  BY <2>1 DEF Locked, Counting
  <2>4. \A u \in Threads \ {t} : pc'[u] \notin Locked  BY <1>3, <2>1, <2>3 DEF TypeOK
  <2>5. pc'[t] = "count_read" /\ locker = t /\ op[t] = "push"
    BY <2>1, <2>3 DEF TypeOK, CountInv
  <2>6. Off(t)' = -1  BY <2>1, <2>5 DEF Off
  <2>7. PacketPoolCount = Len(Pool') + Off(t)'  BY <1>2, <1>3, <2>2, <2>3, <2>6
  <2> QED  BY <2>1, <2>4, <2>5, <2>7 DEF CountInv, Locked, Counting
<1>7. CASE PopQueue(t)
  <2>1. /\ Pool # <<>> /\ Pool' = Tail(Pool) /\ debt' = debt
        /\ UNCHANGED <<crashed, careful, PacketPoolCount, op, reg, locker>>
        /\ pc' = [pc EXCEPT ![t] = "count_read"] /\ pc[t] = "pop_queue"
    BY <1>7 DEF PopQueue
  <2>2. Len(Pool') = Len(Pool) - 1
    <3>1. Pool \in Seq(Packets)  BY DEF TypeOK
    <3> QED  BY <2>1, <3>1
  <2>3. pc[t] \in Locked /\ pc[t] \notin Counting  BY <2>1 DEF Locked, Counting
  <2>4. \A u \in Threads \ {t} : pc'[u] \notin Locked  BY <1>3, <2>1, <2>3 DEF TypeOK
  <2>5. pc'[t] = "count_read" /\ locker = t /\ op[t] # "push"
    BY <2>1, <2>3 DEF TypeOK, CountInv
  <2>6. Off(t)' = 1  BY <2>1, <2>5 DEF Off
  <2>7. PacketPoolCount = Len(Pool') + Off(t)'  BY <1>2, <1>3, <2>2, <2>3, <2>6
  <2> QED  BY <2>1, <2>4, <2>5, <2>7 DEF CountInv, Locked, Counting
\* The number was positive when it was asked for, and it is exact.
<1>8. CASE PopEmptyQueue(t)
  <2>1. pc[t] = "pop_queue" /\ Pool = <<>>  BY <1>8 DEF PopEmptyQueue
  <2>2. pc[t] \in Locked /\ pc[t] \notin Counting  BY <2>1 DEF Locked, Counting
  <2>3. PacketPoolCount = Len(Pool) /\ PacketPoolCount > 0
    BY <1>3, <2>1, <2>2 DEF CountInv
  <2> QED  BY <2>1, <2>3
<1>9. CASE CountRead(t)
  <2>1. /\ UNCHANGED <<Pool, debt, crashed, careful, PacketPoolCount, op, locker>>
        /\ pc' = [pc EXCEPT ![t] = "count_write"] /\ pc[t] = "count_read"
        /\ reg' = [reg EXCEPT ![t] = PacketPoolCount]
    BY <1>9 DEF CountRead
  <2>2. pc[t] \in Locked  BY <2>1 DEF Locked
  <2>3. \A u \in Threads \ {t} : pc'[u] \notin Locked  BY <1>3, <2>1, <2>2 DEF TypeOK
  <2>4. /\ pc'[t] = "count_write" /\ locker = t
        /\ reg'[t] = PacketPoolCount /\ Off(t)' = Off(t)
        /\ PacketPoolCount = Len(Pool) + Off(t)
    BY <2>1, <2>2 DEF TypeOK, CountInv, Off
  <2> QED  BY <2>1, <2>3, <2>4 DEF CountInv, Locked, Counting
<1>10. CASE CountWrite(t)
  <2>1. PICK place \in {"on_dealloc", "return"} :
            /\ pc' = [pc EXCEPT ![t] = place]
            /\ pc[t] = "count_write"
            /\ PacketPoolCount' = IF op[t] = "push" THEN reg[t] + 1 ELSE reg[t] - 1
            /\ UNCHANGED <<Pool, debt, crashed, careful, op, locker>>
    BY <1>10 DEF CountWrite
  <2>2. pc[t] \in Locked  BY <2>1 DEF Locked
  <2>3. \A u \in Threads \ {t} : pc'[u] \notin Locked  BY <1>3, <2>1, <2>2 DEF TypeOK
  <2>4. pc'[t] = place  BY <2>1 DEF TypeOK
  <2>5. reg[t] = Len(Pool) + Off(t)  BY <2>1 DEF CountInv
  <2>6. PacketPoolCount' = Len(Pool)  BY <1>2, <2>1, <2>5 DEF Off
  <2> QED  BY <2>1, <2>3, <2>4, <2>6 DEF CountInv, Locked, Counting
<1>11. CASE OnDealloc(t) \/ RecycleDealloc(t) \/ AssignOut(t) \/ Return(t)
  <2>1. PICK place \in {"recycle", "assign_out", "return", "idle"} :
            /\ pc' = [pc EXCEPT ![t] = place]
            /\ pc[t] \in {"on_dealloc", "recycle", "assign_out", "return"}
            /\ UNCHANGED <<Pool, debt, crashed, careful, PacketPoolCount, reg>>
    BY <1>11 DEF OnDealloc, RecycleDealloc, AssignOut, Return
  <2>2. \A u \in Threads \ {t} : op'[u] = op[u] /\ pc'[u] = pc[u] /\ Off(u)' = Off(u)
    BY <1>11, <2>1 DEF OnDealloc, RecycleDealloc, AssignOut, Return, TypeOK, Off
  <2>3. pc'[t] = place  BY <2>1 DEF TypeOK
  <2>4. \A u \in Threads \ {t} : locker = u => locker' = u
    BY <1>11 DEF OnDealloc, RecycleDealloc, AssignOut, Return
  <2>5. (\A u \in Threads : pc'[u] \notin Counting) => (\A u \in Threads : pc[u] \notin Counting)
    BY <2>1, <2>2 DEF Counting
  <2> QED  BY <2>1, <2>2, <2>3, <2>4, <2>5 DEF CountInv, Locked, Counting
<1> QED  BY <1>4, <1>5, <1>6, <1>7, <1>8, <1>9, <1>10, <1>11 DEF Step

-----------------------------------------------------------------------------
(* The theorems *)

LEMMA InitIInv ==
    ASSUME Init
    PROVE  IInv
<1>1. /\ RecyclePool \in [1..InitRecycled -> Packets]
      /\ \A i, j \in 1..InitRecycled : RecyclePool[i] = RecyclePool[j] => i = j
  BY DEF Init
<1>2. RecyclePool \in Seq(Packets) /\ Len(RecyclePool) = InitRecycled
  BY <1>1, InitRecycledAssumption
<1>3. TypeOK
  <2>1. Pool \in Seq(Packets) /\ debt \in 0..MaxDebt  BY DEF Init
  <2>2. locker \in Threads \union {NoThread} /\ pc \in [Threads -> Places]
    BY DEF Init, Places
  <2>3. op \in [Threads -> Ops] /\ arg \in [Threads -> Packets \union {NoPacket}]
    BY DEF Init, Ops
  <2>4. reg \in [Threads -> Int] /\ given \in [Threads -> SUBSET Packets]
        /\ held \in [Threads -> SUBSET Packets] /\ PacketPoolCount \in Int
    BY DEF Init
  <2> QED  BY <1>2, <2>1, <2>2, <2>3, <2>4 DEF Init, TypeOK
<1>4. Pool = <<>> /\ Len(Pool) = 0 /\ InSeq(Pool) = {}  BY DEF Init, InSeq
<1>5. \A t \in Threads : Usable(t) = {}  BY DEF Init, Usable
<1>6. PlacedOnce  BY <1>1, <1>2, <1>4, <1>5 DEF PlacedOnce
<1>7. Flow /\ RecycledBlank  BY DEF Init, Flow, PopPlaces, RecycledBlank
<1>8. CountInv  BY <1>4 DEF Init, CountInv, Locked
<1> QED  BY <1>3, <1>6, <1>7, <1>8 DEF IInv

LEMMA InductiveStep ==
    ASSUME IInv, [Next]_vars
    PROVE  IInv'
<1>1. ASSUME NEW t \in Threads, Call(t)  PROVE IInv'
  BY <1>1, CallTypes, CallPlaces, BlankCalls, CountCalls DEF IInv
<1>2. ASSUME NEW t \in Threads, Step(t), ~crashed  PROVE IInv'
  BY <1>2, StepTypes, StepPlaces, BlankSteps, CountSteps DEF IInv
<1>3. CASE UNCHANGED vars
  <2>1. TypeOK'  BY <1>3 DEF IInv, TypeOK, vars
  <2>2. PlacedOnce'  BY <1>3, StayPlaced DEF IInv, Usable, vars
  <2>3. Flow' /\ RecycledBlank'  BY <1>3 DEF IInv, Flow, Own, Usable, RecycledBlank, vars
  <2>4. CountInv'  BY <1>3 DEF IInv, CountInv, Off, vars
  <2> QED  BY <2>1, <2>2, <2>3, <2>4 DEF IInv
<1> QED  BY <1>1, <1>2, <1>3 DEF Next

\* The inductive invariant holds in every behaviour.
THEOREM Invariance == Spec => []IInv
<1>1. Init => IInv  BY InitIInv
<1>2. IInv /\ [Next]_vars => IInv'  BY InductiveStep
<1> QED  BY <1>1, <1>2, PTL DEF Spec

\* Every variable keeps its type (ServoProtocol.h:259-330).
THEOREM TypeCorrect == Spec => []TypeOK
<1>1. IInv => TypeOK  BY DEF IInv
<1> QED  BY <1>1, Invariance, PTL

\* Clients that do not use what they have given away never share a packet, in
\* any interleaving, careful or not (ServoProtocol.cpp:509-589): not even
\* while PopWithRecycle has recycled the packet Out still points to.
THEOREM PlacedOnceHolds == Spec => []PlacedOnce
<1>1. IInv => PlacedOnce  BY DEF IInv
<1> QED  BY <1>1, Invariance, PTL

\* No packet is recycled with data of its last use (ServoProtocol.cpp:552-571).
THEOREM RecycledBlankHolds == Spec => []RecycledBlank
<1>1. IInv => RecycledBlank  BY DEF IInv
<1> QED  BY <1>1, Invariance, PTL

\* With a mutex of the clients around Push and Pop, PacketPoolNum() is exact
\* whenever the mutex is free (ServoProtocol.cpp:509-534).
THEOREM CountExactHolds == Spec => []CountExact
<1>1. ASSUME IInv  PROVE CountExact
  <2> SUFFICES ASSUME careful, locker = NoThread  PROVE PacketPoolCount = Len(Pool)
    BY DEF CountExact
  <2>1. \A t \in Threads : pc[t] \notin Locked  BY <1>1 DEF IInv, CountInv
  <2> QED  BY <1>1, <2>1 DEF IInv, CountInv, Locked, Counting
<1> QED  BY <1>1, Invariance, PTL

\* Such clients never pop the empty queue (NetPacketPool.hpp:136-143).
THEOREM NeverPopsEmptyHolds == Spec => []NeverPopsEmpty
<1>1. IInv => NeverPopsEmpty  BY DEF IInv, CountInv, NeverPopsEmpty
<1> QED  BY <1>1, Invariance, PTL
=============================================================================
