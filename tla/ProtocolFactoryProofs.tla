------------------------ MODULE ProtocolFactoryProofs ------------------------
(***************************************************************************)
(* Get and Singleton are safe for every number of threads and calls if one *)
(* thread has its object before the others start (the run SingletonCold    *)
(* shows that they are not without that).  The map of the factory is safe  *)
(* for every number of careful threads, of protocols and of delegates.     *)
(* For all callers, careful or not, and up to the first data race, an      *)
(* accepted registration is final and no other delegate is called.         *)
(***************************************************************************)
EXTENDS ProtocolFactory, TLAPS

(* Get and Singleton *)

\* The variables the argument needs, with their types.
WarmType ==
    /\ pSingleton \in Objects \union {Null}
    /\ built \subseteq Objects
    /\ pc \in [Threads -> Places]
    /\ this \in [Threads -> Objects \union {Null}]
    /\ got \in [Threads -> Objects \union {Null}]
    /\ ~aborted

\* Before the first thread has its object it is alone, and how much of the
\* singleton there is follows from the place it has reached.
Warming ==
    got[First] = Null =>
        /\ \A t \in Threads \ {First} : pc[t] = "idle" /\ got[t] = Null
        /\ pc[First] # "singleton"
        /\ pc[First] \in {"idle", "test", "lock", "new", "check", "publish"} =>
              pSingleton = Null
        /\ pc[First] \in {"check", "publish"} => this[First] \in Objects
        /\ pc[First] \in {"build", "assign"} =>
              this[First] \in Objects /\ pSingleton = this[First]
        /\ pc[First] \in {"assign", "unlock", "read"} => pSingleton \in built

\* Afterwards nobody constructs, and everybody has or reads that object.
Warm ==
    got[First] # Null =>
        /\ pSingleton \in built
        /\ \A t \in Threads :
              /\ pc[t] \in {"idle", "test", "read", "singleton"}
              /\ got[t] \in {Null, pSingleton}

WarmInv == WarmType /\ Warming /\ Warm

\* Nothing exists at the start.
LEMMA InitWarm == ASSUME First \in Threads PROVE Init => WarmInv
  BY DEF Init, WarmInv, WarmType, Warming, Warm, Places

\* Every step keeps the invariant.
LEMMA NextWarm ==
    ASSUME First \in Threads, WarmInv, [Next]_vars
    PROVE  WarmInv'
  <1> USE NullAssumption DEF WarmInv, Goto
  <1>1. CASE UNCHANGED vars
    BY <1>1 DEF vars, WarmType, Warming, Warm
  <1>2. CASE Next
    <2>1. PICK t \in Threads : Step(t) \/ CallGet(t) \/ CallSingleton(t)
      BY <1>2 DEF Next
    <2>2. CASE CallGet(t) \/ CallSingleton(t)
      BY <2>2 DEF CallGet, CallSingleton, Started, WarmType, Warming, Warm, Places
    <2>3. CASE TestNull(t)
      BY <2>3 DEF TestNull, WarmType, Warming, Warm, Places
    <2>4. CASE Lock(t)
      BY <2>4 DEF Lock, WarmType, Warming, Warm, Places
    <2>5. CASE New(t)
      BY <2>5 DEF New, WarmType, Warming, Warm, Places
    <2>6. CASE CtorCheck(t)
      BY <2>6 DEF CtorCheck, WarmType, Warming, Warm, Places
    <2>7. CASE CtorPublish(t)
      BY <2>7 DEF CtorPublish, WarmType, Warming, Warm, Places
    <2>8. CASE CtorBuild(t)
      BY <2>8 DEF CtorBuild, WarmType, Warming, Warm, Places
    <2>9. CASE Assign(t)
      BY <2>9 DEF Assign, WarmType, Warming, Warm, Places
    <2>10. CASE Unlock(t)
      BY <2>10 DEF Unlock, WarmType, Warming, Warm, Places
    <2>11. CASE Read(t)
      BY <2>11 DEF Read, WarmType, Warming, Warm, Places
    <2>12. CASE ReadSingleton(t)
      BY <2>12 DEF ReadSingleton, WarmType, Warming, Warm, Places
    <2> QED BY <2>1, <2>2, <2>3, <2>4, <2>5, <2>6, <2>7, <2>8, <2>9, <2>10,
               <2>11, <2>12 DEF Step
  <1> QED BY <1>1, <1>2

\* With a first caller, no call aborts, all calls return the same object and
\* that object is complete.
THEOREM WarmGetIsSafe ==
    ASSUME First \in Threads
    PROVE  Spec => []GetIsSafe
  <1>1. Init => WarmInv
    BY InitWarm
  <1>2. WarmInv /\ [Next]_vars => WarmInv'
    BY NextWarm
  <1>3. WarmInv => GetIsSafe
    BY DEF WarmInv, WarmType, Warming, Warm, GetIsSafe, NoAbort, Agreement, Whole
  <1> QED BY <1>1, <1>2, <1>3, PTL DEF Spec

\* What is built exists: a thread constructs the object `new' has given it.
Constructing == {"check", "publish", "build", "assign"}

GetInv ==
    /\ TypeOK
    /\ \A t \in Threads : pc[t] \in Constructing => this[t] \in existing

LEMMA InitGet == Init => GetInv
<1>1. SUFFICES ASSUME Init  PROVE GetInv  OBVIOUS
<1>2. 0 \in 0..MaxCalls  BY MaxCallsAssumption
<1>3. calls \in [Threads -> 0..MaxCalls]  BY <1>1, <1>2 DEF Init
<1>4. pc \in [Threads -> Places] /\ \A t \in Threads : pc[t] \notin Constructing
  BY <1>1 DEF Init, Places, Constructing
<1>5. aborted \in BOOLEAN  BY <1>1 DEF Init
<1> QED  BY <1>1, <1>3, <1>4, <1>5 DEF Init, GetInv, TypeOK

LEMMA NextGet == ASSUME GetInv, [Next]_vars  PROVE GetInv'
<1> USE MaxCallsAssumption DEF GetInv, TypeOK, Goto, Constructing
<1>1. CASE UNCHANGED vars  BY <1>1 DEF vars
<1>2. CASE Next
  <2>1. PICK t \in Threads : Step(t) \/ CallGet(t) \/ CallSingleton(t)  BY <1>2 DEF Next
  <2> class' = class  BY <1>2 DEF Next
  <2>2. CASE CallGet(t)  BY <2>2 DEF CallGet, Places
  <2>3. CASE CallSingleton(t)  BY <2>3 DEF CallSingleton, Places
  <2>4. CASE TestNull(t)  BY <2>4 DEF TestNull, Places
  <2>5. CASE Lock(t)  BY <2>5 DEF Lock, Places
  <2>6. CASE New(t)  BY <2>6 DEF New, Places
  <2>7. CASE CtorCheck(t)  BY <2>7 DEF CtorCheck, Places
  <2>8. CASE CtorPublish(t)  BY <2>8 DEF CtorPublish, Places
  <2>9. CASE CtorBuild(t)  BY <2>9 DEF CtorBuild, Places
  <2>10. CASE Assign(t)  BY <2>10 DEF Assign, Places
  <2>11. CASE Unlock(t)  BY <2>11 DEF Unlock, Places
  <2>12. CASE Read(t)  BY <2>12 DEF Read, Places
  <2>13. CASE ReadSingleton(t)  BY <2>13 DEF ReadSingleton, Places
  <2> QED
    BY <2>1, <2>2, <2>3, <2>4, <2>5, <2>6, <2>7, <2>8, <2>9, <2>10, <2>11, <2>12, <2>13
    DEF Step
<1> QED  BY <1>1, <1>2

\* Get and Singleton keep their types, with a first caller or without.
THEOREM SingletonType == Spec => []TypeOK
<1>1. GetInv => TypeOK  BY DEF GetInv
<1> QED  BY <1>1, InitGet, NextGet, PTL DEF Spec

-----------------------------------------------------------------------------
(* The factory gets its object as Get says *)

\* A call of the factory leaves the singleton alone, and a step of Get is one
\* that module Singleton has.
LEMMA FactoryStepIsStep ==
    ASSUME [FactoryNext]_<<vars, factoryVars>>  PROVE [Next]_vars
<1>1. CASE GetSteps  BY <1>1 DEF GetSteps
<1>2. CASE Ready  BY <1>2 DEF Ready
<1>3. CASE \E t \in Threads : FactoryCalls(t)
  BY <1>3
  DEF FactoryCalls, CallRegister, CallDispatch, CallWithoutCheck, CallIsRegistered, Call
<1>4. CASE \E t \in Threads : FactorySteps(t)
  BY <1>4
  DEF FactorySteps, RegisterProtocolDeserialize, CallProtocolDeserialize,
      CallProtocolDeserializeWithoutCheck, IsProtocolRegister, Return
<1>5. CASE UNCHANGED <<vars, factoryVars>>  BY <1>5
<1> QED  BY <1>1, <1>2, <1>3, <1>4, <1>5 DEF FactoryNext

LEMMA FactoryUsesGet == FactorySpec => Spec
<1>1. FactoryInit => Init  BY DEF FactoryInit
<1> QED  BY <1>1, FactoryStepIsStep, PTL DEF FactorySpec, Spec

-----------------------------------------------------------------------------
(* The map *)

Kinds == {"register", "dispatch", "unchecked", "ask"}
Registrations == [kind : {"register"}, uid : Uids, delegate : Delegates]
OtherCalls == Ops(Kinds \ {"register"})

MapType ==
    /\ raced \in BOOLEAN
    /\ ProtocolDeserializeDelegates \in [Uids -> Delegates \union {Absent, Empty}]
    /\ known \in [Threads -> SUBSET Uids]
    /\ op \in [Threads -> OtherCalls \union {None} \union Registrations]

\* A call of a careful thread: only the first one registers, and not after
\* the others have begun; no call without check of an unknown id; and an id
\* that is known has its delegate.
OrderlyCall(t) ==
    /\ InCall(t, "register") => t = First /\ ~ready
    /\ op[t] # None /\ ~InCall(t, "register") => ready
    /\ InCall(t, "unchecked") => op[t].uid \in known[t]
    /\ \A u \in known[t] : Entry(u) \in Delegates

Orderly ==
    careful =>
        /\ ~raced /\ threw = {}
        /\ \A t \in Threads : OrderlyCall(t)
        /\ \A u \in Uids : Entry(u) # Empty

\* An entry never changes; what was called or has thrown was found there.
Final ==
    /\ \A u \in Uids :
          {d \in Delegates : <<u, d>> \in accepted} = {Entry(u)} \intersect Delegates
    /\ called \subseteq accepted
    /\ \A u \in threw : u \in Uids /\ Entry(u) = Empty

MapInv == MapType /\ Orderly /\ (~raced => Final)

LEMMA InitMap == FactoryInit => MapInv
<1> SUFFICES ASSUME FactoryInit PROVE MapInv
  OBVIOUS
<1> USE DEF FactoryInit
<1>1. raced \in BOOLEAN
  BY Zenon
<1>2. MapType
  BY <1>1 DEF MapType
<1>3. Orderly
  BY DelegatesAssumption DEF Orderly, OrderlyCall, Entry, InCall
<1>4. Final
  BY DelegatesAssumption DEF Final, Entry
<1> QED BY <1>2, <1>3, <1>4 DEF MapInv

\* Up to the flag for races.
OrderlyBut ==
    careful =>
        /\ threw = {}
        /\ \A t \in Threads : OrderlyCall(t)
        /\ \A u \in Uids : Entry(u) # Empty

\* Orderly calls leave no room for a race: the one thread that may change the
\* map does so before the others begin.
LEMMA FlagKept ==
    ASSUME MapInv, OrderlyBut', MapType', careful' = careful,
           raced' = (raced \/ MapRace'), ~raced => Final'
    PROVE  MapInv'
<1>1. ASSUME careful PROVE ~raced'
  <2>1. ~raced
    BY <1>1 DEF MapInv, Orderly
  <2>2. CASE raced'
    <3>1. MapRace'
      BY <2>1, <2>2
    <3>2. ASSUME NEW t \in Threads, Writes(t)', NEW u \in Threads \ {t}, op'[u] # None
          PROVE  FALSE
      <4>1. OrderlyCall(t)' /\ OrderlyCall(u)'
        BY <1>1 DEF OrderlyBut
      <4>2. ASSUME InCall(t, "unchecked")', Entry(op[t].uid)' = Absent PROVE FALSE
        BY <4>1, <4>2, DelegatesAssumption DEF OrderlyCall
      <4>3. InCall(t, "register")'
        BY <3>2, <4>2 DEF Writes
      <4>4. t = First /\ ~ready'
        BY <4>1, <4>3 DEF OrderlyCall
      <4>5. ~InCall(u, "register")' => ready'
        BY <3>2, <4>1 DEF OrderlyCall
      <4>6. InCall(u, "register")' => u = First
        BY <4>1 DEF OrderlyCall
      <4> QED BY <3>2, <4>4, <4>5, <4>6
    <3> QED BY <3>1, <3>2 DEF MapRace
  <2> QED BY <2>2
<1>2. Orderly'
  BY <1>1 DEF Orderly, OrderlyBut
<1>3. ~raced' => Final'
  OBVIOUS
<1> QED BY <1>2, <1>3 DEF MapInv

\* A new call is orderly and changes nothing else.
LEMMA CallKeeps ==
    ASSUME MapInv, NEW t \in Threads, FactoryCalls(t), raced' = (raced \/ MapRace')
    PROVE  MapInv'
<1>1. PICK c \in Registrations \union OtherCalls :
        /\ Call(t, c)
        /\ careful => IF c.kind = "register" THEN t = First /\ ~ready ELSE ready
        /\ careful /\ c.kind = "unchecked" => c.uid \in known[t]
  <2>1. PICK u \in Uids :
            \/ \E d \in Delegates : CallRegister(t, u, d)
            \/ CallDispatch(t, u) \/ CallWithoutCheck(t, u) \/ CallIsRegistered(t, u)
    BY DEF FactoryCalls
  <2>2. CASE \E d \in Delegates : CallRegister(t, u, d)
    BY <2>2 DEF CallRegister, Registrations
  <2>3. CASE CallDispatch(t, u)
    BY <2>3 DEF CallDispatch, OtherCalls, Ops, Kinds
  <2>4. CASE CallWithoutCheck(t, u)
    BY <2>4 DEF CallWithoutCheck, OtherCalls, Ops, Kinds
  <2>5. CASE CallIsRegistered(t, u)
    BY <2>5 DEF CallIsRegistered, OtherCalls, Ops, Kinds
  <2> QED BY <2>1, <2>2, <2>3, <2>4, <2>5
<1>2. /\ op' = [op EXCEPT ![t] = c]
      /\ UNCHANGED <<careful, ready, ProtocolDeserializeDelegates, accepted, called,
                     threw, known>>
  BY <1>1 DEF Call
<1>b. raced' \in BOOLEAN
  BY Zenon DEF MapInv, MapType
<1>3. MapType'
  BY <1>1, <1>2, <1>b DEF MapInv, MapType
<1>4. ~raced => Final'
  BY <1>2 DEF MapInv, Final, Entry
<1>5. OrderlyBut'
  <2> SUFFICES ASSUME careful PROVE OrderlyBut'
    BY <1>2 DEF OrderlyBut
  <2>1. ASSUME NEW u \in Threads PROVE OrderlyCall(u)'
    <3>0. OrderlyCall(u)
      BY DEF MapInv, Orderly
    <3>1. CASE u = t
      <4>1. op'[u] = c
        BY <1>2, <3>1 DEF MapInv, MapType
      <4>2. \A v \in known[u] : Entry(v)' \in Delegates
        BY <1>2, <3>0 DEF OrderlyCall, Entry
      <4> QED BY <1>1, <1>2, <3>1, <4>1, <4>2 DEF OrderlyCall, InCall
    <3>2. CASE u # t
      <4>1. op'[u] = op[u]
        BY <1>2, <3>2 DEF MapInv, MapType
      <4> QED BY <1>2, <3>0, <4>1 DEF OrderlyCall, InCall, Entry
    <3> QED BY <3>1, <3>2
  <2> QED BY <1>2, <2>1 DEF MapInv, Orderly, OrderlyBut, Entry
<1> QED BY <1>2, <1>3, <1>4, <1>5, FlagKept

\* What all returns do.
LEMMA ReturnFrame ==
    ASSUME MapInv, NEW t \in Threads, FactorySteps(t)
    PROVE  /\ op[t] \in OtherCalls \union Registrations /\ op[t].uid \in Uids
           /\ InCall(t, "register") => op[t].delegate \in Delegates
           /\ op' = [op EXCEPT ![t] = None] /\ UNCHANGED <<careful, ready>>
<1>1. op[t] # None /\ op' = [op EXCEPT ![t] = None] /\ UNCHANGED <<careful, ready>>
  BY DEF FactorySteps, RegisterProtocolDeserialize, CallProtocolDeserialize,
         CallProtocolDeserializeWithoutCheck, IsProtocolRegister, Return, InCall
<1>2. op[t] \in OtherCalls \union Registrations
  BY <1>1 DEF MapInv, MapType
<1> QED BY <1>1, <1>2 DEF OtherCalls, Registrations, Ops, Kinds, InCall

\* Also after a race the variables keep their types.
LEMMA ReturnType ==
    ASSUME MapInv, NEW t \in Threads, FactorySteps(t), raced' = (raced \/ MapRace')
    PROVE  MapType'
<1> USE DEF MapInv, MapType
<1>1. raced' \in BOOLEAN
  BY Zenon
<1>2. op' \in [Threads -> OtherCalls \union {None} \union Registrations]
  BY ReturnFrame
<1>3. CASE RegisterProtocolDeserialize(t)
  <2>1. ProtocolDeserializeDelegates' \in [Uids -> Delegates \union {Absent, Empty}]
    BY <1>3, ReturnFrame DEF RegisterProtocolDeserialize, SetEntry
  <2>2. known' = known
    BY <1>3 DEF RegisterProtocolDeserialize
  <2> QED BY <1>1, <1>2, <2>1, <2>2
<1>4. CASE CallProtocolDeserialize(t)
  BY <1>1, <1>2, <1>4 DEF CallProtocolDeserialize
<1>5. CASE CallProtocolDeserializeWithoutCheck(t)
  <2>1. ProtocolDeserializeDelegates' \in [Uids -> Delegates \union {Absent, Empty}]
    BY <1>5 DEF CallProtocolDeserializeWithoutCheck, SetEntry
  <2>2. known' = known
    BY <1>5 DEF CallProtocolDeserializeWithoutCheck
  <2> QED BY <1>1, <1>2, <2>1, <2>2
<1>6. CASE IsProtocolRegister(t)
  <2>1. PICK S \in SUBSET {op[t].uid} : known' = [known EXCEPT ![t] = @ \union S]
    BY <1>6 DEF IsProtocolRegister
  <2>2. known' \in [Threads -> SUBSET Uids]
    BY <2>1, ReturnFrame
  <2> QED BY <1>1, <1>2, <1>6, <2>2 DEF IsProtocolRegister
<1> QED BY <1>3, <1>4, <1>5, <1>6 DEF FactorySteps

\* The return of a call that keeps the entries that are there leaves the
\* other calls orderly and the accepted registrations final.
LEMMA ReturnKeeps ==
    ASSUME MapInv, ~raced, NEW t \in Threads, FactorySteps(t)
    PROVE  OrderlyBut' /\ Final'
<1> DEFINE u0 == op[t].uid
<1>f. \A u : Found(u) = {Entry(u)}
  BY DEF Found
<1>0. op' = [op EXCEPT ![t] = None] /\ UNCHANGED <<careful, ready>> /\ u0 \in Uids
  BY ReturnFrame
<1>1. op'[t] = None /\ \A u \in Threads : u # t => op'[u] = op[u]
  BY <1>0 DEF MapInv, MapType
<1>2. Final /\ OrderlyBut
  BY DEF MapInv, Orderly, OrderlyBut
<1>o. \* what is left to show of the other calls
      ASSUME careful => threw' = {} /\ \A u \in Uids : Entry(u)' # Empty,
             \A v \in Threads : known[v] \subseteq known'[v],
             careful => \A v \in Threads : \A u \in known'[v] : Entry(u)' \in Delegates
      PROVE  OrderlyBut'
  <2>1. ASSUME careful, NEW v \in Threads PROVE OrderlyCall(v)'
    <3>0. OrderlyCall(v) /\ \A u \in known'[v] : Entry(u)' \in Delegates
      BY <1>2, <1>o, <2>1 DEF OrderlyBut
    <3>1. CASE v = t
      BY <1>1, <3>0, <3>1 DEF OrderlyCall, InCall
    <3>2. CASE v # t
      <4>1. op'[v] = op[v]
        BY <1>1, <3>2
      <4> QED BY <1>0, <1>o, <3>0, <4>1 DEF OrderlyCall, InCall
    <3> QED BY <3>1, <3>2
  <2> QED BY <1>0, <1>o, <2>1 DEF OrderlyBut
<1>3. CASE RegisterProtocolDeserialize(t)
  <2>0. UNCHANGED <<called, threw, known>> /\ InCall(t, "register")
    BY <1>3 DEF RegisterProtocolDeserialize
  <2>1. op[t].delegate \in Delegates
    BY <2>0, ReturnFrame
  <2>2. CASE Entry(u0) = Absent
    <3>1. /\ ProtocolDeserializeDelegates' =
                [ProtocolDeserializeDelegates EXCEPT ![u0] = op[t].delegate]
          /\ accepted' = accepted \union {<<u0, op[t].delegate>>}
      BY <1>3, <1>f, <2>2 DEF RegisterProtocolDeserialize, SetEntry
    <3>2. \A u \in Uids : Entry(u)' = IF u = u0 THEN op[t].delegate ELSE Entry(u)
      BY <3>1 DEF MapInv, MapType, Entry
    <3>3. ASSUME NEW u \in Uids
          PROVE  {d \in Delegates : <<u, d>> \in accepted'} = {Entry(u)'} \intersect Delegates
      <4>1. {d \in Delegates : <<u, d>> \in accepted} = {Entry(u)} \intersect Delegates
        BY <1>2 DEF Final
      <4>2. CASE u = u0
        BY <2>1, <2>2, <3>1, <3>2, <4>1, <4>2, DelegatesAssumption
      <4>3. CASE u # u0
        <5>1. \A d \in Delegates : <<u, d>> \in accepted' <=> <<u, d>> \in accepted
          BY <3>1, <4>3
        <5> QED BY <3>2, <4>1, <4>3, <5>1
      <4> QED BY <4>2, <4>3
    <3>4. Final'
      <4>1. called' \subseteq accepted'
        BY <1>2, <2>0, <3>1 DEF Final
      <4>2. \A u \in threw' : u \in Uids /\ Entry(u)' = Empty
        BY <1>2, <2>0, <2>2, <3>2, DelegatesAssumption DEF Final
      <4> QED BY <3>3, <4>1, <4>2 DEF Final
    <3>5. \A v \in Threads : known[v] \subseteq Uids
      BY DEF MapInv, MapType
    <3>6. OrderlyBut'
      BY <1>2, <1>o, <2>0, <2>1, <3>2, <3>5, DelegatesAssumption DEF OrderlyBut, OrderlyCall
    <3> QED BY <3>4, <3>6
  <2>3. CASE Entry(u0) # Absent
    <3>1. UNCHANGED <<ProtocolDeserializeDelegates, accepted>>
      BY <1>3, <1>f, <2>3 DEF RegisterProtocolDeserialize
    <3>2. Final'
      BY <1>2, <2>0, <3>1 DEF Final, Entry
    <3> QED BY <1>2, <1>o, <2>0, <3>1, <3>2 DEF OrderlyBut, OrderlyCall, Entry
  <2> QED BY <2>2, <2>3
<1>r. \* a call of the delegate that is registered
      ASSUME UNCHANGED <<ProtocolDeserializeDelegates, accepted, known>>, Run(u0, Entry(u0))
      PROVE  OrderlyBut' /\ Final'
  <2>1. called' \subseteq accepted'
    <3>1. Entry(u0) \in Delegates => <<u0, Entry(u0)>> \in accepted
      BY <1>0, <1>2 DEF Final
    <3> QED BY <1>2, <1>r, <3>1 DEF Run, Final
  <2>2. \A u \in threw' : u \in Uids /\ Entry(u)' = Empty
    BY <1>0, <1>2, <1>r DEF Run, Final, Entry
  <2>3. Final'
    BY <1>2, <1>r, <2>1, <2>2 DEF Final, Entry
  <2>4. careful => threw' = {}
    BY <1>0, <1>2, <1>r DEF Run, OrderlyBut
  <2> QED BY <1>2, <1>o, <1>r, <2>3, <2>4 DEF OrderlyBut, OrderlyCall, Entry
<1>4. CASE CallProtocolDeserialize(t)
  BY <1>4, <1>f, <1>r DEF CallProtocolDeserialize
<1>5. CASE CallProtocolDeserializeWithoutCheck(t)
  <2>0. UNCHANGED <<accepted, known>> /\ InCall(t, "unchecked")
    BY <1>5 DEF CallProtocolDeserializeWithoutCheck
  <2>1. CASE Entry(u0) = Absent
    <3>1. /\ ProtocolDeserializeDelegates' =
                [ProtocolDeserializeDelegates EXCEPT ![u0] = Empty]
          /\ called' = called /\ threw' = threw \union {u0}
      BY <1>5, <1>f, <2>1, DelegatesAssumption
      DEF CallProtocolDeserializeWithoutCheck, SetEntry, Run
    <3>2. ~careful
      BY <1>2, <2>0, <2>1, DelegatesAssumption DEF OrderlyBut, OrderlyCall
    <3>3. OrderlyBut'
      BY <1>0, <3>2 DEF OrderlyBut
    <3>4. \A u \in Uids : Entry(u)' = IF u = u0 THEN Empty ELSE Entry(u)
      BY <3>1 DEF MapInv, MapType, Entry
    <3>5. ASSUME NEW u \in Uids
          PROVE  {d \in Delegates : <<u, d>> \in accepted'} = {Entry(u)'} \intersect Delegates
      <4>1. {d \in Delegates : <<u, d>> \in accepted} = {Entry(u)} \intersect Delegates
        BY <1>2 DEF Final
      <4> QED BY <2>0, <2>1, <3>4, <4>1, DelegatesAssumption
    <3>6. Final'
      BY <1>0, <1>2, <2>0, <3>1, <3>4, <3>5 DEF Final
    <3> QED BY <3>3, <3>6
  <2>2. CASE Entry(u0) # Absent
    <3>1. UNCHANGED ProtocolDeserializeDelegates /\ Run(u0, Entry(u0))
      BY <1>5, <1>f, <2>2 DEF CallProtocolDeserializeWithoutCheck
    <3> QED BY <1>r, <2>0, <3>1
  <2> QED BY <2>1, <2>2
<1>6. CASE IsProtocolRegister(t)
  <2>0. UNCHANGED <<ProtocolDeserializeDelegates, accepted, called, threw>>
        /\ known' = [known EXCEPT ![t] = @ \union {u \in {u0} : Entry(u0) # Absent}]
    BY <1>6, <1>f DEF IsProtocolRegister
  <2>1. Final'
    BY <1>2, <2>0 DEF Final, Entry
  <2>2. \A v \in Threads : known[v] \subseteq known'[v]
    BY <2>0 DEF MapInv, MapType
  <2>3. ASSUME careful, NEW v \in Threads, NEW u \in known'[v] PROVE Entry(u)' \in Delegates
    <3>1. u \in known[v] \/ (u = u0 /\ Entry(u0) # Absent)
      BY <2>0, <2>3 DEF MapInv, MapType
    <3>2. u \in known[v] => Entry(u) \in Delegates
      BY <1>2, <2>3 DEF OrderlyBut, OrderlyCall
    <3>3. Entry(u0) \in Delegates \union {Absent} 
      BY <1>0, <1>2, <2>3 DEF MapInv, MapType, OrderlyBut, Entry
    <3> QED BY <2>0, <3>1, <3>2, <3>3 DEF Entry
  <2>4. careful => threw' = {} /\ \A u \in Uids : Entry(u)' # Empty
    BY <1>2, <2>0 DEF OrderlyBut, Entry
  <2> QED BY <1>o, <2>1, <2>2, <2>3, <2>4
<1> QED BY <1>3, <1>4, <1>5, <1>6 DEF FactorySteps

LEMMA NextMap == MapInv /\ [FactoryNext]_<<vars, factoryVars>> => MapInv'
<1> SUFFICES ASSUME MapInv, [FactoryNext]_<<vars, factoryVars>> PROVE MapInv'
  OBVIOUS
<1>1. CASE UNCHANGED factoryVars
  BY <1>1 DEF factoryVars, mapVars, MapInv, MapType, Orderly, OrderlyCall, Final, Entry, InCall
<1>2. CASE Ready /\ raced' = (raced \/ MapRace')
  <2>1. /\ op[First] = None /\ ready' = TRUE
        /\ UNCHANGED <<careful, ProtocolDeserializeDelegates, accepted, called, threw,
                       known, op>>
    BY <1>2 DEF Ready
  <2>2. raced' \in BOOLEAN
    BY <1>2, Zenon DEF MapInv, MapType
  <2>3. MapType'
    BY <2>1, <2>2 DEF MapInv, MapType
  <2>4. ~raced => Final'
    BY <2>1 DEF MapInv, Final, Entry
  <2>5. ASSUME careful, NEW t \in Threads PROVE OrderlyCall(t)'
    <3>1. OrderlyCall(t)
      BY <2>5 DEF MapInv, Orderly
    <3>2. ~InCall(t, "register")
      BY <2>1, <3>1 DEF OrderlyCall, InCall
    <3> QED BY <2>1, <3>1, <3>2 DEF OrderlyCall, InCall, Entry
  <2>6. OrderlyBut'
    BY <2>1, <2>5 DEF MapInv, Orderly, OrderlyBut, Entry
  <2> QED BY <1>2, <2>1, <2>3, <2>4, <2>6, FlagKept
<1>3. CASE (\E t \in Threads : FactoryCalls(t)) /\ raced' = (raced \/ MapRace')
  BY <1>3, CallKeeps
<1>4. CASE (\E t \in Threads : FactorySteps(t)) /\ raced' = (raced \/ MapRace')
  <2>1. PICK t \in Threads : FactorySteps(t)
    BY <1>4
  <2>2. MapType' /\ careful' = careful
    BY <1>4, <2>1, ReturnType, ReturnFrame
  <2>3. CASE raced
    <3>1. ~careful
      BY <2>3 DEF MapInv, Orderly
    <3> QED BY <1>4, <2>2, <2>3, <3>1, FlagKept DEF OrderlyBut
  <2>4. CASE ~raced
    BY <1>4, <2>1, <2>2, <2>4, ReturnKeeps, FlagKept
  <2> QED BY <2>3, <2>4
<1> QED BY <1>1, <1>2, <1>3, <1>4 DEF FactoryNext, GetSteps

THEOREM Invariance == FactorySpec => []MapInv
  BY InitMap, NextMap, PTL DEF FactorySpec

\* Careful callers meet no data race on the map and no empty delegate
\* (ProtocolFactory.cpp:50-79).
THEOREM CarefulIsSafeHolds == FactorySpec => []CarefulIsSafe
<1>1. MapInv => CarefulIsSafe
  BY DEF MapInv, Orderly, CarefulIsSafe
<1> QED BY Invariance, <1>1, PTL

\* Until two calls race on the map, and whatever the callers do, also after an
\* empty delegate has thrown: the delegate in the map is the one registration
\* that was answered with true, no other is called, and an id that has thrown
\* is never registered (ProtocolFactory.cpp:50-54, 72).
THEOREM AcceptedIsCalledHolds == FactorySpec => []AcceptedIsCalled
<1>1. ASSUME MapInv, ~raced, NEW u \in threw, NEW d \in Delegates PROVE <<u, d>> \notin accepted
  <2>1. u \in Uids /\ Entry(u) = Empty
    BY <1>1 DEF MapInv, Final
  <2>2. {e \in Delegates : <<u, e>> \in accepted} = {Entry(u)} \intersect Delegates
    BY <1>1, <2>1 DEF MapInv, Final
  <2> QED BY <2>1, <2>2, DelegatesAssumption
<1>2. MapInv => AcceptedIsCalled
  BY <1>1 DEF MapInv, Final, AcceptedIsCalled
<1> QED BY Invariance, <1>2, PTL

-----------------------------------------------------------------------------
(* Types *)

FactoryType ==
    /\ careful \in BOOLEAN /\ ready \in BOOLEAN
    /\ accepted \subseteq Uids \X Delegates
    /\ called \subseteq Uids \X Delegates
    /\ threw \subseteq Uids
    /\ ops \in [Threads -> 0..MaxOps]

LEMMA InitFactoryType == FactoryInit => FactoryType
<1>1. SUFFICES ASSUME FactoryInit  PROVE FactoryType  OBVIOUS
<1>2. 0 \in 0..MaxOps  BY MaxOpsAssumption
<1>3. ops \in [Threads -> 0..MaxOps]  BY <1>1, <1>2 DEF FactoryInit
<1>4. careful \in BOOLEAN /\ ready \in BOOLEAN  BY <1>1 DEF FactoryInit
<1>5. accepted \subseteq Uids \X Delegates /\ called \subseteq Uids \X Delegates
      /\ threw \subseteq Uids
  BY <1>1 DEF FactoryInit
<1> QED  BY <1>3, <1>4, <1>5 DEF FactoryType

LEMMA NextFactoryType ==
    ASSUME MapInv, FactoryType, [FactoryNext]_<<vars, factoryVars>>  PROVE FactoryType'
<1> USE MaxOpsAssumption DEF FactoryType
<1>1. CASE UNCHANGED factoryVars  BY <1>1 DEF factoryVars, mapVars
<1>2. CASE Ready  BY <1>2 DEF Ready
<1>3. CASE \E t \in Threads : FactoryCalls(t)
  <2>1. PICK t \in Threads : \E c : Call(t, c)
    BY <1>3 DEF FactoryCalls, CallRegister, CallDispatch, CallWithoutCheck, CallIsRegistered
  <2>2. ops' \in [Threads -> 0..MaxOps]  BY <2>1 DEF Call, CanCall
  <2> QED  BY <2>1, <2>2 DEF Call
<1>4. CASE \E t \in Threads : FactorySteps(t)
  <2>1. PICK t \in Threads : FactorySteps(t)  BY <1>4
  <2>f. op[t].uid \in Uids /\ (InCall(t, "register") => op[t].delegate \in Delegates)
    BY <2>1, ReturnFrame
  <2>r. ASSUME NEW e, Run(op[t].uid, e)
        PROVE  called' \subseteq Uids \X Delegates /\ threw' \subseteq Uids
    BY <2>f, <2>r DEF Run
  <2>2. CASE RegisterProtocolDeserialize(t)
    BY <2>2, <2>f DEF RegisterProtocolDeserialize, Return
  <2>3. CASE CallProtocolDeserialize(t)
    BY <2>3, <2>r DEF CallProtocolDeserialize, Return
  <2>4. CASE CallProtocolDeserializeWithoutCheck(t)
    <3>1. \E e : Run(op[t].uid, e)
      BY <2>4 DEF CallProtocolDeserializeWithoutCheck
    <3> QED  BY <2>4, <2>r, <3>1 DEF CallProtocolDeserializeWithoutCheck, Return
  <2>5. CASE IsProtocolRegister(t)  BY <2>5 DEF IsProtocolRegister, Return
  <2> QED  BY <2>1, <2>2, <2>3, <2>4, <2>5 DEF FactorySteps
<1> QED  BY <1>1, <1>2, <1>3, <1>4 DEF FactoryNext, GetSteps, factoryVars, mapVars

\* The factory and the threads that use it keep their types.
THEOREM FactoryTypeHolds == FactorySpec => []FactoryTypeOK
<1>1. FactorySpec => []TypeOK  BY SingletonType, FactoryUsesGet, PTL
<1>2. FactorySpec => []FactoryType
  <2>1. FactoryInit => FactoryType  BY InitFactoryType
  <2>2. MapInv /\ FactoryType /\ [FactoryNext]_<<vars, factoryVars>> => FactoryType'
    BY NextFactoryType
  <2> QED  BY <2>1, <2>2, Invariance, PTL DEF FactorySpec
<1>3. TypeOK /\ FactoryType /\ MapInv => FactoryTypeOK
  BY DEF FactoryType, MapInv, MapType, FactoryTypeOK, Ops, Kinds, OtherCalls, Registrations
<1> QED  BY <1>1, <1>2, <1>3, Invariance, PTL
=============================================================================
