--------------------------- MODULE ProtocolFactory ---------------------------
(***************************************************************************)
(* FProtocolFactory (src/Servo/Protocol/ProtocolFactory.cpp): a singleton  *)
(* with a std::map from protocol ids to the delegates that parse them.     *)
(* The threads get the factory as module Singleton says.  The first one    *)
(* registers the protocols; when it is ready, all of them dispatch         *)
(* packets.  Careless threads do both at any time.                         *)
(*                                                                         *)
(* Nothing protects the map, so a member function is two steps, its call   *)
(* and its return, and the map is in use in between.  When a call that     *)
(* changes the map meets another one it is a data race: what a search of   *)
(* the map finds after that is undefined, and here it is anything.  The    *)
(* exception of an empty delegate goes to the caller, which may go on.     *)
(***************************************************************************)
EXTENDS Singleton

CONSTANTS
    Uids,       \* ids of protocols
    Delegates,  \* functions clients register
    Absent,     \* there is no entry
    Empty,      \* an entry without a function: calling it throws
    None,       \* "in no call"
    MaxOps      \* bound: factory calls of one thread

ASSUME FirstIsThread == First \in Threads
ASSUME MaxOpsAssumption == MaxOps \in Nat
ASSUME DelegatesAssumption == Absent \notin Delegates /\ Empty \notin Delegates /\ Absent # Empty

VARIABLES
    careful,    \* callers ask IsProtocolRegister before a call without check,
                \* and register before the threads dispatch
    ready,      \* the first thread has registered its protocols
    ProtocolDeserializeDelegates, \* the map of the factory
    accepted,   \* history: registrations answered with true
    called,     \* history: delegates that were called, with the id
    threw,      \* history: ids for which an empty delegate was called
    raced,      \* history: two calls have raced on the map
    known,      \* known[t]: ids thread t has been told are registered
    op,         \* op[t]: the factory call of thread t
    ops         \* ops[t]: number of factory calls of t

mapVars == <<careful, ready, ProtocolDeserializeDelegates, accepted, called,
             threw, known, op, ops>>
factoryVars == <<mapVars, raced>>

Entry(u) == ProtocolDeserializeDelegates[u]

\* What find, insert and operator[] may see of id u.
Found(u) == IF raced THEN Delegates \union {Absent, Empty} ELSE {Entry(u)}

SetEntry(u, d) ==
    ProtocolDeserializeDelegates' = [ProtocolDeserializeDelegates EXCEPT ![u] = d]

FactoryInit ==
    /\ Init
    /\ careful \in BOOLEAN
    /\ ready = FALSE
    /\ ProtocolDeserializeDelegates = [u \in Uids |-> Absent]
    /\ accepted = {}
    /\ called = {}
    /\ threw = {}
    /\ raced = FALSE
    /\ known = [t \in Threads |-> {}]
    /\ op = [t \in Threads |-> None]
    /\ ops = [t \in Threads |-> 0]

-----------------------------------------------------------------------------
CanCall(t) ==
    /\ class = "FProtocolFactory"
    /\ pc[t] = "idle" /\ got[t] # Null /\ op[t] = None /\ ops[t] < MaxOps

Call(t, c) ==
    /\ CanCall(t)
    /\ op' = [op EXCEPT ![t] = c]
    /\ ops' = [ops EXCEPT ![t] = @ + 1]
    /\ UNCHANGED <<vars, careful, ready, ProtocolDeserializeDelegates, accepted,
                   called, threw, known>>

InCall(t, kind) == op[t] # None /\ op[t].kind = kind
Return(t) == op' = [op EXCEPT ![t] = None] /\ UNCHANGED <<vars, careful, ready, ops>>

CallRegister(t, u, d) ==
    /\ careful => t = First /\ ~ready
    /\ Call(t, [kind |-> "register", uid |-> u, delegate |-> d])

CallDispatch(t, u) == (careful => ready) /\ Call(t, [kind |-> "dispatch", uid |-> u])

CallWithoutCheck(t, u) ==
    /\ careful => ready /\ u \in known[t]
    /\ Call(t, [kind |-> "unchecked", uid |-> u])

CallIsRegistered(t, u) == (careful => ready) /\ Call(t, [kind |-> "ask", uid |-> u])

\* The first thread lets the others begin.
Ready ==
    /\ class = "FProtocolFactory" /\ ~ready /\ op[First] = None /\ got[First] # Null
    /\ ready' = TRUE
    /\ UNCHANGED <<vars, careful, ProtocolDeserializeDelegates, accepted, called,
                   threw, known, op, ops>>

\* Mutated form: operator[] and assignment; the last registration counts.
RegisterOverwrites(t) ==
    /\ InCall(t, "register")
    /\ SetEntry(op[t].uid, op[t].delegate)
    /\ accepted' = accepted \union {<<op[t].uid, op[t].delegate>>}
    /\ Return(t)
    /\ UNCHANGED <<called, threw, known>>

\* insert: an entry that is there stays, and the answer is false.
RegisterProtocolDeserialize(t) ==
    /\ InCall(t, "register")
    /\ \E e \in Found(op[t].uid) :
          IF e = Absent
          THEN /\ SetEntry(op[t].uid, op[t].delegate)
               /\ accepted' = accepted \union {<<op[t].uid, op[t].delegate>>}
          ELSE UNCHANGED <<ProtocolDeserializeDelegates, accepted>>
    /\ Return(t)
    /\ UNCHANGED <<called, threw, known>>

\* The function is called, or throws std::bad_function_call if it is empty.
Run(u, e) ==
    /\ called' = called \union ({<<u, e>>} \intersect (Uids \X Delegates))
    /\ threw' = threw \union {x \in {u} : e = Empty}

\* An id that is not registered is only reported.
CallProtocolDeserialize(t) ==
    /\ InCall(t, "dispatch")
    /\ \E e \in Found(op[t].uid) : Run(op[t].uid, e)
    /\ Return(t)
    /\ UNCHANGED <<ProtocolDeserializeDelegates, accepted, known>>

\* operator[] inserts an empty function for an id that is not there.
CallProtocolDeserializeWithoutCheck(t) ==
    /\ InCall(t, "unchecked")
    /\ \E e \in Found(op[t].uid) :
          IF e = Absent
          THEN SetEntry(op[t].uid, Empty) /\ Run(op[t].uid, Empty)
          ELSE UNCHANGED ProtocolDeserializeDelegates /\ Run(op[t].uid, e)
    /\ Return(t)
    /\ UNCHANGED <<accepted, known>>

\* Mutated form: the comparison with end() is the wrong way round.
IsProtocolRegisterNegated(t) ==
    /\ InCall(t, "ask")
    /\ \E e \in Found(op[t].uid) :
          known' = [known EXCEPT ![t] = @ \union {u \in {op[t].uid} : e = Absent}]
    /\ Return(t)
    /\ UNCHANGED <<ProtocolDeserializeDelegates, accepted, called, threw>>

IsProtocolRegister(t) ==
    /\ InCall(t, "ask")
    /\ \E e \in Found(op[t].uid) :
          known' = [known EXCEPT ![t] = @ \union {u \in {op[t].uid} : e # Absent}]
    /\ Return(t)
    /\ UNCHANGED <<ProtocolDeserializeDelegates, accepted, called, threw>>

\* The calls that change the map.
Writes(t) ==
    \/ InCall(t, "register")
    \/ InCall(t, "unchecked") /\ Entry(op[t].uid) = Absent

MapRace ==
    \E t \in Threads : Writes(t) /\ \E u \in Threads \ {t} : op[u] # None

GetSteps == Next /\ UNCHANGED factoryVars /\ \A t \in Threads : op[t] # None => pc'[t] = pc[t]

FactoryCalls(t) ==
    \E u \in Uids :
        \/ \E d \in Delegates : CallRegister(t, u, d)
        \/ CallDispatch(t, u) \/ CallWithoutCheck(t, u) \/ CallIsRegistered(t, u)

FactorySteps(t) ==
    \/ RegisterProtocolDeserialize(t)
    \/ CallProtocolDeserialize(t) \/ CallProtocolDeserializeWithoutCheck(t)
    \/ IsProtocolRegister(t)

FactoryNext ==
    \/ GetSteps
    \/ /\ Ready \/ \E t \in Threads : FactoryCalls(t) \/ FactorySteps(t)
       /\ raced' = (raced \/ MapRace')

FactorySpec == FactoryInit /\ [][FactoryNext]_<<vars, factoryVars>>

-----------------------------------------------------------------------------
Ops(kinds) == [kind : kinds, uid : Uids]

FactoryTypeOK ==
    /\ TypeOK
    /\ careful \in BOOLEAN /\ ready \in BOOLEAN /\ raced \in BOOLEAN
    /\ ProtocolDeserializeDelegates \in [Uids -> Delegates \union {Absent, Empty}]
    /\ accepted \subseteq Uids \X Delegates
    /\ called \subseteq Uids \X Delegates
    /\ threw \subseteq Uids
    /\ known \in [Threads -> SUBSET Uids]
    /\ \A t \in Threads :
        op[t] \in {None} \union Ops({"dispatch", "unchecked", "ask"})
                  \union [kind : {"register"}, uid : Uids, delegate : Delegates]
    /\ ops \in [Threads -> 0..MaxOps]

\* Nothing locks the map (ProtocolFactory.cpp:50-79) and a call without check
\* may insert into it.  Callers that register first and ask before they call
\* without check never meet a map that changes under them, nor an empty
\* delegate: what IsProtocolRegister answered stays true.
CarefulIsSafe == careful => ~raced /\ threw = {}

\* Until two calls race on the map, whoever calls and in whatever order: one
\* registration of an id at most is answered with true, and its delegate is
\* the one in the map (ProtocolFactory.cpp:50-54); no other delegate is ever
\* called; and an id with such a registration has never thrown and never
\* will, so one that did throw, because operator[] inserted an empty entry
\* (ProtocolFactory.cpp:72), can never be registered any more.
AcceptedIsCalled ==
    ~raced =>
        /\ \A u \in Uids :
              {d \in Delegates : <<u, d>> \in accepted} = {Entry(u)} \intersect Delegates
        /\ called \subseteq accepted
        /\ \A u \in threw, d \in Delegates : <<u, d>> \notin accepted
=============================================================================
