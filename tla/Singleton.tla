------------------------------ MODULE Singleton ------------------------------
(***************************************************************************)
(* FServoProtocol::Get, GetRef and Singleton with the constructor they     *)
(* lead to (src/Servo/Protocol/ServoProtocol.cpp).  FProtocolFactory and   *)
(* TSingleton<T> follow the same pattern.  Get tests pSingleton, locks,    *)
(* and constructs without testing again; the constructor publishes `this'. *)
(* FServoProtocol makes its packet pool after that; the members of         *)
(* FProtocolFactory exist before the body of the constructor.              *)
(***************************************************************************)
EXTENDS FiniteSets, Naturals

CONSTANTS
    Threads,    \* callers
    NoThread,   \* "mCriticalSection is free"
    Objects,    \* addresses `new' may return
    Null,       \* nullptr
    Checked,    \* check() is assert(): TRUE in a build without NDEBUG
    First,      \* the thread that calls Get before the others start, or
                \* NoThread: everybody starts at once
    MaxCalls    \* bound: calls of one thread

ASSUME NoThreadAssumption == NoThread \notin Threads
ASSUME NullAssumption == Null \notin Objects
ASSUME FirstAssumption == First \in Threads \union {NoThread}
ASSUME CheckedAssumption == Checked \in BOOLEAN
ASSUME MaxCallsAssumption == MaxCalls \in Nat

VARIABLES
    class,      \* whose Get is called
    pSingleton,
    locker,     \* the thread that has mCriticalSection
    built,      \* objects that have all their members
    existing,   \* objects that have been constructed or are being so
    pc,         \* where a thread is
    this,       \* this[t]: what t constructs
    got,        \* got[t]: what the last call of t returned
    calls,      \* calls[t]: calls t has made
    aborted     \* a check() has failed

vars == <<class, pSingleton, locker, built, existing, pc, this, got, calls, aborted>>

Classes == {"FServoProtocol", "FProtocolFactory"}

Places == {"idle", "test", "lock", "new", "check", "publish", "build", "assign",
           "unlock", "read", "singleton"}

Goto(t, place) == pc' = [pc EXCEPT ![t] = place]

\* Until the first thread has its object, the others have not started.
Started(t) == First \in Threads \ {t} => got[First] # Null

Init ==
    /\ class \in Classes
    /\ pSingleton = Null
    /\ locker = NoThread
    /\ built = {}
    /\ existing = {}
    /\ pc = [t \in Threads |-> "idle"]
    /\ this = [t \in Threads |-> Null]
    /\ got = [t \in Threads |-> Null]
    /\ calls = [t \in Threads |-> 0]
    /\ aborted = FALSE

-----------------------------------------------------------------------------
CallGet(t) ==
    /\ pc[t] = "idle"
    /\ Started(t)
    /\ calls[t] < MaxCalls
    /\ calls' = [calls EXCEPT ![t] = @ + 1]
    /\ Goto(t, "test")
    /\ UNCHANGED <<pSingleton, locker, built, existing, this, got, aborted>>

\* The "danger call": nothing is created, so t has to have called Get.
CallSingleton(t) ==
    /\ pc[t] = "idle"
    /\ got[t] # Null
    /\ calls[t] < MaxCalls
    /\ calls' = [calls EXCEPT ![t] = @ + 1]
    /\ Goto(t, "singleton")
    /\ UNCHANGED <<pSingleton, locker, built, existing, this, got, aborted>>

\* Mutated form: the test is missing.
TestSkipped(t) ==
    /\ pc[t] = "test"
    /\ Goto(t, "lock")
    /\ UNCHANGED <<pSingleton, locker, built, existing, this, got, calls, aborted>>

\* if (nullptr == pSingleton)
TestNull(t) ==
    /\ pc[t] = "test"
    /\ Goto(t, IF pSingleton = Null THEN "lock" ELSE "read")
    /\ UNCHANGED <<pSingleton, locker, built, existing, this, got, calls, aborted>>

Lock(t) ==
    /\ pc[t] = "lock"
    /\ locker = NoThread
    /\ locker' = t
    /\ Goto(t, "new")
    /\ UNCHANGED <<pSingleton, built, existing, this, got, calls, aborted>>

\* Mutated form: new (std::nothrow), its result not looked at.
NewNothrow(t) ==
    /\ pc[t] = "new"
    /\ Goto(t, "check")
    /\ UNCHANGED <<pSingleton, locker, built, existing, this, got, calls, aborted>>

New(t) ==
    /\ pc[t] = "new"
    /\ \E o \in Objects \ existing :
          /\ this' = [this EXCEPT ![t] = o]
          /\ existing' = existing \union {o}
          /\ built' = built \union {x \in {o} : class = "FProtocolFactory"}
    /\ Goto(t, "check")
    /\ UNCHANGED <<pSingleton, locker, got, calls, aborted>>

\* check(pSingleton == nullptr && "Protocol singleton can't create 2 object!")
CtorCheck(t) ==
    /\ pc[t] = "check"
    /\ aborted' = (Checked /\ pSingleton # Null)
    /\ Goto(t, "publish")
    /\ UNCHANGED <<pSingleton, locker, built, existing, this, got, calls>>

\* pSingleton = this
CtorPublish(t) ==
    /\ pc[t] = "publish"
    /\ pSingleton' = this[t]
    /\ Goto(t, "build")
    /\ UNCHANGED <<locker, built, existing, this, got, calls, aborted>>

\* PacketPool = new TNetPacketQueue<FSNetPacket>()
CtorBuild(t) ==
    /\ pc[t] = "build"
    /\ built' = built \union {this[t]}
    /\ Goto(t, "assign")
    /\ UNCHANGED <<pSingleton, locker, existing, this, got, calls, aborted>>

\* pSingleton = new FServoProtocol()
Assign(t) ==
    /\ pc[t] = "assign"
    /\ pSingleton' = this[t]
    /\ this' = [this EXCEPT ![t] = Null]
    /\ Goto(t, "unlock")
    /\ UNCHANGED <<locker, built, existing, got, calls, aborted>>

Unlock(t) ==
    /\ pc[t] = "unlock"
    /\ locker' = NoThread
    /\ Goto(t, "read")
    /\ UNCHANGED <<pSingleton, built, existing, this, got, calls, aborted>>

\* return pSingleton
Read(t) ==
    /\ pc[t] = "read"
    /\ got' = [got EXCEPT ![t] = pSingleton]
    /\ Goto(t, "idle")
    /\ UNCHANGED <<pSingleton, locker, built, existing, this, calls, aborted>>

ReadSingleton(t) ==
    /\ pc[t] = "singleton"
    /\ aborted' = (Checked /\ pSingleton = Null)
    /\ got' = [got EXCEPT ![t] = pSingleton]
    /\ Goto(t, "idle")
    /\ UNCHANGED <<pSingleton, locker, built, existing, this, calls>>

Step(t) ==
    \/ TestNull(t) \/ Lock(t) \/ New(t)
    \/ CtorCheck(t) \/ CtorPublish(t) \/ CtorBuild(t) \/ Assign(t)
    \/ Unlock(t) \/ Read(t) \/ ReadSingleton(t)

Next ==
    /\ ~aborted
    /\ \E t \in Threads : Step(t) \/ CallGet(t) \/ CallSingleton(t)
    /\ UNCHANGED class

Spec == Init /\ [][Next]_vars

-----------------------------------------------------------------------------
(* What a thread-safe Get owes its callers *)

TypeOK ==
    /\ class \in Classes
    /\ pSingleton \in Objects \union {Null}
    /\ locker \in Threads \union {NoThread}
    /\ built \in SUBSET existing
    /\ existing \in SUBSET Objects
    /\ pc \in [Threads -> Places]
    /\ this \in [Threads -> Objects \union {Null}]
    /\ got \in [Threads -> Objects \union {Null}]
    /\ calls \in [Threads -> 0..MaxCalls]
    /\ aborted \in BOOLEAN

\* ServoProtocol.h:276, "thread safe; singleton will init when first call
\* get()": concurrent calls do not abort the process.
NoAbort == ~aborted

\* The same comment: all calls return the one singleton.
Agreement ==
    \A t, u \in Threads : got[t] # Null /\ got[u] # Null => got[t] = got[u]

\* The same comment: the object that is returned is initialised.
Whole == \A t \in Threads : got[t] # Null => got[t] \in built

\* All three: what a caller of Get relies on.
GetIsSafe == NoAbort /\ Agreement /\ Whole

=============================================================================
