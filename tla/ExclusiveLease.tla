--------------------------- MODULE ExclusiveLease ---------------------------
(***************************************************************************)
(* What a recycling pool promises, without saying how: every object is     *)
(* either free (no memory is allocated for it), parked in the pool, or     *)
(* leased to exactly one thread.  A lease ends only by an act of the       *)
(* thread that has it, and no object goes from one thread to another       *)
(* without passing through the pool.                                       *)
(***************************************************************************)
CONSTANTS
    Threads,    \* the threads that use the pool
    Obj,        \* the identities an object may have
    Free,       \* holder of an object that does not exist
    Parked      \* holder of an object that waits in the pool

VARIABLE holder \* holder[o]: who has object o

LeaseTypeOK == holder \in [Obj -> Threads \union {Free, Parked}]

LeaseInit == holder \in [Obj -> {Free, Parked}]

\* A thread obtains an object that nobody has.
Acquire(t, o) ==
    /\ holder[o] \in {Free, Parked}
    /\ holder' = [holder EXCEPT ![o] = t]

\* The thread that has the object gives it back, or frees it.
Release(t, o, to) ==
    /\ holder[o] = t
    /\ holder' = [holder EXCEPT ![o] = to]

\* The pool creates an object for itself, or frees one it holds.
Park(o) ==
    /\ holder[o] = Free
    /\ holder' = [holder EXCEPT ![o] = Parked]

Discard(o) ==
    /\ holder[o] = Parked
    /\ holder' = [holder EXCEPT ![o] = Free]

LeaseNext ==
    \E o \in Obj :
        \/ Park(o)
        \/ Discard(o)
        \/ \E t \in Threads :
              \/ Acquire(t, o)
              \/ \E to \in {Free, Parked} : Release(t, o, to)

LeaseSpec == LeaseInit /\ [][LeaseNext]_holder
=============================================================================
