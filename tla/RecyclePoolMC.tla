---------------------------- MODULE RecyclePoolMC ----------------------------
(* Instances of RecyclePool for TLC. *)
EXTENDS RecyclePool, TLC

\* Threads are interchangeable, and so are objects.
Symmetry == Permutations(Threads) \union Permutations(Obj)

\* Arguments of Reset and Resize: below, at and above the initial size, and a
\* negative one.
MCPoolCounts == {-1, 0, 2}

\* There is memory for every object the clients can make the pool create: a
\* full stack, and what every thread holds besides.
ASSUME EnoughObjects ==
    \A n \in PoolCounts \union {InitNum} :
        Cardinality(Obj) >= n + MaxOwned * Cardinality(Threads)
=============================================================================
