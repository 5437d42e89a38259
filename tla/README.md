# SeptemCPP in TLA+

A verification project for SeptemCPP, a C++ library for servers: threads with
a task queue, a recycling object pool, and a packet protocol with a packet
queue, a wire format and singletons.  The modules are translated from the code
under `src/`; `PROJECT.json` names for each definition the lines it stands for.

Run a check with `tlc -config X.cfg M`, a proof with `tlapm M.tla`.

## 1. Inventory

| Component | State | Operations | Interacts with | Status |
|---|---|---|---|---|
| Recycle pool `TSharedRecyclePool` (`Core/Templates/SeptemRecyclePool.hpp`, `Core/Thread/ScopLock.h`) | stack `m_pool`, mutex `m_pool_locker` | constructor, `Reset`, `Resize`, `Alloc`, `Dealloc`, `Num` | threads that share it; base of the task thread; member of `FServoProtocol` | modelled, proved |
| Task thread `TTaskThread` (`Core/Thread/SeptemThread.hpp`) | `bRunning`, `i_ThreadState`, `m_Thread`, `taskQueue`, `m_QueueLocker` | `CreateThread`, `StopThread`, `DelayStopThread`, `JoinThread`, `ThreadRun`/`Run`, `PushTask`, `PopTask`, `ClearTaskQueue` | the controller's thread, client threads, the user's `TaskDelegate` | modelled, proved |
| Packet queue and recycling of `FServoProtocol` (`Servo/Protocol/ServoProtocol.*`, `NetPacketPool.hpp`) | `PacketPool`, `PacketPoolCount`, `RecyclePool` | `Push`, `Pop`, `PacketPoolNum`, `AllocNetPacket`, `AllocHeartbeat`, `DeallockNetPacket`, `PopWithRecycle` | receiving threads push, a dispatching thread pops; recycle pool | modelled, proved |
| Packet codec `FSNetPacket` (`ServoProtocol.*`, `Core/Algorithm/SeptemBuffer.cpp`) | head, body, foot, `sid`, `bFastIntegrity` | parsing constructor, two `ReUse`, `ReUseAsHeartbeat`, `OnSeal`, `OnStampSeal`, `CheckIntegrity`, `WriteToArray`, `OnAlloc`, `OnDealloc` | the byte stream; the recycle pool calls for `OnDealloc` | modelled, proved |
| Singletons: `FServoProtocol::Get`, `FProtocolFactory::Get`, `TSingleton` | `pSingleton`, a mutex | `Get`, `GetRef`, `Singleton`, `SingletonRef`, constructors | every thread of the process | partly (no destruction), proved |
| Protocol factory (`ProtocolFactory.*`) | map from uid to delegate | `RegisterProtocolDeserialize`, `CallProtocolDeserialize`, the call without check, `IsProtocolRegister` | threads that dispatch packets; its singleton | modelled, proved |
| Static packets `TSNetPacket` (`ServoStaticProtocol.hpp`) with `FStaticNetBodyBase` and `TSNetBufferWrapper` (`StaticNetBodyBase.*`, `NetBufferWrapper.hpp`) | as the codec, with a body of a fixed type | constructor, two `ReUse`, `IsValid`, `CheckIntegrity`, `WriteToArray`, `OnAlloc`, `OnDealloc` | the byte stream | modelled, proved |
| Static protocol `TServoProtocol` (`ServoStaticProtocol.hpp`) | as `FServoProtocol` | as `FServoProtocol` | - | not modelled: cannot be instantiated |
| Buffer search (`SeptemBuffer.h`, `SeptemBuffer.cpp`) | local arrays and indexes | `BufferFailArray`, `BufferBuffer`, `BufferBufferSyncword` | parsing of buffers | modelled, proved |
| Graphs (`DirectedGraph.hpp`, `BackwardGraph.hpp`, `GraphType.hpp`) | `VertexArray`, `EdgeMap`, `ParentEdges` | `AddVertex`, `AddEdge`, `GetVertex`, `GetEdge`, `GetEdgeKeys`, `Reset`, `Seriallize`, `Deseriallize` | none | modelled, proved |
| Sockets (`cppsockets`), ZeroMQ helpers (`zmq`) | file descriptors | system calls | none of the above | not modelled: third-party wrappers of system calls |
| Containers, math, macros | - | - | - | not modelled: compiled out, or no behaviour |

What is hard here is sharing without a lock or with too short a lock
(`bRunning`, `PacketPoolCount`, `Get`, the factory's map), the life cycle of
the worker thread, objects that are used again while something of their last
use is still in them, packets that arrive in parts or damaged, and data
structures whose parts have to agree with each other (edge map and parent
lists, fail array and buffers).  The list with lines is
"hazards" in `PROJECT.json`.

What makes each component correct:

* Recycle pool: no object has two users, or a user while it lies in the pool;
  no pop of an empty stack but for negative arguments; `Reset` and `Resize` reach the size asked for; who
  gets the mutex also releases it.
* Task thread: accepted tasks are neither lost, doubled nor overtaken; a stop
  ends the thread and lets at most one more task be done; waiting tasks are
  served.
* Packet queue: a packet has one user or is in one pool, although pointers to it
  outlive the calls that give it away; recycled packets are blank; the count is
  exact for clients that keep the rules the comments state.
* Codec: what is sealed, written and received whole is parsed as it was; an
  altered byte is noticed; a receive loop makes progress within its buffer.
* Static packets: the same, and a packet is taken exactly when all of it is there.
* Singletons: all callers get one object, and a complete one.
* Factory: careful threads do not race on its map and do not call an empty
  delegate; for all threads, until there is a race, the first registration of an
  id is final and only its delegate is called.
* Buffer search: the fail array holds the longest usable borders, no jump passes
  over an occurrence, and the first occurrence is found.
* Graphs: the edge map is a simple directed graph, the parent lists mirror it, and
  a copy through memory keeps all edges.

## 2. Modules

| Module | Models | Checked by | Proofs |
|---|---|---|---|
| `ExclusiveLease` | what a recycling pool promises (abstract) | refined in `pool` | |
| `RecyclePool`, `RecyclePoolMC` | `TSharedRecyclePool` | `pool` | `RecyclePoolProofs` |
| `TaskThread` | `TTaskThread` | `thread`, `thread_lost_stop` | `TaskThreadProofs` |
| `ServoProtocol`, `ServoProtocolMC` | `FServoProtocol` over `TNetPacketQueue` and the recycle pool | `servo_safety`, `servo_count` | `ServoProtocolProofs` |
| `NetPacket`, `NetPacketMC` | `FSNetPacket` and a byte stream | `packet_reseal`, and as part of `packet_stream` | `NetPacketProofs` |
| `StaticPacket`, `StaticPacketMC` | `TSNetPacket` beside `FSNetPacket`, over the same stream | `packet_stream` | `StaticPacketProofs` |
| `Singleton`, `SingletonMC` | `Get`, `GetRef`, `Singleton` and the constructors of `FServoProtocol` and `FProtocolFactory` | `singleton_cold`, and as part of `factory` | `ProtocolFactoryProofs` |
| `ProtocolFactory`, `ProtocolFactoryMC` | `FProtocolFactory`, composed with `Singleton` | `factory` | `ProtocolFactoryProofs` |
| `BufferSearch` | the searches of `SeptemBuffer` | `search`, `search_syncword` | `BufferSearchProofs` |
| `Digraph` | what a graph promises (abstract) | refined in `graph` | |
| `DirectedGraph` | `TDirectedGraph`: one operator per member function | through `BackwardGraph` | |
| `BackwardGraph`, `BackwardGraphMC` | `TBackwardGraph`, which overrides and inherits from it | `graph` | `BackwardGraphProofs` |

Each module begins with the program's state as VARIABLES under the program's
names; variables marked "history" observe and are never read by a guard of the
code's steps.  A member function is as many actions as other threads can see
apart: a step per access to shared state, `pc[t]` says which is next.
Definitions marked "Mutated form" are not part of the specification: they are
wrong versions of the definition that follows, with which a property has to
fail.

**RecyclePool.**  `CallAlloc`, `CallDealloc`, `CallReset`, `CallResize` are what
client code decides, `Lock` and `Unlock` the scope lock, and `AllocTop`,
`AllocPop`, `AllocReturn`, `AllocEmpty`, `AllocNew`, `DeallocPush`, `ResetSize`,
`ResizeSize`, `GrowPush`, `ShrinkPop` the statements between.  Nothing but the
mutex in `Lock` excludes two threads.  An object is an identity; `Fresh` is what
`make_shared` may return.  The clients give back what they hold, once, and
forget it; `Dealloc` itself cannot check that.  Arguments of the constructor,
`Reset` and `Resize` are any integers, as nothing in the code checks them: a `Resize`
to a negative number goes on popping when the stack is empty (`PopEmpty`), which
kills the process (`crashed`): an empty `std::stack`, a `std::deque` that has grown at
one end only, destroys a `shared_ptr` where none ever was.  The difference of
argument and size is that of the integers; its wrap, for arguments within the size
of the stack of `INT32_MIN`, is left out.  `AllocTop` stands for `empty()` and `top()`, between
which the mutex lets nobody in.

**TaskThread.**  The controller creates, stops and joins, one worker after the
other; `bRunning` is a plain `bool`, so every access is a step.  `WorkerInit` to
`WorkerDestory` are the statements of `ThreadRun`, with `Run` as `RunLoop`,
`PopLock`, `PopEmpty`, `PopFront`, `PopPop`, `RunTest`, `OnDoTask`.  A client's
`PushTask` tests the flag before it locks (`PushTest`, `ClientLock`, `PushTask`).
`accepted` and `removed` record tasks in the order in which they enter and leave
the queue.

**ServoProtocol.**  An operation on the queue or on the recycle pool is one step,
because these lock themselves (`RecyclePool` looks inside); the counter outside
them is a read and a write.  `PopWithRecycle` is `PopQueue`, the counter, `OnDealloc`,
`RecycleDealloc` and last `AssignOut`: in between the packet is in the recycle pool
while `Out` still points to it, and another thread may get, fill and push it.
`TNetPacketQueue::Pop` is modelled as it is: it pops, assigns nothing and returns true,
so `AssignOut` assigns a null pointer.  A pop of an empty `std::queue` is
undefined behaviour: it kills the process (`crashed`) or swallows a later push
(`debt`).

`held` are the packets a thread's own pointers point to.  `Push` and `DeallockNetPacket`
take a const reference and leave these alone, so they remain after the packet has been
given away (`given`) until the client lets go of them (`LetGo`).  The clients keep
one discipline: what they have given away they do not fill, push, deallocate or pass
as `Out` (`Usable`).  Without it two threads share a packet at once, by what
the calls are for; nothing in the code enforces it.  Clients are careful or not,
chosen at the start: careful ones hold a
mutex of their own, as the comment at `NetPacketPool.hpp:29` wants it, and ask
`PacketPoolNum()` before they pop.

**NetPacket.**  One packet object is filled, sealed, written, parsed into and
recycled in any order, so that each use starts from what an earlier one has left.
The stream has noise around packets, has one bit altered, and is read in parts of any
length.  The sender writes a packet (`WriteToArray`) only when the one before has been
read, and into a stream that is read from where a packet or noise begins: one packet
is in flight at a time.  A byte is a set of bits, XOR the bits that occur an odd number of
times.  `SyncwordAt`, `ReadRest`, `ReUse`, `ReUseNoHead` and `ReUseAfterHead` are
the parser; a failure consumes the whole buffer, as in the code.

A read that fails in the middle leaves a packet of which only the head, or head
and body, are new, and the next use starts from there.

**StaticPacket.**  A behaviour has packets of one class (`static`).  `Construct`
and `ConstructNoHead` are the parsing constructor: it has no initializers, so `sid`
and `bFastIntegrity` are arbitrary after an early return.  The body is an object
of `StaticSize` bytes, whatever the head says; `FStaticNetBodyBase::Reset` does
nothing, so a recycled body keeps its bytes.  `TSNetPacket` cannot seal: the
client computes the fastcode as the comment at `fastcode` asks (`StaticSeal`).

**Singleton.**  `TestNull` is outside the lock and `New` is not preceded by a
second test; the constructor's `check`, its `pSingleton = this` and the creation
of `PacketPool` are steps of their own.  `class` says whose `Get` it is: the members
of `FProtocolFactory` exist before its constructor's body runs, those of
`FServoProtocol` do not.  `First` is the thread that calls `Get` before the others
start, or none.

**ProtocolFactory.**  A thread that has the factory calls its functions; between
the call and the return it uses the map, and two uses of which one writes are a
race (`MapRace`).  `operator[]` writes when the id is missing.  Nothing stops there:
after a race (`raced`) a search may find any delegate, an empty one or none for any
id (`Found`), and after the exception of an empty delegate (`threw`) its caller
goes on.  `called` records which delegate was called for which id.  If `careful`, the
first thread registers before the others dispatch, and nobody calls without check
an id that `IsProtocolRegister` has not confirmed.  If not, all threads call all
functions at any time.

**BufferSearch.**  One action is one test of a loop and what follows it, so that
all intermediate states of the fail array and the two indexes are checked.
The buffers are arbitrary, and stay as they are.

**DirectedGraph, BackwardGraph.**  A 64 bit key is made of two halves of `Half`
values, with the sign extension the code's conversion makes (`HashEdgeKey`).
`GetEdge` inserts a default edge for a missing key, as `operator[]` does.
`Deseriallize` does what the code does: it resizes the vertices, appends all of them
once more through `AddVertex`, and adds the saved edges through `AddEdge`.  The
graph goes on as its own copy; this loses nothing, because `Deseriallize` begins
with `Reset`.  An edge whose end is beyond `ParentEdges` is undefined behaviour
(`overrun`), after which nothing is claimed.

**Digraph.**  Vertices with values, weighted edges, and phantoms: pairs that were
looked up in vain and can no longer be connected.  `BackwardGraph` implements it
with `AbsEdges`, which reads the weights through the keys, so two edges under one
key, or an edge under a wrong key, would show.

**ExclusiveLease.**  An object is free, parked, or leased to one thread.
`RecyclePool` implements it with the mapping `HolderOf`: `Alloc` acquires with its
`pop()`, `Dealloc` releases with its `push()`.

## 3. Runs

| Run | Shows | Bounds and why they are enough |
|---|---|---|
| `pool` | `Exclusive`, `OnlyNegativePopsEmpty`, `SizeReached`, `AdmittedCallReturns`, and `LeaseRefined` | two threads, four objects, sizes -1, 0 and 2, one object held at a time: every pair of operations overlaps, both loops run twice, stack empty and full, and a `Resize` to -1 pops once too often. `EnoughObjects` ensures that `make_shared` never fails for want of an identity. The proofs cover all other sizes |
| `thread` | `QueueAccounting`, `AtMostOneAfterStop`, and under fairness `StopEndsRun`, `TasksServed` | two clients, two tasks and the null task, two pushes, two lives of the worker, one clear: a task accepted too late for the first life waits for the second |
| `thread_lost_stop` | violates `DelayStopStops` | one life, no null task |
| `servo_safety` | `PlacedOnce`, `RecycledBlank`, `CountExact`, `NeverPopsEmpty` | two producers, one consumer, three packets, careful or not; the counter is read between -1 and 2, one pop of the empty queue may go unpunished. The proofs cover all other numbers |
| `servo_count` | violates `CountAtRest` | two producers |
| `packet_stream` | `RoundTrip`, `DamageDetected`, `GoesForward`, `TakenWhenWhole` for both classes of packets | bytes of two bits, a syncword of two bytes, bodies of zero and two bytes (static: one byte), sizes 0, 1, 2 and -1; one packet and noise before and after it in the stream; one damaged bit or one read that ends within a packet (with two of them TLC takes some minutes, and finds no violation either). The proofs cover all lengths and any number of troubles |
| `packet_reseal` | violates `SealedIsValid` | the same, `FSNetPacket` only |
| `factory` | `GetIsSafe`, `CarefulIsSafe`, `AcceptedIsCalled` | three threads, one call of `Get` and two of the factory each, one id, two delegates that compete for it |
| `singleton_cold` | violates `GetIsSafe` | three threads, one call each |
| `graph` | `KeysAgree`, `ParentsMirror`, `OnlyCopyMisaligns`, and `GraphRefined` | up to four vertices, so that a graph of two can be copied; ids -1, 0 and 1; at most two keys in the map, real or default; `Half` is 8 |
| `search` | `FailArrayRight`, `NothingPassed`, `ResultRight`, `Terminates` | all buffers of up to seven bytes and all of up to five to be found in them, over two bytes: long enough for borders of borders and for a jump over several of them |
| `search_syncword` | violates `SyncwordFirst` | all buffers of up to five bytes, a syncword of two |

Deadlock is checked in the runs of the pool, the task thread, the packets and the
search.  It is not in the others, where the system may stop: clients with a
bounded number of calls, a process that has died, a counter at its bound, or a
graph after undefined behaviour.

Every property of a passing run has a mutated form of a definition (in
`PROJECT.json`, "mutants") with which TLC finds it violated.

### What the violations say

* `thread_lost_stop`: `ThreadRun` executes `bRunning = true` whatever the flag was
  (`SeptemThread.hpp:149`).  A `DelayStopThread` between `CreateThread` and that line
  waits for ever, although every thread is scheduled fairly.
* `servo_count`: two `++PacketPoolCount` at once lose one; the number stays wrong.
* `packet_reseal`: `OnSeal` includes the old fastcode in the new one.  A packet that
  is sealed twice, or sealed after its way through the recycle pool
  (`OnDealloc` keeps the fastcode, and nothing calls `OnAlloc`), is invalid for
  its receiver.
* `singleton_cold`: a caller gets the object whose constructor has set
  `pSingleton = this` and has not created `PacketPool` yet.  With other schedules
  the second constructor aborts in its `check`, or, with `NDEBUG`, two callers get
  different objects.
* `search_syncword`: `BufferBufferSyncword` does not find "the first syncword index
  in buffer" (`SeptemBuffer.h:109`) if it is in the last bytes: the loop
  bound, `BufferSize - 4`, is itself the last place of a syncword
  (`SeptemBuffer.cpp:22`).  That this is all it misses is proved
  (`SyncwordMissesOnlyLast`).

### What else the models show

* A copy of a graph through `Seriallize` and `Deseriallize` has each vertex twice
  (`DirectedGraph.hpp:361`): first as many default vertices, then the saved ones.
  Its edges are the saved ones, but between the default vertices.  In
  `TBackwardGraph` the parent lists are then shorter than the vertices, and
  `AddEdge` to a late vertex indexes past their end (`BackwardGraph.hpp:91`).
  `OnlyCopyMisaligns` says that this is the only way there.
* Looking up a missing edge makes it impossible to add (`DirectedGraph.hpp:182`),
  until the graph is reset or copied.
* `TNetPacketQueue::Pop` does not look whether the queue is empty, assigns nothing
  and answers true (`NetPacketPool.hpp:141`), where the comment says "true if a value was
  returned, false if the pool was empty" (`NetPacketPool.hpp:54`).  A single call
  shows it, so no run is spent on it; `PopQueue` and `PopEmptyQueue` do what the code
  does, and what a consumer gets from `PopWithRecycle` is always null.
* `Resize` to a negative number kills the process (`SeptemRecyclePool.hpp:84`);
  `OnlyNegativePopsEmpty` says that nothing else does.
* The comment at `SeptemBuffer.h:52` has its inequality the wrong way round:
  `fail[failIndex]` is always the smaller one (`FailRight`), and the array is right.
* The constructor of `TSNetPacket` answers a failure with `BufferSize + 1`, `ReUse`
  answers it with `BufferSize`; `TakenWhenWhole` shows that a client can tell a
  packet from a failure if it tests both `BytesRead <= BufferSize` and `IsValid()`.
* `CallProtocolDeserializeWithoutCheck` of an unknown id makes it count as
  registered, with an empty delegate; it can never be registered any more
  (`AcceptedIsCalled`).  `CarefulIsSafe` shows what keeps a program from it.
* The comment at `SeptemThread.hpp:79` lists a thread state 4, which is never set.
* `CheckIntegrity` compares the XOR of everything, fastcode included, with the
  fastcode, so that the packets of `AllocHeartbeat` are marked invalid although
  their receiver accepts them.
* Nothing enforces `SERVO_PROTOCOL_PACKET_POOL_MAX`.

## 4. Fairness

`RecyclePool` and `TaskThread` assume weak fairness of each thread's steps inside
the code: a running thread is scheduled.  Nobody has to call anything.  No
fairness is assumed of the mutexes: a thread that waits for one may wait as long
as others keep taking it.  `AdmittedCallReturns` therefore speaks of threads that
have the mutex or have left it.  In `TaskThread` the clients make a bounded number
of calls (`MaxOffers`, each task at most once, and `MaxClears`), so the worker gets the
mutex in the end; with clients that push for ever at full speed nothing in
the code would guarantee it.  `TaskDelegate` is the user's and assumed to return.
`BufferSearch` assumes weak fairness of its one thread: the call is executed.

## 5. Proofs

The theorems hold for all sets of threads, objects and tasks and all bounds, under
the named assumptions on the constants in the modules (sentinels are no members
of the sets they stand beside, sizes are natural numbers).

* `RecyclePoolProofs`.  `Exclusive` is not inductive: it needs that a thread between
  `top()` and `pop()` has the mutex and that `ret` is the top of the stack, that
  only the thread with the mutex is between lock and unlock, and that the loop
  counters fit the size of the stack (`LoopInv`: what a loop ends at is the
  argument, so it passes zero only if that is negative).  These make the inductive invariant `IInv`;
  `Invariance` proves it action by action, and `TypeCorrect`, `ExclusiveHolds`,
  `OnlyNegativePopsEmptyHolds` and `SizeReachedHolds` follow.  `Refinement` shows that each
  step is a step of `ExclusiveLease` or a stutter, with lemmas that say how
  `HolderOf` changes when an object is pushed, popped, made or dropped.
* `TaskThreadProofs`.  `QueueAccounting` needs that `PopPop` removes the task that
  `PopFront` has read, hence that the mutex is with the worker in between
  (`LockInv`, `CarryInv`); `AtMostOneAfterStop` that nobody sets the flag after a
  stop in the same life (`StopInv`, with `LifeInv` for the joined worker).
* `ServoProtocolProofs`.  `PlacedOnce` needs that a thread at a push or at a
  recycling may use the packet it is about to give away (`Flow`), and that a step of one thread moves packets among the
  pools and itself only (`MoveKeepsApart`).  `RecycledBlank` needs that a packet
  stays blank between `OnDealloc` and `Dealloc`, because nobody else may use it yet.  `CountExact` and
  `NeverPopsEmpty` need that whoever is inside `Push` or `Pop` has the clients' mutex,
  and how far the counter is off meanwhile (`CountInv`).
* `ProtocolFactoryProofs`.  First `Singleton` by itself: with `First` the pointer is
  set before anybody else starts, so nobody enters the constructor
  (`WarmGetIsSafe`); and `TypeOK` for every `First`, which needs that a thread
  constructs an object that exists (`GetInv`).  A step of the factory leaves the
  singleton alone or is a step of `Get` (lemma `FactoryUsesGet`), so the types hold of
  the composition (`FactoryTypeHolds`).  `WarmGetIsSafe` is conditional: a cold start,
  without `First`, is what `singleton_cold` shows to go wrong.
  `CarefulIsSafe` is inductive with what careful calls are (`Orderly`):
  registrations only before the others begin, calls without check only of ids whose
  entry is a delegate; two such calls cannot race (`FlagKept`).  `AcceptedIsCalled` is
  proved for all callers up to the first race: an entry, once made, is never changed,
  and what has been called or has thrown was found there (`Final`).
* `BufferSearchProofs`.  All invariants of `search`, for buffers of every content and length.
  The invariant says of the loop of `BufferFailArray` that `failIndex` is a
  border, and that every longer one has been refused; of the search that no
  occurrence begins before `i - j`.  What the syncword search finds and misses is a
  theorem too (`SyncwordMissesOnlyLast`).  The lemmas are about borders: a border of a
  border is a border, and of two borders the shorter is a border of the longer.
* `BackwardGraphProofs`.  `ParentsMirror` needs that the lists are not longer than the
  vertices and that no edge ends beyond the lists (`Mirror`), `KeysAgree` that
  `GetEdge` leaves the ends of an edge alone; that a copy keeps all edges
  (`CopyKeepsEdges`) needs both.
  Every step of `BackwardGraph` is a step of `Digraph` or a
  stutter (`Refinement`).  It rests on the keys: a pair of ids with the key of a
  pair of natural ids is that pair (`KeyUnique`, with the sign extension of negative
  ids taken into account), so a lookup or an edge touches the entry of its own pair
  and no other, and looking up negative ids is invisible in the abstract graph.
* `NetPacketProofs`.  `RoundTrip` and `DamageDetected` are about what one call answers,
  so the invariant has to say what the stream looks like before it (`NetInv`).  A
  sealed packet's head says the length of its body, and the XOR of one that was sealed
  with a blank fastcode is zero (`PacketInv`).  As long as a packet is in the stream
  (`StreamInv`, `SentInv`): its bytes are there, but for one bit, outside the framing if
  the damage is called "payload"; there is no syncword before or behind it; its
  XOR is still zero, or, with an altered bit, not zero any more (`XORChange`).  That
  noise and the end of one packet never make up a syncword with what follows is
  where the bytes of the syncword have to differ (`SyncInConcat`), the rule the comment
  in the code gives.  So the first syncword a call finds is that packet's (`FindsSent`);
  what is read behind it are the bytes that were written, whatever the packet object
  held before (`ReadBytes`, `ReadingIs`), or the call says that it has failed
  (`Reading`).  `ReadingClaims` puts these together.  The assumptions: the syncword's
  bytes differ, clients send bytes, noise has no whole syncword in it
  (`NoiseAssumption`; a syncword in noise would be a packet), and an int32 for every
  size byte.  Sizes that are negative or beyond the buffer are included.
* `StaticPacketProofs`.  The calls of `TSNetPacket` are those of `NetPacketProofs` with
  another body size (`StaticReadMakes`, `ConstructMakes`), which agrees with what was
  sent because a body is always `StaticSize` bytes and a packet that is sent, or
  should have been found, says so (`StaticInv`).  All five properties of
  `packet_stream` follow.  `TakenWhenWhole` rests on `NotWhole`: a call that was given
  only a part of a packet leaves `bFastIntegrity` false or answers more bytes
  than it was given.

The proof of `DamageDetected` failed in an earlier form, which said
that an altered packet is not `bFastIntegrity`.  With an altered bit and a read in part
(a bound of two troubles, where `packet_stream` has one) the constructor of `TSNetPacket`
returns before it has initialised that member, and it may be true; the call says
`BytesRead > BufferSize`.  The property now asks for both, as a client has to.
In `StaticPacket`, `Consume` lets the client send on a packet that it has read if
`IsValid()` says so, which for `TSNetPacket` looks at the size in the head as well
(`StaticValid`).

Each inductive invariant was checked with TLC before it was proved.

Only model-checked: the liveness properties `AdmittedCallReturns`, `StopEndsRun`,
`TasksServed` and `Terminates` (out of the prover's reach, as is everything that needs
ENABLED).  Every invariant and action property of the passing runs, and both
refinements, are proved.  What a recursive definition
computes for every input cannot be proved; the modules have none: the search is a
state machine, and the XOR of a sequence is defined by counting.

## 6. Not modelled

* A `pthread_create` that fails, and joining one handle twice.
* `TNetPacketStack`: its `Pop` does not compile.  `TServoProtocol` cannot be
  instantiated: its constructor instantiates `TNetPacketStack`, and it uses
  `IsValid()` of a `shared_ptr`, `DeallocForceRecycle` and `MoveTemp`, which do not
  exist here.  No class can inherit `TSingleton`, whose constructor is private.
* The destruction of the singletons: nothing in `src/` destroys one.
* `Num`, `Size` and the reading accessors of bodies, which change nothing.
  (`GetInt32` and `GetFloat` accept a negative index.)
* Memory: leaks (`MemRead` of size 0 leaks its `new uint8[0]`; `Seriallize` with
  `bAllocBuffer` assigns its own copy of the caller's pointer), copies of
  `FSNetBufferBody` that free one array twice, and alignment.
* Field widths of the packet: one byte each; the version byte.
* `cppsockets` and `zmq`: vendored wrappers of the socket and ZeroMQ interfaces with
  no state but their handles.  Modelling them would model the operating system.
* Containers (`UE_STYLE_CONTAINER` is 0, so they are compiled out), math headers and
  macros (no behaviour).

## 7. Plan

Order: what several threads share first, then what is sent, then pure data.

1. Done: `ExclusiveLease`, `RecyclePool`, `TaskThread`, `ServoProtocol`, `Singleton`,
   `NetPacket`; then `ProtocolFactory` composed with `Singleton`, `StaticPacket`
   beside `NetPacket`, `BufferSearch`, and the graphs with `Digraph`.
2. Done: proofs of every invariant, action property and refinement of the runs.
3. Left: the task thread with the pool it inherits (tasks allocated from the pool,
   pushed, done and given back; a task is never in the queue and in the pool).
