---------------------------- MODULE BufferSearch ----------------------------
(***************************************************************************)
(* The searches of src/Core/Algorithm: BufferBuffer, which finds a buffer  *)
(* in a buffer (Knuth, Morris and Pratt; SeptemBuffer.h), and              *)
(* BufferBufferSyncword, which finds a word of WordSize (4) bytes          *)
(* (SeptemBuffer.cpp).  A step is one test of a loop and what follows it.  *)
(* Buffers are functions from indexes that start at 0, as in the code.     *)
(***************************************************************************)
EXTENDS Integers

CONSTANTS
    Bytes,      \* the elements of the buffers
    MaxM, MaxN, \* bounds: lengths of the buffers
    WordSize    \* bytes of a syncword

ASSUME BoundsAssumption == MaxM \in Nat /\ MaxN \in Nat /\ WordSize \in Nat

VARIABLES
    MBuffer, MLength,   \* the buffer that is searched
    NBuffer, NLength,   \* what is searched for
    Fail,               \* fail[k]: where to go on in NBuffer after a mismatch at k
    index, failIndex,   \* locals of BufferFailArray; index of the syncword search
    i, j,               \* locals of BufferBuffer
    pc,                 \* the loop that runs, or where it returned
    ret                 \* the result

inputs == <<MBuffer, MLength, NBuffer, NLength>>
vars == <<inputs, Fail, index, failIndex, i, j, pc, ret>>

FAIL_CODE == -1
Buffer(n) == [0..(n - 1) -> Bytes]

-----------------------------------------------------------------------------
Init ==
    /\ MLength \in 0..MaxM /\ MBuffer \in Buffer(MLength)
    /\ NLength \in 0..MaxN /\ NBuffer \in Buffer(NLength)
    /\ Fail = [k \in 0..(NLength - 1) |-> 0]
    /\ index = 0 /\ failIndex = -1
    /\ i = 0 /\ j = 0
    /\ \/ pc = "call"
       \/ pc = "sync" /\ NLength = WordSize
    /\ ret = FAIL_CODE

Return(place, r) == pc' = place /\ ret' = r

CallEmpty ==
    /\ pc = "call" /\ (MLength <= 0 \/ NLength <= 0)
    /\ Return("done", FAIL_CODE)
    /\ UNCHANGED <<inputs, Fail, index, failIndex, i, j>>

\* Mutated form: fail[0] keeps its first value.
CallWithoutFail0 ==
    /\ pc = "call" /\ ~(MLength <= 0 \/ NLength <= 0)
    /\ pc' = "fail"
    /\ UNCHANGED <<inputs, Fail, index, failIndex, i, j, ret>>

CallBufferBuffer ==
    /\ pc = "call" /\ ~(MLength <= 0 \/ NLength <= 0)
    /\ Fail' = [Fail EXCEPT ![0] = -1]
    /\ pc' = "fail"
    /\ UNCHANGED <<inputs, index, failIndex, i, j, ret>>

FailDiffers == failIndex # -1 /\ NBuffer[index] # NBuffer[failIndex]

\* Mutated form: the border is stored whatever byte follows it.
FailMatchWeak ==
    /\ pc = "fail" /\ index + 1 < NLength /\ ~FailDiffers
    /\ index' = index + 1
    /\ failIndex' = failIndex + 1
    /\ Fail' = [Fail EXCEPT ![index'] = failIndex']
    /\ UNCHANGED <<inputs, i, j, pc, ret>>

FailMatch ==
    /\ pc = "fail" /\ index + 1 < NLength /\ ~FailDiffers
    /\ index' = index + 1
    /\ failIndex' = failIndex + 1
    /\ Fail' = [Fail EXCEPT ![index'] =
                    IF NBuffer[index'] = NBuffer[failIndex'] THEN Fail[failIndex']
                                                             ELSE failIndex']
    /\ UNCHANGED <<inputs, i, j, pc, ret>>

FailBack ==
    /\ pc = "fail" /\ index + 1 < NLength /\ FailDiffers
    /\ failIndex' = Fail[failIndex]
    /\ UNCHANGED <<inputs, Fail, index, i, j, pc, ret>>

FailReturn ==
    /\ pc = "fail" /\ index + 1 >= NLength
    /\ pc' = "search"
    /\ UNCHANGED <<inputs, Fail, index, failIndex, i, j, ret>>

Searching == i < MLength /\ j < NLength
Differs == j # -1 /\ MBuffer[i] # NBuffer[j]

Match ==
    /\ pc = "search" /\ Searching /\ ~Differs
    /\ i' = i + 1 /\ j' = j + 1
    /\ UNCHANGED <<inputs, Fail, index, failIndex, pc, ret>>

\* Mutated form: the search starts again at the first byte of NBuffer.
MismatchRestarts ==
    /\ pc = "search" /\ Searching /\ Differs
    /\ j' = IF j = 0 THEN -1 ELSE 0
    /\ UNCHANGED <<inputs, Fail, index, failIndex, i, pc, ret>>

Mismatch ==
    /\ pc = "search" /\ Searching /\ Differs
    /\ j' = Fail[j]
    /\ UNCHANGED <<inputs, Fail, index, failIndex, i, pc, ret>>

\* Mutated forms: no test that all of NBuffer was found; the end is returned.
SearchReturnAlways ==
    /\ pc = "search" /\ ~Searching
    /\ Return("done", i - NLength)
    /\ UNCHANGED <<inputs, Fail, index, failIndex, i, j>>

SearchReturnEnd ==
    /\ pc = "search" /\ ~Searching
    /\ Return("done", IF NLength = j THEN i ELSE FAIL_CODE)
    /\ UNCHANGED <<inputs, Fail, index, failIndex, i, j>>

SearchReturn ==
    /\ pc = "search" /\ ~Searching
    /\ Return("done", IF NLength = j THEN i - NLength ELSE FAIL_CODE)
    /\ UNCHANGED <<inputs, Fail, index, failIndex, i, j>>

-----------------------------------------------------------------------------
OccursAt(p) ==
    /\ p + NLength <= MLength
    /\ \A x \in 0..(NLength - 1) : MBuffer[p + x] = NBuffer[x]

\* The last place of a whole word, MLength - WordSize, is not looked at.
SyncwordGoesOn == index < MLength - WordSize /\ ~OccursAt(index)

SyncwordNext ==
    /\ pc = "sync" /\ SyncwordGoesOn
    /\ index' = index + 1
    /\ UNCHANGED <<inputs, Fail, failIndex, i, j, pc, ret>>

SyncwordReturn ==
    /\ pc = "sync" /\ ~SyncwordGoesOn
    /\ Return("sync_done", IF index < MLength - WordSize THEN index ELSE FAIL_CODE)
    /\ UNCHANGED <<inputs, Fail, index, failIndex, i, j>>

Done == pc \in {"done", "sync_done"}

Next ==
    \/ CallEmpty \/ CallBufferBuffer \/ FailMatch \/ FailBack \/ FailReturn
    \/ Match \/ Mismatch \/ SearchReturn
    \/ SyncwordNext \/ SyncwordReturn
    \/ Done /\ UNCHANGED vars

Spec == Init /\ [][Next]_vars
FairSpec == Spec /\ WF_vars(Next)

-----------------------------------------------------------------------------
Places == {"call", "fail", "search", "sync", "done", "sync_done"}

\* Every index is in its buffer when it is used.
TypeOK ==
    /\ MLength \in 0..MaxM /\ MBuffer \in Buffer(MLength)
    /\ NLength \in 0..MaxN /\ NBuffer \in Buffer(NLength)
    /\ Fail \in [0..(NLength - 1) -> -1..NLength]
    /\ index \in Nat /\ failIndex \in -1..NLength
    /\ i \in 0..MLength /\ j \in -1..NLength
    /\ pc \in Places
    /\ ret \in -1..MLength
    /\ pc = "fail" => index < NLength

\* The first b bytes of NBuffer end its first k bytes.
Border(b, k) == \A x \in 0..(b - 1) : NBuffer[x] = NBuffer[k - b + x]

\* Fail[k] is the longest border after which another byte comes than at k, and
\* is smaller than k.
FailRight(k) ==
    /\ Fail[k] \in -1..(k - 1)
    /\ Fail[k] >= 0 => Border(Fail[k], k) /\ NBuffer[Fail[k]] # NBuffer[k]
    /\ \A b \in 0..(k - 1) : Fail[k] < b /\ Border(b, k) => NBuffer[b] = NBuffer[k]

\* The entries of the fail array that BufferFailArray (SeptemBuffer.h:38-54)
\* has written are right, and so is the whole array in the search.
FailArrayRight ==
    /\ pc = "fail" => \A k \in 0..index : FailRight(k)
    /\ pc = "search" => \A k \in 0..(NLength - 1) : FailRight(k)

\* In the search (SeptemBuffer.h:91-101) the last j bytes are the first j of
\* NBuffer, and no jump by the fail array passes over an occurrence.
NothingPassed ==
    pc = "search" =>
        /\ \A x \in 0..(j - 1) : MBuffer[i - j + x] = NBuffer[x]
        /\ \A p \in 0..(i - j - 1) : ~OccursAt(p)

FirstAt(p) == OccursAt(p) /\ \A q \in 0..(p - 1) : ~OccursAt(q)

\* BufferBuffer returns the first index of NBuffer in MBuffer, and -1 if it is
\* not there or one of them is empty (SeptemBuffer.h:59-60).
ResultRight ==
    pc = "done" =>
        \/ ret \in 0..(MLength - 1) /\ FirstAt(ret)
        \/ /\ ret = FAIL_CODE
           /\ (MLength > 0 /\ NLength > 0) => \A p \in 0..MLength : ~OccursAt(p)

\* What the comment on BufferBufferSyncword (SeptemBuffer.h:109) says: it finds
\* the first syncword in the buffer, and fails if there is none.
SyncwordFirst ==
    pc = "sync_done" =>
        \/ ret # FAIL_CODE /\ FirstAt(ret)
        \/ ret = FAIL_CODE /\ \A p \in 0..MLength : ~OccursAt(p)

\* Every search returns.
Terminates == <>Done
=============================================================================
