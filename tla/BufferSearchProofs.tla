------------------------- MODULE BufferSearchProofs -------------------------
(***************************************************************************)
(* The searches, for buffers of every length over every set of bytes:      *)
(* BufferBuffer returns the right index, and the syncword search misses    *)
(* exactly what its loop bound leaves out.                                 *)
(***************************************************************************)
EXTENDS BufferSearch, TLAPS

\* While the fail array is built, failIndex is the longest border of the first
\* index bytes that may still be continued by the byte at index.
FailLoop ==
    pc = "fail" =>
        /\ failIndex < index /\ index < NLength
        /\ Border(failIndex, index)
        /\ \A b \in (failIndex + 1)..(index - 1) :
                Border(b, index) => NBuffer[b] # NBuffer[index]

\* The syncword search has passed no occurrence either.
SyncwordLoop ==
    pc = "sync" => NLength = WordSize /\ index <= MLength
                   /\ \A p \in 0..(index - 1) : ~OccursAt(p)

\* What the syncword search does, which is less than its comment says
\* (SeptemBuffer.h:109; the run search_syncword): the first syncword is
\* returned, but one in the last WordSize bytes is not found.
SyncwordMissesOnlyLast ==
    pc = "sync_done" =>
        \/ ret \in 0..(MLength - 1) /\ FirstAt(ret)
        \/ ret = FAIL_CODE /\ \A p \in 0..MLength : OccursAt(p) => p = MLength - WordSize

Begun == pc \in {"fail", "search"} => MLength > 0 /\ NLength > 0
Started == pc \in {"call", "fail"} => i = 0 /\ j = 0
FailStarts == pc = "call" => index = 0 /\ failIndex = -1

IInv ==
    /\ TypeOK /\ Begun /\ Started /\ FailStarts
    /\ FailLoop /\ FailArrayRight
    /\ pc = "search" => j <= i
    /\ NothingPassed
    /\ SyncwordLoop
    /\ ResultRight /\ SyncwordMissesOnlyLast

-----------------------------------------------------------------------------
(* Borders *)

\* A border of a border is a border.
LEMMA BorderChain ==
    ASSUME NEW k \in Int, NEW f \in Int, NEW b \in Int,
           b <= f, Border(f, k), Border(b, f)
    PROVE  Border(b, k)
<1> SUFFICES ASSUME NEW x \in 0..(b - 1) PROVE NBuffer[x] = NBuffer[k - b + x]
    BY DEF Border
<1>1. NBuffer[x] = NBuffer[f - b + x]
    BY DEF Border
<1>2. f - b + x \in 0..(f - 1)
    OBVIOUS
<1>3. NBuffer[f - b + x] = NBuffer[k - f + (f - b + x)]
    BY <1>2 DEF Border
<1>4. k - f + (f - b + x) = k - b + x
    OBVIOUS
<1> QED BY <1>1, <1>3, <1>4

\* The shorter of two borders is a border of the longer.
LEMMA BorderOfBorder ==
    ASSUME NEW k \in Int, NEW f \in Int, NEW b \in Int,
           b <= f, Border(f, k), Border(b, k)
    PROVE  Border(b, f)
<1> SUFFICES ASSUME NEW x \in 0..(b - 1) PROVE NBuffer[x] = NBuffer[f - b + x]
    BY DEF Border
<1>1. NBuffer[x] = NBuffer[k - b + x]
    BY DEF Border
<1>2. f - b + x \in 0..(f - 1)
    OBVIOUS
<1>3. NBuffer[f - b + x] = NBuffer[k - f + (f - b + x)]
    BY <1>2 DEF Border
<1>4. k - f + (f - b + x) = k - b + x
    OBVIOUS
<1> QED BY <1>1, <1>3, <1>4

\* A border is made longer by one byte exactly if that byte is the same.
LEMMA BorderGrows ==
    ASSUME NEW k \in Int, NEW b \in Nat
    PROVE  Border(b + 1, k + 1) <=> Border(b, k) /\ NBuffer[b] = NBuffer[k]
<1>1. ASSUME Border(b, k), NBuffer[b] = NBuffer[k]
      PROVE  Border(b + 1, k + 1)
  <2> SUFFICES ASSUME NEW x \in 0..b PROVE NBuffer[x] = NBuffer[k - b + x]
    BY DEF Border
  <2>1. CASE x = b
    BY <1>1, <2>1
  <2>2. CASE x \in 0..(b - 1)
    BY <1>1, <2>2 DEF Border
  <2> QED BY <2>1, <2>2
<1>2. ASSUME Border(b + 1, k + 1)
      PROVE  Border(b, k) /\ NBuffer[b] = NBuffer[k]
  <2>1. \A x \in 0..b : NBuffer[x] = NBuffer[k - b + x]
    BY <1>2 DEF Border
  <2>2. b \in 0..b /\ k - b + b = k
    OBVIOUS
  <2>3. NBuffer[b] = NBuffer[k]
    BY <2>1, <2>2
  <2> QED BY <2>1, <2>3 DEF Border
<1> QED BY <1>1, <1>2

-----------------------------------------------------------------------------
(* The fail array *)

\* Each step of BufferFailArray keeps the entries right that it has written,
\* and failIndex the longest border that is still possible.
LEMMA FailMatchKeeps ==
    ASSUME IInv, FailMatch
    PROVE  FailLoop' /\ FailArrayRight'
<1> USE DEF IInv, TypeOK
<1>k. PICK k \in Int : k = index + 1
  OBVIOUS
<1>f. PICK f \in Int : f = failIndex + 1
  OBVIOUS
<1>0. /\ index \in Nat /\ failIndex \in Int /\ f \in Nat /\ k \in Nat
      /\ f < k /\ k < NLength /\ NLength \in Nat
      /\ pc = "fail" /\ pc' = "fail" /\ index' = k /\ failIndex' = f
      /\ NBuffer' = NBuffer /\ NLength' = NLength
  BY <1>k, <1>f DEF FailMatch, FailLoop, inputs
<1>1. Fail' = [Fail EXCEPT ![k] = IF NBuffer[k] = NBuffer[f] THEN Fail[f] ELSE f]
  BY <1>0, <1>k, <1>f DEF FailMatch, inputs
<1>2. \A m \in 0..index : FailRight(m)
  BY <1>0, <1>k, <1>f DEF FailArrayRight
<1>3. Border(f, k)
  <2>1. CASE failIndex = -1
    BY <1>0, <1>k, <1>f, <2>1 DEF Border
  <2>2. CASE failIndex # -1
    <3>1. Border(failIndex, index) /\ NBuffer[failIndex] = NBuffer[index]
      BY <1>0, <1>k, <1>f, <2>2 DEF FailMatch, FailDiffers, FailLoop
    <3>2. failIndex \in Nat
      BY <2>2
    <3> QED BY <1>0, <1>k, <1>f, <3>1, <3>2, BorderGrows
  <2> QED BY <2>1, <2>2
\* There is no longer one.
<1>4. ASSUME NEW b \in (f + 1)..(k - 1) PROVE ~Border(b, k)
  <2>1. b - 1 \in (failIndex + 1)..(index - 1) /\ b - 1 \in Nat /\ b - 1 + 1 = b
    BY <1>0, <1>k, <1>f
  <2>2. Border(b - 1, index) => NBuffer[b - 1] # NBuffer[index]
    BY <1>0, <1>k, <1>f, <2>1 DEF FailLoop
  <2>3. index \in Int /\ b - 1 \in Nat
    BY <1>0, <1>k, <1>f, <2>1
  <2>4. Border(b - 1 + 1, index + 1)
            <=> Border(b - 1, index) /\ NBuffer[b - 1] = NBuffer[index]
    BY <2>3, BorderGrows
  <2>5. Border(b, k) <=> Border(b - 1 + 1, index + 1)
    BY <1>k, <2>1
  <2> QED BY <2>2, <2>4, <2>5
<1>5. FailLoop'
  <2>1. Border(failIndex, index)'
    BY <1>0, <1>k, <1>f, <1>3 DEF Border
  <2>2. ASSUME NEW b \in (failIndex' + 1)..(index' - 1), Border(b, index)'
        PROVE  NBuffer'[b] # NBuffer'[index']
    <3>1. b \in (f + 1)..(k - 1)
      BY <1>0, <1>k, <1>f, <2>2
    <3>2. Border(b, k)
      BY <1>0, <1>k, <1>f, <2>2 DEF Border
    <3> QED BY <1>4, <3>1, <3>2
  <2> QED BY <1>0, <1>k, <1>f, <2>1, <2>2 DEF FailLoop
<1>6. ASSUME NEW m \in 0..index PROVE FailRight(m)'
  <2>1. Fail'[m] = Fail[m]
    BY <1>0, <1>k, <1>f, <1>1
  <2> QED BY <1>0, <1>k, <1>f, <1>2, <2>1 DEF FailRight, Border
<1>7. FailRight(k)'
  <2>0. ASSUME NEW v \in -1..(k - 1), Fail'[k] = v,
               v >= 0 => Border(v, k) /\ NBuffer[v] # NBuffer[k],
               \A b \in 0..(k - 1) : v < b /\ Border(b, k) => NBuffer[b] = NBuffer[k]
        PROVE  FailRight(k)'
    <3>1. \A b \in Int : Border(b, k)' <=> Border(b, k)
      BY <1>0, <1>k, <1>f DEF Border
    <3>2. v >= 0 => Border(v, k)'
      BY <2>0, <3>1
    <3>3. Fail'[k] >= 0 => Border(Fail[k], k)' /\ NBuffer'[Fail'[k]] # NBuffer'[k]
      BY <1>0, <1>k, <1>f, <2>0, <3>2 DEF Border
    <3>4. \A b \in 0..(k - 1) : Fail'[k] < b /\ Border(b, k)' => NBuffer'[b] = NBuffer'[k]
      BY <1>0, <1>k, <1>f, <2>0, <3>1
    <3>5. Fail'[k] \in -1..(k - 1)
      BY <2>0
    <3> QED BY <3>3, <3>4, <3>5 DEF FailRight
  <2>1. CASE NBuffer[k] # NBuffer[f]
    <3>1. Fail'[k] = f
      BY <1>0, <1>k, <1>f, <1>1, <2>1
    <3>2. f \in -1..(k - 1) /\ (f >= 0 => Border(f, k) /\ NBuffer[f] # NBuffer[k])
      BY <1>0, <1>k, <1>f, <1>3, <2>1
    <3>3. \A b \in 0..(k - 1) : f < b /\ Border(b, k) => NBuffer[b] = NBuffer[k]
      BY <1>0, <1>k, <1>f, <1>4
    <3> QED BY <2>0, <3>1, <3>2, <3>3
  <2>2. CASE NBuffer[k] = NBuffer[f]
    <3>1. Fail'[k] = Fail[f]
      BY <1>0, <1>k, <1>f, <1>1, <2>2
    <3>2. FailRight(f) /\ Fail[f] \in Int
      BY <1>0, <1>k, <1>f, <1>2 DEF FailRight
    <3>3. Fail[f] >= 0 => Border(Fail[f], k) /\ NBuffer[Fail[f]] # NBuffer[k]
      BY <1>0, <1>k, <1>f, <1>3, <2>2, <3>2, BorderChain DEF FailRight
    <3>4. ASSUME NEW b \in 0..(k - 1), Fail[f] < b, Border(b, k)
          PROVE  NBuffer[b] = NBuffer[k]
      <4>1. b <= f
        BY <1>0, <1>k, <1>f, <1>4, <3>4
      <4>2. CASE b = f
        BY <2>2, <4>2
      <4>3. CASE b < f
        BY <1>0, <1>k, <1>f, <1>3, <2>2, <3>2, <3>4, <4>3, BorderOfBorder DEF FailRight
      <4> QED BY <1>0, <1>k, <1>f, <4>1, <4>2, <4>3
    <3>5. Fail[f] \in -1..(k - 1)
      BY <1>0, <1>k, <1>f, <3>2 DEF FailRight
    <3> QED BY <2>0, <3>1, <3>3, <3>4, <3>5
  <2> QED BY <2>1, <2>2
<1>8. \A m \in 0..k : FailRight(m)'
  BY <1>0, <1>k, <1>f, <1>6, <1>7
<1> QED BY <1>0, <1>k, <1>f, <1>5, <1>8 DEF FailArrayRight

LEMMA FailBackKeeps ==
    ASSUME IInv, FailBack
    PROVE  FailLoop' /\ FailArrayRight'
<1> USE DEF IInv, TypeOK
<1> DEFINE g == Fail[failIndex]
<1>0. /\ index \in Nat /\ failIndex \in Nat /\ failIndex < index /\ index < NLength
      /\ pc = "fail" /\ pc' = "fail" /\ index' = index /\ failIndex' = g
      /\ NBuffer' = NBuffer /\ NLength' = NLength /\ Fail' = Fail
      /\ NBuffer[index] # NBuffer[failIndex]
  BY DEF FailBack, FailDiffers, FailLoop, inputs
<1>1. \A m \in 0..index : FailRight(m)
  BY <1>0 DEF FailArrayRight
<1>2. FailRight(failIndex) /\ g \in -1..(failIndex - 1)
  BY <1>0, <1>1 DEF FailRight
<1>3. Border(failIndex, index)
  BY <1>0 DEF FailLoop
<1>4. Border(g, index)
  <2>1. CASE g = -1
    BY <1>0, <2>1 DEF Border
  <2>2. CASE g # -1
    BY <1>0, <1>2, <1>3, <2>2, BorderChain DEF FailRight
  <2> QED BY <2>1, <2>2
<1>5. ASSUME NEW b \in (g + 1)..(index - 1), Border(b, index)
      PROVE  NBuffer[b] # NBuffer[index]
  <2>1. CASE b > failIndex
    BY <1>0, <1>5, <2>1 DEF FailLoop
  <2>2. CASE b = failIndex
    BY <1>0, <2>2
  <2>3. CASE b < failIndex
    <3>1. Border(b, failIndex)
      BY <1>0, <1>2, <1>3, <1>5, <2>3, BorderOfBorder
    <3>2. NBuffer[b] = NBuffer[failIndex]
      BY <1>0, <1>2, <2>3, <3>1 DEF FailRight
    <3> QED BY <1>0, <3>2
  <2> QED BY <1>0, <1>2, <2>1, <2>2, <2>3
<1>6. FailLoop'
  BY <1>0, <1>2, <1>4, <1>5 DEF FailLoop, Border
<1>7. FailArrayRight'
  BY <1>0, <1>1 DEF FailArrayRight, FailRight, Border
<1> QED BY <1>6, <1>7

-----------------------------------------------------------------------------
(* The search *)

\* A jump of j to Fail[j] passes over no occurrence: the bytes before i would
\* have to be a border of the j bytes found, and the next byte would differ.
LEMMA MismatchKeeps ==
    ASSUME IInv, Mismatch
    PROVE  NothingPassed' /\ (j <= i)'
<1> USE DEF IInv, TypeOK
<1>g. PICK g \in Int : g = Fail[j]
  BY DEF Mismatch, Searching, Differs
<1>0. /\ i \in Nat /\ j \in Nat /\ j < NLength /\ j <= i
      /\ NLength \in Nat /\ MLength \in Nat
      /\ pc = "search" /\ i' = i /\ j' = g
      /\ NBuffer' = NBuffer /\ NLength' = NLength
      /\ MBuffer' = MBuffer /\ MLength' = MLength
      /\ MBuffer[i] # NBuffer[j]
  BY <1>g DEF Mismatch, Searching, Differs, inputs
<1>1. FailRight(j) /\ g \in -1..(j - 1)
  BY <1>0, <1>g DEF FailArrayRight, FailRight
<1>2. /\ \A x \in 0..(j - 1) : MBuffer[i - j + x] = NBuffer[x]
      /\ \A p \in 0..(i - j - 1) : ~OccursAt(p)
  BY <1>0 DEF NothingPassed
<1>3. ASSUME NEW x \in 0..(g - 1) PROVE MBuffer[i - g + x] = NBuffer[x]
  <2>1. j - g + x \in 0..(j - 1) /\ i - j + (j - g + x) = i - g + x
    BY <1>0, <1>1
  <2>2. NBuffer[x] = NBuffer[j - g + x]
    <3>1. g >= 0
      BY <1>1
    <3>2. Border(g, j)
      BY <1>1, <1>g, <3>1 DEF FailRight
    <3> QED BY <3>2 DEF Border
  <2> QED BY <1>2, <2>1, <2>2
<1>4. ASSUME NEW p \in 0..(i - g - 1), OccursAt(p) PROVE FALSE
  <2>b. PICK b \in Int : b = i - p
    OBVIOUS
  <2>1. b > g /\ b >= 0 /\ p + b = i
    BY <1>0, <1>1, <2>b
  <2>2. b <= j
    <3>1. p \notin 0..(i - j - 1)
      BY <1>2, <1>4
    <3> QED BY <1>0, <2>b, <3>1
  <2>3. MBuffer[i] = NBuffer[b]
    <3>1. b \in 0..(NLength - 1)
      BY <1>0, <2>1, <2>2
    <3>2. MBuffer[p + b] = NBuffer[b]
      BY <1>4, <3>1 DEF OccursAt
    <3> QED BY <2>1, <3>2
  <2>4. CASE b = j
    BY <1>0, <2>3, <2>4
  <2>5. CASE b < j
    <3>1. ASSUME NEW x \in 0..(b - 1) PROVE NBuffer[x] = NBuffer[j - b + x]
      <4>1. MBuffer[p + x] = NBuffer[x]
        BY <1>0, <1>4, <2>5 DEF OccursAt
      <4>2. j - b + x \in 0..(j - 1) /\ i - j + (j - b + x) = p + x
        BY <1>0, <2>1, <2>5
      <4> QED BY <1>2, <4>1, <4>2
    <3>2. Border(b, j)
      BY <3>1 DEF Border
    <3>3. NBuffer[b] = NBuffer[j]
      BY <1>1, <1>g, <2>1, <2>5, <3>2 DEF FailRight
    <3> QED BY <1>0, <2>3, <3>3
  <2> QED BY <2>2, <2>4, <2>5, <1>0, <2>1
<1>5. \A p \in 0..(i' - j' - 1) : ~OccursAt(p)'
  BY <1>0, <1>4 DEF OccursAt
<1>6. \A x \in 0..(j' - 1) : MBuffer'[i' - j' + x] = NBuffer'[x]
  BY <1>0, <1>3
<1> QED BY <1>0, <1>1, <1>5, <1>6 DEF NothingPassed

LEMMA MatchKeeps ==
    ASSUME IInv, Match
    PROVE  NothingPassed' /\ (j <= i)'
<1> USE DEF IInv, TypeOK
<1>0. /\ i \in Nat /\ j \in Int /\ -1 <= j /\ j <= i
      /\ pc = "search" /\ i' = i + 1 /\ j' = j + 1
      /\ NBuffer' = NBuffer /\ NLength' = NLength
      /\ MBuffer' = MBuffer /\ MLength' = MLength
      /\ j = -1 \/ MBuffer[i] = NBuffer[j]
  BY DEF Match, Searching, Differs, inputs
<1>1. /\ \A x \in 0..(j - 1) : MBuffer[i - j + x] = NBuffer[x]
      /\ \A p \in 0..(i - j - 1) : ~OccursAt(p)
  BY <1>0 DEF NothingPassed
<1>2. i' - j' = i - j
  BY <1>0
<1>3. ASSUME NEW x \in 0..j PROVE MBuffer[i - j + x] = NBuffer[x]
  <2>1. CASE x = j
    <3>1. i - j + x = i
      BY <1>0, <2>1
    <3> QED BY <1>0, <2>1, <3>1
  <2>2. CASE x \in 0..(j - 1)
    BY <1>1, <2>2
  <2> QED BY <1>0, <2>1, <2>2
<1>4. \A x \in 0..(j' - 1) : MBuffer'[i' - j' + x] = NBuffer'[x]
  BY <1>0, <1>2, <1>3
<1>5. \A p \in 0..(i' - j' - 1) : ~OccursAt(p)'
  BY <1>0, <1>1, <1>2 DEF OccursAt
<1> QED BY <1>0, <1>4, <1>5 DEF NothingPassed

LEMMA SearchReturnRight ==
    ASSUME IInv, SearchReturn
    PROVE  ResultRight' /\ ret' \in -1..MLength
<1> USE DEF IInv, TypeOK
<1>0. /\ i \in 0..MLength /\ j \in -1..NLength /\ j <= i
      /\ MLength \in Nat /\ NLength \in Nat /\ MLength > 0 /\ NLength > 0
      /\ pc = "search" /\ pc' = "done"
      /\ i >= MLength \/ j >= NLength
      /\ ret' = IF NLength = j THEN i - NLength ELSE -1
      /\ NBuffer' = NBuffer /\ NLength' = NLength
      /\ MBuffer' = MBuffer /\ MLength' = MLength
  BY DEF SearchReturn, Searching, Return, FAIL_CODE, inputs, Begun
<1>1. /\ \A x \in 0..(j - 1) : MBuffer[i - j + x] = NBuffer[x]
      /\ \A p \in 0..(i - j - 1) : ~OccursAt(p)
  BY <1>0 DEF NothingPassed
<1>2. CASE NLength = j
  <2>1. ret' = i - j /\ ret' \in 0..(MLength - 1)
    BY <1>0, <1>2
  <2>2. OccursAt(i - j)
    BY <1>0, <1>1, <1>2 DEF OccursAt
  <2>3. FirstAt(ret)'
    BY <1>0, <1>1, <2>1, <2>2 DEF FirstAt, OccursAt
  <2> QED BY <1>0, <2>1, <2>3 DEF ResultRight
<1>3. CASE NLength # j
  <2>1. ret' = -1 /\ i = MLength
    BY <1>0, <1>3
  <2>2. \A p \in 0..MLength : ~OccursAt(p)
    <3> SUFFICES ASSUME NEW p \in 0..MLength, OccursAt(p) PROVE FALSE
      OBVIOUS
    <3>1. p + NLength <= MLength
      BY DEF OccursAt
    <3>2. p \in 0..(i - j - 1)
      BY <1>0, <1>3, <2>1, <3>1
    <3> QED BY <1>1, <3>2
  <2>3. \A p \in 0..MLength' : ~OccursAt(p)'
    BY <1>0, <2>2 DEF OccursAt
  <2> QED BY <1>0, <2>1, <2>3 DEF ResultRight, FAIL_CODE
<1> QED BY <1>2, <1>3

-----------------------------------------------------------------------------
(* The inductive invariant *)

LEMMA InitIInv == Init => IInv
<1> SUFFICES ASSUME Init PROVE IInv
  OBVIOUS
<1>1. TypeOK
  <2>1. Fail \in [0..(NLength - 1) -> -1..NLength]
    BY DEF Init
  <2>2. MLength \in 0..MaxM /\ NLength \in 0..MaxN
    BY DEF Init
  <2> QED BY <2>1, <2>2 DEF Init, TypeOK, Places, FAIL_CODE
<1>2. Begun /\ Started /\ FailStarts /\ FailLoop /\ FailArrayRight /\ NothingPassed
      /\ (pc = "search" => j <= i) /\ ResultRight /\ SyncwordMissesOnlyLast
  BY DEF Init, Begun, Started, FailStarts, FailLoop, FailArrayRight, NothingPassed,
         ResultRight, SyncwordMissesOnlyLast
<1>3. SyncwordLoop
  BY <1>1 DEF Init, SyncwordLoop, TypeOK
<1> QED BY <1>1, <1>2, <1>3 DEF IInv

\* Every step keeps the types, and the indexes in their buffers.
LEMMA TypeKept == IInv /\ [Next]_vars => TypeOK'
<1> SUFFICES ASSUME IInv, [Next]_vars PROVE TypeOK'
  OBVIOUS
<1> USE DEF IInv, TypeOK, Places
<1>1. CASE CallEmpty
  BY <1>1 DEF CallEmpty, Return, FAIL_CODE, inputs
<1>2. CASE CallBufferBuffer
  <2>1. Fail' \in [0..(NLength - 1) -> -1..NLength]
    BY <1>2 DEF CallBufferBuffer
  <2> QED BY <1>2, <2>1 DEF CallBufferBuffer, inputs, FailStarts
<1>3. CASE FailMatch
  <2>1. index + 1 < NLength /\ failIndex < index /\ pc = "fail"
    BY <1>3 DEF FailMatch, FailLoop
  <2>2. failIndex + 1 \in 0..(NLength - 1)
    BY <2>1
  <2>3. Fail' \in [0..(NLength - 1) -> -1..NLength]
    BY <1>3, <2>1, <2>2 DEF FailMatch
  <2> QED BY <1>3, <2>1, <2>2, <2>3 DEF FailMatch, inputs
<1>4. CASE FailBack
  <2>1. failIndex \in 0..(NLength - 1)
    BY <1>4 DEF FailBack, FailDiffers, FailLoop
  <2>2. Fail[failIndex] \in -1..NLength
    BY <2>1
  <2> QED BY <1>4, <2>2 DEF FailBack, inputs
<1>5. CASE FailReturn
  BY <1>5 DEF FailReturn, inputs
<1>6. CASE Match
  BY <1>6 DEF Match, Searching, inputs
<1>7. CASE Mismatch
  <2>1. j \in 0..(NLength - 1)
    BY <1>7 DEF Mismatch, Searching, Differs
  <2>2. Fail[j] \in -1..NLength
    BY <2>1
  <2> QED BY <1>7, <2>2 DEF Mismatch, inputs
<1>8. CASE SearchReturn
  <2>1. ret' \in -1..MLength
    BY <1>8, SearchReturnRight
  <2> QED BY <1>8, <2>1 DEF SearchReturn, Return, inputs
<1>9. CASE SyncwordNext
  BY <1>9 DEF SyncwordNext, inputs
<1>10. CASE SyncwordReturn
  <2>1. ret' \in -1..MLength
    BY <1>10, BoundsAssumption DEF SyncwordReturn, SyncwordGoesOn, Return, FAIL_CODE, SyncwordLoop
  <2> QED BY <1>10, <2>1 DEF SyncwordReturn, Return, inputs
<1>11. CASE UNCHANGED vars
  BY <1>11 DEF vars, inputs
<1> QED BY <1>1, <1>2, <1>3, <1>4, <1>5, <1>6, <1>7, <1>8, <1>9, <1>10, <1>11 DEF Next

\* What the loops have found out so far.
LEMMA LoopsKept == IInv /\ [Next]_vars =>
    /\ FailLoop' /\ FailArrayRight' /\ NothingPassed' /\ SyncwordLoop'
    /\ (pc = "search" => j <= i)'
<1> SUFFICES ASSUME IInv, [Next]_vars
             PROVE  /\ FailLoop' /\ FailArrayRight' /\ NothingPassed' /\ SyncwordLoop'
                    /\ (pc = "search" => j <= i)'
  OBVIOUS
<1> USE DEF IInv
<1>1. CASE CallEmpty
  BY <1>1 DEF CallEmpty, Return, FailLoop, FailArrayRight, NothingPassed, SyncwordLoop
<1>2. CASE CallBufferBuffer
  <2>0. pc' = "fail" /\ index' = 0 /\ failIndex' = -1 /\ NLength' > 0 /\ Fail'[0] = -1
    BY <1>2 DEF CallBufferBuffer, FailStarts, inputs, TypeOK
  <2>1. FailLoop'
    BY <2>0 DEF FailLoop, Border
  <2>2. FailArrayRight'
    BY <2>0 DEF FailArrayRight, FailRight
  <2> QED BY <2>0, <2>1, <2>2 DEF NothingPassed, SyncwordLoop
<1>3. CASE FailMatch
  <2>1. pc' = "fail"
    BY <1>3 DEF FailMatch
  <2> QED BY <1>3, <2>1, FailMatchKeeps DEF NothingPassed, SyncwordLoop
<1>4. CASE FailBack
  <2>1. pc' = "fail"
    BY <1>4 DEF FailBack
  <2> QED BY <1>4, <2>1, FailBackKeeps DEF NothingPassed, SyncwordLoop
<1>5. CASE FailReturn
  <2>0. /\ pc = "fail" /\ pc' = "search" /\ i' = 0 /\ j' = 0
        /\ index \in Nat /\ NLength \in Nat /\ index + 1 >= NLength
        /\ NLength' = NLength /\ NBuffer' = NBuffer /\ Fail' = Fail
    BY <1>5 DEF FailReturn, inputs, Started, TypeOK
  <2>1. FailArrayRight'
    BY <2>0 DEF FailArrayRight, FailRight, Border
  <2>2. NothingPassed' /\ j' <= i'
    BY <2>0 DEF NothingPassed
  <2> QED BY <2>0, <2>1, <2>2 DEF FailLoop, SyncwordLoop
<1>6. CASE Match
  <2>0. pc = "search" /\ pc' = "search" /\ UNCHANGED <<NBuffer, NLength, Fail>>
    BY <1>6 DEF Match, inputs
  <2>1. FailArrayRight'
    BY <2>0 DEF FailArrayRight, FailRight, Border
  <2> QED BY <1>6, <2>0, <2>1, MatchKeeps DEF FailLoop, SyncwordLoop
<1>7. CASE Mismatch
  <2>0. pc = "search" /\ pc' = "search" /\ UNCHANGED <<NBuffer, NLength, Fail>>
    BY <1>7 DEF Mismatch, inputs
  <2>1. FailArrayRight'
    BY <2>0 DEF FailArrayRight, FailRight, Border
  <2> QED BY <1>7, <2>0, <2>1, MismatchKeeps DEF FailLoop, SyncwordLoop
<1>8. CASE SearchReturn
  BY <1>8 DEF SearchReturn, Return, FailLoop, FailArrayRight, NothingPassed, SyncwordLoop
<1>9. CASE SyncwordNext
  <2>0. /\ pc = "sync" /\ pc' = "sync" /\ index < MLength - WordSize /\ ~OccursAt(index)
        /\ index' = index + 1 /\ UNCHANGED <<MBuffer, MLength, NBuffer, NLength>>
        /\ index \in Nat /\ MLength \in Nat
    BY <1>9 DEF SyncwordNext, SyncwordGoesOn, inputs, TypeOK
  <2>1. \A p \in 0..(index' - 1) : ~OccursAt(p)
    <3> SUFFICES ASSUME NEW p \in 0..index PROVE ~OccursAt(p)
      BY <2>0
    <3>1. CASE p = index
      BY <2>0, <3>1
    <3>2. CASE p \in 0..(index - 1)
      BY <2>0, <3>2 DEF SyncwordLoop
    <3> QED BY <2>0, <3>1, <3>2
  <2>2. \A p \in 0..(index' - 1) : ~OccursAt(p)'
    BY <2>0, <2>1 DEF OccursAt
  <2>3. SyncwordLoop'
    BY <2>0, <2>2, BoundsAssumption DEF SyncwordLoop
  <2> QED BY <2>0, <2>3 DEF FailLoop, FailArrayRight, NothingPassed
<1>10. CASE SyncwordReturn
  BY <1>10 DEF SyncwordReturn, Return, FailLoop, FailArrayRight, NothingPassed, SyncwordLoop
<1>11. CASE UNCHANGED vars
  BY <1>11 DEF vars, inputs, FailLoop, FailArrayRight, NothingPassed, SyncwordLoop,
               FailRight, Border, OccursAt
<1> QED BY <1>1, <1>2, <1>3, <1>4, <1>5, <1>6, <1>7, <1>8, <1>9, <1>10, <1>11 DEF Next

LEMMA SyncwordReturnRight ==
    ASSUME IInv, SyncwordReturn
    PROVE  SyncwordMissesOnlyLast'
<1> USE DEF IInv, TypeOK
<1>0. /\ pc = "sync" /\ pc' = "sync_done" /\ index \in Nat /\ MLength \in Nat
      /\ ~(index < MLength - WordSize /\ ~OccursAt(index))
      /\ ret' = IF index < MLength - WordSize THEN index ELSE -1
      /\ UNCHANGED <<MBuffer, MLength, NBuffer, NLength>>
      /\ WordSize \in Nat /\ NLength = WordSize
      /\ \A p \in 0..(index - 1) : ~OccursAt(p)
  BY BoundsAssumption
     DEF SyncwordReturn, SyncwordGoesOn, Return, FAIL_CODE, inputs, SyncwordLoop
<1>1. CASE index < MLength - WordSize
  <2>1. ret' = index /\ OccursAt(index)
    BY <1>0, <1>1
  <2>2. FirstAt(ret)'
    BY <1>0, <2>1 DEF FirstAt, OccursAt
  <2>3. ret' \in 0..(MLength' - 1)
    BY <1>0, <1>1, <2>1
  <2> QED BY <2>2, <2>3 DEF SyncwordMissesOnlyLast
<1>2. CASE ~(index < MLength - WordSize)
  <2>1. ret' = -1
    BY <1>0, <1>2
  <2>2. ASSUME NEW p \in 0..MLength, OccursAt(p) PROVE p = MLength - WordSize
    <3>1. p + WordSize <= MLength
      BY <1>0, <2>2 DEF OccursAt
    <3>2. p \notin 0..(index - 1)
      BY <1>0, <2>2
    <3> QED BY <1>0, <1>2, <3>1, <3>2
  <2>3. \A p \in 0..MLength' : OccursAt(p)' => p = MLength' - WordSize
    BY <1>0, <2>2 DEF OccursAt
  <2> QED BY <2>1, <2>3 DEF SyncwordMissesOnlyLast, FAIL_CODE
<1> QED BY <1>1, <1>2

LEMMA CallEmptyRight ==
    ASSUME IInv, CallEmpty
    PROVE  ResultRight'
<1>1. ret' = -1 /\ ~(MLength' > 0 /\ NLength' > 0)
  BY DEF IInv, TypeOK, CallEmpty, Return, FAIL_CODE, inputs
<1> QED BY <1>1 DEF ResultRight, FAIL_CODE

LEMMA ResultsKept == IInv /\ [Next]_vars => ResultRight' /\ SyncwordMissesOnlyLast'
<1> SUFFICES ASSUME IInv, [Next]_vars PROVE ResultRight' /\ SyncwordMissesOnlyLast'
  OBVIOUS
<1>1. CASE CallEmpty
  <2>1. pc' = "done"
    BY <1>1 DEF CallEmpty, Return
  <2> QED BY <1>1, <2>1, CallEmptyRight DEF SyncwordMissesOnlyLast
<1>2. CASE SearchReturn
  <2>1. pc' = "done"
    BY <1>2 DEF SearchReturn, Return
  <2> QED BY <1>2, <2>1, SearchReturnRight DEF SyncwordMissesOnlyLast
<1>3. CASE SyncwordReturn
  <2>1. pc' = "sync_done"
    BY <1>3 DEF SyncwordReturn, Return
  <2> QED BY <1>3, <2>1, SyncwordReturnRight DEF ResultRight
<1>4. CASE UNCHANGED vars
  BY <1>4 DEF IInv, vars, inputs, ResultRight, SyncwordMissesOnlyLast, FirstAt, OccursAt
<1>5. CASE CallBufferBuffer \/ FailMatch \/ FailBack \/ FailReturn \/ Match \/ Mismatch \/ SyncwordNext
  <2>1. pc' \notin {"done", "sync_done"}
    BY <1>5 DEF CallBufferBuffer, FailMatch, FailBack, FailReturn, Match, Mismatch, SyncwordNext
  <2> QED BY <2>1 DEF ResultRight, SyncwordMissesOnlyLast
<1> QED BY <1>1, <1>2, <1>3, <1>4, <1>5 DEF Next

LEMMA FlagsKept == IInv /\ [Next]_vars => Begun' /\ Started' /\ FailStarts'
<1> SUFFICES ASSUME IInv, [Next]_vars PROVE Begun' /\ Started' /\ FailStarts'
  OBVIOUS
<1> USE DEF IInv, TypeOK, Begun, Started, FailStarts
<1>1. CASE CallEmpty \/ SearchReturn \/ SyncwordReturn
  BY <1>1 DEF CallEmpty, SearchReturn, SyncwordReturn, Return
<1>2. CASE CallBufferBuffer
  BY <1>2 DEF CallBufferBuffer, inputs
<1>3. CASE FailMatch \/ FailBack \/ FailReturn
  BY <1>3 DEF FailMatch, FailBack, FailReturn, inputs
<1>4. CASE Match \/ Mismatch \/ SyncwordNext
  BY <1>4 DEF Match, Mismatch, SyncwordNext, inputs
<1>5. CASE UNCHANGED vars
  BY <1>5 DEF vars, inputs
<1> QED BY <1>1, <1>2, <1>3, <1>4, <1>5 DEF Next

THEOREM Invariance == Spec => []IInv
<1>1. IInv /\ [Next]_vars => IInv'
  BY TypeKept, LoopsKept, ResultsKept, FlagsKept DEF IInv
<1> QED BY InitIInv, <1>1, PTL DEF Spec

-----------------------------------------------------------------------------
\* No loop of the searches reads or writes outside its buffer, whatever the
\* lengths are (SeptemBuffer.h:38-101).
THEOREM TypeCorrect == Spec => []TypeOK
<1>1. IInv => TypeOK
  BY DEF IInv
<1> QED BY Invariance, <1>1, PTL

\* BufferFailArray (SeptemBuffer.h:27-57) computes the strong fail array of
\* every buffer.
THEOREM FailArrayRightHolds == Spec => []FailArrayRight
<1>1. IInv => FailArrayRight
  BY DEF IInv
<1> QED BY Invariance, <1>1, PTL

\* The loop of BufferBuffer (SeptemBuffer.h:88-99) passes over no occurrence.
THEOREM NothingPassedHolds == Spec => []NothingPassed
<1>1. IInv => NothingPassed
  BY DEF IInv
<1> QED BY Invariance, <1>1, PTL

\* BufferBuffer (SeptemBuffer.h:70-107) returns the first index, or -1 if
\* there is none.
THEOREM ResultRightHolds == Spec => []ResultRight
<1>1. IInv => ResultRight
  BY DEF IInv
<1> QED BY Invariance, <1>1, PTL

\* BufferBufferSyncword (SeptemBuffer.cpp:19-33) returns the first index of a
\* syncword, and misses it only at the end of the buffer.
THEOREM SyncwordMissesOnlyLastHolds == Spec => []SyncwordMissesOnlyLast
<1>1. IInv => SyncwordMissesOnlyLast
  BY DEF IInv
<1> QED BY Invariance, <1>1, PTL
=============================================================================
