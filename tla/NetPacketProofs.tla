--------------------------- MODULE NetPacketProofs ---------------------------
(***************************************************************************)
(* Proofs about NetPacket, for syncwords, bodies and noise of every length *)
(* and for every number of damages and reads in part.                      *)
(*                                                                         *)
(* First lemmas about bytes: XOR, where a syncword may be in a             *)
(* concatenation or beside an altered byte, and what is read behind one.   *)
(* NetInv says what the stream looks like between two calls; every step    *)
(* keeps it.  From it follows what a call finds and answers (Claims).      *)
(***************************************************************************)
EXTENDS NetPacket, SequenceTheorems, FiniteSetTheorems, WellFoundedInduction, TLAPS

HeadType == [fastcode : Byte, uid : Byte, size : Byte, reserved : Byte]

-----------------------------------------------------------------------------
(* Bytes *)

LEMMA SyncwordType ==
    /\ Syncword \in Seq(Byte) /\ Len(Syncword) \in Nat /\ Len(Syncword) >= 1
    /\ HeadSize = Len(Syncword) + 4 /\ HeadSize \in Nat
    /\ Zero \in Byte
<1>1. Syncword \in Seq(Byte) /\ Syncword # <<>>  BY SyncwordAssumption
<1>2. Len(Syncword) \in Nat \ {0}  BY <1>1, EmptySeq
<1> QED  BY <1>1, <1>2 DEF HeadSize, Byte, Zero

LEMMA ConcatAt ==
    ASSUME NEW s \in Seq(Byte), NEW t \in Seq(Byte),
           NEW m, NEW n, Len(s) = m, Len(t) = n
    PROVE  /\ s \o t \in Seq(Byte)
           /\ Len(s \o t) = m + n
           /\ \A k \in 1..m : (s \o t)[k] = s[k]
           /\ \A k \in 1..n : (s \o t)[m + k] = t[k]
<1> m \in Nat /\ n \in Nat  OBVIOUS
<1>1. PICK u : u = s \o t  OBVIOUS
<1>2. /\ u \in Seq(Byte) /\ Len(u) = m + n
      /\ \A i \in 1..(m + n) : u[i] = IF i <= m THEN s[i] ELSE t[i - m]
  <2>1. /\ s \o t \in Seq(Byte) /\ Len(s \o t) = Len(s) + Len(t)
        /\ \A i \in 1..(Len(s) + Len(t)) :
              (s \o t)[i] = IF i <= Len(s) THEN s[i] ELSE t[i - Len(s)]
    BY ConcatProperties
  <2> QED  BY <1>1, <2>1
<1>3. ASSUME NEW k \in 1..m  PROVE u[k] = s[k]
  <2>1. k \in 1..(m + n) /\ k <= m  OBVIOUS
  <2> QED  BY <1>2, <2>1
<1>4. ASSUME NEW k \in 1..n  PROVE u[m + k] = t[k]
  <2>1. m + k \in 1..(m + n) /\ ~(m + k <= m) /\ (m + k) - m = k  OBVIOUS
  <2> QED  BY <1>2, <2>1
<1> QED  BY <1>1, <1>2, <1>3, <1>4

\* What WriteToArray puts where; b is the body that is written.
Layout(s, h, b, f) ==
    /\ s \in Seq(Byte)
    /\ Len(s) = HeadSize + Len(b) + 1
    /\ \A k \in 1..Len(Syncword) : s[k] = Syncword[k]
    /\ s[Len(Syncword) + 1] = h.fastcode
    /\ s[Len(Syncword) + 2] = h.uid
    /\ s[Len(Syncword) + 3] = h.size
    /\ s[Len(Syncword) + 4] = h.reserved
    /\ \A k \in 1..Len(b) : s[HeadSize + k] = b[k]
    /\ s[HeadSize + Len(b) + 1] = f

Written(h, b) == IF h.uid = Zero THEN <<>> ELSE b

LEMMA HeadBytesAre ==
    ASSUME NEW h \in HeadType
    PROVE  /\ HeadBytes(h) \in Seq(Byte)
           /\ Len(HeadBytes(h)) = HeadSize
           /\ \A k \in 1..Len(Syncword) : HeadBytes(h)[k] = Syncword[k]
           /\ HeadBytes(h)[Len(Syncword) + 1] = h.fastcode
           /\ HeadBytes(h)[Len(Syncword) + 2] = h.uid
           /\ HeadBytes(h)[Len(Syncword) + 3] = h.size
           /\ HeadBytes(h)[Len(Syncword) + 4] = h.reserved
<1>1. PICK t : t = <<h.fastcode, h.uid, h.size, h.reserved>>  OBVIOUS
<1>2. /\ t \in Seq(Byte) /\ Len(t) = 4
      /\ t[1] = h.fastcode /\ t[2] = h.uid /\ t[3] = h.size /\ t[4] = h.reserved
  BY <1>1 DEF HeadType
<1>3. HeadBytes(h) = Syncword \o t  BY <1>1 DEF HeadBytes
<1>4. PICK n \in Nat : n = Len(Syncword) /\ HeadSize = n + 4  BY SyncwordType
<1>5. /\ Syncword \o t \in Seq(Byte) /\ Len(Syncword \o t) = n + 4
      /\ \A k \in 1..n : (Syncword \o t)[k] = Syncword[k]
      /\ \A k \in 1..4 : (Syncword \o t)[n + k] = t[k]
  <2>1. PICK m : m = 4  OBVIOUS
  <2>2. Syncword \in Seq(Byte) /\ t \in Seq(Byte) /\ Len(Syncword) = n /\ Len(t) = m
    BY <1>2, <1>4, <2>1, SyncwordType
  <2>3. /\ Syncword \o t \in Seq(Byte) /\ Len(Syncword \o t) = n + m
        /\ \A k \in 1..n : (Syncword \o t)[k] = Syncword[k]
        /\ \A k \in 1..m : (Syncword \o t)[n + k] = t[k]
    BY <2>2, ConcatAt
  <2> QED  BY <2>1, <2>3
<1>6. /\ (Syncword \o t)[n + 1] = h.fastcode /\ (Syncword \o t)[n + 2] = h.uid
      /\ (Syncword \o t)[n + 3] = h.size /\ (Syncword \o t)[n + 4] = h.reserved
  <2>1. 1 \in 1..4 /\ 2 \in 1..4 /\ 3 \in 1..4 /\ 4 \in 1..4  OBVIOUS
  <2> QED  BY <1>2, <1>5, <2>1
<1> QED  BY <1>3, <1>4, <1>5, <1>6

LEMMA BytesAre ==
    ASSUME NEW h \in HeadType, NEW b \in Seq(Byte), NEW f \in Byte
    PROVE  Layout(Bytes(h, b, f), h, Written(h, b), f)
<1>1. PICK w : w = Written(h, b)  OBVIOUS
<1>2. w \in Seq(Byte) /\ Len(w) \in Nat  BY <1>1, EmptySeq DEF Written
<1>3. PICK a : a = HeadBytes(h)  OBVIOUS
<1>4. a \in Seq(Byte) /\ Len(a) = HeadSize  BY <1>3, HeadBytesAre
<1>5. PICK m \in Nat : m = HeadSize /\ m = Len(Syncword) + 4  BY SyncwordType
<1>6. PICK n \in Nat : n = Len(w)  BY <1>2
<1>7. <<f>> \in Seq(Byte) /\ Len(<<f>>) = 1 /\ <<f>>[1] = f  OBVIOUS
<1>8. Bytes(h, b, f) = (a \o w) \o <<f>>
  <2>1. Bytes(h, b, f) = a \o w \o <<f>>  BY <1>1, <1>3 DEF Bytes, Written
  <2> QED  BY <2>1
<1>9. PICK aw : aw = a \o w  OBVIOUS
<1>10. /\ aw \in Seq(Byte) /\ Len(aw) = m + n
       /\ \A k \in 1..m : aw[k] = a[k]
       /\ \A k \in 1..n : aw[m + k] = w[k]
  <2>1. Len(a) = m /\ Len(w) = n  BY <1>4, <1>5, <1>6
  <2>2. /\ a \o w \in Seq(Byte) /\ Len(a \o w) = m + n
        /\ \A k \in 1..m : (a \o w)[k] = a[k]
        /\ \A k \in 1..n : (a \o w)[m + k] = w[k]
    BY <1>2, <1>4, <2>1, ConcatAt
  <2> QED  BY <1>9, <2>2
<1>11. PICK s : s = aw \o <<f>>  OBVIOUS
<1>12. /\ s \in Seq(Byte) /\ Len(s) = m + n + 1
       /\ \A k \in 1..(m + n) : s[k] = aw[k]
       /\ \A k \in 1..1 : s[m + n + k] = <<f>>[k]
  <2>1. /\ aw \o <<f>> \in Seq(Byte) /\ Len(aw \o <<f>>) = m + n + 1
        /\ \A k \in 1..(m + n) : (aw \o <<f>>)[k] = aw[k]
        /\ \A k \in 1..1 : (aw \o <<f>>)[m + n + k] = <<f>>[k]
    BY <1>7, <1>10, ConcatAt
  <2> QED  BY <1>11, <2>1
<1>13. \A k \in 1..m : s[k] = a[k]
  <2>1. \A k \in 1..m : k \in 1..(m + n)  OBVIOUS
  <2> QED  BY <1>10, <1>12, <2>1
<1>14. \A k \in 1..n : s[m + k] = w[k]
  <2>1. \A k \in 1..n : m + k \in 1..(m + n)  OBVIOUS
  <2> QED  BY <1>10, <1>12, <2>1
<1>15. s[m + n + 1] = f  BY <1>7, <1>12
<1>16. /\ \A k \in 1..Len(Syncword) : s[k] = Syncword[k]
       /\ s[Len(Syncword) + 1] = h.fastcode
       /\ s[Len(Syncword) + 2] = h.uid
       /\ s[Len(Syncword) + 3] = h.size
       /\ s[Len(Syncword) + 4] = h.reserved
  <2>1. PICK l \in Nat : l = Len(Syncword) /\ m = l + 4  BY <1>5, SyncwordType
  <2>2. \A k \in 1..l : s[k] = a[k]  BY <1>13, <2>1
  <2>3. s[l + 1] = a[l + 1] /\ s[l + 2] = a[l + 2] /\ s[l + 3] = a[l + 3] /\ s[l + 4] = a[l + 4]
    BY <1>13, <2>1
  <2> QED  BY <1>3, <2>1, <2>2, <2>3, HeadBytesAre
<1>17. s = Bytes(h, b, f)  BY <1>8, <1>9, <1>11
<1> QED  BY <1>1, <1>5, <1>6, <1>12, <1>14, <1>15, <1>16, <1>17 DEF Layout

\* There is only one sequence with this layout.
LEMMA LayoutUnique ==
    ASSUME NEW h \in HeadType, NEW b \in Seq(Byte), NEW f \in Byte,
           NEW s, NEW t, Layout(s, h, b, f), Layout(t, h, b, f)
    PROVE  s = t
<1>1. PICK n \in Nat : n = Len(Syncword) /\ HeadSize = n + 4  BY SyncwordType
<1>2. PICK m \in Nat : m = Len(b)  OBVIOUS
<1>3. s \in Seq(Byte) /\ t \in Seq(Byte) /\ Len(s) = n + 5 + m /\ Len(t) = n + 5 + m
  BY <1>1, <1>2 DEF Layout
<1>4. ASSUME NEW i \in 1..(n + 5 + m)  PROVE s[i] = t[i]
  <2>1. CASE i \in 1..n  BY <1>1, <2>1 DEF Layout
  <2>2. CASE i \in {n + 1, n + 2, n + 3, n + 4}  BY <1>1, <2>2 DEF Layout
  <2>3. CASE i \in (n + 5)..(n + 4 + m)
    <3>1. i - (n + 4) \in 1..m /\ HeadSize + (i - (n + 4)) = i  BY <1>1, <2>3
    <3> QED  BY <1>2, <3>1 DEF Layout
  <2>4. CASE i = n + 5 + m
    <3>1. i = HeadSize + Len(b) + 1  BY <1>1, <1>2, <2>4
    <3>2. s[HeadSize + Len(b) + 1] = f /\ t[HeadSize + Len(b) + 1] = f  BY DEF Layout
    <3> QED  BY <3>1, <3>2
  <2> QED  BY <2>1, <2>2, <2>3, <2>4
<1> QED  BY <1>3, <1>4, SeqEqual

-----------------------------------------------------------------------------
(* XOR *)

LEMMA XORType == ASSUME NEW s  PROVE XOR(s) \in Byte
  BY DEF XOR, Byte

Odd(n) == n % 2 = 1

LEMMA OddChange ==
    ASSUME NEW m \in Nat, NEW n \in Nat, m = n + 1 \/ m = n - 1
    PROVE  Odd(m) <=> ~Odd(n)
  BY DEF Odd

\* The XOR of a sequence in which one byte differs.
LEMMA XORChange ==
    ASSUME NEW s \in Seq(Byte), NEW t \in Seq(Byte), Len(t) = Len(s),
           NEW i \in 1..Len(s), \A k \in 1..Len(s) : k # i => t[k] = s[k],
           NEW b \in Bits
    PROVE  b \in XOR(t) <=> (b \in XOR(s) <=> (b \in s[i] <=> b \in t[i]))
<1>1. PICK S : S = {k \in 1..Len(s) : b \in s[k]}  OBVIOUS
<1>2. PICK T : T = {k \in 1..Len(t) : b \in t[k]}  OBVIOUS
<1>3. /\ b \in XOR(s) <=> Odd(Cardinality(S))
      /\ b \in XOR(t) <=> Odd(Cardinality(T))
  BY <1>1, <1>2 DEF XOR, Odd
<1>4. IsFiniteSet(S) /\ IsFiniteSet(T) /\ Cardinality(S) \in Nat /\ Cardinality(T) \in Nat
  <2>1. Len(s) \in Nat  OBVIOUS
  <2>2. IsFiniteSet(1..Len(s))
    <3>1. 1 \in Int /\ Len(s) \in Int  BY <2>1
    <3> QED  BY <3>1, FS_Interval
  <2>3. S \in SUBSET (1..Len(s)) /\ T \in SUBSET (1..Len(s))  BY <1>1, <1>2
  <2>4. IsFiniteSet(S) /\ IsFiniteSet(T)  BY <2>2, <2>3, FS_Subset
  <2> QED  BY <2>4, FS_CardinalityType
<1>5. i \in S <=> b \in s[i]  BY <1>1
<1>6. i \in T <=> b \in t[i]  BY <1>2
<1>7. CASE b \in s[i] /\ b \in t[i]
  <2>1. S = T  BY <1>1, <1>2, <1>7
  <2> QED  BY <1>3, <1>7, <2>1
<1>8. CASE b \notin s[i] /\ b \notin t[i]
  <2>1. S = T  BY <1>1, <1>2, <1>8
  <2> QED  BY <1>3, <1>8, <2>1
<1>9. CASE b \in s[i] /\ b \notin t[i]
  <2>1. T = S \ {i}  BY <1>1, <1>2, <1>9
  <2>2. Cardinality(T) = Cardinality(S) - 1
    <3>1. Cardinality(S \ {i}) = IF i \in S THEN Cardinality(S) - 1 ELSE Cardinality(S)
      BY <1>4, FS_RemoveElement
    <3> QED  BY <1>5, <1>9, <2>1, <3>1
  <2>3. Odd(Cardinality(T)) <=> ~Odd(Cardinality(S))  BY <1>4, <2>2, OddChange
  <2> QED  BY <1>3, <1>9, <2>3
<1>10. CASE b \notin s[i] /\ b \in t[i]
  <2>1. T = S \union {i}  BY <1>1, <1>2, <1>10
  <2>2. Cardinality(T) = Cardinality(S) + 1
    <3>1. Cardinality(S \union {i}) = IF i \in S THEN Cardinality(S) ELSE Cardinality(S) + 1
      BY <1>4, FS_AddElement
    <3> QED  BY <1>5, <1>10, <2>1, <3>1
  <2>3. Odd(Cardinality(T)) <=> ~Odd(Cardinality(S))  BY <1>4, <2>2, OddChange
  <2> QED  BY <1>3, <1>10, <2>3
<1> QED  BY <1>7, <1>8, <1>9, <1>10
-----------------------------------------------------------------------------
(* Syncwords *)

\* A whole syncword begins behind index i.
SyncAt(s, i) ==
    /\ i + Len(Syncword) <= Len(s)
    /\ \A k \in 1..Len(Syncword) : s[i + k] = Syncword[k]

LEMMA SubSeqIs ==
    ASSUME NEW s \in Seq(Byte), NEW m \in Nat, NEW n \in Nat, m + n <= Len(s)
    PROVE  /\ SubSeq(s, m + 1, m + n) \in Seq(Byte)
           /\ Len(SubSeq(s, m + 1, m + n)) = n
           /\ \A k \in 1..n : SubSeq(s, m + 1, m + n)[k] = s[m + k]
<1>1. m + 1 \in Int /\ m + n \in Int  OBVIOUS
<1>2. \A k \in (m + 1)..(m + n) : s[k] \in Byte
  <2>1. \A k \in (m + 1)..(m + n) : k \in 1..Len(s)  OBVIOUS
  <2> QED  BY <2>1, ElementOfSeq
<1>3. PICK t : t = SubSeq(s, m + 1, m + n)  OBVIOUS
<1>4. /\ t \in Seq(Byte)
      /\ Len(t) = IF m + 1 <= m + n THEN (m + n) - (m + 1) + 1 ELSE 0
      /\ \A k \in 1..((m + n) - (m + 1) + 1) : t[k] = s[(m + 1) + k - 1]
  <2>1. /\ SubSeq(s, m + 1, m + n) \in Seq(Byte)
        /\ Len(SubSeq(s, m + 1, m + n)) =
              IF m + 1 <= m + n THEN (m + n) - (m + 1) + 1 ELSE 0
        /\ \A k \in 1..((m + n) - (m + 1) + 1) :
              SubSeq(s, m + 1, m + n)[k] = s[(m + 1) + k - 1]
    BY <1>1, <1>2, SubSeqProperties
  <2> QED  BY <1>3, <2>1
<1>5. Len(t) = n  BY <1>4
<1>6. ASSUME NEW k \in 1..n  PROVE t[k] = s[m + k]
  <2>1. k \in 1..((m + n) - (m + 1) + 1) /\ (m + 1) + k - 1 = m + k  OBVIOUS
  <2>2. t[k] = s[(m + 1) + k - 1]  BY <1>4, <2>1
  <2> QED  BY <2>1, <2>2
<1> QED  BY <1>3, <1>4, <1>5, <1>6

LEMMA SyncAtIs ==
    ASSUME NEW s \in Seq(Byte), NEW i \in Nat, i + Len(Syncword) <= Len(s)
    PROVE  SubSeq(s, i + 1, i + Len(Syncword)) = Syncword <=> SyncAt(s, i)
<1>1. PICK n \in Nat : n = Len(Syncword)  BY SyncwordType
<1>2. PICK t : t = SubSeq(s, i + 1, i + n)  OBVIOUS
<1>3. t \in Seq(Byte) /\ Len(t) = n /\ \A k \in 1..n : t[k] = s[i + k]
  BY <1>1, <1>2, SubSeqIs
<1>4. ASSUME t = Syncword  PROVE SyncAt(s, i)
  BY <1>1, <1>3, <1>4 DEF SyncAt
<1>5. ASSUME SyncAt(s, i)  PROVE t = Syncword
  <2>1. Syncword \in Seq(Byte) /\ Len(t) = Len(Syncword)  BY <1>1, <1>3, SyncwordType
  <2>2. \A k \in 1..Len(t) : t[k] = Syncword[k]  BY <1>1, <1>3, <1>5 DEF SyncAt
  <2> QED  BY <1>3, <2>1, <2>2, SeqEqual
<1> QED  BY <1>1, <1>2, <1>4, <1>5

LEMMA SyncwordAtIs ==
    ASSUME NEW s \in Seq(Byte), NEW i
    PROVE  i \in SyncwordAt(s) <=>
              i \in Nat /\ i + Len(Syncword) + 1 <= Len(s) /\ SyncAt(s, i)
<1>1. PICK n \in Nat : n = Len(Syncword)  BY SyncwordType
<1>2. PICK m \in Nat : m = Len(s)  OBVIOUS
<1>3. i \in 0..(m - n - 1) <=> i \in Nat /\ i + n + 1 <= m  OBVIOUS
<1>4. ASSUME i \in Nat, i + n + 1 <= m
      PROVE  SubSeq(s, i + 1, i + n) = Syncword <=> SyncAt(s, i)
  <2>1. i + n <= m  BY <1>4
  <2> QED  BY <1>1, <1>2, <1>4, <2>1, SyncAtIs
<1>5. i \in SyncwordAt(s) <=> i \in 0..(m - n - 1) /\ SubSeq(s, i + 1, i + n) = Syncword
  BY <1>1, <1>2 DEF SyncwordAt
<1> QED  BY <1>1, <1>2, <1>3, <1>4, <1>5

\* A set of natural numbers has a least one.
LEMMA LeastNat ==
    ASSUME NEW T, T \subseteq Nat, T # {}
    PROVE  \E i \in T : \A j \in T : i <= j
<1>1. PICK R : R = {p \in Nat \X Nat : p[1] < p[2]}  OBVIOUS
<1>2. IsWellFoundedOn(R, Nat)  BY <1>1, NatLessThanWellFounded DEF OpToRel
<1>3. PICK i \in T : \A j \in T : ~(<<j, i>> \in R)  BY <1>2, WFMin
<1>4. ASSUME NEW j \in T, j < i  PROVE FALSE
  <2>1. PICK p : p = <<j, i>>  OBVIOUS
  <2>2. p \in Nat \X Nat /\ p[1] = j /\ p[2] = i  BY <2>1
  <2>3. p \in R  BY <1>1, <1>4, <2>2
  <2> QED  BY <1>3, <2>1, <2>3
<1>5. \A j \in T : i <= j
  <2>1. \A j \in T : j \in Nat /\ i \in Nat  OBVIOUS
  <2> QED  BY <1>4, <2>1
<1> QED  BY <1>5

\* BufferBufferSyncword answers the first index.
LEMMA FirstSyncwordIs ==
    ASSUME NEW s \in Seq(Byte), SyncwordAt(s) # {}
    PROVE  /\ FirstSyncword(s) \in SyncwordAt(s)
           /\ \A j \in SyncwordAt(s) : FirstSyncword(s) <= j
<1>1. SyncwordAt(s) \subseteq Nat  BY SyncwordAtIs
<1>2. \E i \in SyncwordAt(s) : \A j \in SyncwordAt(s) : i <= j  BY <1>1, LeastNat
<1> QED  BY <1>2 DEF FirstSyncword

\* Among the first n bytes.
LEMMA SyncPrefix ==
    ASSUME NEW s \in Seq(Byte), NEW n \in 0..Len(s), NEW i \in Nat
    PROVE  SyncAt(SubSeq(s, 1, n), i) <=> SyncAt(s, i) /\ i + Len(Syncword) <= n
<1>1. PICK l \in Nat : l = Len(Syncword)  BY SyncwordType
<1>2. PICK t : t = SubSeq(s, 1, n)  OBVIOUS
<1>3. Len(t) = n /\ \A k \in 1..n : t[k] = s[k]
  <2>1. PICK z : z = 0  OBVIOUS
  <2>2. z + 1 = 1 /\ z + n = n /\ z \in Nat /\ n \in Nat /\ z + n <= Len(s)
        /\ \A k \in 1..n : z + k = k
    BY <2>1
  <2>3. /\ Len(SubSeq(s, z + 1, z + n)) = n
        /\ \A k \in 1..n : SubSeq(s, z + 1, z + n)[k] = s[z + k]
    BY <2>2, SubSeqIs
  <2> QED  BY <1>2, <2>2, <2>3
<1>4. ASSUME i + l <= n, NEW k \in 1..l  PROVE t[i + k] = s[i + k]
  <2>1. i + k \in 1..n  BY <1>4
  <2> QED  BY <1>3, <2>1
<1>5. i + l <= n => i + l <= Len(s)  OBVIOUS
<1> QED  BY <1>1, <1>2, <1>3, <1>4, <1>5 DEF SyncAt

\* Behind the first m bytes.
LEMMA SyncSuffix ==
    ASSUME NEW s \in Seq(Byte), NEW m \in 0..Len(s), NEW i \in Nat
    PROVE  SyncAt(SubSeq(s, m + 1, Len(s)), i) <=> SyncAt(s, m + i)
<1>1. PICK l \in Nat : l = Len(Syncword)  BY SyncwordType
<1>2. PICK n \in Nat : m + n = Len(s)
  <2>1. Len(s) - m \in Nat /\ m + (Len(s) - m) = Len(s)  OBVIOUS
  <2> QED  BY <2>1
<1>3. PICK t : t = SubSeq(s, m + 1, m + n)  OBVIOUS
<1>4. Len(t) = n /\ \A k \in 1..n : t[k] = s[m + k]
  BY <1>2, <1>3, SubSeqIs
<1>5. ASSUME i + l <= n, NEW k \in 1..l  PROVE t[i + k] = s[(m + i) + k]
  <2>1. i + k \in 1..n /\ (m + i) + k = m + (i + k)  BY <1>5
  <2> QED  BY <1>4, <2>1
<1>6. i + l <= n <=> (m + i) + l <= m + n  OBVIOUS
<1> QED  BY <1>1, <1>2, <1>3, <1>4, <1>5, <1>6 DEF SyncAt

\* No byte of the syncword is twice in it.
LEMMA SyncwordDistinct ==
    ASSUME NEW s \in Seq(Byte), NEW i \in Nat, NEW j \in Nat, i < j,
           j < i + Len(Syncword), SyncAt(s, i), s[j + 1] = Syncword[1]
    PROVE  FALSE
<1>1. PICK l \in Nat : l = Len(Syncword) /\ l >= 1  BY SyncwordType
<1>2. PICK k \in 1..l : i + k = j + 1 /\ k # 1
  <2>1. (j + 1) - i \in 1..l /\ i + ((j + 1) - i) = j + 1 /\ (j + 1) - i # 1
    BY <1>1
  <2> QED  BY <2>1
<1>3. Syncword[k] = Syncword[1]  BY <1>1, <1>2 DEF SyncAt
<1>4. 1 \in 1..l  BY <1>1
<1> QED  BY <1>1, <1>2, <1>3, <1>4, SyncwordAssumption
-----------------------------------------------------------------------------
(* Sealing and reading *)

\* The fastcode of a packet whose fastcode was blank makes the XOR zero.
LEMMA Sealing ==
    ASSUME NEW h \in HeadType, NEW b \in Seq(Byte), NEW f \in Byte, h.fastcode = Zero
    PROVE  XOR(Bytes([h EXCEPT !.fastcode = XOR(Bytes(h, b, f))], b, f)) = Zero
<1>1. PICK s : s = Bytes(h, b, f)  OBVIOUS
<1>2. PICK x : x = XOR(s)  OBVIOUS
<1>3. x \in Byte  BY <1>2, XORType
<1>4. PICK g : g = [h EXCEPT !.fastcode = x]  OBVIOUS
<1>5. /\ g \in HeadType /\ g.fastcode = x /\ g.uid = h.uid
      /\ g.size = h.size /\ g.reserved = h.reserved
  BY <1>3, <1>4 DEF HeadType
<1>6. PICK t : t = Bytes(g, b, f)  OBVIOUS
<1>7. PICK w : w = Written(h, b)  OBVIOUS
<1>8. w = Written(g, b)  BY <1>5, <1>7 DEF Written
<1>9. Layout(s, h, w, f)  BY <1>1, <1>7, BytesAre
<1>10. Layout(t, g, w, f)
  <2>1. Layout(Bytes(g, b, f), g, Written(g, b), f)  BY <1>5, BytesAre
  <2> QED  BY <1>6, <1>8, <2>1
<1>11. PICK n \in Nat : n = Len(Syncword) /\ HeadSize = n + 4  BY SyncwordType
<1>12. w \in Seq(Byte)  BY <1>7, EmptySeq DEF Written
<1>13. PICK m \in Nat : m = Len(w)  BY <1>12
<1>14. /\ s \in Seq(Byte) /\ t \in Seq(Byte)
       /\ Len(s) = n + 5 + m /\ Len(t) = n + 5 + m
  BY <1>9, <1>10, <1>11, <1>13 DEF Layout
<1>15. n + 1 \in 1..Len(s)  BY <1>14
<1>16. s[n + 1] = Zero /\ t[n + 1] = x  BY <1>5, <1>9, <1>10, <1>11 DEF Layout
<1>17. ASSUME NEW k \in 1..Len(s), k # n + 1  PROVE t[k] = s[k]
  <2>1. CASE k \in 1..n  BY <1>9, <1>10, <1>11, <2>1 DEF Layout
  <2>2. CASE k \in {n + 2, n + 3, n + 4}  BY <1>5, <1>9, <1>10, <1>11, <2>2 DEF Layout
  <2>3. CASE k \in (n + 5)..(n + 4 + m)
    <3>1. k - (n + 4) \in 1..m /\ HeadSize + (k - (n + 4)) = k  BY <1>11, <2>3
    <3> QED  BY <1>9, <1>10, <1>13, <3>1 DEF Layout
  <2>4. CASE k = n + 5 + m
    <3>1. k = HeadSize + Len(w) + 1  BY <1>11, <1>13, <2>4
    <3> QED  BY <1>9, <1>10, <3>1 DEF Layout
  <2>5. k \in 1..(n + 5 + m)  BY <1>14
  <2> QED  BY <1>17, <2>1, <2>2, <2>3, <2>4, <2>5
<1>18. ASSUME NEW bit \in Bits  PROVE bit \notin XOR(t)
  <2>1. bit \in XOR(t) <=> (bit \in XOR(s) <=> (bit \in s[n + 1] <=> bit \in t[n + 1]))
    BY <1>14, <1>15, <1>17, XORChange
  <2>2. bit \notin s[n + 1]  BY <1>16 DEF Zero
  <2>3. bit \in t[n + 1] <=> bit \in XOR(s)  BY <1>2, <1>16
  <2> QED  BY <2>1, <2>2, <2>3
<1>19. XOR(t) = Zero  BY <1>18, XORType DEF Byte, Zero
<1> QED  BY <1>1, <1>2, <1>4, <1>6, <1>19

LEMMA HeadInType ==
    ASSUME NEW s \in Seq(Byte), NEW i \in Nat, i + HeadSize <= Len(s)
    PROVE  HeadIn(s, i) \in HeadType
<1>1. PICK n \in Nat : n = Len(Syncword) /\ HeadSize = n + 4  BY SyncwordType
<1>2. /\ (i + n) + 1 \in 1..Len(s) /\ (i + n) + 2 \in 1..Len(s)
      /\ (i + n) + 3 \in 1..Len(s) /\ (i + n) + 4 \in 1..Len(s)
  BY <1>1
<1>3. /\ s[(i + n) + 1] \in Byte /\ s[(i + n) + 2] \in Byte
      /\ s[(i + n) + 3] \in Byte /\ s[(i + n) + 4] \in Byte
  BY <1>2, ElementOfSeq
<1> QED  BY <1>1, <1>3 DEF HeadIn, HeadType

\* At index i of s are the head h and, unless it is a heartbeat's, the body b
\* of the given size.
PacketAt(s, i, size, h, b) ==
    /\ SyncAt(s, i) /\ i + HeadSize + size + 1 <= Len(s)
    /\ h = HeadIn(s, i)
    /\ h.uid = Zero => size = 0
    /\ h.uid # Zero => b = SubSeq(s, i + HeadSize + 1, i + HeadSize + size)

\* What is read behind a syncword has the bytes it is read from, whatever the
\* body b holds when there is none in the stream.
LEMMA ReadBytes ==
    ASSUME NEW s \in Seq(Byte), NEW i \in Nat, NEW size \in Nat, NEW h,
           NEW b \in Seq(Byte), PacketAt(s, i, size, h, b)
    PROVE  Bytes(h, b, s[i + HeadSize + size + 1])
              = SubSeq(s, i + 1, i + (HeadSize + size + 1))
<1>0. /\ SyncAt(s, i) /\ i + HeadSize + size + 1 <= Len(s)
      /\ h = HeadIn(s, i)
      /\ h.uid = Zero => size = 0
      /\ h.uid # Zero => b = SubSeq(s, i + HeadSize + 1, i + HeadSize + size)
  BY DEF PacketAt
<1>1. PICK n \in Nat : n = Len(Syncword) /\ HeadSize = n + 4  BY SyncwordType
<1>2. h \in HeadType  BY <1>0, <1>1, HeadInType
<1>3. PICK f : f = s[i + HeadSize + size + 1]  OBVIOUS
<1>4. f \in Byte
  <2>1. i + HeadSize + size + 1 \in 1..Len(s)  BY <1>0, <1>1
  <2> QED  BY <1>3, <2>1, ElementOfSeq
<1>5. PICK w : w = Written(h, b)  OBVIOUS
<1>6. /\ w \in Seq(Byte) /\ Len(w) = size
      /\ \A k \in 1..size : w[k] = s[(i + HeadSize) + k]
  <2>1. CASE h.uid = Zero
    <3>1. w = <<>> /\ size = 0  BY <1>0, <1>5, <2>1 DEF Written
    <3> QED  BY <3>1, EmptySeq
  <2>2. CASE h.uid # Zero
    <3>1. w = b  BY <1>5, <2>2 DEF Written
    <3>2. i + HeadSize \in Nat /\ (i + HeadSize) + size <= Len(s)  BY <1>0, <1>1
    <3>3. /\ SubSeq(s, (i + HeadSize) + 1, (i + HeadSize) + size) \in Seq(Byte)
          /\ Len(SubSeq(s, (i + HeadSize) + 1, (i + HeadSize) + size)) = size
          /\ \A k \in 1..size : SubSeq(s, (i + HeadSize) + 1, (i + HeadSize) + size)[k]
                                  = s[(i + HeadSize) + k]
      BY <3>2, SubSeqIs
    <3>4. w = SubSeq(s, (i + HeadSize) + 1, (i + HeadSize) + size)  BY <1>0, <2>2, <3>1
    <3> QED  BY <3>3, <3>4
  <2> QED  BY <2>1, <2>2
<1>7. PICK m \in Nat : m = HeadSize + size + 1  BY <1>1
<1>8. PICK t : t = SubSeq(s, i + 1, i + m)  OBVIOUS
<1>9. t \in Seq(Byte) /\ Len(t) = m /\ \A k \in 1..m : t[k] = s[i + k]
  <2>1. i + m <= Len(s)  BY <1>0, <1>1, <1>7
  <2> QED  BY <1>8, <2>1, SubSeqIs
<1>10. Layout(t, h, w, f)
  <2>1. Len(t) = HeadSize + Len(w) + 1  BY <1>6, <1>7, <1>9
  <2>2. ASSUME NEW k \in 1..Len(Syncword)  PROVE t[k] = Syncword[k]
    <3>1. k \in 1..m  BY <1>1, <1>7
    <3> QED  BY <1>0, <1>9, <3>1 DEF SyncAt
  <2>3. /\ t[n + 1] = h.fastcode /\ t[n + 2] = h.uid
        /\ t[n + 3] = h.size /\ t[n + 4] = h.reserved
    <3>1. n + 1 \in 1..m /\ n + 2 \in 1..m /\ n + 3 \in 1..m /\ n + 4 \in 1..m
      BY <1>1, <1>7
    <3>2. /\ t[n + 1] = s[i + (n + 1)] /\ t[n + 2] = s[i + (n + 2)]
          /\ t[n + 3] = s[i + (n + 3)] /\ t[n + 4] = s[i + (n + 4)]
      BY <1>9, <3>1
    <3>3. /\ h.fastcode = s[(i + n) + 1] /\ h.uid = s[(i + n) + 2]
          /\ h.size = s[(i + n) + 3] /\ h.reserved = s[(i + n) + 4]
      BY <1>0, <1>1 DEF HeadIn
    <3>4. /\ i + (n + 1) = (i + n) + 1 /\ i + (n + 2) = (i + n) + 2
          /\ i + (n + 3) = (i + n) + 3 /\ i + (n + 4) = (i + n) + 4
      OBVIOUS
    <3> QED  BY <3>2, <3>3, <3>4
  <2>4. ASSUME NEW k \in 1..Len(w)  PROVE t[HeadSize + k] = w[k]
    <3>0. k \in 1..size  BY <1>6
    <3>1. HeadSize + k \in 1..m /\ i + (HeadSize + k) = (i + HeadSize) + k
      BY <1>1, <1>7, <3>0
    <3>2. t[HeadSize + k] = s[i + (HeadSize + k)]  BY <1>9, <3>1
    <3> QED  BY <1>6, <3>0, <3>1, <3>2
  <2>5. t[HeadSize + Len(w) + 1] = f
    <3>1. m \in 1..m /\ i + m = i + HeadSize + size + 1  BY <1>1, <1>7
    <3>2. t[m] = s[i + m]  BY <1>9, <3>1
    <3> QED  BY <1>3, <1>6, <1>7, <3>1, <3>2
  <2> QED  BY <1>1, <1>9, <2>1, <2>2, <2>3, <2>4, <2>5 DEF Layout
<1>11. Layout(Bytes(h, b, f), h, w, f)  BY <1>2, <1>4, <1>5, BytesAre
<1>12. Bytes(h, b, f) = t  BY <1>2, <1>4, <1>6, <1>10, <1>11, LayoutUnique
<1> QED  BY <1>3, <1>7, <1>8, <1>12
-----------------------------------------------------------------------------
(* The inductive invariant *)

\* A sealed packet has the body its head says, and the seal holds.
PacketInv ==
    /\ sealed # "no" => head.uid = Zero \/ SizeOf[head.size] = Len(body)
    /\ sealed = "clean" => XOR(Bytes(head, body, foot)) = Zero

SentType ==
    sent \in [length : Nat, sealed : {"no", "clean", "again"},
              damage : {"none", "payload", "framing"},
              head : HeadType, body : Seq(Byte), foot : Byte]

SentBytes == Bytes(sent.head, sent.body, sent.foot)
Start == sent.length - Len(SentBytes)

\* The bytes of a packet of n bytes that are not framing.
Payload(n) == (Len(Syncword) + 1)..n \ {Len(Syncword) + 2, Len(Syncword) + 3}
Toggle(byte, bit) == (byte \ {bit}) \union ({bit} \ byte)

\* The packet that is in the stream lies between noise, and there is no other
\* syncword, as long as its own framing is not altered.
SentInv ==
    /\ aligned
    /\ Start \in Nat /\ sent.length <= Len(Data)
    /\ sent.head.uid = Zero => sent.body = <<>>
    /\ sent.head.uid # Zero => SizeOf[sent.head.size] = Len(sent.body)
    /\ sent.sealed = "clean" => XOR(SentBytes) = Zero
    /\ \A i \in Nat : i >= sent.length => ~SyncAt(Data, i)
    /\ sent.damage # "framing" => \A i \in Nat : i < Start => ~SyncAt(Data, i)
    /\ sent.damage = "none" =>
          \A k \in 1..Len(SentBytes) : Data[Start + k] = SentBytes[k]
    /\ sent.damage = "payload" =>
          \E j \in Payload(Len(SentBytes)), bit \in Bits :
            \A k \in 1..Len(SentBytes) :
                Data[Start + k] = IF k = j THEN Toggle(SentBytes[k], bit) ELSE SentBytes[k]

StreamInv ==
    /\ SentType
    /\ sent # Nothing => SentInv
    /\ sent = Nothing /\ aligned => \A i \in Nat : ~SyncAt(Data, i)

NetInv == TypeOK /\ PacketInv /\ StreamInv

LEMMA NothingType ==
    Nothing \in [length : Nat, sealed : {"no", "clean", "again"},
                 damage : {"none", "payload", "framing"},
                 head : HeadType, body : Seq(Byte), foot : Byte]
<1>1. BlankHead \in HeadType  BY SyncwordType DEF BlankHead, HeadType
<1>2. <<>> \in Seq(Byte)  BY EmptySeq
<1> QED  BY <1>1, <1>2, SyncwordType DEF Nothing

LEMMA NoSyncInEmpty == ASSUME NEW i \in Nat  PROVE ~SyncAt(<<>>, i)
<1>1. Len(<<>>) = 0  BY EmptySeq
<1> QED  BY <1>1, SyncwordType DEF SyncAt

LEMMA InitInv == ASSUME NEW b \in Seq(Byte), PacketInit(b)  PROVE NetInv
<1>1. TypeOK
  BY EmptySeq, SyncwordType DEF PacketInit, TypeOK, BlankHead, Byte, Zero
<1>2. PacketInv  BY DEF PacketInit, PacketInv
<1>3. StreamInv
  BY NothingType, NoSyncInEmpty DEF PacketInit, StreamInv, SentType
<1> QED  BY <1>1, <1>2, <1>3 DEF NetInv

LEMMA StreamStays ==
    ASSUME StreamInv, UNCHANGED streamVars  PROVE StreamInv'
  BY DEF StreamInv, SentType, SentInv, SentBytes, Start, streamVars

-----------------------------------------------------------------------------
(* Steps of the packet *)

LEMMA FillInv ==
    ASSUME NetInv, NEW uid \in Uids, NEW reserved \in Reserved,
           NEW bytes \in Bodies, NEW size \in Byte, Fill(uid, reserved, bytes, size)
    PROVE  NetInv'
<1>1. TypeOK'
  <2>1. uid \in Byte /\ reserved \in Byte /\ bytes \in Seq(Byte)
    BY ClientAssumption
  <2>2. head' \in HeadType /\ body' \in Seq(Byte)
    BY <2>1 DEF NetInv, TypeOK, Fill, HeadType
  <2> QED  BY <2>2 DEF NetInv, TypeOK, Fill, Forget, streamVars, HeadType
<1>2. PacketInv'  BY DEF PacketInv, Fill
<1>3. StreamInv'  BY StreamStays DEF NetInv, Fill
<1> QED  BY <1>1, <1>2, <1>3 DEF NetInv

LEMMA OnStampSealInv ==
    ASSUME NetInv, NEW now \in Byte, OnStampSeal(now)
    PROVE  NetInv'
<1>1. PICK x : x = XOR(Bytes(head, body, now))  OBVIOUS
<1>2. x \in Byte  BY <1>1, XORType
<1>3. head \in HeadType /\ body \in Seq(Byte)  BY DEF NetInv, TypeOK, HeadType
<1>4. /\ head' = [head EXCEPT !.fastcode = x] /\ body' = body /\ foot' = now
      /\ sealed' = IF head.fastcode = Zero THEN "clean" ELSE "again"
  BY <1>1 DEF OnStampSeal
<1>5. head' \in HeadType /\ head'.uid = head.uid /\ head'.size = head.size
  BY <1>2, <1>3, <1>4 DEF HeadType
<1>6. TypeOK'
  BY <1>4, <1>5 DEF NetInv, TypeOK, OnStampSeal, Forget, streamVars, HeadType
<1>7. head'.uid = Zero \/ SizeOf[head'.size] = Len(body')
  BY <1>4, <1>5 DEF OnStampSeal
<1>8. sealed' = "clean" => XOR(Bytes(head', body', foot')) = Zero
  BY <1>1, <1>3, <1>4, Sealing
<1>9. PacketInv'  BY <1>7, <1>8 DEF PacketInv
<1>10. StreamInv'  BY StreamStays DEF NetInv, OnStampSeal
<1> QED  BY <1>6, <1>9, <1>10 DEF NetInv

\* The heartbeats of both ways to make one.
LEMMA HeartbeatInv ==
    ASSUME NetInv, NEW now \in Byte, ReUseAsHeartbeat(now) \/ CreateHeartbeat(now)
    PROVE  NetInv'
<1>1. PICK x : x = XOR(Bytes(BlankHead, NoBody, now))  OBVIOUS
<1>2. x \in Byte  BY <1>1, XORType
<1>3. BlankHead \in HeadType /\ BlankHead.fastcode = Zero /\ BlankHead.uid = Zero
  BY SyncwordType DEF BlankHead, HeadType
<1>4. NoBody \in Seq(Byte)  BY EmptySeq DEF NoBody
<1>5. /\ head' = [BlankHead EXCEPT !.fastcode = x] /\ body' = NoBody /\ foot' = now
      /\ sealed' = "clean" /\ Forget /\ UNCHANGED streamVars
  BY <1>1 DEF ReUseAsHeartbeat, CreateHeartbeat
<1>6. head' \in HeadType /\ head'.uid = Zero
  BY <1>2, <1>3, <1>5 DEF HeadType
<1>7. sid' \in SUBSET SidBits /\ bFastIntegrity' \in BOOLEAN
  <2>1. CASE ReUseAsHeartbeat(now)  BY <2>1 DEF ReUseAsHeartbeat, NetInv, TypeOK
  <2>2. CASE CreateHeartbeat(now)  BY <2>2 DEF CreateHeartbeat, Zero
  <2> QED  BY <2>1, <2>2
<1>8. TypeOK'
  BY <1>4, <1>5, <1>6, <1>7 DEF NetInv, TypeOK, Forget, streamVars, HeadType
<1>9. XOR(Bytes(head', body', foot')) = Zero
  BY <1>1, <1>3, <1>4, <1>5, Sealing
<1>10. PacketInv'  BY <1>6, <1>9 DEF PacketInv
<1>11. StreamInv'  BY <1>5, StreamStays DEF NetInv
<1> QED  BY <1>8, <1>10, <1>11 DEF NetInv

LEMMA CheckIntegrityInv ==
    ASSUME NetInv, CheckIntegrity  PROVE NetInv'
<1>1. TypeOK'
  BY DEF NetInv, TypeOK, CheckIntegrity, Forget, streamVars
<1>2. PacketInv'  BY DEF NetInv, PacketInv, CheckIntegrity
<1>3. StreamInv'  BY StreamStays DEF NetInv, CheckIntegrity
<1> QED  BY <1>1, <1>2, <1>3 DEF NetInv

LEMMA RecycleInv ==
    ASSUME NetInv, OnDealloc \/ OnAlloc  PROVE NetInv'
<1>1. TypeOK'
  <2>1. CASE OnDealloc
    <3>1. NoBody \in Seq(Byte)  BY EmptySeq DEF NoBody
    <3>2. head' \in HeadType  BY <2>1, SyncwordType DEF OnDealloc, NetInv, TypeOK, HeadType
    <3> QED
      BY <2>1, <3>1, <3>2, SyncwordType
      DEF OnDealloc, NetInv, TypeOK, HeadType, Forget, streamVars, Zero
  <2>2. CASE OnAlloc
    <3>1. BlankHead \in HeadType  BY SyncwordType DEF BlankHead, HeadType
    <3> QED
      BY <2>2, <3>1, SyncwordType DEF OnAlloc, NetInv, TypeOK, HeadType, Forget, streamVars
  <2> QED  BY <2>1, <2>2
<1>2. PacketInv'  BY DEF PacketInv, OnDealloc, OnAlloc
<1>3. StreamInv'  BY StreamStays DEF NetInv, OnDealloc, OnAlloc
<1> QED  BY <1>1, <1>2, <1>3 DEF NetInv
-----------------------------------------------------------------------------
(* Steps of the stream *)

LEMMA SentBytesAre ==
    ASSUME SentType, sent.head.uid = Zero => sent.body = <<>>
    PROVE  /\ Layout(SentBytes, sent.head, sent.body, sent.foot)
           /\ SentBytes \in Seq(Byte)
           /\ Len(SentBytes) = HeadSize + Len(sent.body) + 1
<1>1. sent.head \in HeadType /\ sent.body \in Seq(Byte) /\ sent.foot \in Byte
  BY DEF SentType
<1>2. Written(sent.head, sent.body) = sent.body  BY DEF Written
<1>3. Layout(SentBytes, sent.head, Written(sent.head, sent.body), sent.foot)
  BY <1>1, BytesAre DEF SentBytes
<1> QED  BY <1>2, <1>3 DEF Layout

\* A syncword that begins in s and is in s \o t, is in s or reaches into t.
LEMMA SyncInConcat ==
    ASSUME NEW s \in Seq(Byte), NEW t \in Seq(Byte), NEW i \in Nat, SyncAt(s \o t, i)
    PROVE  /\ i + Len(Syncword) <= Len(s) => SyncAt(s, i)
           /\ i >= Len(s) => SyncAt(t, i - Len(s))
<1>1. PICK l \in Nat : l = Len(Syncword)  BY SyncwordType
<1>2. PICK m \in Nat : m = Len(s)  OBVIOUS
<1>3. PICK n \in Nat : n = Len(t)  OBVIOUS
<1>4. PICK u : u = s \o t  OBVIOUS
<1>5. Len(u) = m + n /\ (\A k \in 1..m : u[k] = s[k]) /\ (\A k \in 1..n : u[m + k] = t[k])
  BY <1>2, <1>3, <1>4, ConcatAt
<1>6. i + l <= m + n /\ \A k \in 1..l : u[i + k] = Syncword[k]
  BY <1>1, <1>4, <1>5 DEF SyncAt
<1>7. ASSUME i + l <= m, NEW k \in 1..l  PROVE s[i + k] = Syncword[k]
  <2>1. i + k \in 1..m  BY <1>7
  <2> QED  BY <1>5, <1>6, <2>1
<1>8. ASSUME i >= m, NEW k \in 1..l  PROVE t[(i - m) + k] = Syncword[k]
  <2>1. (i - m) + k \in 1..n /\ m + ((i - m) + k) = i + k  BY <1>6, <1>8
  <2> QED  BY <1>5, <1>6, <2>1
<1>9. i >= m => (i - m) + l <= n  BY <1>6
<1> QED  BY <1>1, <1>2, <1>3, <1>7, <1>8, <1>9 DEF SyncAt

LEMMA WriteToArrayInv ==
    ASSUME NetInv, WriteToArray  PROVE NetInv'
<1>1. PICK bytes : bytes = Bytes(head, body, foot)  OBVIOUS
<1>2. /\ head \in HeadType /\ body \in Seq(Byte) /\ foot \in Byte
      /\ Data \in Seq(Byte) /\ sealed \in {"no", "clean", "again"}
  BY DEF NetInv, TypeOK, HeadType
<1>3. PICK w : w = IF head.uid = Zero THEN <<>> ELSE body  OBVIOUS
<1>4. w \in Seq(Byte)  BY <1>2, <1>3, EmptySeq
<1>5. Layout(bytes, head, w, foot)
  <2>1. w = Written(head, body)  BY <1>3 DEF Written
  <2> QED  BY <1>1, <1>2, <2>1, BytesAre
<1>6. PICK l \in Nat : l = Len(Syncword) /\ l >= 1 /\ HeadSize = l + 4  BY SyncwordType
<1>7. PICK m \in Nat : m = Len(Data)  BY <1>2
<1>8. PICK n \in Nat : n = Len(bytes) /\ bytes \in Seq(Byte) /\ n >= l + 5
  <2>1. Len(w) \in Nat  BY <1>4
  <2> QED  BY <1>5, <1>6, <2>1 DEF Layout
<1>9. /\ Data' = Data \o bytes
      /\ sent' = [length |-> m + n, sealed |-> sealed, damage |-> "none",
                  head |-> head, body |-> w, foot |-> foot]
      /\ aligned /\ aligned' /\ sealed # "no" /\ sent = Nothing
      /\ UNCHANGED packetVars /\ sealed' = sealed /\ Forget
  BY <1>1, <1>3, <1>7, <1>8 DEF WriteToArray
<1>10. /\ Data' \in Seq(Byte) /\ Len(Data') = m + n
       /\ \A k \in 1..m : Data'[k] = Data[k]
       /\ \A k \in 1..n : Data'[m + k] = bytes[k]
  <2>1. /\ Data \o bytes \in Seq(Byte) /\ Len(Data \o bytes) = m + n
        /\ \A k \in 1..m : (Data \o bytes)[k] = Data[k]
        /\ \A k \in 1..n : (Data \o bytes)[m + k] = bytes[k]
    BY <1>2, <1>7, <1>8, ConcatAt
  <2> QED  BY <1>9, <2>1
<1>11. TypeOK'
  BY <1>9, <1>10 DEF NetInv, TypeOK, Forget, packetVars
<1>12. PacketInv'
  BY <1>9 DEF NetInv, PacketInv, packetVars
<1>13. SentType'
  BY <1>2, <1>4, <1>9 DEF SentType
<1>14. /\ sent'.length = m + n /\ sent'.sealed = sealed /\ sent'.damage = "none"
       /\ sent'.head = head /\ sent'.body = w /\ sent'.foot = foot
  BY <1>9
<1>15. SentBytes' = bytes
  <2>1. Bytes(head, w, foot) = Bytes(head, body, foot)  BY <1>3 DEF Bytes
  <2> QED  BY <1>1, <1>14, <2>1 DEF SentBytes
<1>16. Start' = m  BY <1>8, <1>14, <1>15 DEF Start
<1>17. \A i \in Nat : ~SyncAt(Data, i)  BY <1>9 DEF NetInv, StreamInv
<1>18. ASSUME NEW i \in Nat, i >= m + n  PROVE ~SyncAt(Data', i)
  <2>1. ~(i + l <= m + n)  BY <1>6, <1>18
  <2> QED  BY <1>6, <1>10, <2>1 DEF SyncAt
<1>19. ASSUME NEW i \in Nat, i < m, SyncAt(Data', i)  PROVE FALSE
  <2>1. CASE i + l <= m
    <3>1. SyncAt(Data, i)  BY <1>2, <1>6, <1>7, <1>8, <1>9, <1>19, <2>1, SyncInConcat
    <3> QED  BY <1>17, <3>1
  <2>2. CASE m < i + l
    <3>1. Data'[m + 1] = Syncword[1]
      <4>1. 1 \in 1..n /\ 1 \in 1..l  BY <1>6, <1>8
      <4>2. Data'[m + 1] = bytes[1]  BY <1>10, <4>1
      <4>3. bytes[1] = Syncword[1]  BY <1>5, <1>6, <4>1 DEF Layout
      <4> QED  BY <4>2, <4>3
    <3> QED  BY <1>6, <1>10, <1>19, <2>2, <3>1, SyncwordDistinct
  <2> QED  BY <1>6, <2>1, <2>2
<1>20. head.uid # Zero => SizeOf[head.size] = Len(w)
  BY <1>3, <1>9 DEF NetInv, PacketInv
<1>21. sealed = "clean" => XOR(bytes) = Zero
  BY <1>1 DEF NetInv, PacketInv
<1>22. SentInv'
  <2>1. Start' \in Nat /\ sent'.length <= Len(Data')  BY <1>10, <1>14, <1>16
  <2>2. \A i \in Nat : i >= sent'.length => ~SyncAt(Data', i)  BY <1>14, <1>18
  <2>3. \A i \in Nat : i < Start' => ~SyncAt(Data', i)  BY <1>16, <1>19
  <2>4. \A k \in 1..Len(SentBytes') : Data'[Start' + k] = SentBytes'[k]
    BY <1>8, <1>10, <1>15, <1>16
  <2>5. sent'.head.uid = Zero => sent'.body = <<>>  BY <1>3, <1>14
  <2>6. sent'.damage # "payload"  BY <1>14
  <2> QED
    BY <1>9, <1>14, <1>15, <1>20, <1>21, <2>1, <2>2, <2>3, <2>4, <2>5, <2>6 DEF SentInv
<1>23. sent' # Nothing
  <2>1. Nothing.length = 0  BY DEF Nothing
  <2>2. sent'.length # 0  BY <1>8, <1>14
  <2> QED  BY <2>1, <2>2
<1>24. StreamInv'  BY <1>13, <1>22, <1>23 DEF StreamInv
<1> QED  BY <1>11, <1>12, <1>24 DEF NetInv

LEMMA NoiseHasNoSync ==
    ASSUME NEW noise \in Noise, NEW i \in Nat  PROVE ~SyncAt(noise, i)
<1>1. noise \in Seq(Byte)  BY NoiseAssumption
<1>2. PICK l \in Nat : l = Len(Syncword)  BY SyncwordType
<1>3. PICK n \in Nat : n = Len(noise)  BY <1>1
<1>4. SUFFICES ASSUME SyncAt(noise, i)  PROVE FALSE  OBVIOUS
<1>5. i + l <= n  BY <1>2, <1>3, <1>4 DEF SyncAt
<1>6. i \in 0..(n - l)  BY <1>5
<1>7. SubSeq(noise, i + 1, i + l) # Syncword  BY <1>2, <1>3, <1>6, NoiseAssumption
<1>8. SubSeq(noise, i + 1, i + l) = Syncword
  BY <1>1, <1>2, <1>3, <1>4, <1>5, SyncAtIs
<1> QED  BY <1>7, <1>8

LEMMA AddNoiseInv ==
    ASSUME NetInv, NEW noise \in Noise, AddNoise(noise)  PROVE NetInv'
<1>1. noise \in Seq(Byte) /\ Data \in Seq(Byte)
  BY NoiseAssumption DEF NetInv, TypeOK
<1>2. /\ Data' = Data \o noise /\ Len(Data) = sent.length
      /\ sent' = sent /\ aligned /\ aligned' = aligned
      /\ UNCHANGED packetVars /\ sealed' = sealed /\ Forget
  BY DEF AddNoise
<1>3. PICK m \in Nat : m = Len(Data)  BY <1>1
<1>4. PICK n \in Nat : n = Len(noise)  BY <1>1
<1>5. PICK l \in Nat : l = Len(Syncword) /\ l >= 1 /\ HeadSize = l + 4  BY SyncwordType
<1>6. /\ Data' \in Seq(Byte) /\ Len(Data') = m + n
      /\ \A k \in 1..m : Data'[k] = Data[k]
  <2>1. /\ Data \o noise \in Seq(Byte) /\ Len(Data \o noise) = m + n
        /\ \A k \in 1..m : (Data \o noise)[k] = Data[k]
    BY <1>1, <1>3, <1>4, ConcatAt
  <2> QED  BY <1>2, <2>1
<1>7. TypeOK'
  BY <1>2, <1>6 DEF NetInv, TypeOK, Forget, packetVars
<1>8. PacketInv'
  BY <1>2 DEF NetInv, PacketInv, packetVars
<1>9. SentType'  BY <1>2 DEF NetInv, StreamInv, SentType
<1>10. ASSUME NEW i \in Nat, i >= m  PROVE ~SyncAt(Data', i)
  <2>1. SUFFICES ASSUME SyncAt(Data', i)  PROVE FALSE  OBVIOUS
  <2>2. SyncAt(Data \o noise, i)  BY <1>2, <2>1
  <2>3. SyncAt(noise, i - m)  BY <1>1, <1>3, <1>10, <2>2, SyncInConcat
  <2>4. i - m \in Nat  BY <1>10
  <2> QED  BY <2>3, <2>4, NoiseHasNoSync
<1>11. CASE sent = Nothing
  <2>1. m = 0  BY <1>2, <1>3, <1>11 DEF Nothing
  <2>2. \A i \in Nat : ~SyncAt(Data', i)  BY <1>10, <2>1
  <2>3. StreamInv'  BY <1>2, <1>9, <1>11, <2>2 DEF StreamInv
  <2> QED  BY <1>7, <1>8, <2>3 DEF NetInv
<1>12. CASE sent # Nothing
  <2>1. SentInv /\ SentType  BY <1>12 DEF NetInv, StreamInv
  <2>2. SentBytes \in Seq(Byte) /\ Len(SentBytes) = HeadSize + Len(sent.body) + 1
    BY <2>1, SentBytesAre DEF SentInv
  <2>3. PICK p \in Nat : p = Len(SentBytes) /\ p > l
    <3>1. sent.body \in Seq(Byte)  BY <2>1 DEF SentType
    <3>2. Len(sent.body) \in Nat /\ Len(SentBytes) \in Nat  BY <2>2, <3>1
    <3>3. Len(SentBytes) > l
      <4>1. PICK c \in Nat : c = Len(sent.body)  BY <3>2
      <4>2. Len(SentBytes) = (l + 4) + c + 1  BY <1>5, <2>2, <4>1
      <4> QED  BY <4>2
    <3> QED  BY <3>2, <3>3
  <2>4. PICK q \in Nat : q = Start /\ q + p = m
    <3>1. Start \in Nat /\ Start = m - p  BY <1>2, <1>3, <2>1, <2>3 DEF SentInv, Start
    <3>2. Start + p = m  BY <3>1
    <3> QED  BY <3>1, <3>2
  <2>5. SentBytes' = SentBytes /\ Start' = Start  BY <1>2 DEF SentBytes, Start
  <2>6. ASSUME NEW k \in 1..p  PROVE Data'[q + k] = Data[q + k]
    <3>1. q + k \in 1..m  BY <2>4
    <3> QED  BY <1>6, <3>1
  <2>7. ASSUME NEW i \in Nat, i < q, SyncAt(Data', i)  PROVE SyncAt(Data, i)
    <3>1. i + l <= m  BY <2>3, <2>4, <2>7
    <3>2. SyncAt(Data \o noise, i)  BY <1>2, <2>7
    <3> QED  BY <1>1, <1>3, <1>5, <3>1, <3>2, SyncInConcat
  <2>8. sent'.length <= Len(Data')  BY <1>2, <1>3, <1>6
  <2>9. \A i \in Nat : i >= sent'.length => ~SyncAt(Data', i)  BY <1>2, <1>3, <1>10
  <2>10. sent'.damage # "framing" => \A i \in Nat : i < Start' => ~SyncAt(Data', i)
    BY <1>2, <2>1, <2>4, <2>5, <2>7 DEF SentInv
  <2>11. sent'.damage = "none" =>
            \A k \in 1..Len(SentBytes') : Data'[Start' + k] = SentBytes'[k]
    BY <1>2, <2>1, <2>3, <2>4, <2>5, <2>6 DEF SentInv
  <2>12. sent'.damage = "payload" =>
          \E j \in Payload(Len(SentBytes')), bit \in Bits :
            \A k \in 1..Len(SentBytes') :
                Data'[Start' + k] = IF k = j THEN Toggle(SentBytes'[k], bit) ELSE SentBytes'[k]
    <3>1. HAVE sent'.damage = "payload"
    <3>2. PICK j \in Payload(p), bit \in Bits :
            \A k \in 1..p : Data[q + k] =
                IF k = j THEN Toggle(SentBytes[k], bit) ELSE SentBytes[k]
      BY <1>2, <2>1, <2>3, <2>4, <3>1 DEF SentInv
    <3>3. \A k \in 1..p : Data'[q + k] =
                IF k = j THEN Toggle(SentBytes[k], bit) ELSE SentBytes[k]
      BY <2>6, <3>2
    <3>4. Len(SentBytes') = p /\ Start' = q  BY <2>3, <2>4, <2>5
    <3> QED  BY <2>5, <3>3, <3>4
  <2>13. SentInv'
    BY <1>2, <2>1, <2>5, <2>8, <2>9, <2>10, <2>11, <2>12 DEF SentInv
  <2>14. StreamInv'  BY <1>2, <1>9, <1>12, <2>13 DEF StreamInv
  <2> QED  BY <1>7, <1>8, <2>14 DEF NetInv
<1> QED  BY <1>11, <1>12
LEMMA SyncElsewhere ==
    ASSUME NEW s, NEW t, Len(s) = Len(t), Len(s) \in Nat, NEW p \in Nat,
           \A k \in 1..Len(s) : k # p => t[k] = s[k],
           NEW i \in Nat, p <= i \/ p > i + Len(Syncword), SyncAt(t, i)
    PROVE  SyncAt(s, i)
<1>1. PICK l \in Nat : l = Len(Syncword)  BY SyncwordType
<1>2. PICK m \in Nat : m = Len(s)  OBVIOUS
<1>3. i + l <= m  BY <1>1, <1>2 DEF SyncAt
<1>4. ASSUME NEW k \in 1..l  PROVE s[i + k] = Syncword[k]
  <2>1. i + k \in 1..m /\ i + k # p  BY <1>1, <1>3
  <2>2. t[i + k] = s[i + k]  BY <1>2, <2>1
  <2> QED  BY <1>1, <2>2 DEF SyncAt
<1> QED  BY <1>1, <1>2, <1>3, <1>4 DEF SyncAt

LEMMA DamageInv ==
    ASSUME NetInv, NEW p \in Nat, NEW bit \in DamageBits, Damage(p, bit)
    PROVE  NetInv'
<1>1. /\ sent.damage = "none" /\ p \in 1..sent.length
      /\ Data' = [Data EXCEPT ![p] = (@ \ {bit}) \union ({bit} \ @)]
      /\ UNCHANGED packetVars /\ sealed' = sealed /\ aligned' = aligned /\ Forget
  BY DEF Damage
<1>2. sent # Nothing
  <2>1. Nothing.length = 0  BY DEF Nothing
  <2> QED  BY <1>1, <2>1
<1>3. SentInv /\ SentType  BY <1>2 DEF NetInv, StreamInv
<1>4. bit \in Bits /\ Data \in Seq(Byte)  BY NoiseAssumption DEF NetInv, TypeOK
<1>5. PICK l \in Nat : l = Len(Syncword) /\ HeadSize = l + 4  BY SyncwordType
<1>6. PICK m \in Nat : m = Len(Data)  BY <1>4
<1>7. /\ sent.head.uid = Zero => sent.body = <<>>
      /\ sent.head \in HeadType /\ sent.body \in Seq(Byte)
  BY <1>3 DEF SentInv, SentType
<1>8. PICK n \in Nat : n = Len(SentBytes) /\ n = HeadSize + Len(sent.body) + 1
  <2>1. SentBytes \in Seq(Byte) /\ Len(SentBytes) = HeadSize + Len(sent.body) + 1
    BY <1>3, <1>7, SentBytesAre
  <2>2. Len(SentBytes) \in Nat  BY <2>1
  <2> QED  BY <2>1, <2>2
<1>9. PICK q \in Nat : q = Start /\ q + n = sent.length /\ sent.length <= m
  <2>1. Start \in Nat /\ sent.length <= Len(Data)  BY <1>3 DEF SentInv
  <2>2. Start = sent.length - n  BY <1>8 DEF Start
  <2>3. sent.length \in Nat  BY <1>3 DEF SentType
  <2>4. Start + n = sent.length  BY <2>1, <2>2, <2>3
  <2> QED  BY <1>6, <2>1, <2>4
<1>10. Len(Bytes(sent.head, sent.body, Zero)) = n
  <2>1. Layout(Bytes(sent.head, sent.body, Zero), sent.head,
               Written(sent.head, sent.body), Zero)
    BY <1>7, SyncwordType, BytesAre
  <2>2. Written(sent.head, sent.body) = sent.body  BY <1>7 DEF Written
  <2> QED  BY <1>8, <2>1, <2>2 DEF Layout
<1>11. PICK framing : framing = 1..(q + l) \union {q + l + 2, q + l + 3}  OBVIOUS
<1>12. sent' = [sent EXCEPT !.damage = IF p \in framing THEN "framing" ELSE "payload"]
  <2>1. sent.length - n = q  BY <1>9
  <2> QED  BY <1>5, <1>10, <1>11, <2>1 DEF Damage
<1>13. /\ sent' \in [length : Nat, sealed : {"no", "clean", "again"},
                     damage : {"none", "payload", "framing"},
                     head : HeadType, body : Seq(Byte), foot : Byte]
       /\ sent'.length = sent.length /\ sent'.sealed = sent.sealed
       /\ sent'.head = sent.head /\ sent'.body = sent.body /\ sent'.foot = sent.foot
       /\ sent'.damage = IF p \in framing THEN "framing" ELSE "payload"
  BY <1>3, <1>12 DEF SentType
<1>14. SentBytes' = SentBytes /\ Start' = Start  BY <1>13 DEF SentBytes, Start
<1>15. p \in 1..m  BY <1>1, <1>9
<1>16. Data[p] \in Byte  BY <1>4, <1>6, <1>15, ElementOfSeq
<1>17. Toggle(Data[p], bit) \in Byte  BY <1>4, <1>16 DEF Toggle, Byte
<1>18. /\ Data' \in Seq(Byte) /\ Len(Data') = m
       /\ \A k \in 1..m : Data'[k] = IF k = p THEN Toggle(Data[p], bit) ELSE Data[k]
  <2>1. PICK e \in Byte : e = Toggle(Data[p], bit)  BY <1>17
  <2>2. Data' = [Data EXCEPT ![p] = e]  BY <1>1, <2>1 DEF Toggle
  <2>3. /\ [Data EXCEPT ![p] = e] \in Seq(Byte)
        /\ Len([Data EXCEPT ![p] = e]) = Len(Data)
        /\ \A k \in 1..Len(Data) :
              [Data EXCEPT ![p] = e][k] = IF k = p THEN e ELSE Data[k]
    BY <1>4, <1>6, <1>15, ExceptSeq
  <2> QED  BY <1>6, <2>1, <2>2, <2>3
<1>19. TypeOK'
  BY <1>1, <1>18 DEF NetInv, TypeOK, Forget, packetVars
<1>20. PacketInv'  BY <1>1 DEF NetInv, PacketInv, packetVars
<1>21. ASSUME NEW i \in Nat, p <= i \/ p > i + l, SyncAt(Data', i)
       PROVE  SyncAt(Data, i)
  <2>1. \A k \in 1..Len(Data) : k # p => Data'[k] = Data[k]  BY <1>6, <1>18
  <2>2. Len(Data) = Len(Data') /\ Len(Data) \in Nat  BY <1>6, <1>18
  <2> QED  BY <1>5, <1>21, <2>1, <2>2, SyncElsewhere
<1>22. \A i \in Nat : i >= sent'.length => ~SyncAt(Data', i)
  <2>1. SUFFICES ASSUME NEW i \in Nat, i >= q + n, SyncAt(Data', i)  PROVE FALSE
    BY <1>9, <1>13
  <2>2. p <= i  BY <1>1, <1>9, <2>1
  <2>3. SyncAt(Data, i)  BY <1>21, <2>1, <2>2
  <2> QED  BY <1>3, <1>9, <2>1, <2>3 DEF SentInv
<1>23. ASSUME p \notin framing  PROVE p > q + l /\ p # q + l + 2 /\ p # q + l + 3
  <2>1. p \notin 1..(q + l) /\ p # q + l + 2 /\ p # q + l + 3  BY <1>11, <1>23
  <2> QED  BY <1>15, <2>1
<1>24. sent'.damage # "framing" => \A i \in Nat : i < Start' => ~SyncAt(Data', i)
  <2>1. SUFFICES ASSUME p \notin framing, NEW i \in Nat, i < q, SyncAt(Data', i)
                 PROVE FALSE
    BY <1>9, <1>13, <1>14
  <2>2. p > i + l  BY <1>23, <2>1
  <2>3. SyncAt(Data, i)  BY <1>21, <2>1, <2>2
  <2> QED  BY <1>1, <1>3, <1>9, <2>1, <2>3 DEF SentInv
<1>25. sent'.damage = "payload" =>
          \E j \in Payload(Len(SentBytes')), b \in Bits :
            \A k \in 1..Len(SentBytes') :
                Data'[Start' + k] = IF k = j THEN Toggle(SentBytes'[k], b) ELSE SentBytes'[k]
  <2>1. HAVE sent'.damage = "payload"
  <2>2. p \notin framing  BY <1>13, <2>1
  <2>3. PICK j \in Nat : q + j = p
    <3>1. p - q \in Nat /\ q + (p - q) = p  BY <1>23, <2>2
    <3> QED  BY <3>1
  <2>4. j \in Payload(n)
    <3>1. j \in (l + 1)..n
      <4>1. q + j > q + l  BY <1>23, <2>2, <2>3
      <4>2. q + j <= q + n  BY <1>1, <1>9, <2>3
      <4> QED  BY <4>1, <4>2
    <3>2. j # l + 2 /\ j # l + 3  BY <1>23, <2>2, <2>3
    <3> QED  BY <1>5, <3>1, <3>2 DEF Payload
  <2>5. \A k \in 1..n : Data[q + k] = SentBytes[k]
    BY <1>1, <1>3, <1>8, <1>9 DEF SentInv
  <2>6. ASSUME NEW k \in 1..n
        PROVE  Data'[q + k] = IF k = j THEN Toggle(SentBytes[k], bit) ELSE SentBytes[k]
    <3>1. q + k \in 1..m /\ (q + k = p <=> k = j)  BY <1>9, <2>3
    <3>2. Data'[q + k] = IF q + k = p THEN Toggle(Data[p], bit) ELSE Data[q + k]
      BY <1>18, <3>1
    <3>3. Data[q + k] = SentBytes[k]  BY <2>5
    <3> QED  BY <3>1, <3>2, <3>3
  <2>7. Len(SentBytes') = n /\ Start' = q  BY <1>8, <1>9, <1>14
  <2> QED  BY <1>4, <1>14, <2>4, <2>6, <2>7
<1>26. SentInv'
  <2>1. sent'.length <= Len(Data')  BY <1>9, <1>13, <1>18
  <2>2. sent'.damage # "none"  BY <1>13
  <2> QED
    BY <1>1, <1>3, <1>13, <1>14, <1>22, <1>24, <1>25, <2>1, <2>2 DEF SentInv
<1>27. sent' # Nothing
  <2>1. Nothing.damage = "none"  BY DEF Nothing
  <2>2. sent'.damage # "none"  BY <1>13
  <2> QED  BY <2>1, <2>2
<1>28. StreamInv'  BY <1>13, <1>26, <1>27 DEF StreamInv, SentType
<1> QED  BY <1>19, <1>20, <1>28 DEF NetInv

\* What is left in the stream behind a call.
LEMMA ConsumeInv ==
    ASSUME NetInv, NEW skip \in Nat, NEW n \in Nat, skip + n <= Len(Data), NEW valid,
           BytesRead' \in Nat, Consume(skip, n, valid)
    PROVE  /\ StreamInv'
           /\ Data' \in Seq(Byte) /\ aligned' \in BOOLEAN /\ offered' \in Nat
           /\ sealed' \in {"no", "clean", "again"}
<1>1. Data \in Seq(Byte) /\ aligned \in BOOLEAN  BY DEF NetInv, TypeOK
<1>2. PICK m \in Nat : m = Len(Data)  BY <1>1
<1>3. PICK read : read = IF BytesRead' > n THEN n ELSE BytesRead'  OBVIOUS
<1>4. PICK last \in Nat : last = skip + read /\ last <= m
  <2>1. read \in Nat /\ read <= n
    <3>1. CASE BytesRead' > n  BY <1>3, <3>1
    <3>2. CASE ~(BytesRead' > n)  BY <1>3, <3>2
    <3> QED  BY <3>1, <3>2
  <2> QED  BY <1>2, <2>1
<1>5. /\ sent' = Nothing /\ offered' = n
      /\ Data' = SubSeq(Data, last + 1, Len(Data))
      /\ aligned' = ((aligned /\ ~(sent # Nothing /\ last # sent.length)) \/ Data' = <<>>)
      /\ sealed' = IF valid /\ BytesRead' <= n THEN "clean" ELSE "no"
  BY <1>3, <1>4 DEF Consume
<1>6. Data' \in Seq(Byte)
  <2>1. PICK r \in Nat : last + r = m
    <3>1. m - last \in Nat /\ last + (m - last) = m  BY <1>4
    <3> QED  BY <3>1
  <2>2. SubSeq(Data, last + 1, last + r) \in Seq(Byte)  BY <1>1, <1>2, <2>1, SubSeqIs
  <2> QED  BY <1>2, <1>5, <2>1, <2>2
<1>7. SentType'  BY <1>5, NothingType DEF SentType
<1>8. ASSUME aligned', NEW i \in Nat, SyncAt(Data', i)  PROVE FALSE
  <2>1. CASE Data' = <<>>  BY <1>8, <2>1, NoSyncInEmpty
  <2>2. CASE Data' # <<>>
    <3>1. aligned /\ (sent = Nothing \/ last = sent.length)  BY <1>5, <1>8, <2>2
    <3>2. SyncAt(Data, last + i)
      <4>1. last \in 0..Len(Data)  BY <1>2, <1>4
      <4>2. SyncAt(SubSeq(Data, last + 1, Len(Data)), i)  BY <1>5, <1>8
      <4> QED  BY <1>1, <4>1, <4>2, SyncSuffix
    <3>3. last + i \in Nat  BY <1>4
    <3>4. CASE sent = Nothing  BY <3>1, <3>2, <3>3, <3>4 DEF NetInv, StreamInv
    <3>5. CASE sent # Nothing
      <4>1. SentInv /\ last = sent.length  BY <3>1, <3>5 DEF NetInv, StreamInv
      <4>2. last + i >= last  BY <1>4
      <4> QED  BY <3>2, <3>3, <4>1, <4>2 DEF SentInv
    <3> QED  BY <3>4, <3>5
  <2> QED  BY <2>1, <2>2
<1>9. StreamInv'  BY <1>5, <1>7, <1>8 DEF StreamInv
<1>10. aligned' \in BOOLEAN  BY <1>5
<1> QED  BY <1>5, <1>6, <1>9, <1>10
-----------------------------------------------------------------------------
(* Parsing *)

\* A call that is given the n bytes from `skip' on reads the packet at index
\* i of the stream, whose body has the given size.
Reading(i, size, skip, n) ==
    /\ head' = HeadIn(Data, i)
    /\ IF size >= 0 /\ i + HeadSize + size + 1 <= skip + n
       THEN /\ BytesRead' = i + HeadSize + size + 1 - skip
            /\ Bytes(head', body', foot')
                  = SubSeq(Data, i + 1, i + (HeadSize + size + 1))
            /\ head'.uid # Zero =>
                  body' = SubSeq(Data, i + HeadSize + 1, i + HeadSize + size)
            /\ foot' = Data[i + HeadSize + size + 1]
            /\ sid' = SessionID(head')
            /\ bFastIntegrity' = (XOR(Bytes(head', body', foot')) = Zero)
       ELSE (BytesRead' = n /\ ~bFastIntegrity') \/ BytesRead' = n + 1

ReadType ==
    /\ head' \in HeadType /\ body' \in Seq(Byte) /\ foot' \in Byte
    /\ sid' \in SUBSET SidBits /\ bFastIntegrity' \in BOOLEAN /\ BytesRead' \in Nat

LEMMA SessionIDType == ASSUME NEW h  PROVE SessionID(h) \in SUBSET SidBits
  BY DEF SessionID

\* The buffer a call is given is a part of the stream.
LEMMA SubSeqOfBuffer ==
    ASSUME NEW s \in Seq(Byte), NEW m \in Nat, NEW n \in Nat, m + n <= Len(s),
           NEW i \in Nat, NEW k \in Nat, i + k <= n
    PROVE  SubSeq(SubSeq(s, m + 1, m + n), i + 1, i + k)
              = SubSeq(s, (m + i) + 1, (m + i) + k)
<1>1. PICK t : t = SubSeq(s, m + 1, m + n)  OBVIOUS
<1>2. t \in Seq(Byte) /\ Len(t) = n /\ \A j \in 1..n : t[j] = s[m + j]
  BY <1>1, SubSeqIs
<1>3. PICK u : u = SubSeq(t, i + 1, i + k)  OBVIOUS
<1>4. u \in Seq(Byte) /\ Len(u) = k /\ \A j \in 1..k : u[j] = t[i + j]
  BY <1>2, <1>3, SubSeqIs
<1>5. PICK v : v = SubSeq(s, (m + i) + 1, (m + i) + k)  OBVIOUS
<1>6. v \in Seq(Byte) /\ Len(v) = k /\ \A j \in 1..k : v[j] = s[(m + i) + j]
  <2>1. m + i \in Nat /\ (m + i) + k <= Len(s)  OBVIOUS
  <2> QED  BY <1>5, <2>1, SubSeqIs
<1>7. ASSUME NEW j \in 1..k  PROVE u[j] = v[j]
  <2>1. i + j \in 1..n /\ m + (i + j) = (m + i) + j  OBVIOUS
  <2>2. t[i + j] = s[m + (i + j)]  BY <1>2, <2>1
  <2> QED  BY <1>4, <1>6, <2>1, <2>2
<1>8. u = v  BY <1>4, <1>6, <1>7, SeqEqual
<1> QED  BY <1>1, <1>3, <1>5, <1>8

\* A call that is given the n bytes of s from `skip' on finds the head h of the
\* packet at index i, and from `at' on in its buffer the body b.
BufferAt(s, i, skip, n, at, size, buffer, h, b) ==
    /\ s \in Seq(Byte) /\ b \in Seq(Byte)
    /\ i \in Nat /\ skip \in Nat /\ n \in Nat /\ at \in Nat /\ size \in Nat
    /\ SyncAt(s, i) /\ i + HeadSize = skip + at
    /\ at + size + 1 <= n /\ skip + n <= Len(s)
    /\ buffer = SubSeq(s, skip + 1, skip + n)
    /\ h = HeadIn(s, i)
    /\ h.uid = Zero => size = 0
    /\ h.uid # Zero => b = SubSeq(buffer, at + 1, at + size)

\* Those are the bytes of the packet, and `last' is its foot.
BytesTaken(s, i, size, last, h, b) ==
    /\ last = s[i + HeadSize + size + 1] /\ last \in Byte
    /\ h.uid # Zero => b = SubSeq(s, i + HeadSize + 1, i + HeadSize + size)
    /\ Bytes(h, b, last) = SubSeq(s, i + 1, i + (HeadSize + size + 1))

LEMMA BufferBytes ==
    ASSUME NEW s, NEW i, NEW skip, NEW n, NEW at, NEW size, NEW buffer, NEW h, NEW b,
           BufferAt(s, i, skip, n, at, size, buffer, h, b)
    PROVE  BytesTaken(s, i, size, buffer[at + size + 1], h, b)
<1> /\ s \in Seq(Byte) /\ b \in Seq(Byte)
    /\ i \in Nat /\ skip \in Nat /\ n \in Nat /\ at \in Nat /\ size \in Nat
  BY DEF BufferAt
<1>0. /\ SyncAt(s, i) /\ i + HeadSize = skip + at
      /\ at + size + 1 <= n /\ skip + n <= Len(s)
      /\ buffer = SubSeq(s, skip + 1, skip + n)
      /\ h = HeadIn(s, i)
      /\ h.uid = Zero => size = 0
      /\ h.uid # Zero => b = SubSeq(buffer, at + 1, at + size)
  BY DEF BufferAt
<1>1. HeadSize \in Nat  BY SyncwordType
<1>2. PICK e \in Nat : e = i + HeadSize + size + 1  BY <1>1
<1>3. e \in 1..Len(s) /\ e <= skip + n  BY <1>0, <1>1, <1>2
<1>4. buffer[at + size + 1] = s[e] /\ s[e] \in Byte
  <2>1. at + size + 1 \in 1..n /\ skip + (at + size + 1) = e  BY <1>0, <1>1, <1>2
  <2>2. \A k \in 1..n : buffer[k] = s[skip + k]  BY <1>0, SubSeqIs
  <2>3. buffer[at + size + 1] = s[skip + (at + size + 1)]  BY <2>1, <2>2
  <2>4. s[e] \in Byte  BY <1>3, ElementOfSeq
  <2> QED  BY <2>1, <2>3, <2>4
<1>5. h.uid # Zero => b = SubSeq(s, i + HeadSize + 1, i + HeadSize + size)
  <2>1. at + size <= n  BY <1>0
  <2>2. SubSeq(SubSeq(s, skip + 1, skip + n), at + 1, at + size)
           = SubSeq(s, (skip + at) + 1, (skip + at) + size)
    BY <1>0, <2>1, SubSeqOfBuffer
  <2>3. (skip + at) + 1 = i + HeadSize + 1 /\ (skip + at) + size = i + HeadSize + size
    BY <1>0, <1>1
  <2>4. SubSeq(buffer, at + 1, at + size)
           = SubSeq(s, i + HeadSize + 1, i + HeadSize + size)
    BY <1>0, <2>2, <2>3
  <2> QED  BY <1>0, <2>4
<1>6. Bytes(h, b, s[i + HeadSize + size + 1])
         = SubSeq(s, i + 1, i + (HeadSize + size + 1))
  <2>1. PacketAt(s, i, size, h, b)  BY <1>0, <1>2, <1>3, <1>5 DEF PacketAt
  <2> QED  BY <2>1, ReadBytes
<1>7. buffer[at + size + 1] = s[i + HeadSize + size + 1]  BY <1>2, <1>4
<1>8. s[i + HeadSize + size + 1] \in Byte  BY <1>2, <1>4
<1> QED  BY <1>5, <1>6, <1>7, <1>8, Zenon DEF BytesTaken

\* A call is given n bytes and finds in them, before index `at', the head h of
\* the packet at index i; the body should have the given size.
Given(i, skip, n, at, size, buffer, h) ==
    /\ i \in Nat /\ skip \in Nat /\ n \in Nat /\ at \in Nat /\ size \in Int
    /\ SyncAt(Data, i) /\ i + HeadSize = skip + at
    /\ at <= n /\ skip + n <= Len(Data)
    /\ buffer = SubSeq(Data, skip + 1, skip + n)
    /\ h = HeadIn(Data, i)
    /\ h.uid = Zero => size = 0

\* It finds all of the packet, and this is what it makes of it.
PacketRead(n, at, size, buffer, h) ==
    /\ size \in Nat /\ at + size + 1 <= n
    /\ body' \in Seq(Byte)
    /\ head' = h
    /\ h.uid # Zero => body' = SubSeq(buffer, at + 1, at + size)
    /\ foot' = buffer[at + size + 1]
    /\ sid' = SessionID(h)
    /\ bFastIntegrity' = (XOR(Bytes(head', body', foot')) = Zero)
    /\ BytesRead' = at + size + 1

\* What both ReUse functions and the constructor have in common.
LEMMA ReadingIs ==
    ASSUME NetInv, NEW i, NEW skip, NEW n, NEW at, NEW size, NEW buffer, NEW h,
           Given(i, skip, n, at, size, buffer, h), PacketRead(n, at, size, buffer, h)
    PROVE  ReadType /\ Reading(i, size, skip, n)
<1> /\ i \in Nat /\ skip \in Nat /\ n \in Nat /\ at \in Nat /\ size \in Nat
    /\ SyncAt(Data, i) /\ i + HeadSize = skip + at
    /\ at + size + 1 <= n /\ skip + n <= Len(Data)
    /\ buffer = SubSeq(Data, skip + 1, skip + n)
    /\ h = HeadIn(Data, i)
    /\ h.uid = Zero => size = 0
    /\ body' \in Seq(Byte)
    /\ head' = h
    /\ h.uid # Zero => body' = SubSeq(buffer, at + 1, at + size)
    /\ foot' = buffer[at + size + 1]
    /\ sid' = SessionID(h)
    /\ bFastIntegrity' = (XOR(Bytes(head', body', foot')) = Zero)
    /\ BytesRead' = at + size + 1
  BY DEF Given, PacketRead
<1>1. Data \in Seq(Byte)  BY DEF NetInv, TypeOK
<1>2. HeadSize \in Nat  BY SyncwordType
<1>3. i + HeadSize + size + 1 <= skip + n  BY <1>2
<1>4. PICK e \in Nat : e = i + HeadSize + size + 1  BY <1>2
<1>5. PICK b \in Seq(Byte) : b = body'  OBVIOUS
<1>6. PICK s \in Seq(Byte) : s = Data  BY <1>1
<1>7. BytesTaken(s, i, size, buffer[at + size + 1], h, b)
  <2>1. BufferAt(s, i, skip, n, at, size, buffer, h, b)  BY <1>5, <1>6 DEF BufferAt
  <2> QED  BY <2>1, BufferBytes
<1>8. foot' = Data[e] /\ Data[e] \in Byte  BY <1>4, <1>6, <1>7 DEF BytesTaken
<1>9. /\ h.uid # Zero => b = SubSeq(Data, i + HeadSize + 1, i + HeadSize + size)
      /\ Bytes(h, b, Data[e]) = SubSeq(Data, i + 1, i + (HeadSize + size + 1))
  BY <1>4, <1>6, <1>7 DEF BytesTaken
<1>10. h \in HeadType
  <2>1. i + HeadSize <= Len(Data)  BY <1>2
  <2> QED  BY <1>1, <2>1, HeadInType
<1>11. ReadType
  <2>1. bFastIntegrity' \in BOOLEAN  OBVIOUS
  <2>2. BytesRead' \in Nat  OBVIOUS
  <2> QED  BY <1>8, <1>10, <2>1, <2>2, SessionIDType DEF ReadType
<1>12. Bytes(head', body', foot') = SubSeq(Data, i + 1, i + (HeadSize + size + 1))
  BY <1>5, <1>8, <1>9
<1>13. BytesRead' = i + HeadSize + size + 1 - skip  BY <1>2
<1>14. head'.uid # Zero => body' = SubSeq(Data, i + HeadSize + 1, i + HeadSize + size)
  BY <1>5, <1>9
<1>15. size >= 0  OBVIOUS
<1> QED
  BY <1>3, <1>4, <1>8, <1>11, <1>12, <1>13, <1>14, <1>15 DEF Reading

Reads(i, size, skip, n) ==
    /\ ReadType /\ Reading(i, size, skip, n)
    /\ BytesRead' <= n /\ (n > 0 => BytesRead' > 0)
    /\ Len(body') = Len(body) \/ Len(body') = size

LEMMA ReadSizedReads ==
    ASSUME NetInv, NEW i, NEW skip, NEW n, NEW at, NEW size, NEW buffer, NEW h,
           Given(i, skip, n, at, size, buffer, h), ReadSized(size, h, buffer, at)
    PROVE  Reads(i, size, skip, n)
<1> /\ i \in Nat /\ skip \in Nat /\ n \in Nat /\ at \in Nat /\ size \in Int
    /\ SyncAt(Data, i) /\ i + HeadSize = skip + at
    /\ at <= n /\ skip + n <= Len(Data)
    /\ buffer = SubSeq(Data, skip + 1, skip + n)
    /\ h = HeadIn(Data, i)
    /\ h.uid = Zero => size = 0
  BY DEF Given
<1>1. /\ Data \in Seq(Byte) /\ head \in HeadType /\ body \in Seq(Byte) /\ foot \in Byte
  BY DEF NetInv, TypeOK, HeadType
<1>2. HeadSize \in Nat  BY SyncwordType
<1>3. buffer \in Seq(Byte) /\ Len(buffer) = n  BY <1>1, SubSeqIs
<1>4. h \in HeadType
  <2>1. i + HeadSize <= Len(Data)  BY <1>2
  <2> QED  BY <1>1, <2>1, HeadInType
<1>5. ASSUME size \in 0..(n - at)
      PROVE  SubSeq(buffer, at + 1, at + size) \in Seq(Byte)
             /\ Len(SubSeq(buffer, at + 1, at + size)) = size
  <2>1. size \in Nat /\ at + size <= n  BY <1>5
  <2> QED  BY <1>3, <2>1, SubSeqIs
<1>6. /\ head' = h
      /\ body' = IF size \in 0..(n - at) /\ h.uid # Zero
                 THEN SubSeq(buffer, at + 1, at + size) ELSE body
  BY <1>3 DEF ReadSized
<1>7. body' \in Seq(Byte) /\ (Len(body') = Len(body) \/ Len(body') = size)
  <2>1. CASE size \in 0..(n - at) /\ h.uid # Zero  BY <1>5, <1>6, <2>1
  <2>2. CASE ~(size \in 0..(n - at) /\ h.uid # Zero)  BY <1>1, <1>6, <2>2
  <2> QED  BY <2>1, <2>2
<1>8. CASE size \in 0..(n - at) /\ at + size < n
  <2>1. size \in Nat /\ at + size + 1 <= n  BY <1>8
  <2>2. /\ foot' = buffer[at + size + 1]
        /\ sid' = SessionID(h)
        /\ bFastIntegrity' = (XOR(Bytes(head', body', foot')) = Zero)
        /\ BytesRead' = at + size + 1
    BY <1>3, <1>8 DEF ReadSized, FootIn
  <2>3. h.uid # Zero => body' = SubSeq(buffer, at + 1, at + size)  BY <1>6, <1>8
  <2>4. ReadType /\ Reading(i, size, skip, n)
    <3>1. PacketRead(n, at, size, buffer, h)
      BY <1>6, <1>7, <2>1, <2>2, <2>3 DEF PacketRead
    <3> QED  BY <3>1, ReadingIs
  <2>5. BytesRead' <= n /\ BytesRead' > 0  BY <2>1, <2>2
  <2> QED  BY <1>7, <2>4, <2>5 DEF Reads
<1>9. CASE ~(size \in 0..(n - at) /\ at + size < n)
  <2>1. ~(size >= 0 /\ i + HeadSize + size + 1 <= skip + n)  BY <1>2, <1>9
  <2>2. /\ foot' = foot /\ bFastIntegrity' = FALSE /\ BytesRead' = n
        /\ sid' = IF h.uid = Zero THEN SessionID(h) ELSE Zero
    BY <1>3, <1>9 DEF ReadSized
  <2>3. sid' \in SUBSET SidBits  BY <2>2, SessionIDType DEF Zero
  <2>4. ReadType  BY <1>1, <1>4, <1>6, <1>7, <2>2, <2>3 DEF ReadType
  <2>5. Reading(i, size, skip, n)  BY <1>6, <2>1, <2>2 DEF Reading
  <2>6. BytesRead' <= n /\ (n > 0 => BytesRead' > 0)  BY <2>2
  <2> QED  BY <1>7, <2>4, <2>5, <2>6 DEF Reads
<1> QED  BY <1>8, <1>9

\* After a call whose answer is one packet read or a failure, the invariant
\* holds, if it may send on only what says its size.
LEMMA ReadingInv ==
    ASSUME NetInv, NEW i \in Nat, NEW skip \in Nat, NEW n \in Nat, NEW size \in Int,
           skip + n <= Len(Data), NEW valid,
           ReadType, Reading(i, size, skip, n), Consume(skip, n, valid),
           valid => bFastIntegrity',
           valid => head'.uid = Zero \/ SizeOf[head'.size] = size
    PROVE  NetInv'
<1>1. /\ StreamInv' /\ Data' \in Seq(Byte) /\ aligned' \in BOOLEAN
      /\ offered' \in Nat /\ sealed' \in {"no", "clean", "again"}
  <2>1. BytesRead' \in Nat  BY DEF ReadType
  <2> QED  BY <2>1, ConsumeInv
<1>2. TypeOK'  BY <1>1 DEF TypeOK, ReadType, HeadType
<1>3. sealed' = IF valid /\ BytesRead' <= n THEN "clean" ELSE "no"  BY DEF Consume
<1>4. CASE ~(valid /\ BytesRead' <= n)  BY <1>1, <1>2, <1>3, <1>4 DEF PacketInv, NetInv
<1>5. CASE valid /\ BytesRead' <= n
  <2>1. size >= 0 /\ i + HeadSize + size + 1 <= skip + n
    <3>1. SUFFICES ASSUME ~(size >= 0 /\ i + HeadSize + size + 1 <= skip + n)
                   PROVE  FALSE
      OBVIOUS
    <3>2. (BytesRead' = n /\ ~bFastIntegrity') \/ BytesRead' = n + 1  BY <3>1 DEF Reading
    <3>3. BytesRead' = n + 1  BY <1>5, <3>2
    <3> QED  BY <1>5, <3>3
  <2>2. /\ bFastIntegrity' = (XOR(Bytes(head', body', foot')) = Zero)
        /\ head'.uid # Zero => body' = SubSeq(Data, i + HeadSize + 1, i + HeadSize + size)
    BY <2>1 DEF Reading
  <2>3. XOR(Bytes(head', body', foot')) = Zero  BY <1>5, <2>2
  <2>4. head'.uid # Zero => Len(body') = size
    <3>1. i + HeadSize \in Nat /\ size \in Nat /\ (i + HeadSize) + size <= Len(Data)
      BY <2>1, SyncwordType
    <3>2. Data \in Seq(Byte)  BY DEF NetInv, TypeOK
    <3>3. Len(SubSeq(Data, (i + HeadSize) + 1, (i + HeadSize) + size)) = size
      BY <3>1, <3>2, SubSeqIs
    <3> QED  BY <2>2, <3>3
  <2>5. head'.uid = Zero \/ SizeOf[head'.size] = Len(body')  BY <1>5, <2>4
  <2>6. PacketInv'  BY <2>3, <2>5 DEF PacketInv
  <2> QED  BY <1>1, <1>2, <2>6 DEF NetInv
<1> QED  BY <1>4, <1>5
-----------------------------------------------------------------------------
(* Finding the packet that was sent *)

Unframed == sent # Nothing /\ sent.damage # "framing"

LEMMA SentFacts ==
    ASSUME NetInv, Unframed
    PROVE  /\ SentType /\ SentInv
           /\ Layout(SentBytes, sent.head, sent.body, sent.foot)
           /\ sent.head \in HeadType /\ sent.body \in Seq(Byte) /\ sent.length \in Nat
           /\ SentBytes \in Seq(Byte) /\ Len(SentBytes) = HeadSize + Len(sent.body) + 1
           /\ Start \in Nat /\ Start + Len(SentBytes) = sent.length
           /\ sent.length <= Len(Data)
<1>1. SentType /\ SentInv  BY DEF NetInv, StreamInv, Unframed
<1>2. sent.head.uid = Zero => sent.body = <<>>  BY <1>1 DEF SentInv
<1>3. /\ Layout(SentBytes, sent.head, sent.body, sent.foot)
      /\ SentBytes \in Seq(Byte) /\ Len(SentBytes) = HeadSize + Len(sent.body) + 1
  BY <1>1, <1>2, SentBytesAre
<1>4. sent.head \in HeadType /\ sent.body \in Seq(Byte) /\ sent.length \in Nat
  BY <1>1 DEF SentType
<1>5. Start \in Nat /\ sent.length <= Len(Data)  BY <1>1 DEF SentInv
<1>6. Start + Len(SentBytes) = sent.length
  <2>1. PICK n \in Nat : n = Len(SentBytes)  BY <1>3
  <2>2. Start = sent.length - n  BY <2>1 DEF Start
  <2>3. Start + n = sent.length  BY <1>4, <1>5, <2>1, <2>2
  <2> QED  BY <2>1, <2>3
<1> QED  BY <1>1, <1>3, <1>4, <1>5, <1>6

\* The bytes in the stream where the packet was put.
LEMMA ArrivingBytes ==
    ASSUME NetInv, Unframed
    PROVE  \A k \in 1..Len(SentBytes) :
             /\ k <= Len(Syncword) \/ k \in {Len(Syncword) + 2, Len(Syncword) + 3}
                    => Data[Start + k] = SentBytes[k]
             /\ sent.damage = "none" => Data[Start + k] = SentBytes[k]
<1>1. SentInv /\ sent.damage \in {"none", "payload"}
  BY SentFacts DEF SentType, Unframed
<1>2. PICK l \in Nat : l = Len(Syncword)  BY SyncwordType
<1>3. PICK n \in Nat : n = Len(SentBytes)  BY SentFacts
<1>4. CASE sent.damage = "none"  BY <1>1, <1>4 DEF SentInv
<1>5. CASE sent.damage = "payload"
  <2>1. PICK j \in Payload(n), bit \in Bits :
            \A k \in 1..n :
                Data[Start + k] = IF k = j THEN Toggle(SentBytes[k], bit) ELSE SentBytes[k]
    BY <1>1, <1>3, <1>5 DEF SentInv
  <2>2. j \in (l + 1)..n /\ j # l + 2 /\ j # l + 3  BY <1>2, <2>1 DEF Payload
  <2>3. ASSUME NEW k \in 1..n, k <= l \/ k \in {l + 2, l + 3}
        PROVE  Data[Start + k] = SentBytes[k]
    <3>1. k # j  BY <2>2, <2>3
    <3> QED  BY <2>1, <3>1
  <2> QED  BY <1>2, <1>3, <1>5, <2>3
<1> QED  BY <1>1, <1>4, <1>5

LEMMA SentAt ==
    ASSUME NetInv, Unframed
    PROVE  /\ SyncAt(Data, Start)
           /\ \A i \in Nat : SyncAt(Data, i) => Start <= i
           /\ HeadIn(Data, Start).uid = sent.head.uid
           /\ HeadIn(Data, Start).size = sent.head.size
           /\ sent.damage = "none" => HeadIn(Data, Start) = sent.head
<1>1. PICK l \in Nat : l = Len(Syncword) /\ HeadSize = l + 4  BY SyncwordType
<1>2. PICK n \in Nat : n = Len(SentBytes) /\ n >= l + 5
  <2>1. sent.body \in Seq(Byte) /\ SentBytes \in Seq(Byte)  BY SentFacts
  <2>2. PICK c \in Nat : c = Len(sent.body)  BY <2>1
  <2>3. Len(SentBytes) = (l + 4) + c + 1  BY <1>1, <2>2, SentFacts
  <2> QED  BY <2>3
<1>3. PICK q \in Nat : q = Start /\ q + n <= Len(Data)  BY <1>2, SentFacts
<1>4. PICK s \in Seq(Byte) : s = SentBytes  BY SentFacts
<1>5. Layout(s, sent.head, sent.body, sent.foot)  BY <1>4, SentFacts
<1>6. \A k \in 1..n :
        /\ k <= l \/ k \in {l + 2, l + 3} => Data[q + k] = s[k]
        /\ sent.damage = "none" => Data[q + k] = s[k]
  BY <1>1, <1>2, <1>3, <1>4, ArrivingBytes
<1>7. SyncAt(Data, q)
  <2>1. q + l <= Len(Data)
    <3>1. Len(Data) \in Nat  BY DEF NetInv, TypeOK
    <3> QED  BY <1>2, <1>3, <3>1
  <2>2. ASSUME NEW k \in 1..l  PROVE Data[q + k] = Syncword[k]
    <3>1. k \in 1..n /\ k <= l  BY <1>2
    <3>2. Data[q + k] = s[k]  BY <1>6, <3>1
    <3>3. s[k] = Syncword[k]  BY <1>1, <1>5 DEF Layout
    <3> QED  BY <3>2, <3>3
  <2> QED  BY <1>1, <2>1, <2>2 DEF SyncAt
<1>8. ASSUME NEW i \in Nat, SyncAt(Data, i)  PROVE q <= i
  <2>1. \A j \in Nat : j < q => ~SyncAt(Data, j)
    BY <1>3, SentFacts DEF SentInv, Unframed
  <2> QED  BY <1>8, <2>1
<1>9. PICK h : h = HeadIn(Data, q)  OBVIOUS
<1>10. /\ h = [fastcode |-> Data[q + l + 1], uid |-> Data[q + l + 2],
               size |-> Data[q + l + 3], reserved |-> Data[q + l + 4]]
  BY <1>1, <1>9 DEF HeadIn
<1>11. /\ l + 1 \in 1..n /\ l + 2 \in 1..n /\ l + 3 \in 1..n /\ l + 4 \in 1..n
       /\ q + (l + 1) = q + l + 1 /\ q + (l + 2) = q + l + 2
       /\ q + (l + 3) = q + l + 3 /\ q + (l + 4) = q + l + 4
  BY <1>2
<1>12. Data[q + l + 2] = s[l + 2] /\ Data[q + l + 3] = s[l + 3]
  <2>1. Data[q + (l + 2)] = s[l + 2] /\ Data[q + (l + 3)] = s[l + 3]  BY <1>6, <1>11
  <2> QED  BY <1>11, <2>1
<1>13. /\ s[l + 1] = sent.head.fastcode /\ s[l + 2] = sent.head.uid
       /\ s[l + 3] = sent.head.size /\ s[l + 4] = sent.head.reserved
  BY <1>1, <1>5 DEF Layout
<1>14. h.uid = sent.head.uid /\ h.size = sent.head.size  BY <1>10, <1>12, <1>13
<1>15. ASSUME sent.damage = "none"  PROVE h = sent.head
  <2>1. Data[q + (l + 1)] = s[l + 1] /\ Data[q + (l + 4)] = s[l + 4]
    BY <1>6, <1>11, <1>15
  <2>2. Data[q + l + 1] = s[l + 1] /\ Data[q + l + 4] = s[l + 4]  BY <1>11, <2>1
  <2>3. sent.head \in HeadType  BY SentFacts
  <2> QED  BY <1>10, <1>12, <1>13, <2>2, <2>3 DEF HeadType
<1> QED  BY <1>3, <1>7, <1>8, <1>9, <1>14, <1>15

\* What arrives has the XOR of what was sent, unless one of its bits has been
\* altered.
LEMMA ArrivingXOR ==
    ASSUME NetInv, Unframed, sent.sealed = "clean", NEW r,
           r = SubSeq(Data, Start + 1, Start + Len(SentBytes))
    PROVE  XOR(r) = Zero <=> sent.damage = "none"
<1>1. SentInv /\ XOR(SentBytes) = Zero /\ sent.damage \in {"none", "payload"}
  BY SentFacts DEF SentInv, SentType, Unframed
<1>2. PICK s \in Seq(Byte) : s = SentBytes  BY SentFacts
<1>3. PICK n \in Nat : n = Len(s)  OBVIOUS
<1>4. PICK q \in Nat : q = Start /\ q + n <= Len(Data)  BY <1>2, <1>3, SentFacts
<1>5. r \in Seq(Byte) /\ Len(r) = n /\ \A k \in 1..n : r[k] = Data[q + k]
  <2>1. PICK d \in Seq(Byte) : d = Data  BY DEF NetInv, TypeOK
  <2>2. r = SubSeq(d, q + 1, q + n) /\ q + n <= Len(d)  BY <1>2, <1>3, <1>4, <2>1
  <2>3. PICK t : t = SubSeq(d, q + 1, q + n)  OBVIOUS
  <2>4. t \in Seq(Byte) /\ Len(t) = n /\ \A k \in 1..n : t[k] = d[q + k]
    <3>1. q + n <= Len(d)  BY <2>2
    <3> QED  BY <2>3, <3>1, SubSeqIs
  <2> QED  BY <2>1, <2>2, <2>3, <2>4
<1>6. CASE sent.damage = "none"
  <2>1. \A k \in 1..n : Data[q + k] = s[k]  BY <1>1, <1>2, <1>3, <1>4, <1>6 DEF SentInv
  <2>2. r = s
    <3>1. \A k \in 1..Len(r) : r[k] = s[k]  BY <1>5, <2>1
    <3> QED  BY <1>3, <1>5, <3>1, SeqEqual
  <2> QED  BY <1>1, <1>2, <1>6, <2>2
<1>7. CASE sent.damage = "payload"
  <2>1. PICK j \in Payload(n), bit \in Bits :
            \A k \in 1..n : Data[q + k] = IF k = j THEN Toggle(s[k], bit) ELSE s[k]
    BY <1>1, <1>2, <1>3, <1>4, <1>7 DEF SentInv
  <2>2. j \in 1..n
    <3>1. PICK l \in Nat : l = Len(Syncword)  BY SyncwordType
    <3>2. j \in (l + 1)..n  BY <2>1, <3>1 DEF Payload
    <3> QED  BY <3>2
  <2>3. \A k \in 1..n : k # j => r[k] = s[k]  BY <1>5, <2>1
  <2>4. r[j] = Toggle(s[j], bit)  BY <1>5, <2>1, <2>2
  <2>5. bit \in XOR(r) <=> (bit \in XOR(s) <=> (bit \in s[j] <=> bit \in r[j]))
    <3>1. j \in 1..Len(s) /\ Len(r) = Len(s) /\ \A k \in 1..Len(s) : k # j => r[k] = s[k]
      BY <1>3, <1>5, <2>2, <2>3
    <3>2. PICK t \in Seq(Byte) : t = r  BY <1>5
    <3>3. PICK i \in 1..Len(s) : i = j  BY <3>1
    <3>4. Len(t) = Len(s) /\ \A k \in 1..Len(s) : k # i => t[k] = s[k]
      BY <3>1, <3>2, <3>3
    <3>5. bit \in XOR(t) <=> (bit \in XOR(s) <=> (bit \in s[i] <=> bit \in t[i]))
      BY <3>4, XORChange
    <3> QED  BY <3>2, <3>3, <3>5
  <2>6. bit \in r[j] <=> bit \notin s[j]  BY <2>4 DEF Toggle
  <2>7. bit \notin XOR(s)  BY <1>1, <1>2 DEF Zero
  <2>8. bit \in XOR(r)  BY <2>5, <2>6, <2>7
  <2>9. XOR(r) # Zero  BY <2>8 DEF Zero
  <2> QED  BY <1>7, <2>9
<1> QED  BY <1>1, <1>6, <1>7

\* The body and the foot of an undamaged packet.
LEMMA ArrivingBody ==
    ASSUME NetInv, Unframed, sent.damage = "none"
    PROVE  /\ SubSeq(Data, Start + HeadSize + 1, Start + HeadSize + Len(sent.body))
                 = sent.body
           /\ Data[Start + HeadSize + Len(sent.body) + 1] = sent.foot
<1>1. PICK b \in Seq(Byte) : b = sent.body  BY SentFacts
<1>2. PICK c \in Nat : c = Len(b)  OBVIOUS
<1>3. PICK l \in Nat : l = HeadSize  BY SyncwordType
<1>4. PICK s \in Seq(Byte) : s = SentBytes /\ Len(s) = l + c + 1
  BY <1>1, <1>2, <1>3, SentFacts
<1>5. PICK d \in Seq(Byte) : d = Data  BY DEF NetInv, TypeOK
<1>6. PICK q \in Nat : q = Start /\ q + (l + c + 1) <= Len(d)
  BY <1>4, <1>5, SentFacts
<1>7. \A k \in 1..(l + c + 1) : d[q + k] = s[k]
  BY <1>4, <1>5, <1>6, SentFacts DEF SentInv
<1>8. Layout(s, sent.head, b, sent.foot)  BY <1>1, <1>4, SentFacts
<1>9. PICK t : t = SubSeq(d, (q + l) + 1, (q + l) + c)  OBVIOUS
<1>10. t \in Seq(Byte) /\ Len(t) = c /\ \A k \in 1..c : t[k] = d[(q + l) + k]
  <2>1. q + l \in Nat /\ (q + l) + c <= Len(d)  BY <1>6
  <2> QED  BY <1>9, <2>1, SubSeqIs
<1>11. ASSUME NEW k \in 1..c  PROVE t[k] = b[k]
  <2>1. l + k \in 1..(l + c + 1) /\ q + (l + k) = (q + l) + k  OBVIOUS
  <2>2. d[q + (l + k)] = s[l + k]  BY <1>7, <2>1
  <2>3. s[l + k] = b[k]  BY <1>2, <1>3, <1>8 DEF Layout
  <2> QED  BY <1>10, <2>1, <2>2, <2>3
<1>12. t = b  BY <1>2, <1>10, <1>11, SeqEqual
<1>13. d[q + l + c + 1] = sent.foot
  <2>1. l + c + 1 \in 1..(l + c + 1) /\ q + (l + c + 1) = q + l + c + 1  OBVIOUS
  <2>2. d[q + (l + c + 1)] = s[l + c + 1]  BY <1>7, <2>1
  <2>3. s[l + c + 1] = sent.foot  BY <1>2, <1>3, <1>8 DEF Layout
  <2> QED  BY <2>1, <2>2, <2>3
<1> QED  BY <1>1, <1>2, <1>3, <1>5, <1>6, <1>9, <1>12, <1>13
-----------------------------------------------------------------------------
(* What a call is given *)

NoSync(buffer) ==
    SyncwordAt(buffer) # {} => Len(buffer) - FirstSyncword(buffer) < HeadSize

\* i is the first index with a syncword among the first n bytes of s.
FirstAt(s, n, buffer, i) ==
    /\ buffer \in Seq(Byte) /\ Len(buffer) = n
    /\ i \in Nat /\ SyncAt(s, i)
    /\ \A j \in Nat : SyncAt(s, j) /\ j + Len(Syncword) + 1 <= n => i <= j
    /\ i + HeadSize <= n => HeadIn(buffer, i) = HeadIn(s, i)

LEMMA FirstIs ==
    ASSUME NEW s \in Seq(Byte), NEW n \in 0..Len(s), NEW buffer,
           buffer = SubSeq(s, 1, n), SyncwordAt(buffer) # {},
           NEW i, i = FirstSyncword(buffer)
    PROVE  FirstAt(s, n, buffer, i)
<1>1. PICK l \in Nat : l = Len(Syncword) /\ HeadSize = l + 4  BY SyncwordType
<1>2. buffer \in Seq(Byte) /\ Len(buffer) = n /\ \A k \in 1..n : buffer[k] = s[k]
  <2>1. PICK z : z = 0  OBVIOUS
  <2>2. z + 1 = 1 /\ z + n = n /\ z \in Nat /\ n \in Nat /\ z + n <= Len(s)
        /\ \A k \in 1..n : z + k = k
    BY <2>1
  <2>3. PICK t : t = SubSeq(s, z + 1, z + n)  OBVIOUS
  <2>4. t \in Seq(Byte) /\ Len(t) = n /\ \A k \in 1..n : t[k] = s[z + k]
    BY <2>2, <2>3, SubSeqIs
  <2> QED  BY <2>2, <2>3, <2>4
<1>3. i \in SyncwordAt(buffer) /\ \A j \in SyncwordAt(buffer) : i <= j
  BY <1>2, FirstSyncwordIs
<1>4. i \in Nat /\ SyncAt(buffer, i)  BY <1>2, <1>3, SyncwordAtIs
<1>5. SyncAt(s, i)  BY <1>4, SyncPrefix
<1>6. ASSUME NEW j \in Nat, SyncAt(s, j), j + l + 1 <= n  PROVE i <= j
  <2>1. j + l <= n  BY <1>6
  <2>2. SyncAt(buffer, j)  BY <1>1, <1>6, <2>1, SyncPrefix
  <2>3. j \in SyncwordAt(buffer)  BY <1>1, <1>2, <1>6, <2>2, SyncwordAtIs
  <2> QED  BY <1>3, <2>3
<1>7. ASSUME i + HeadSize <= n  PROVE HeadIn(buffer, i) = HeadIn(s, i)
  <2>1. /\ (i + l) + 1 \in 1..n /\ (i + l) + 2 \in 1..n
        /\ (i + l) + 3 \in 1..n /\ (i + l) + 4 \in 1..n
    BY <1>1, <1>4, <1>7
  <2>2. /\ buffer[(i + l) + 1] = s[(i + l) + 1] /\ buffer[(i + l) + 2] = s[(i + l) + 2]
        /\ buffer[(i + l) + 3] = s[(i + l) + 3] /\ buffer[(i + l) + 4] = s[(i + l) + 4]
    BY <1>2, <2>1
  <2> QED  BY <1>1, <2>2 DEF HeadIn
<1> QED  BY <1>1, <1>2, <1>4, <1>5, <1>6, <1>7 DEF FirstAt

\* The head a call finds is that of the packet that was sent.
LEMMA FindsSent ==
    ASSUME NetInv, NEW n \in 0..Len(Data), NEW buffer, buffer = SubSeq(Data, 1, n),
           SyncwordAt(buffer) # {}, NEW i, i = FirstSyncword(buffer)
    PROVE  /\ buffer \in Seq(Byte) /\ Len(buffer) = n
           /\ i \in Nat /\ SyncAt(Data, i)
           /\ i + HeadSize <= n => HeadIn(buffer, i) = HeadIn(Data, i)
           /\ Unframed => Start <= i
           /\ Unframed /\ i + HeadSize <= n => i = Start
           /\ Unframed /\ Start + HeadSize <= n => i = Start
<1>1. PICK s \in Seq(Byte) : s = Data  BY DEF NetInv, TypeOK
<1>2. /\ buffer \in Seq(Byte) /\ Len(buffer) = n
      /\ i \in Nat /\ SyncAt(s, i)
      /\ \A j \in Nat : SyncAt(s, j) /\ j + Len(Syncword) + 1 <= n => i <= j
      /\ i + HeadSize <= n => HeadIn(buffer, i) = HeadIn(s, i)
  <2>1. n \in 0..Len(s) /\ buffer = SubSeq(s, 1, n)  BY <1>1
  <2>2. FirstAt(s, n, buffer, i)  BY <2>1, FirstIs
  <2> QED  BY <2>2 DEF FirstAt
<1>3. PICK l \in Nat : l = Len(Syncword) /\ HeadSize = l + 4  BY SyncwordType
<1>4. ASSUME Unframed  PROVE Start \in Nat /\ Start <= i /\ SyncAt(Data, Start)
  BY <1>1, <1>2, <1>4, SentAt, SentFacts
<1>5. ASSUME Unframed, Start + HeadSize <= n  PROVE i = Start
  <2>1. PICK q \in Nat : q = Start  BY <1>4, <1>5
  <2>2. q + l + 1 <= n  BY <1>3, <1>5, <2>1
  <2>3. SyncAt(s, q)  BY <1>1, <1>4, <1>5, <2>1
  <2>4. i <= q  BY <1>2, <1>3, <2>2, <2>3
  <2> QED  BY <1>2, <1>4, <1>5, <2>1, <2>4
<1>6. ASSUME Unframed, i + HeadSize <= n  PROVE i = Start
  <2>1. PICK q \in Nat : q = Start /\ q <= i  BY <1>4, <1>6
  <2>2. q + HeadSize <= n  BY <1>2, <1>3, <1>6, <2>1
  <2> QED  BY <1>5, <1>6, <2>1, <2>2
<1> QED  BY <1>1, <1>2, <1>4, <1>5, <1>6

\* When a call finds no head, the head of the packet has not arrived.
LEMMA NoSyncIs ==
    ASSUME NetInv, NEW n \in 0..Len(Data), NoSync(SubSeq(Data, 1, n)), Unframed
    PROVE  n < Start + HeadSize
<1>1. PICK s \in Seq(Byte) : s = Data  BY DEF NetInv, TypeOK
<1>2. PICK buffer : buffer = SubSeq(Data, 1, n)  OBVIOUS
<1>3. PICK l \in Nat : l = Len(Syncword) /\ HeadSize = l + 4  BY SyncwordType
<1>4. PICK q \in Nat : q = Start  BY SentFacts
<1>5. SUFFICES ASSUME q + HeadSize <= n  PROVE FALSE
  BY <1>3, <1>4
<1>6. q \in SyncwordAt(buffer)
  <2>1. n \in 0..Len(s) /\ buffer = SubSeq(s, 1, n)  BY <1>1, <1>2
  <2>2. buffer \in Seq(Byte) /\ Len(buffer) = n
    <3>1. PICK z : z = 0  OBVIOUS
    <3>2. z + 1 = 1 /\ z + n = n /\ z \in Nat /\ n \in Nat /\ z + n <= Len(s)
      BY <2>1, <3>1
    <3>3. PICK t : t = SubSeq(s, z + 1, z + n)  OBVIOUS
    <3>4. t \in Seq(Byte) /\ Len(t) = n  BY <3>2, <3>3, SubSeqIs
    <3> QED  BY <2>1, <3>2, <3>3, <3>4
  <2>3. SyncAt(s, q)  BY <1>1, <1>4, SentAt
  <2>4. q + l <= n /\ q + l + 1 <= n  BY <1>3, <1>5
  <2>5. SyncAt(buffer, q)  BY <1>3, <2>1, <2>3, <2>4, SyncPrefix
  <2> QED  BY <1>3, <2>2, <2>4, <2>5, SyncwordAtIs
<1>7. PICK i : i = FirstSyncword(buffer)  OBVIOUS
<1>8. Len(buffer) = n /\ i = q
  BY <1>2, <1>4, <1>5, <1>6, <1>7, FindsSent
<1>9. n - q < HeadSize  BY <1>2, <1>6, <1>7, <1>8 DEF NoSync
<1> QED  BY <1>3, <1>5, <1>9

-----------------------------------------------------------------------------
(* What is claimed of a call *)

\* A packet that has not arrived as a whole is not taken for one.
NotWhole ==
    expected.length > offered /\ expected.damage # "framing"
        => ~(bFastIntegrity /\ BytesRead <= offered)

Claims == RoundTrip /\ DamageDetected /\ NotWhole

LEMMA ForgetClaims == ASSUME Forget  PROVE Claims' /\ ReadsForward'
<1>1. expected' = Nothing /\ offered' = 0 /\ BytesRead' = 0  BY DEF Forget
<1>2. /\ Nothing.length = 0 /\ Nothing.sealed = "no"
  BY DEF Nothing
<1>3. RoundTrip'  BY <1>1, <1>2 DEF RoundTrip, Whole
<1>4. DamageDetected'  BY <1>1, <1>2 DEF DamageDetected
<1>5. NotWhole'  BY <1>1, <1>2 DEF NotWhole
<1>6. ReadsForward'  BY <1>1 DEF ReadsForward
<1> QED  BY <1>3, <1>4, <1>5, <1>6 DEF Claims

\* What a call expects: nothing, or what is left of the packet that was sent.
LEMMA ExpectedIs ==
    ASSUME NetInv, NEW skip \in Nat, NEW n \in Nat, NEW valid, Consume(skip, n, valid)
    PROVE  /\ offered' = n
           /\ sent = Nothing => expected' = Nothing
           /\ sent # Nothing =>
                /\ expected'.length = sent.length - skip
                /\ expected'.sealed = sent.sealed /\ expected'.damage = sent.damage
                /\ expected'.head = sent.head /\ expected'.body = sent.body
                /\ expected'.foot = sent.foot
<1>1. /\ offered' = n
      /\ expected' = IF sent # Nothing THEN [sent EXCEPT !.length = @ - skip] ELSE Nothing
  BY DEF Consume
<1>2. SentType  BY DEF NetInv, StreamInv
<1> QED  BY <1>1, <1>2 DEF SentType

\* Of an unsent or a misframed packet nothing is claimed.
LEMMA UnclaimedClaims ==
    ASSUME NetInv, NEW skip \in Nat, NEW n \in Nat, NEW valid, Consume(skip, n, valid),
           ~Unframed
    PROVE  Claims'
<1>1. CASE sent = Nothing
  <2>1. expected' = Nothing /\ offered' = n  BY <1>1, ExpectedIs
  <2>2. Nothing.length = 0 /\ Nothing.sealed = "no"  BY DEF Nothing
  <2>3. RoundTrip'  BY <2>1, <2>2 DEF RoundTrip, Whole
  <2>4. DamageDetected'  BY <2>1, <2>2 DEF DamageDetected
  <2>5. NotWhole'
    <3>1. ~(expected'.length > offered')  BY <2>1, <2>2
    <3> QED  BY <3>1 DEF NotWhole
  <2> QED  BY <2>3, <2>4, <2>5 DEF Claims
<1>2. CASE sent # Nothing
  <2>1. expected'.damage = "framing"  BY <1>2, ExpectedIs DEF Unframed
  <2> QED  BY <2>1 DEF Claims, RoundTrip, DamageDetected, NotWhole
<1> QED  BY <1>1, <1>2

\* A call that does not read the packet does not take it.
LEMMA FailedClaims ==
    ASSUME NetInv, NEW skip \in Nat, NEW n \in Nat, NEW valid, Consume(skip, n, valid),
           Unframed, sent.length > skip + n,
           ~bFastIntegrity' \/ BytesRead' = n + 1
    PROVE  Claims'
<1>1. /\ offered' = n /\ expected'.length = sent.length - skip
  BY ExpectedIs DEF Unframed
<1>2. sent.length \in Nat  BY SentFacts
<1>3. expected'.length > offered' /\ ~(expected'.length \in 1..offered')  BY <1>1, <1>2
<1>4. ~(bFastIntegrity' /\ BytesRead' <= offered')
  <2>1. CASE ~bFastIntegrity'  BY <2>1
  <2>2. CASE BytesRead' = n + 1
    <3>1. ~(BytesRead' <= offered')  BY <1>1, <2>2
    <3> QED  BY <3>1
  <2> QED  BY <2>1, <2>2
<1>5. RoundTrip'  BY <1>3 DEF RoundTrip, Whole
<1>6. DamageDetected' /\ NotWhole'  BY <1>4 DEF DamageDetected, NotWhole
<1> QED  BY <1>5, <1>6 DEF Claims

LEMMA ReadingClaims ==
    ASSUME NetInv, NEW i \in Nat, NEW skip \in Nat, NEW n \in Nat, NEW size \in Int,
           NEW valid, Reading(i, size, skip, n), Consume(skip, n, valid),
           Unframed, i = Start, size = Len(sent.body)
    PROVE  Claims'
<1>1. PICK l \in Nat : l = HeadSize  BY SyncwordType
<1>2. PICK c \in Nat : c = size
  <2>1. sent.body \in Seq(Byte)  BY SentFacts
  <2>2. Len(sent.body) \in Nat  BY <2>1
  <2> QED  BY <2>2
<1>3. PICK e \in Nat : e = sent.length /\ e = i + l + c + 1
  <2>1. PICK m \in Nat : m = Len(SentBytes)  BY SentFacts
  <2>2. PICK e \in Nat : e = sent.length  BY SentFacts
  <2>3. m = l + c + 1  BY <1>1, <1>2, <2>1, SentFacts
  <2>4. i + m = e  BY <2>1, <2>2, SentFacts
  <2>5. e = i + l + c + 1  BY <2>3, <2>4
  <2> QED  BY <2>2, <2>5
<1>4. Reading(i, c, skip, n)  BY <1>2
<1>5. CASE e > skip + n
  <2>1. (BytesRead' = n /\ ~bFastIntegrity') \/ BytesRead' = n + 1
    <3>1. ~(i + l + c + 1 <= skip + n)  BY <1>3, <1>5
    <3> QED  BY <1>4, <1>1, <3>1 DEF Reading
  <2>2. ~bFastIntegrity' \/ BytesRead' = n + 1  BY <2>1
  <2>3. sent.length > skip + n  BY <1>3, <1>5
  <2> QED  BY <2>2, <2>3, FailedClaims
<1>6. CASE e <= skip + n
  <2>1. c >= 0 /\ i + l + c + 1 <= skip + n  BY <1>3, <1>6
  <2>2. /\ head' = HeadIn(Data, i)
        /\ BytesRead' = i + l + c + 1 - skip
        /\ Bytes(head', body', foot') = SubSeq(Data, i + 1, i + (l + c + 1))
        /\ head'.uid # Zero => body' = SubSeq(Data, i + l + 1, i + l + c)
        /\ foot' = Data[i + l + c + 1]
        /\ sid' = SessionID(head')
        /\ bFastIntegrity' = (XOR(Bytes(head', body', foot')) = Zero)
    BY <1>4, <1>1, <2>1 DEF Reading
  <2>3. /\ offered' = n /\ expected'.length = sent.length - skip
        /\ expected'.sealed = sent.sealed /\ expected'.damage = sent.damage
        /\ expected'.head = sent.head /\ expected'.body = sent.body
        /\ expected'.foot = sent.foot
    BY ExpectedIs DEF Unframed
  <2>4. PICK r : r = SubSeq(Data, Start + 1, Start + Len(SentBytes))  OBVIOUS
  <2>5. Start + Len(SentBytes) = i + (l + c + 1)
    <3>1. PICK m \in Nat : m = Len(SentBytes)  BY SentFacts
    <3>2. m = l + c + 1  BY <1>1, <1>2, <3>1, SentFacts
    <3> QED  BY <3>1, <3>2
  <2>6. bFastIntegrity' = (XOR(r) = Zero)  BY <2>2, <2>4, <2>5
  <2>7. sent.sealed = "clean" => (XOR(r) = Zero <=> sent.damage = "none")
    BY <2>4, ArrivingXOR
  <2>8. DamageDetected'
    <3>1. SUFFICES ASSUME sent.sealed = "clean", sent.damage = "payload"
                   PROVE  ~bFastIntegrity'
      BY <2>3 DEF DamageDetected
    <3>2. XOR(r) # Zero  BY <2>7, <3>1
    <3> QED  BY <2>6, <3>2
  <2>9. NotWhole'
    <3>1. ~(expected'.length > offered')
      <4>1. PICK x \in Int : x = e - skip /\ x <= n  BY <1>6
      <4>2. expected'.length = x /\ offered' = n  BY <1>3, <2>3, <4>1
      <4> QED  BY <4>1, <4>2
    <3> QED  BY <3>1 DEF NotWhole
  <2>10. RoundTrip'
    <3>1. SUFFICES ASSUME sent.sealed = "clean", sent.damage = "none"
                   PROVE  Arrived(expected)'
      BY <2>3 DEF RoundTrip
    <3>2. bFastIntegrity'  BY <2>6, <2>7, <3>1
    <3>3. head' = sent.head  BY <2>2, <3>1, SentAt
    <3>4. /\ SubSeq(Data, i + l + 1, i + l + c) = sent.body
          /\ Data[i + l + c + 1] = sent.foot
      BY <1>1, <1>2, <3>1, ArrivingBody
    <3>5. BytesRead' = sent.length - skip  BY <1>3, <2>2
    <3> QED  BY <2>2, <2>3, <3>2, <3>3, <3>4, <3>5 DEF Arrived
  <2> QED  BY <2>8, <2>9, <2>10 DEF Claims
<1>7. e > skip + n \/ e <= skip + n  BY <1>3
<1> QED  BY <1>5, <1>6, <1>7
-----------------------------------------------------------------------------
(* Calls *)

\* What every call leaves.
CallMade(n) ==
    /\ NetInv' /\ Claims'
    /\ offered' = n /\ BytesRead' \in Nat

LEMMA ReadSizedMakes ==
    ASSUME NetInv, NEW i, NEW skip, NEW n, NEW at, NEW size, NEW buffer, NEW h,
           Given(i, skip, n, at, size, buffer, h), ReadSized(size, h, buffer, at),
           NEW valid, Consume(skip, n, valid),
           valid => bFastIntegrity', valid => h.uid = Zero \/ SizeOf[h.size] = size,
           Unframed => i = Start /\ size = Len(sent.body)
    PROVE  CallMade(n) /\ ReadsForward' /\ (Len(body') = Len(body) \/ Len(body') = size)
<1> /\ i \in Nat /\ skip \in Nat /\ n \in Nat /\ at \in Nat /\ size \in Int
    /\ skip + n <= Len(Data) /\ h = HeadIn(Data, i)
  BY DEF Given
<1>1. /\ ReadType /\ Reading(i, size, skip, n)
      /\ BytesRead' <= n /\ (n > 0 => BytesRead' > 0)
      /\ Len(body') = Len(body) \/ Len(body') = size
  <2>1. Reads(i, size, skip, n)  BY ReadSizedReads
  <2> QED  BY <2>1 DEF Reads
<1>2. head' = h  BY <1>1 DEF Reading
<1>3. valid => head'.uid = Zero \/ SizeOf[head'.size] = size  BY <1>2
<1>4. NetInv'  BY <1>1, <1>3, ReadingInv
<1>5. Claims'
  <2>1. CASE Unframed  BY <1>1, <2>1, ReadingClaims
  <2>2. CASE ~Unframed  BY <2>2, UnclaimedClaims
  <2> QED  BY <2>1, <2>2
<1>6. offered' = n  BY ExpectedIs
<1>7. ReadsForward'  BY <1>1, <1>6 DEF ReadsForward
<1> QED  BY <1>1, <1>4, <1>5, <1>6, <1>7 DEF CallMade, ReadType

\* A call that fails and leaves nothing to send on.
LEMMA FailureMakes ==
    ASSUME NetInv, NEW skip \in Nat, NEW n \in Nat, skip + n <= Len(Data), ReadType,
           NEW valid, Consume(skip, n, valid), valid => bFastIntegrity',
           (BytesRead' = n /\ ~bFastIntegrity') \/ BytesRead' = n + 1,
           Unframed => sent.length > skip + n
    PROVE  CallMade(n)
<1>1. /\ StreamInv' /\ Data' \in Seq(Byte) /\ aligned' \in BOOLEAN
      /\ offered' \in Nat /\ sealed' \in {"no", "clean", "again"}
  <2>1. BytesRead' \in Nat  BY DEF ReadType
  <2> QED  BY <2>1, ConsumeInv
<1>2. TypeOK'  BY <1>1 DEF TypeOK, ReadType, HeadType
<1>3. sealed' = "no"
  <2>1. sealed' = IF valid /\ BytesRead' <= n THEN "clean" ELSE "no"  BY DEF Consume
  <2>2. CASE BytesRead' = n /\ ~bFastIntegrity'  BY <2>1, <2>2
  <2>3. CASE BytesRead' = n + 1
    <3>1. ~(BytesRead' <= n)  BY <2>3
    <3> QED  BY <2>1, <3>1
  <2> QED  BY <2>2, <2>3
<1>4. PacketInv'  BY <1>3 DEF PacketInv
<1>5. Claims'
  <2>1. CASE Unframed  BY <2>1, FailedClaims
  <2>2. CASE ~Unframed  BY <2>2, UnclaimedClaims
  <2> QED  BY <2>1, <2>2
<1>6. offered' = n  BY ExpectedIs
<1> QED  BY <1>1, <1>2, <1>4, <1>5, <1>6 DEF NetInv, CallMade, ReadType

\* Without a head, the packet has not arrived as a whole.
LEMMA NoSyncUnsent ==
    ASSUME NetInv, NEW n \in 0..Len(Data), NoSync(SubSeq(Data, 1, n)), Unframed
    PROVE  sent.length > n
<1>1. n < Start + HeadSize  BY NoSyncIs
<1>2. PICK l \in Nat : l = HeadSize  BY SyncwordType
<1>3. PICK m \in Nat : m = Len(SentBytes) /\ m >= l
  <2>1. sent.body \in Seq(Byte) /\ SentBytes \in Seq(Byte)  BY SentFacts
  <2>2. PICK c \in Nat : c = Len(sent.body)  BY <2>1
  <2>3. Len(SentBytes) = l + c + 1  BY <1>2, <2>2, SentFacts
  <2> QED  BY <2>3
<1>4. PICK q \in Nat : q = Start  BY SentFacts
<1>5. q + m = sent.length  BY <1>3, <1>4, SentFacts
<1>6. n < q + l  BY <1>1, <1>2, <1>4
<1> QED  BY <1>3, <1>5, <1>6

\* A head that is found, and the buffer behind it.
LEMMA HeadFound ==
    ASSUME NetInv, NEW n \in 0..Len(Data), NEW buffer, buffer = SubSeq(Data, 1, n),
           ~NoSync(buffer), NEW i, i = FirstSyncword(buffer)
    PROVE  /\ i \in Nat /\ SyncAt(Data, i) /\ i + HeadSize <= n
           /\ Len(buffer) = n
           /\ HeadIn(buffer, i) = HeadIn(Data, i)
           /\ HeadIn(Data, i) \in HeadType
           /\ Unframed => i = Start
<1>1. SyncwordAt(buffer) # {} /\ ~(Len(buffer) - i < HeadSize)  BY DEF NoSync
<1>2. /\ buffer \in Seq(Byte) /\ Len(buffer) = n
      /\ i \in Nat /\ SyncAt(Data, i)
      /\ i + HeadSize <= n => HeadIn(buffer, i) = HeadIn(Data, i)
      /\ Unframed /\ i + HeadSize <= n => i = Start
  BY <1>1, FindsSent
<1>3. PICK l \in Nat : l = HeadSize  BY SyncwordType
<1>4. i + l <= n  BY <1>1, <1>2, <1>3
<1>5. HeadIn(Data, i) \in HeadType
  <2>1. PICK s \in Seq(Byte) : s = Data  BY DEF NetInv, TypeOK
  <2>2. i + HeadSize <= Len(s)  BY <1>2, <1>3, <1>4, <2>1
  <2> QED  BY <1>2, <2>1, <2>2, HeadInType
<1> QED  BY <1>2, <1>3, <1>4, <1>5

\* The size of the body a head promises.
LEMMA BodySizeIs ==
    ASSUME NEW h \in HeadType
    PROVE  /\ BodySize(h) \in Int
           /\ h.uid = Zero => BodySize(h) = 0
           /\ h.uid = Zero \/ SizeOf[h.size] = BodySize(h)
  BY SizeAssumption DEF BodySize, HeadType

LEMMA BodySizeSent ==
    ASSUME NetInv, Unframed
    PROVE  BodySize(HeadIn(Data, Start)) = Len(sent.body)
<1>1. PICK h : h = HeadIn(Data, Start)  OBVIOUS
<1>2. h.uid = sent.head.uid /\ h.size = sent.head.size  BY <1>1, SentAt
<1>3. CASE sent.head.uid = Zero
  <2>1. sent.body = <<>>  BY <1>3, SentFacts DEF SentInv
  <2>2. Len(sent.body) = 0  BY <2>1, EmptySeq
  <2> QED  BY <1>1, <1>2, <1>3, <2>2 DEF BodySize
<1>4. CASE sent.head.uid # Zero
  <2>1. SizeOf[sent.head.size] = Len(sent.body)  BY <1>4, SentFacts DEF SentInv
  <2> QED  BY <1>1, <1>2, <1>4, <2>1 DEF BodySize
<1> QED  BY <1>3, <1>4

LEMMA ReUseNoHeadMakes ==
    ASSUME NetInv, NEW n \in 1..Len(Data), ReUseNoHead(n)
    PROVE  CallMade(n) /\ ReadsForward' /\ UNCHANGED body
<1>1. /\ NoSync(SubSeq(Data, 1, n))
      /\ sid' = Zero /\ bFastIntegrity' = FALSE /\ BytesRead' = n
      /\ Consume(0, n, bFastIntegrity')
      /\ UNCHANGED <<head, body, foot>>
  BY DEF ReUseNoHead, NoSync
<1>2. ReadType
  <2>1. head' \in HeadType /\ body' \in Seq(Byte) /\ foot' \in Byte
    BY <1>1 DEF NetInv, TypeOK, HeadType
  <2>2. sid' \in SUBSET SidBits  BY <1>1 DEF Zero
  <2>3. bFastIntegrity' \in BOOLEAN  BY <1>1
  <2>4. BytesRead' \in Nat  BY <1>1
  <2> QED  BY <2>1, <2>2, <2>3, <2>4 DEF ReadType
<1>3. PICK z \in Nat : z = 0  OBVIOUS
<1>4. Unframed => sent.length > z + n
  <2>1. n \in 0..Len(Data) /\ z + n = n  BY <1>3
  <2> QED  BY <1>1, <2>1, NoSyncUnsent
<1>5. z + n <= Len(Data) /\ n \in Nat  BY <1>3
<1>6. PICK valid : valid = bFastIntegrity'  OBVIOUS
<1>7. Consume(z, n, valid)  BY <1>1, <1>3, <1>6
<1>8. CallMade(n)  BY <1>1, <1>2, <1>4, <1>5, <1>6, <1>7, FailureMakes
<1>9. ReadsForward'  BY <1>1, <1>8 DEF ReadsForward, CallMade
<1> QED  BY <1>1, <1>8, <1>9

LEMMA ReUseMakes ==
    ASSUME NetInv, NEW n \in 1..Len(Data), ReUse(n)
    PROVE  CallMade(n) /\ ReadsForward'
<1>1. PICK buffer : buffer = SubSeq(Data, 1, n)  OBVIOUS
<1>2. PICK i : i = FirstSyncword(buffer)  OBVIOUS
<1>3. /\ ~(SyncwordAt(buffer) # {} => ~(Len(buffer) - i >= HeadSize))
      /\ ReadRest(HeadIn(buffer, i), buffer, i + HeadSize)
      /\ Consume(0, n, bFastIntegrity')
  BY <1>1, <1>2 DEF ReUse
<1>4. n \in 0..Len(Data)  OBVIOUS
<1>5. ~NoSync(buffer)
  <2>1. SyncwordAt(buffer) # {} /\ Len(buffer) - i >= HeadSize  BY <1>3
  <2>2. PICK l \in Nat : l = HeadSize  BY SyncwordType
  <2>3. i \in Nat /\ Len(buffer) \in Nat
    <3>1. PICK s \in Seq(Byte) : s = Data  BY DEF NetInv, TypeOK
    <3>2. n \in 0..Len(s) /\ buffer = SubSeq(s, 1, n)  BY <1>1, <3>1
    <3>3. FirstAt(s, n, buffer, i)  BY <1>2, <2>1, <3>2, FirstIs
    <3> QED  BY <3>3 DEF FirstAt
  <2>4. ~(Len(buffer) - i < l)  BY <2>1, <2>2, <2>3
  <2> QED  BY <1>2, <2>1, <2>2, <2>4 DEF NoSync
<1>6. /\ i \in Nat /\ SyncAt(Data, i) /\ i + HeadSize <= n
      /\ HeadIn(buffer, i) = HeadIn(Data, i)
      /\ HeadIn(Data, i) \in HeadType
      /\ Unframed => i = Start
  BY <1>1, <1>2, <1>4, <1>5, HeadFound
<1>7. PICK h \in HeadType : h = HeadIn(Data, i)  BY <1>6
<1>8. PICK size \in Int : size = BodySize(h)  BY BodySizeIs
<1>9. PICK z \in Nat : z = 0  OBVIOUS
<1>10. PICK at \in Nat : at = i + HeadSize  BY <1>6, SyncwordType
<1>11. PICK valid : valid = bFastIntegrity'  OBVIOUS
<1>12. /\ ReadSized(size, h, buffer, at)
       /\ Consume(z, n, valid)
  BY <1>3, <1>6, <1>7, <1>8, <1>9, <1>10, <1>11 DEF ReadRest
<1>13. /\ i + HeadSize = z + at /\ at <= n /\ z + n <= Len(Data) /\ n \in Nat
       /\ z + 1 = 1 /\ z + n = n
  BY <1>6, <1>9, <1>10
<1>14. buffer = SubSeq(Data, z + 1, z + n)  BY <1>1, <1>13
<1>15. h.uid = Zero => size = 0  BY <1>8, BodySizeIs
<1>16. valid => h.uid = Zero \/ SizeOf[h.size] = size  BY <1>8, BodySizeIs
<1>17. Unframed => i = Start /\ size = Len(sent.body)
  BY <1>6, <1>7, <1>8, BodySizeSent
<1>18. Given(i, z, n, at, size, buffer, h)
  BY <1>6, <1>7, <1>13, <1>14, <1>15 DEF Given
<1> QED
  BY <1>11, <1>12, <1>16, <1>17, <1>18, ReadSizedMakes

\* The head a client has received by itself is the one the stream begins with.
LEMMA HeadAtStart ==
    ASSUME NetInv, NEW n \in 0..(Len(Data) - HeadSize),
           SubSeq(Data, 1, Len(Syncword)) = Syncword
    PROVE  /\ SyncAt(Data, 0) /\ HeadIn(Data, 0) \in HeadType
           /\ HeadSize \in Nat /\ n \in Nat /\ HeadSize + n <= Len(Data)
           /\ Unframed => Start = 0
<1>1. PICK s \in Seq(Byte) : s = Data  BY DEF NetInv, TypeOK
<1>2. PICK l \in Nat : l = Len(Syncword) /\ HeadSize = l + 4  BY SyncwordType
<1>3. PICK m \in Nat : m = Len(s)  OBVIOUS
<1>4. n \in Nat /\ l + 4 + n <= m  BY <1>1, <1>2, <1>3
<1>5. PICK z \in Nat : z = 0  OBVIOUS
<1>6. z + 1 = 1 /\ z + l = l /\ z + l <= m /\ z + (l + 4) <= m  BY <1>4, <1>5
<1>7. SubSeq(s, z + 1, z + l) = Syncword  BY <1>1, <1>2, <1>6
<1>8. SyncAt(s, z)  BY <1>2, <1>3, <1>6, <1>7, SyncAtIs
<1>9. HeadIn(s, z) \in HeadType  BY <1>2, <1>3, <1>6, HeadInType
<1>10. Unframed => Start = 0
  <2>1. SUFFICES ASSUME Unframed  PROVE Start = 0  OBVIOUS
  <2>2. PICK q \in Nat : q = Start  BY <2>1, SentFacts
  <2>3. q <= z  BY <1>1, <1>8, <2>1, <2>2, SentAt
  <2> QED  BY <1>5, <2>2, <2>3
<1>11. l + 4 \in Nat /\ (l + 4) + n <= m  BY <1>4
<1> QED  BY <1>1, <1>2, <1>3, <1>4, <1>5, <1>8, <1>9, <1>10, <1>11

LEMMA AfterHeadGiven ==
    ASSUME NetInv, NEW n \in 0..(Len(Data) - HeadSize),
           SubSeq(Data, 1, Len(Syncword)) = Syncword,
           NEW h, h = HeadIn(Data, 0), NEW size \in Int, h.uid = Zero => size = 0,
           NEW buffer, buffer = SubSeq(Data, HeadSize + 1, HeadSize + n)
    PROVE  Given(0, HeadSize, n, 0, size, buffer, h)
<1>1. PICK k \in Nat : k = HeadSize  BY SyncwordType
<1>2. /\ SyncAt(Data, 0) /\ n \in Nat /\ k + n <= Len(Data)
  BY <1>1, HeadAtStart
<1>3. 0 \in Nat /\ 0 + k = k + 0 /\ 0 <= n  BY <1>2
<1> QED  BY <1>1, <1>2, <1>3 DEF Given

LEMMA ReUseAfterHeadMakes ==
    ASSUME NetInv, NEW n \in 0..(Len(Data) - HeadSize), ReUseAfterHead(n)
    PROVE  CallMade(n) /\ ReadsForward'
<1>1. PICK h : h = HeadIn(Data, 0)  OBVIOUS
<1>2. PICK buffer : buffer = SubSeq(Data, HeadSize + 1, HeadSize + n)  OBVIOUS
<1>3. PICK valid : valid = bFastIntegrity'  OBVIOUS
<1>4. PICK size : size = BodySize(h)  OBVIOUS
<1>5. /\ SubSeq(Data, 1, Len(Syncword)) = Syncword
      /\ ReadSized(size, h, buffer, 0)
      /\ Consume(HeadSize, n, valid)
  BY <1>1, <1>2, <1>3, <1>4 DEF ReUseAfterHead, ReadRest
<1>6. h \in HeadType /\ (Unframed => Start = 0)  BY <1>1, <1>5, HeadAtStart
<1>7. /\ size \in Int /\ (h.uid = Zero => size = 0)
      /\ h.uid = Zero \/ SizeOf[h.size] = size
  BY <1>4, <1>6, BodySizeIs
<1>8. Given(0, HeadSize, n, 0, size, buffer, h)
  BY <1>1, <1>2, <1>5, <1>7, AfterHeadGiven
<1>9. Unframed => 0 = Start /\ size = Len(sent.body)
  BY <1>1, <1>4, <1>6, BodySizeSent
<1> QED  BY <1>3, <1>5, <1>7, <1>8, <1>9, ReadSizedMakes

-----------------------------------------------------------------------------
(* The specification *)

NetStep == NetInv' /\ Claims' /\ ReadsForward'

\* Every step but those of the packet object alone are steps of TSNetPackets too.
LEMMA SharedSteps ==
    ASSUME NetInv,
           \/ CheckIntegrity \/ WriteToArray
           \/ \E noise \in Noise : AddNoise(noise)
           \/ \E i \in 1..Len(Data), bit \in DamageBits : Damage(i, bit)
    PROVE  NetStep
<1>1. CASE CheckIntegrity
  <2>1. Forget  BY <1>1 DEF CheckIntegrity
  <2> QED  BY <1>1, <2>1, CheckIntegrityInv, ForgetClaims DEF NetStep
<1>2. CASE WriteToArray
  <2>1. Forget  BY <1>2 DEF WriteToArray
  <2> QED  BY <1>2, <2>1, WriteToArrayInv, ForgetClaims DEF NetStep
<1>3. CASE \E noise \in Noise : AddNoise(noise)
  <2>1. PICK noise \in Noise : AddNoise(noise)  BY <1>3
  <2>2. Forget  BY <2>1 DEF AddNoise
  <2> QED  BY <2>1, <2>2, AddNoiseInv, ForgetClaims DEF NetStep
<1>4. CASE \E i \in 1..Len(Data), bit \in DamageBits : Damage(i, bit)
  <2>1. PICK i \in 1..Len(Data), bit \in DamageBits : Damage(i, bit)  BY <1>4
  <2>2. i \in Nat  BY <2>1
  <2>3. Forget  BY <2>1 DEF Damage
  <2> QED  BY <2>1, <2>2, <2>3, DamageInv, ForgetClaims DEF NetStep
<1> QED  BY <1>1, <1>2, <1>3, <1>4

LEMMA NetNext == ASSUME NetInv, Next  PROVE NetStep
<1>1. CASE \E uid \in Uids, reserved \in Reserved, bytes \in Bodies, size \in Byte :
              Fill(uid, reserved, bytes, size)
  <2>1. PICK uid \in Uids, reserved \in Reserved, bytes \in Bodies, size \in Byte :
            Fill(uid, reserved, bytes, size)
    BY <1>1
  <2>2. Forget  BY <2>1 DEF Fill
  <2> QED  BY <2>1, <2>2, FillInv, ForgetClaims DEF NetStep
<1>2. CASE \E now \in Times \union {foot} : OnStampSeal(now)
  <2>1. PICK now \in Times \union {foot} : OnStampSeal(now)  BY <1>2
  <2>2. now \in Byte  BY <2>1, ClientAssumption DEF NetInv, TypeOK
  <2>3. Forget  BY <2>1 DEF OnStampSeal
  <2> QED  BY <2>1, <2>2, <2>3, OnStampSealInv, ForgetClaims DEF NetStep
<1>3. CASE \E now \in Times : ReUseAsHeartbeat(now) \/ CreateHeartbeat(now)
  <2>1. PICK now \in Times : ReUseAsHeartbeat(now) \/ CreateHeartbeat(now)  BY <1>3
  <2>2. now \in Byte  BY <2>1, ClientAssumption
  <2>3. Forget  BY <2>1 DEF ReUseAsHeartbeat, CreateHeartbeat
  <2> QED  BY <2>1, <2>2, <2>3, HeartbeatInv, ForgetClaims DEF NetStep
<1>4. CASE OnDealloc \/ OnAlloc
  <2>1. Forget  BY <1>4 DEF OnDealloc, OnAlloc
  <2> QED  BY <1>4, <2>1, RecycleInv, ForgetClaims DEF NetStep
<1>5. CASE \/ CheckIntegrity \/ WriteToArray
           \/ \E noise \in Noise : AddNoise(noise)
           \/ \E i \in 1..Len(Data), bit \in DamageBits : Damage(i, bit)
  BY <1>5, SharedSteps
<1>6. CASE \E n \in 1..Len(Data) : ReUseNoHead(n) \/ ReUse(n)
  <2>1. PICK n \in 1..Len(Data) : ReUseNoHead(n) \/ ReUse(n)  BY <1>6
  <2> QED  BY <2>1, ReUseNoHeadMakes, ReUseMakes DEF CallMade, NetStep
<1>7. CASE \E n \in 0..(Len(Data) - HeadSize) : ReUseAfterHead(n)
  <2>1. PICK n \in 0..(Len(Data) - HeadSize) : ReUseAfterHead(n)  BY <1>7
  <2> QED  BY <2>1, ReUseAfterHeadMakes DEF CallMade, NetStep
<1> QED  BY <1>1, <1>2, <1>3, <1>4, <1>5, <1>6, <1>7 DEF Next

LEMMA InitClaims ==
    ASSUME NEW b \in Seq(Byte), PacketInit(b)  PROVE NetInv /\ Claims /\ ReadsForward
<1>1. NetInv  BY InitInv
<1>2. expected = Nothing /\ offered = 0 /\ BytesRead = 0  BY DEF PacketInit
<1>3. Nothing.length = 0 /\ Nothing.sealed = "no"  BY DEF Nothing
<1>4. RoundTrip  BY <1>2, <1>3 DEF RoundTrip, Whole
<1>5. DamageDetected  BY <1>2, <1>3 DEF DamageDetected
<1>6. NotWhole  BY <1>2, <1>3 DEF NotWhole
<1>7. ReadsForward  BY <1>2 DEF ReadsForward
<1> QED  BY <1>1, <1>4, <1>5, <1>6, <1>7 DEF Claims

LEMMA StutterKeeps ==
    ASSUME NetInv, Claims, UNCHANGED vars  PROVE NetInv' /\ Claims'
<1> USE DEF vars, packetVars, streamVars
<1>1. TypeOK'  BY DEF NetInv, TypeOK
<1>2. PacketInv'  BY DEF NetInv, PacketInv
<1>3. StreamInv'  BY StreamStays DEF NetInv
<1>4. Claims'
  BY DEF Claims, RoundTrip, DamageDetected, NotWhole, Arrived, Whole
<1> QED  BY <1>1, <1>2, <1>3, <1>4 DEF NetInv

\* What is proved of FSNetPacket by itself: the packet and the stream fit, and
\* every call is answered as claimed.
PacketsAreSound == NetInv /\ Claims /\ ReadsForward

LEMMA SpecIsSound == Spec => []PacketsAreSound
<1>1. Init => PacketsAreSound
  BY EmptySeq, InitClaims DEF Init, NoBody, PacketsAreSound
<1>2. PacketsAreSound /\ [Next]_vars => PacketsAreSound'
  <2>1. SUFFICES ASSUME PacketsAreSound, [Next]_vars  PROVE PacketsAreSound'
    OBVIOUS
  <2>2. CASE Next  BY <2>1, <2>2, NetNext DEF PacketsAreSound, NetStep
  <2>3. CASE UNCHANGED vars
    <3>1. ReadsForward'  BY <2>1, <2>3 DEF PacketsAreSound, ReadsForward, vars
    <3> QED  BY <2>1, <2>3, <3>1, StutterKeeps DEF PacketsAreSound
  <2> QED  BY <2>1, <2>2, <2>3
<1> QED  BY <1>1, <1>2, PTL DEF Spec

\* FSNetPacket's fields and the stream keep their types, whatever clients and
\* the stream do (ServoProtocol.cpp).
THEOREM NetPacketType == Spec => []TypeOK
  BY SpecIsSound, PTL DEF PacketsAreSound, NetInv

\* ReUse (ServoProtocol.cpp) gives back every packet that was sealed with a
\* blank fastcode and arrives whole and undamaged, and tells where the next
\* one begins.
THEOREM PacketsRoundTrip == Spec => []RoundTrip
  BY SpecIsSound, PTL DEF PacketsAreSound, Claims

\* A packet with an altered bit outside the framing is never valid.
THEOREM AlteredBitIsDetected == Spec => []DamageDetected
  BY SpecIsSound, PTL DEF PacketsAreSound, Claims

\* A packet of which only a part has arrived is never valid: ReUse resets
\* bFastIntegrity before it can return early.
THEOREM PartIsNotTaken == Spec => []NotWhole
  BY SpecIsSound, PTL DEF PacketsAreSound, Claims

\* ReUse reads no more than the buffer and, if it has bytes, at least one.
THEOREM PacketsReadForward == Spec => []ReadsForward
  BY SpecIsSound, PTL DEF PacketsAreSound
=============================================================================
