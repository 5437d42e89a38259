-------------------------- MODULE StaticPacketProofs --------------------------
(***************************************************************************)
(* Proofs about TSNetPacket beside FSNetPacket.  The invariant adds to that *)
(* of NetPacketProofs what the two sizes have to do with each other: the    *)
(* body of a TSNetPacket is always T's size, and a packet that is sent, or  *)
(* that a call should have found, says so in its head.  The calls of        *)
(* TSNetPacket are led back to those of FSNetPacket with another body size. *)
(***************************************************************************)
EXTENDS StaticPacket, NetPacketProofs

\* What the head of a packet says of the body.
Sized(p) == p.head.uid # Zero => SizeOf[p.head.size] = StaticSize

StaticInv == static => Len(body) = StaticSize /\ Sized(sent) /\ Sized(expected)

StaticSound == NetInv /\ Claims /\ StaticInv /\ GoesForward /\ static \in BOOLEAN

LEMMA BodyType ==
    ASSUME NEW b \in StaticBodies \union {NewBody}
    PROVE  b \in Seq(Byte) /\ Len(b) = StaticSize
<1>1. PICK n \in Nat : n = StaticSize  BY StaticAssumption
<1>2. b \in [1..n -> Byte]  BY <1>1, StaticAssumption
<1>3. b \in Seq(Byte)  BY <1>2
<1>4. Len(b) = n  BY <1>2, <1>3, LenProperties
<1> QED  BY <1>1, <1>3, <1>4

LEMMA NothingSized == Sized(Nothing)
  BY DEF Sized, Nothing, BlankHead

\* A call expects the packet that was sent, which is then gone.
LEMMA ConsumeSized ==
    ASSUME NetInv, NEW skip \in Nat, NEW n \in Nat, NEW valid, Consume(skip, n, valid),
           Sized(sent)
    PROVE  Sized(sent)' /\ Sized(expected)'
<1>1. sent' = Nothing  BY DEF Consume
<1>2. CASE sent = Nothing
  <2>1. expected' = Nothing  BY <1>2, ExpectedIs
  <2> QED  BY <1>1, <2>1, NothingSized DEF Sized
<1>3. CASE sent # Nothing
  <2>1. expected'.head = sent.head  BY <1>3, ExpectedIs
  <2> QED  BY <1>1, <2>1, NothingSized DEF Sized
<1> QED  BY <1>2, <1>3

\* The body a TSNetPacket reads is that of the packet that was sent.
LEMMA StaticBodySizeSent ==
    ASSUME NetInv, Unframed, Sized(sent)
    PROVE  StaticBodySize(HeadIn(Data, Start)) = Len(sent.body)
<1>1. PICK h : h = HeadIn(Data, Start)  OBVIOUS
<1>2. h.uid = sent.head.uid  BY <1>1, SentAt
<1>3. CASE sent.head.uid = Zero
  <2>1. sent.body = <<>>  BY <1>3, SentFacts DEF SentInv
  <2>2. Len(sent.body) = 0  BY <2>1, EmptySeq
  <2> QED  BY <1>1, <1>2, <1>3, <2>2 DEF StaticBodySize
<1>4. CASE sent.head.uid # Zero
  <2>1. SizeOf[sent.head.size] = Len(sent.body)  BY <1>4, SentFacts DEF SentInv
  <2> QED  BY <1>1, <1>2, <1>4, <2>1 DEF StaticBodySize, Sized
<1> QED  BY <1>3, <1>4

LEMMA StaticSizeIs ==
    ASSUME NEW h
    PROVE  /\ StaticBodySize(h) \in Nat
           /\ h.uid = Zero => StaticBodySize(h) = 0
           /\ h.uid # Zero => StaticBodySize(h) = StaticSize
  BY StaticAssumption DEF StaticBodySize

-----------------------------------------------------------------------------
(* The packet *)

\* What every step of a TSNetPacket leaves.
StaticStep ==
    /\ NetInv' /\ Claims' /\ GoesForward'
    /\ Len(body') = StaticSize /\ Sized(sent)' /\ Sized(expected)'

LEMMA ForgetSized == ASSUME Forget  PROVE Sized(expected)'
<1>1. expected' = Nothing  BY DEF Forget
<1> QED  BY <1>1, NothingSized DEF Sized

LEMMA StaticFillMakes ==
    ASSUME NetInv, static, StaticInv,
           NEW uid \in Uids, NEW reserved \in Reserved, NEW bytes \in StaticBodies,
           NEW size \in Byte, StaticFill(uid, reserved, bytes, size)
    PROVE  StaticStep
<1>1. uid \in Byte /\ reserved \in Byte /\ bytes \in Seq(Byte) /\ Len(bytes) = StaticSize
  BY ClientAssumption, BodyType
<1>2. Forget /\ body' = bytes /\ sealed' = "no" /\ UNCHANGED streamVars
  BY DEF StaticFill
<1>3. TypeOK'
  <2>1. head' \in HeadType  BY <1>1 DEF NetInv, TypeOK, StaticFill, HeadType
  <2> QED
    BY <1>1, <1>2, <2>1 DEF NetInv, TypeOK, StaticFill, Forget, streamVars, HeadType
<1>4. PacketInv'  BY <1>2 DEF PacketInv
<1>5. StreamInv'  BY <1>2, StreamStays DEF NetInv
<1>6. Claims' /\ ReadsForward' /\ Sized(expected)'  BY <1>2, ForgetClaims, ForgetSized
<1>7. Sized(sent)'  BY <1>2 DEF StaticInv, Sized, streamVars
<1> QED  BY <1>1, <1>2, <1>3, <1>4, <1>5, <1>6, <1>7 DEF StaticStep, NetInv, GoesForward

LEMMA StaticSealMakes ==
    ASSUME NetInv, static, StaticInv, NEW now \in Byte, StaticSeal(now)
    PROVE  StaticStep
<1>1. PICK blank : blank = [head EXCEPT !.fastcode = Zero]  OBVIOUS
<1>2. PICK x : x = XOR(Bytes(blank, body, now))  OBVIOUS
<1>3. x \in Byte  BY <1>2, XORType
<1>4. head \in HeadType /\ body \in Seq(Byte)  BY DEF NetInv, TypeOK, HeadType
<1>5. /\ head' = [head EXCEPT !.fastcode = x] /\ body' = body /\ foot' = now
      /\ sealed' = "clean" /\ Forget /\ UNCHANGED streamVars
      /\ UNCHANGED <<sid, bFastIntegrity>>
      /\ head.uid = Zero \/ SizeOf[head.size] = StaticSize
  BY <1>1, <1>2 DEF StaticSeal
<1>6. blank \in HeadType /\ blank.fastcode = Zero /\ head' = [blank EXCEPT !.fastcode = x]
  BY <1>1, <1>4, <1>5, SyncwordType DEF HeadType
<1>7. head' \in HeadType /\ head'.uid = head.uid /\ head'.size = head.size
  BY <1>3, <1>4, <1>5 DEF HeadType
<1>8. TypeOK'
  BY <1>4, <1>5, <1>7 DEF NetInv, TypeOK, Forget, streamVars, HeadType
<1>9. XOR(Bytes(head', body', foot')) = Zero
  <2>1. XOR(Bytes([blank EXCEPT !.fastcode = XOR(Bytes(blank, body, now))], body, now)) = Zero
    BY <1>4, <1>6, Sealing
  <2>2. head' = [blank EXCEPT !.fastcode = XOR(Bytes(blank, body, now))]
    BY <1>2, <1>6
  <2> QED  BY <1>5, <2>1, <2>2
<1>10. head'.uid = Zero \/ SizeOf[head'.size] = Len(body')
  BY <1>5, <1>7 DEF StaticInv
<1>11. PacketInv'  BY <1>9, <1>10 DEF PacketInv
<1>12. StreamInv'  BY <1>5, StreamStays DEF NetInv
<1>13. Claims' /\ ReadsForward' /\ Sized(expected)'  BY <1>5, ForgetClaims, ForgetSized
<1>14. Sized(sent)' /\ Len(body') = StaticSize  BY <1>5 DEF StaticInv, Sized, streamVars
<1> QED  BY <1>8, <1>11, <1>12, <1>13, <1>14 DEF StaticStep, NetInv, GoesForward

LEMMA StaticRecycleMakes ==
    ASSUME NetInv, static, StaticInv,
           StaticOnDealloc \/ \E now \in Times : StaticOnAlloc(now)
    PROVE  StaticStep
<1>1. Forget /\ body' = body /\ sealed' = "no" /\ UNCHANGED streamVars
  BY DEF StaticOnDealloc, StaticOnAlloc
<1>2. /\ head' \in HeadType /\ foot' \in Byte
      /\ sid' \in SUBSET SidBits /\ bFastIntegrity' \in BOOLEAN
  <2>1. CASE StaticOnDealloc
    BY <2>1, SyncwordType DEF StaticOnDealloc, NetInv, TypeOK, HeadType, Zero
  <2>2. CASE \E now \in Times : StaticOnAlloc(now)
    <3>1. PICK now \in Times : StaticOnAlloc(now)  BY <2>2
    <3>2. BlankHead \in HeadType  BY SyncwordType DEF BlankHead, HeadType
    <3>3. now \in Byte  BY ClientAssumption
    <3> QED  BY <3>1, <3>2, <3>3 DEF StaticOnAlloc, NetInv, TypeOK
  <2> QED  BY <2>1, <2>2
<1>3. TypeOK'
  BY <1>1, <1>2 DEF NetInv, TypeOK, HeadType, Forget, streamVars
<1>4. PacketInv'  BY <1>1 DEF PacketInv
<1>5. StreamInv'  BY <1>1, StreamStays DEF NetInv
<1>6. Claims' /\ ReadsForward' /\ Sized(expected)'  BY <1>1, ForgetClaims, ForgetSized
<1>7. Sized(sent)' /\ Len(body') = StaticSize  BY <1>1 DEF StaticInv, Sized, streamVars
<1> QED  BY <1>3, <1>4, <1>5, <1>6, <1>7 DEF StaticStep, NetInv, GoesForward

-----------------------------------------------------------------------------
(* The stream *)

LEMMA StaticStreamMakes ==
    ASSUME NetInv, static, StaticInv,
           \/ CheckIntegrity \/ WriteToArray
           \/ \E noise \in Noise : AddNoise(noise)
           \/ \E i \in 1..Len(Data), bit \in DamageBits : Damage(i, bit)
    PROVE  StaticStep
<1>1. NetInv' /\ Claims' /\ ReadsForward'  BY SharedSteps DEF NetStep
<1>2. Forget /\ body' = body  BY DEF CheckIntegrity, WriteToArray, AddNoise, Damage, packetVars
<1>3. Sized(expected)'  BY <1>2, ForgetSized
<1>4. Sized(sent)'
  <2>1. CASE CheckIntegrity
    BY <2>1 DEF CheckIntegrity, streamVars, StaticInv, Sized
  <2>2. CASE WriteToArray
    <3>1. sealed # "no" /\ sent'.head = head  BY <2>2 DEF WriteToArray
    <3>2. head.uid # Zero => SizeOf[head.size] = StaticSize
      BY <3>1 DEF NetInv, PacketInv, StaticInv
    <3> QED  BY <3>1, <3>2 DEF Sized
  <2>3. CASE \E noise \in Noise : AddNoise(noise)
    BY <2>3 DEF AddNoise, StaticInv, Sized
  <2>4. CASE \E i \in 1..Len(Data), bit \in DamageBits : Damage(i, bit)
    <3>1. SentType  BY DEF NetInv, StreamInv
    <3>2. sent'.head = sent.head  BY <2>4, <3>1 DEF Damage, SentType
    <3> QED  BY <3>2 DEF StaticInv, Sized
  <2> QED  BY <2>1, <2>2, <2>3, <2>4
<1>5. Len(body') = StaticSize  BY <1>2 DEF StaticInv
<1> QED  BY <1>1, <1>3, <1>4, <1>5 DEF StaticStep, GoesForward

-----------------------------------------------------------------------------
(* Parsing *)

LEMMA StaticReUseNoHeadMakes ==
    ASSUME NetInv, static, StaticInv, NEW n \in 1..Len(Data), StaticReUseNoHead(n)
    PROVE  StaticStep
<1>1. ReUseNoHead(n)  BY DEF StaticReUseNoHead
<1>2. CallMade(n) /\ ReadsForward' /\ body' = body  BY <1>1, ReUseNoHeadMakes
<1>3. Sized(sent)' /\ Sized(expected)'
  <2>1. PICK valid : Consume(0, n, valid)  BY <1>1 DEF ReUseNoHead
  <2>2. 0 \in Nat /\ n \in Nat  OBVIOUS
  <2> QED  BY <2>1, <2>2, ConsumeSized DEF StaticInv
<1>4. Len(body') = StaticSize  BY <1>2 DEF StaticInv
<1> QED  BY <1>2, <1>3, <1>4 DEF StaticStep, CallMade, GoesForward

\* A ReUse that has found the head h.
LEMMA StaticReadMakes ==
    ASSUME NetInv, static, StaticInv,
           NEW i, NEW skip, NEW n, NEW at, NEW buffer, NEW h,
           Given(i, skip, n, at, StaticBodySize(h), buffer, h),
           ReadSized(StaticBodySize(h), h, buffer, at),
           Consume(skip, n, StaticValid'), Unframed => i = Start
    PROVE  StaticStep
<1>1. PICK size : size = StaticBodySize(h)  OBVIOUS
<1>2. PICK valid : valid = StaticValid'  OBVIOUS
<1>3. /\ Given(i, skip, n, at, size, buffer, h) /\ ReadSized(size, h, buffer, at)
      /\ Consume(skip, n, valid)
  BY <1>1, <1>2
<1>4. skip \in Nat /\ n \in Nat /\ h = HeadIn(Data, i)  BY <1>3 DEF Given
<1>5. head' = h /\ (h.uid = Zero => body' = body)  BY <1>3 DEF ReadSized
<1>6. valid => bFastIntegrity'  BY <1>2 DEF StaticValid
<1>7. valid => h.uid = Zero \/ SizeOf[h.size] = size
  BY <1>1, <1>2, <1>5, StaticSizeIs DEF StaticValid
<1>8. Unframed => i = Start /\ size = Len(sent.body)
  BY <1>1, <1>4, StaticBodySizeSent DEF StaticInv
<1>9. /\ CallMade(n) /\ ReadsForward'
      /\ Len(body') = Len(body) \/ Len(body') = size
  BY <1>3, <1>6, <1>7, <1>8, ReadSizedMakes
<1>10. Len(body') = StaticSize
  <2>1. CASE h.uid = Zero  BY <1>5, <2>1 DEF StaticInv
  <2>2. CASE h.uid # Zero  BY <1>1, <1>9, <2>2, StaticSizeIs DEF StaticInv
  <2> QED  BY <2>1, <2>2
<1>11. Sized(sent)' /\ Sized(expected)'  BY <1>3, <1>4, ConsumeSized DEF StaticInv
<1> QED  BY <1>9, <1>10, <1>11 DEF StaticStep, CallMade, GoesForward

\* Where a call that is given n bytes has found a head.
LEMMA FoundGiven ==
    ASSUME NetInv, NEW n \in 1..Len(Data), NEW buffer, buffer = SubSeq(Data, 1, n),
           ~NoHead(buffer), NEW i, i = FirstSyncword(buffer), NEW h, h = HeadIn(buffer, i)
    PROVE  /\ i \in Nat /\ i + HeadSize \in Nat /\ n \in Nat
           /\ Given(i, 0, n, i + HeadSize, StaticBodySize(h), buffer, h)
           /\ Len(buffer) = n /\ h \in HeadType
           /\ Unframed => i = Start
<1>1. ~NoSync(buffer)
  <2>1. SyncwordAt(buffer) # {} /\ ~(Len(buffer) - i < HeadSize)  BY DEF NoHead
  <2> QED  BY <2>1 DEF NoSync
<1>2. n \in 0..Len(Data)  OBVIOUS
<1>3. /\ i \in Nat /\ SyncAt(Data, i) /\ i + HeadSize <= n
      /\ Len(buffer) = n
      /\ HeadIn(buffer, i) = HeadIn(Data, i)
      /\ HeadIn(Data, i) \in HeadType
      /\ Unframed => i = Start
  BY <1>1, <1>2, HeadFound
<1>4. PICK size \in Nat : size = StaticBodySize(h) /\ (h.uid = Zero => size = 0)
  BY StaticSizeIs
<1>5. PICK l \in Nat : l = HeadSize  BY SyncwordType
<1>6. PICK z \in Nat : z = 0  OBVIOUS
<1>7. /\ i + l \in Nat /\ i + l = z + (i + l) /\ i + l <= n
      /\ z + n <= Len(Data) /\ z + 1 = 1 /\ z + n = n /\ n \in Nat
  BY <1>3, <1>5, <1>6
<1>8. size \in Int  OBVIOUS
<1>9. buffer = SubSeq(Data, z + 1, z + n)  BY <1>7
<1>10. Given(i, z, n, i + l, size, buffer, h)
  BY <1>3, <1>4, <1>5, <1>7, <1>8, <1>9 DEF Given
<1> QED  BY <1>3, <1>4, <1>5, <1>6, <1>7, <1>10

LEMMA StaticReUseMakes ==
    ASSUME NetInv, static, StaticInv, NEW n \in 1..Len(Data), StaticReUse(n)
    PROVE  StaticStep
<1>1. PICK buffer : buffer = SubSeq(Data, 1, n)  OBVIOUS
<1>2. PICK i : i = FirstSyncword(buffer)  OBVIOUS
<1>3. PICK h : h = HeadIn(buffer, i)  OBVIOUS
<1>4. PICK at : at = i + HeadSize  OBVIOUS
<1>5. /\ ~NoHead(buffer) /\ ReadSized(StaticBodySize(h), h, buffer, at)
      /\ Consume(0, n, StaticValid')
  BY <1>1, <1>2, <1>3, <1>4 DEF StaticReUse
<1>6. /\ Given(i, 0, n, at, StaticBodySize(h), buffer, h)
      /\ Unframed => i = Start
  BY <1>1, <1>2, <1>3, <1>4, <1>5, FoundGiven
<1> QED  BY <1>5, <1>6, StaticReadMakes

LEMMA StaticReUseAfterHeadMakes ==
    ASSUME NetInv, static, StaticInv, NEW n \in 0..(Len(Data) - HeadSize),
           StaticReUseAfterHead(n)
    PROVE  StaticStep
<1>1. PICK h : h = HeadIn(Data, 0)  OBVIOUS
<1>2. PICK buffer : buffer = SubSeq(Data, HeadSize + 1, HeadSize + n)  OBVIOUS
<1>3. /\ SubSeq(Data, 1, Len(Syncword)) = Syncword
      /\ ReadSized(StaticBodySize(h), h, buffer, 0)
      /\ Consume(HeadSize, n, StaticValid')
  BY <1>1, <1>2 DEF StaticReUseAfterHead
<1>4. PICK size \in Int : size = StaticBodySize(h) /\ (h.uid = Zero => size = 0)
  BY StaticSizeIs
<1>5. Given(0, HeadSize, n, 0, size, buffer, h)
  BY <1>1, <1>2, <1>3, <1>4, AfterHeadGiven
<1>6. Unframed => 0 = Start  BY <1>3, HeadAtStart
<1> QED  BY <1>3, <1>4, <1>5, <1>6, StaticReadMakes

\* The packet that was sent is never rejected for its size.
LEMMA StaticRejectHeadMakes ==
    ASSUME NetInv, static, StaticInv, NEW n \in 0..(Len(Data) - HeadSize),
           StaticRejectHead(n)
    PROVE  StaticStep
<1>1. PICK h : h = HeadIn(Data, 0)  OBVIOUS
<1>2. PICK valid : valid = StaticValid'  OBVIOUS
<1>3. /\ SubSeq(Data, 1, Len(Syncword)) = Syncword
      /\ h.uid # Zero /\ SizeOf[h.size] # StaticSize
      /\ head' = h /\ sid' = Zero /\ bFastIntegrity' = FALSE /\ BytesRead' = n
      /\ Consume(HeadSize, n, valid) /\ UNCHANGED <<body, foot>>
  BY <1>1, <1>2 DEF StaticRejectHead
<1>4. /\ h \in HeadType /\ HeadSize \in Nat /\ n \in Nat /\ HeadSize + n <= Len(Data)
      /\ Unframed => Start = 0
  BY <1>1, <1>3, HeadAtStart
<1>5. ReadType
  <2>1. body' \in Seq(Byte) /\ foot' \in Byte  BY <1>3 DEF NetInv, TypeOK
  <2>2. sid' \in SUBSET SidBits  BY <1>3 DEF Zero
  <2>3. bFastIntegrity' \in BOOLEAN /\ BytesRead' \in Nat  BY <1>3, <1>4
  <2> QED  BY <1>3, <1>4, <2>1, <2>2, <2>3 DEF ReadType
<1>6. ~Unframed
  <2>1. SUFFICES ASSUME Unframed  PROVE FALSE  OBVIOUS
  <2>2. h.uid = sent.head.uid /\ h.size = sent.head.size
    BY <1>1, <1>4, <2>1, SentAt
  <2> QED  BY <1>3, <2>2 DEF StaticInv, Sized
<1>7. valid => bFastIntegrity'  BY <1>2 DEF StaticValid
<1>8. PICK skip \in Nat : skip = HeadSize  BY <1>4
<1>9. CallMade(n)
  <2>1. Consume(skip, n, valid) /\ skip + n <= Len(Data)  BY <1>3, <1>4, <1>8
  <2>2. BytesRead' = n /\ ~bFastIntegrity'  BY <1>3
  <2>3. Unframed => sent.length > skip + n  BY <1>6
  <2> QED  BY <1>4, <1>5, <1>7, <2>1, <2>2, <2>3, FailureMakes
<1>10. ReadsForward'  BY <1>3, <1>4, <1>9 DEF ReadsForward, CallMade
<1>11. Sized(sent)' /\ Sized(expected)'  BY <1>3, <1>4, ConsumeSized DEF StaticInv
<1>12. Len(body') = StaticSize  BY <1>3 DEF StaticInv
<1> QED  BY <1>9, <1>10, <1>11, <1>12 DEF StaticStep, CallMade, GoesForward

\* What the constructor leaves uninitialised does no harm: it says that it has
\* failed.
LEMMA ConstructNoHeadMakes ==
    ASSUME NetInv, static, static', StaticInv, NEW n \in 1..Len(Data), ConstructNoHead(n)
    PROVE  StaticStep
<1>1. PICK valid : valid = StaticValid'  OBVIOUS
<1>2. /\ NoHead(SubSeq(Data, 1, n)) /\ head' = BlankHead /\ body' = NewBody
      /\ foot' = Zero /\ sid' \in SUBSET SidBits /\ bFastIntegrity' \in BOOLEAN
      /\ BytesRead' = n + 1 /\ Consume(0, n, valid)
  BY <1>1 DEF ConstructNoHead, FailedRead
<1>3. PICK z \in Nat : z = 0  OBVIOUS
<1>4. n \in Nat /\ n \in 0..Len(Data) /\ z + n = n /\ z + n <= Len(Data)  BY <1>3
<1>5. NewBody \in Seq(Byte) /\ Len(NewBody) = StaticSize  BY BodyType
<1>6. ReadType
  <2>1. BlankHead \in HeadType /\ Zero \in Byte
    BY SyncwordType DEF BlankHead, HeadType
  <2>2. BytesRead' \in Nat  BY <1>2, <1>4
  <2> QED  BY <1>2, <1>5, <2>1, <2>2 DEF ReadType
<1>7. NoSync(SubSeq(Data, 1, n))  BY <1>2 DEF NoHead, NoSync
<1>8. Unframed => sent.length > z + n  BY <1>4, <1>7, NoSyncUnsent
<1>9. valid => bFastIntegrity'  BY <1>1 DEF StaticValid
<1>10. CallMade(n)
  <2>1. Consume(z, n, valid)  BY <1>2, <1>3
  <2> QED  BY <1>2, <1>4, <1>6, <1>8, <1>9, <2>1, FailureMakes
<1>11. GoesForward'  BY <1>2, <1>10 DEF GoesForward, CallMade
<1>12. Sized(sent)' /\ Sized(expected)'  BY <1>2, <1>3, <1>4, ConsumeSized DEF StaticInv
<1> QED  BY <1>2, <1>5, <1>10, <1>11, <1>12 DEF StaticStep, CallMade

LEMMA ConstructMakes ==
    ASSUME NetInv, static, static', StaticInv, NEW n \in 1..Len(Data), Construct(n)
    PROVE  StaticStep
<1>1. PICK buffer : buffer = SubSeq(Data, 1, n)  OBVIOUS
<1>2. PICK i : i = FirstSyncword(buffer)  OBVIOUS
<1>3. PICK h : h = HeadIn(buffer, i)  OBVIOUS
<1>4. PICK at : at = i + HeadSize  OBVIOUS
<1>5. PICK size \in Nat : size = StaticBodySize(h)  BY StaticSizeIs
<1>6. PICK valid : valid = StaticValid'  OBVIOUS
<1>7. /\ ~NoHead(buffer) /\ head' = h
      /\ body' = IF h.uid # Zero /\ StaticSize <= Len(buffer) - at
                 THEN SubSeq(buffer, at + 1, at + StaticSize) ELSE NewBody
      /\ foot' = IF at + size < n THEN buffer[at + size + 1] ELSE Zero
      /\ sid' \in IF at + size < n \/ h.uid = Zero THEN {SessionID(h)} ELSE SUBSET SidBits
      /\ bFastIntegrity' \in IF at + size < n
                             THEN {XOR(Bytes(head', body', foot')) = Zero} ELSE BOOLEAN
      /\ BytesRead' = IF at + size < n THEN at + size + 1 ELSE n + 1
      /\ Consume(0, n, valid)
  BY <1>1, <1>2, <1>3, <1>4, <1>5, <1>6
  DEF Construct, CanDeserialize, Deserialize, FootIn, FailedRead
<1>8. /\ i \in Nat /\ at \in Nat /\ n \in Nat
      /\ Given(i, 0, n, at, size, buffer, h)
      /\ Len(buffer) = n /\ h \in HeadType
      /\ Unframed => i = Start
  BY <1>1, <1>2, <1>3, <1>4, <1>5, <1>7, FoundGiven
<1>9. PICK z \in Nat : z = 0  OBVIOUS
<1>10. /\ SyncAt(Data, i) /\ i + HeadSize = z + at /\ at <= n /\ z + n <= Len(Data)
       /\ buffer = SubSeq(Data, z + 1, z + n) /\ h = HeadIn(Data, i)
       /\ h.uid = Zero => size = 0
  BY <1>8, <1>9 DEF Given
<1>11. body' \in Seq(Byte) /\ Len(body') = StaticSize
  <2>1. CASE h.uid # Zero /\ StaticSize <= n - at
    <3>1. PICK c \in Nat : c = StaticSize  BY StaticAssumption
    <3>2. buffer \in Seq(Byte)
      <4>1. Data \in Seq(Byte)  BY DEF NetInv, TypeOK
      <4> QED  BY <1>8, <1>9, <1>10, <4>1, SubSeqIs
    <3>3. at + c <= Len(buffer)  BY <1>8, <2>1, <3>1
    <3>4. PICK t : t = SubSeq(buffer, at + 1, at + c)  OBVIOUS
    <3>5. t \in Seq(Byte) /\ Len(t) = c  BY <1>8, <3>2, <3>3, <3>4, SubSeqIs
    <3> QED  BY <1>7, <1>8, <2>1, <3>1, <3>4, <3>5
  <2>2. CASE ~(h.uid # Zero /\ StaticSize <= n - at)
    BY <1>7, <1>8, <2>2, BodyType
  <2> QED  BY <2>1, <2>2
<1>12. ReadType /\ Reading(i, size, z, n) /\ BytesRead' \in 1..(n + 1)
  <2>1. CASE at + size + 1 <= n
    <3>1. at + size < n  BY <1>8, <2>1
    <3>2. /\ foot' = buffer[at + size + 1] /\ sid' = SessionID(h)
          /\ BytesRead' = at + size + 1
      BY <1>7, <3>1
    <3>3. bFastIntegrity' = (XOR(Bytes(head', body', foot')) = Zero)
      BY <1>7, <3>1
    <3>4. h.uid # Zero => body' = SubSeq(buffer, at + 1, at + size)
      <4>1. SUFFICES ASSUME h.uid # Zero
                     PROVE  body' = SubSeq(buffer, at + 1, at + size)
        OBVIOUS
      <4>2. size = StaticSize  BY <1>5, <4>1, StaticSizeIs
      <4>3. StaticSize <= Len(buffer) - at  BY <1>8, <3>1, <4>2
      <4> QED  BY <1>7, <4>1, <4>2, <4>3
    <3>5. ReadType /\ Reading(i, size, z, n)
      <4>1. PacketRead(n, at, size, buffer, h)
        BY <1>7, <1>11, <2>1, <3>2, <3>3, <3>4 DEF PacketRead
      <4>2. Given(i, z, n, at, size, buffer, h)  BY <1>8, <1>9
      <4> QED  BY <4>1, <4>2, ReadingIs
    <3>6. BytesRead' \in 1..(n + 1)  BY <1>8, <2>1, <3>2
    <3> QED  BY <3>5, <3>6
  <2>2. CASE ~(at + size + 1 <= n)
    <3>1. ~(at + size < n)  BY <1>8, <2>2
    <3>2. /\ foot' = Zero /\ BytesRead' = n + 1
          /\ sid' \in SUBSET SidBits /\ bFastIntegrity' \in BOOLEAN
      BY <1>7, <3>1, SessionIDType
    <3>3. ReadType
      <4>1. Zero \in Byte  BY SyncwordType
      <4>2. BytesRead' \in Nat  BY <1>8, <3>2
      <4> QED  BY <1>7, <1>8, <1>11, <3>2, <4>1, <4>2 DEF ReadType
    <3>4. ~(size >= 0 /\ i + HeadSize + size + 1 <= z + n)
      <4>1. PICK l \in Nat : l = HeadSize  BY SyncwordType
      <4>2. i + l = at  BY <1>8, <1>9, <1>10, <4>1
      <4>3. ~(i + l + size + 1 <= z + n)  BY <1>8, <1>9, <2>2, <4>2
      <4> QED  BY <4>1, <4>3
    <3>5. Reading(i, size, z, n)  BY <1>7, <1>10, <3>2, <3>4 DEF Reading
    <3>6. BytesRead' \in 1..(n + 1)  BY <1>8, <3>2
    <3> QED  BY <3>3, <3>5, <3>6
  <2> QED  BY <2>1, <2>2
<1>13. valid => bFastIntegrity'  BY <1>6 DEF StaticValid
<1>14. valid => head'.uid = Zero \/ SizeOf[head'.size] = size
  BY <1>5, <1>6, <1>7, StaticSizeIs DEF StaticValid
<1>15. Consume(z, n, valid)  BY <1>7, <1>9
<1>16. PICK wide \in Int : wide = size  OBVIOUS
<1>17. NetInv'
  <2>1. /\ Reading(i, wide, z, n)
        /\ valid => head'.uid = Zero \/ SizeOf[head'.size] = wide
    BY <1>12, <1>14, <1>16
  <2> QED  BY <1>8, <1>10, <1>12, <1>13, <1>15, <2>1, ReadingInv
<1>18. Claims'
  <2>1. CASE Unframed
    <3>1. i = Start  BY <1>8, <2>1
    <3>2. size = Len(sent.body)
      BY <1>5, <1>10, <2>1, <3>1, StaticBodySizeSent DEF StaticInv
    <3>3. Reading(i, wide, z, n) /\ wide = Len(sent.body)  BY <1>12, <1>16, <3>2
    <3> QED  BY <1>8, <1>15, <2>1, <3>1, <3>3, ReadingClaims
  <2>2. CASE ~Unframed  BY <1>8, <1>15, <2>2, UnclaimedClaims
  <2> QED  BY <2>1, <2>2
<1>19. GoesForward'
  <2>1. offered' = n  BY <1>8, <1>15, ExpectedIs
  <2>2. CASE BytesRead' = n + 1  BY <2>1, <2>2 DEF GoesForward
  <2>3. CASE BytesRead' # n + 1
    <3>1. BytesRead' <= n /\ BytesRead' > 0  BY <1>8, <1>12, <2>3
    <3> QED  BY <2>1, <3>1 DEF GoesForward, ReadsForward
  <2> QED  BY <2>2, <2>3
<1>20. Sized(sent)' /\ Sized(expected)'  BY <1>8, <1>15, ConsumeSized DEF StaticInv
<1> QED  BY <1>11, <1>17, <1>18, <1>19, <1>20 DEF StaticStep

-----------------------------------------------------------------------------
(* The specification *)

LEMMA StaticCallsMake ==
    ASSUME NetInv, static, static', StaticInv, StaticCalls  PROVE StaticStep
<1>1. CASE \E uid \in Uids \ {Zero}, reserved \in Reserved, bytes \in StaticBodies,
              size \in Byte : StaticFill(uid, reserved, bytes, size)
  BY <1>1, StaticFillMakes
<1>2. CASE \E now \in Times : StaticSeal(now)
  <2>1. PICK now \in Times : StaticSeal(now)  BY <1>2
  <2>2. now \in Byte  BY ClientAssumption
  <2> QED  BY <2>1, <2>2, StaticSealMakes
<1>3. CASE StaticOnDealloc \/ \E now \in Times : StaticOnAlloc(now)
  BY <1>3, StaticRecycleMakes
<1>4. CASE \/ StaticCheckIntegrity \/ StaticWriteToArray
           \/ \E noise \in Noise : AddNoise(noise)
           \/ \E i \in 1..Len(Data), bit \in DamageBits : Damage(i, bit)
  BY <1>4, StaticStreamMakes DEF StaticCheckIntegrity, StaticWriteToArray
<1>5. CASE \E n \in 1..Len(Data) :
              StaticReUseNoHead(n) \/ StaticReUse(n) \/ ConstructNoHead(n) \/ Construct(n)
  BY <1>5, StaticReUseNoHeadMakes, StaticReUseMakes, ConstructNoHeadMakes, ConstructMakes
<1>6. CASE \E n \in 0..(Len(Data) - HeadSize) :
              StaticRejectHead(n) \/ StaticReUseAfterHead(n)
  BY <1>6, StaticRejectHeadMakes, StaticReUseAfterHeadMakes
<1> QED  BY <1>1, <1>2, <1>3, <1>4, <1>5, <1>6 DEF StaticCalls

LEMMA StaticInitSound == StaticInit => StaticSound
<1>1. SUFFICES ASSUME StaticInit  PROVE StaticSound  OBVIOUS
<1>2. PICK b : b = IF static THEN NewBody ELSE NoBody  OBVIOUS
<1>3. PacketInit(b) /\ static \in BOOLEAN  BY <1>1, <1>2 DEF StaticInit
<1>4. b \in Seq(Byte) /\ (static => Len(b) = StaticSize)
  BY <1>2, BodyType, EmptySeq DEF NoBody
<1>5. NetInv /\ Claims /\ ReadsForward  BY <1>3, <1>4, InitClaims
<1>6. body = b /\ sent = Nothing /\ expected = Nothing  BY <1>3 DEF PacketInit
<1>7. StaticInv  BY <1>4, <1>6, NothingSized DEF StaticInv, Sized
<1> QED  BY <1>3, <1>5, <1>7 DEF StaticSound, GoesForward

LEMMA StaticNextSound ==
    ASSUME StaticSound, [StaticNext]_staticVars  PROVE StaticSound'
<1>1. CASE ~static /\ Next /\ UNCHANGED static
  <2>1. NetStep  BY <1>1, NetNext DEF StaticSound
  <2>2. ~static' /\ static' \in BOOLEAN  BY <1>1 DEF StaticSound
  <2> QED  BY <2>1, <2>2 DEF StaticSound, NetStep, StaticInv, GoesForward
<1>2. CASE static /\ StaticCalls /\ UNCHANGED static
  <2>1. static' /\ static' \in BOOLEAN  BY <1>2 DEF StaticSound
  <2>2. StaticStep  BY <1>2, <2>1, StaticCallsMake DEF StaticSound
  <2> QED  BY <2>1, <2>2 DEF StaticSound, StaticStep, StaticInv
<1>3. CASE UNCHANGED staticVars
  <2>1. UNCHANGED vars /\ static' = static  BY <1>3 DEF staticVars
  <2>2. NetInv' /\ Claims'  BY <2>1, StutterKeeps DEF StaticSound
  <2>3. StaticInv'
    BY <2>1 DEF StaticSound, StaticInv, Sized, vars, packetVars, streamVars
  <2>4. GoesForward' /\ static' \in BOOLEAN
    BY <2>1 DEF StaticSound, GoesForward, ReadsForward, vars
  <2> QED  BY <2>2, <2>3, <2>4 DEF StaticSound
<1> QED  BY <1>1, <1>2, <1>3 DEF StaticNext

LEMMA StaticSpecIsSound == StaticSpec => []StaticSound
<1>1. StaticInit => StaticSound  BY StaticInitSound
<1>2. StaticSound /\ [StaticNext]_staticVars => StaticSound'  BY StaticNextSound
<1> QED  BY <1>1, <1>2, PTL DEF StaticSpec

\* What is taken and when follows from what is claimed of every call, and from
\* the size that the head of a TSNetPacket says.
LEMMA SoundTakes == StaticSound => TakenWhenWhole
<1> SUFFICES ASSUME StaticSound  PROVE TakenWhenWhole  OBVIOUS
<1> RoundTrip /\ NotWhole /\ StaticInv  BY DEF StaticSound, Claims
<1>1. ASSUME Whole, expected.sealed = "clean", expected.damage = "none",
             static => expected.head.uid # Zero
      PROVE  Taken
  <2>1. Arrived(expected)  BY <1>1 DEF RoundTrip
  <2>2. bFastIntegrity /\ head = expected.head /\ BytesRead = expected.length
    BY <2>1 DEF Arrived
  <2>3. BytesRead <= offered
    <3>1. BytesRead \in 1..offered  BY <1>1, <2>2 DEF Whole
    <3>2. offered \in Nat  BY DEF StaticSound, NetInv, TypeOK
    <3> QED  BY <3>1, <3>2
  <2>4. static => SizeOf[head.size] = StaticSize  BY <1>1, <2>2 DEF StaticInv, Sized
  <2>5. IsValid  BY <2>2, <2>4 DEF IsValid, StaticValid
  <2> QED  BY <2>3, <2>5 DEF Taken
<1>2. ASSUME expected.length > offered, expected.damage # "framing"  PROVE ~Taken
  <2>1. ~(bFastIntegrity /\ BytesRead <= offered)  BY <1>2 DEF NotWhole
  <2> QED  BY <2>1 DEF Taken, IsValid, StaticValid
<1> QED  BY <1>1, <1>2 DEF TakenWhenWhole

\* Packets of both classes keep their types, and the body of a TSNetPacket its
\* size, through the recycle pool and failed reads (ServoStaticProtocol.hpp).
THEOREM StaticPacketType == StaticSpec => []StaticTypeOK
<1>1. StaticSound => StaticTypeOK  BY DEF StaticSound, StaticTypeOK, NetInv, StaticInv
<1> QED  BY <1>1, StaticSpecIsSound, PTL

\* The two ReUse functions of both classes and the constructors give back
\* every packet that was sealed with a blank fastcode and arrives whole and
\* undamaged, and tell where the next one begins.
THEOREM StaticPacketsRoundTrip == StaticSpec => []RoundTrip
  BY StaticSpecIsSound, PTL DEF StaticSound, Claims

\* An altered bit outside the framing makes a packet of either class invalid,
\* or the call says that it has failed.
THEOREM StaticDamageIsDetected == StaticSpec => []DamageDetected
  BY StaticSpecIsSound, PTL DEF StaticSound, Claims

\* A client that asks BytesRead and IsValid takes a packet that has arrived and
\* none of which only a part has, uninitialised members or not.
THEOREM ClientsTakeWholePackets == StaticSpec => []TakenWhenWhole
  BY SoundTakes, StaticSpecIsSound, PTL

\* A client that goes on behind what was read, or stops at BytesRead >
\* BufferSize, comes to an end.
THEOREM ClientsGoForward == StaticSpec => []GoesForward
  BY StaticSpecIsSound, PTL DEF StaticSound
=============================================================================
