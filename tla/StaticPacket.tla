----------------------------- MODULE StaticPacket -----------------------------
(***************************************************************************)
(* TSNetPacket<T> (src/Servo/Protocol/ServoStaticProtocol.hpp) beside      *)
(* FSNetPacket: the same head, foot and stream, but the body is an object  *)
(* of T behind TSNetBufferWrapper, whose size is T's and not the one in    *)
(* the head.  A behaviour has packets of one of the two classes.  T        *)
(* inherits FStaticNetBodyBase::Reset, which does nothing, and serializes  *)
(* all of its bytes.                                                       *)
(***************************************************************************)
EXTENDS NetPacket

CONSTANTS
    StaticSize,     \* T::MemSize()
    StaticBodies,   \* objects of T that clients send, as bytes
    NewBody         \* what T's constructor makes

ASSUME StaticAssumption ==
    /\ StaticSize \in Nat
    /\ StaticBodies \union {NewBody} \subseteq [1..StaticSize -> Byte]

VARIABLE static     \* the packets are TSNetPackets

staticVars == <<vars, static>>

-----------------------------------------------------------------------------
StaticInit == static \in BOOLEAN /\ PacketInit(IF static THEN NewBody ELSE NoBody)

\* Deserialize reads StaticSize bytes from index `at' on, if they are there.
Deserialize(buffer, at) == SubSeq(buffer, at + 1, at + StaticSize)
CanDeserialize(buffer, at) == StaticSize <= Len(buffer) - at

StaticBodySize(h) == IF h.uid = Zero THEN 0 ELSE StaticSize

\* The client sets the fields of the head and the object.
StaticFill(uid, reserved, bytes, size) ==
    /\ SizeOf[size] = StaticSize
    /\ head' = [head EXCEPT !.uid = uid, !.reserved = reserved, !.size = size]
    /\ body' = bytes
    /\ sealed' = "no"
    /\ Forget
    /\ UNCHANGED <<foot, sid, bFastIntegrity, streamVars>>

\* TSNetPacket has no OnSeal: the client sets the fastcode to the "xor value
\* without this byte".  bFastIntegrity stays as it is.
StaticSeal(now) ==
    /\ head.uid = Zero \/ SizeOf[head.size] = StaticSize
    /\ foot' = now
    /\ head' = [head EXCEPT !.fastcode = XOR(Bytes([head EXCEPT !.fastcode = Zero], body, now))]
    /\ sealed' = "clean"
    /\ Forget
    /\ UNCHANGED <<body, sid, bFastIntegrity, streamVars>>

\* Through the recycle pool: T's Reset leaves the object as it is.
StaticOnDealloc ==
    /\ sid' = Zero
    /\ bFastIntegrity' = FALSE
    /\ head' = [head EXCEPT !.size = Zero]
    /\ sealed' = "no"
    /\ Forget
    /\ UNCHANGED <<body, foot, streamVars>>

StaticOnAlloc(now) ==
    /\ head' = BlankHead
    /\ foot' = now
    /\ sealed' = "no"
    /\ Forget
    /\ UNCHANGED <<body, sid, bFastIntegrity, streamVars>>

\* The code of TSNetPacket and FSNetPacket is the same here.
StaticCheckIntegrity == CheckIntegrity
StaticWriteToArray == WriteToArray

-----------------------------------------------------------------------------
(* Parsing *)

\* TSNetPacket<T>::IsValid().
StaticValid == bFastIntegrity /\ SizeOf[head.size] = StaticSize

StaticReUseNoHead(n) == ReUseNoHead(n)

NoHead(buffer) ==
    SyncwordAt(buffer) # {} => Len(buffer) - FirstSyncword(buffer) < HeadSize

StaticReUse(n) ==
    LET buffer == SubSeq(Data, 1, n)
        index == FirstSyncword(buffer)
        h == HeadIn(buffer, index)
    IN /\ ~NoHead(buffer)
       /\ ReadSized(StaticBodySize(h), h, buffer, index + HeadSize)
       /\ Consume(0, n, StaticValid')

\* The size check; "failed to read from the rest buffer".
StaticRejectHead(n) ==
    LET h == HeadIn(Data, 0) IN
    /\ SubSeq(Data, 1, Len(Syncword)) = Syncword
    /\ h.uid # Zero /\ SizeOf[h.size] # StaticSize
    /\ head' = h
    /\ sid' = Zero
    /\ bFastIntegrity' = FALSE
    /\ BytesRead' = n
    /\ Consume(HeadSize, n, StaticValid')
    /\ UNCHANGED <<body, foot>>

StaticReUseAfterHead(n) ==
    LET h == HeadIn(Data, 0) IN
    /\ SubSeq(Data, 1, Len(Syncword)) = Syncword
    /\ h.uid = Zero \/ SizeOf[h.size] = StaticSize
    /\ ReadSized(StaticBodySize(h), h, SubSeq(Data, HeadSize + 1, HeadSize + n), 0)
    /\ Consume(HeadSize, n, StaticValid')

\* Mutated form: a failure answers BufferSize, as ReUse does.
FailedReadShort(n) == n

\* "if BytesRead > BufferSize means failed"
FailedRead(n) == n + 1

\* The constructor has no initializers: when it returns early, sid (but for
\* a heartbeat) and bFastIntegrity are whatever was in the memory.
ConstructNoHead(n) ==
    /\ NoHead(SubSeq(Data, 1, n))
    /\ head' = BlankHead
    /\ body' = NewBody
    /\ foot' = Zero
    /\ sid' \in SUBSET SidBits
    /\ bFastIntegrity' \in BOOLEAN
    /\ BytesRead' = FailedRead(n)
    /\ Consume(0, n, StaticValid')

Construct(n) ==
    LET buffer == SubSeq(Data, 1, n)
        at == FirstSyncword(buffer) + HeadSize
        h == HeadIn(buffer, FirstSyncword(buffer))
        end == at + StaticBodySize(h)
        bodyRead == h.uid # Zero /\ CanDeserialize(buffer, at)
        footRead == end < n
    IN /\ ~NoHead(buffer)
       /\ head' = h
       /\ body' = IF bodyRead THEN Deserialize(buffer, at) ELSE NewBody
       /\ foot' = IF footRead THEN FootIn(buffer, end) ELSE Zero
       /\ sid' \in IF footRead \/ h.uid = Zero THEN {SessionID(h)} ELSE SUBSET SidBits
       /\ bFastIntegrity' \in IF footRead THEN {XOR(Bytes(head', body', foot')) = Zero}
                                          ELSE BOOLEAN
       /\ BytesRead' = IF footRead THEN end + 1 ELSE FailedRead(n)
       /\ Consume(0, n, StaticValid')

-----------------------------------------------------------------------------
StaticCalls ==
    \/ \E uid \in Uids \ {Zero}, reserved \in Reserved, bytes \in StaticBodies, size \in Byte :
          StaticFill(uid, reserved, bytes, size)
    \/ \E now \in Times : StaticSeal(now) \/ StaticOnAlloc(now)
    \/ StaticOnDealloc \/ StaticCheckIntegrity \/ StaticWriteToArray
    \/ \E noise \in Noise : AddNoise(noise)
    \/ \E i \in 1..Len(Data), bit \in DamageBits : Damage(i, bit)
    \/ \E n \in 1..Len(Data) :
          StaticReUseNoHead(n) \/ StaticReUse(n) \/ ConstructNoHead(n) \/ Construct(n)
    \/ \E n \in 0..(Len(Data) - HeadSize) : StaticRejectHead(n) \/ StaticReUseAfterHead(n)

StaticNext ==
    \/ ~static /\ Next /\ UNCHANGED static
    \/ static /\ StaticCalls /\ UNCHANGED static

StaticSpec == StaticInit /\ [][StaticNext]_staticVars

-----------------------------------------------------------------------------
StaticTypeOK == TypeOK /\ static \in BOOLEAN /\ (static => Len(body) = StaticSize)

\* IsValid() of either class.
IsValid == IF static THEN StaticValid ELSE bFastIntegrity

\* What a client takes that looks at BytesRead as the constructor's comment
\* says (ServoStaticProtocol.hpp:49) and then asks IsValid.
Taken == BytesRead <= offered /\ IsValid

\* A packet that arrives whole and undamaged is taken.  One that has not
\* arrived as a whole is not, although the constructor of TSNetPacket leaves
\* bFastIntegrity uninitialized when it returns early
\* (ServoStaticProtocol.hpp:52-92) and a ReUse finds the integrity of the
\* last use.
TakenWhenWhole ==
    /\ Whole /\ expected.sealed = "clean" /\ expected.damage = "none"
         /\ (static => expected.head.uid # Zero) => Taken
    /\ expected.length > offered /\ expected.damage # "framing" => ~Taken

\* A client that takes "BytesRead > BufferSize" of the constructor of
\* TSNetPacket for a failure and otherwise goes on behind what was read comes
\* to an end; FSNetPacket never answers more than there is.
GoesForward == ReadsForward \/ (static /\ BytesRead = offered + 1)
=============================================================================
