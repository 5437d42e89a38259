------------------------------ MODULE NetPacket ------------------------------
(***************************************************************************)
(* FSNetPacket (src/Servo/Protocol/ServoProtocol.{h,cpp}): a packet is     *)
(* filled, sealed and written to a byte stream, and parsed from a buffer   *)
(* of that stream at the other end.  One packet object does both here, so  *)
(* every use finds it as any earlier use has left it: sealed, parsed,      *)
(* half parsed, or recycled.                                               *)
(*                                                                         *)
(* A byte is a set of bits, which makes XOR the symmetric difference.      *)
(* Every field but the syncword is one byte wide; the version byte, which  *)
(* only takes part in the XOR as `reserved' does, is left out.             *)
(***************************************************************************)
EXTENDS Integers, Sequences, FiniteSets

CONSTANTS
    Bits,       \* the bits of a byte
    Syncword,   \* the bytes a head begins with
    SizeOf,     \* SizeOf[b]: the int32 that the size field b stands for
    SidBits,    \* the bits of `reserved' that are the session id
    Uids, Bodies, Reserved, Times, \* what clients put into packets
    Noise,      \* bytes that may come before and after a packet
    DamageBits, \* bits that may arrive altered
    MaxTroubles \* bound: altered bytes, and reads that end within a packet

Byte == SUBSET Bits
Zero == {}

ASSUME BitsAssumption == IsFiniteSet(Bits)
ASSUME SizeAssumption == SizeOf \in [Byte -> Int] /\ SizeOf[Zero] = 0

\* "make them differents to get efficient": so no noise and no tail of a
\* packet can hide the beginning of the next syncword.
ASSUME SyncwordAssumption ==
    /\ Syncword \in Seq(Byte) /\ Syncword # <<>>
    /\ \A i, j \in 1..Len(Syncword) : Syncword[i] = Syncword[j] => i = j

ASSUME ClientAssumption ==
    /\ Uids \union Reserved \union Times \subseteq Byte
    /\ \A bytes \in Bodies : bytes \in Seq(Byte)

\* Noise is bytes of no packet: it has no whole syncword in it.
ASSUME NoiseAssumption ==
    /\ DamageBits \subseteq Bits
    /\ \A noise \in Noise :
        /\ noise \in Seq(Byte)
        /\ \A i \in 0..(Len(noise) - Len(Syncword)) :
              SubSeq(noise, i + 1, i + Len(Syncword)) # Syncword

VARIABLES
    head, body, foot, sid, bFastIntegrity, \* the packet object
    BytesRead,  \* out parameter of the last ReUse; 0 when another call has begun
    offered,    \* BufferSize of the last ReUse
    Data,       \* the stream: what was written and not yet consumed
    sealed,     \* history: how the packet has been sealed since it was filled
    sent,       \* history: the packet that is in Data, or Nothing
    aligned,    \* history: Data is not the rest of a packet
    expected,   \* history: what the last ReUse should have found
    troubles    \* how often the stream was damaged or read in part

packetVars == <<head, body, foot, sid, bFastIntegrity>>
streamVars == <<Data, sent, aligned, troubles>>
vars == <<packetVars, BytesRead, offered, streamVars, sealed, expected>>

-----------------------------------------------------------------------------
(* Bytes *)

\* Mutated form: the loop ends one byte early.
XORShort(s) ==
    {b \in Bits : Cardinality({i \in 1..(Len(s) - 1) : b \in s[i]}) % 2 = 1}

\* The XOR of all bytes of a sequence has the bits that occur an odd number
\* of times.
XOR(s) == {b \in Bits : Cardinality({i \in 1..Len(s) : b \in s[i]}) % 2 = 1}

HeadSize == Len(Syncword) + 4
HeadBytes(h) == Syncword \o <<h.fastcode, h.uid, h.size, h.reserved>>
HeadIn(s, i) == LET at == i + Len(Syncword) IN
    [fastcode |-> s[at + 1], uid |-> s[at + 2], size |-> s[at + 3],
     reserved |-> s[at + 4]]
NoBody == <<>>
FootIn(s, i) == s[i + 1]
BlankHead == [fastcode |-> Zero, uid |-> Zero, size |-> Zero, reserved |-> Zero]

\* A packet with uid 0 is a heartbeat: no body in the stream, whatever body
\* still holds.
Bytes(h, b, f) == HeadBytes(h) \o (IF h.uid = Zero THEN <<>> ELSE b) \o <<f>>
BodySize(h) == IF h.uid = Zero THEN 0 ELSE SizeOf[h.size]

\* Mutated form: the mask is forgotten.
SessionIDUnmasked(h) == h.reserved

SessionID(h) == h.reserved \intersect SidBits

\* BufferBufferSyncword compares at every index below BufferSize - 4.
SyncwordAt(s) == {i \in 0..(Len(s) - Len(Syncword) - 1) :
                     SubSeq(s, i + 1, i + Len(Syncword)) = Syncword}
FirstSyncword(s) == CHOOSE i \in SyncwordAt(s) : \A j \in SyncwordAt(s) : i <= j

Nothing == [length |-> 0, sealed |-> "no", damage |-> "none", head |-> BlankHead,
            body |-> <<>>, foot |-> Zero]

\* The client has looked at what the last ReUse has told it.
Forget == BytesRead' = 0 /\ offered' = 0 /\ expected' = Nothing

\* A packet object whose body is b, and a stream nothing has been sent on.
PacketInit(b) ==
    /\ head = BlankHead
    /\ body = b
    /\ foot = Zero
    /\ sid = Zero
    /\ bFastIntegrity = FALSE
    /\ BytesRead = 0
    /\ offered = 0
    /\ Data = <<>>
    /\ sealed = "no"
    /\ sent = Nothing
    /\ aligned = TRUE
    /\ expected = Nothing
    /\ troubles = 0

Init == PacketInit(NoBody)

-----------------------------------------------------------------------------
(* The packet *)

\* The client sets head and body of the packet it is going to send; one with
\* uid 0 has "size == 0".
Fill(uid, reserved, bytes, size) ==
    /\ uid = Zero => bytes = <<>>
    /\ SizeOf[size] = Len(bytes)
    /\ head' = [head EXCEPT !.uid = uid, !.reserved = reserved, !.size = size]
    /\ body' = bytes
    /\ sealed' = "no"
    /\ Forget
    /\ UNCHANGED <<foot, sid, bFastIntegrity, streamVars>>

\* Mutated form: the seal is put on before the time stamp.
SealThenStamp(now) ==
    /\ head.uid = Zero \/ SizeOf[head.size] = Len(body)
    /\ foot' = now
    /\ head' = [head EXCEPT !.fastcode = XOR(Bytes(head, body, foot))]
    /\ bFastIntegrity' = TRUE
    /\ sealed' = IF head.fastcode = Zero THEN "clean" ELSE "again"
    /\ Forget
    /\ UNCHANGED <<body, sid, streamVars>>

\* OnStampSeal, and OnSeal, which leaves the time stamp as it is.  The XOR is
\* that of the whole head, with the fastcode that is there.  A client seals
\* what it has filled.
OnStampSeal(now) ==
    /\ head.uid = Zero \/ SizeOf[head.size] = Len(body)
    /\ foot' = now
    /\ head' = [head EXCEPT !.fastcode = XOR(Bytes(head, body, now))]
    /\ bFastIntegrity' = TRUE
    /\ sealed' = IF head.fastcode = Zero THEN "clean" ELSE "again"
    /\ Forget
    /\ UNCHANGED <<body, sid, streamVars>>

\* sid and bFastIntegrity stay as they are.
ReUseAsHeartbeat(now) ==
    /\ body' = NoBody
    /\ foot' = now
    /\ head' = [BlankHead EXCEPT !.fastcode = XOR(Bytes(BlankHead, NoBody, now))]
    /\ sealed' = "clean"
    /\ Forget
    /\ UNCHANGED <<sid, bFastIntegrity, streamVars>>

\* A new packet takes the place of the old one.
CreateHeartbeat(now) ==
    /\ body' = NoBody
    /\ foot' = now
    /\ head' = [BlankHead EXCEPT !.fastcode = XOR(Bytes(BlankHead, NoBody, now))]
    /\ sid' = Zero
    /\ bFastIntegrity' = FALSE
    /\ sealed' = "clean"
    /\ Forget
    /\ UNCHANGED streamVars

\* Compares the XOR of everything, the fastcode included, with the fastcode.
CheckIntegrity ==
    /\ bFastIntegrity' = (XOR(Bytes(head, body, foot)) = head.fastcode)
    /\ Forget
    /\ UNCHANGED <<head, body, foot, sid, streamVars, sealed>>

\* Through DeallockNetPacket into the recycle pool and out again.  fastcode,
\* uid, reserved and foot stay, for OnAlloc is not called.
OnDealloc ==
    /\ sid' = Zero
    /\ bFastIntegrity' = FALSE
    /\ body' = NoBody
    /\ head' = [head EXCEPT !.size = Zero]
    /\ sealed' = "no"
    /\ Forget
    /\ UNCHANGED <<foot, streamVars>>

\* A client may call it.
OnAlloc ==
    /\ head' = BlankHead
    /\ foot' = Zero
    /\ sealed' = "no"
    /\ Forget
    /\ UNCHANGED <<body, sid, bFastIntegrity, streamVars>>

-----------------------------------------------------------------------------
(* The stream *)

\* The client sends what WriteToArray has put into its array.  Out of step
\* with its peer it waits until the stream is drained.
WriteToArray ==
    /\ sealed # "no"
    /\ aligned
    /\ sent = Nothing
    /\ LET bytes == Bytes(head, body, foot) IN
         /\ Data' = Data \o bytes
         /\ sent' = [length |-> Len(Data) + Len(bytes), sealed |-> sealed,
                     damage |-> "none", head |-> head,
                     body |-> IF head.uid = Zero THEN <<>> ELSE body, foot |-> foot]
    /\ Forget
    /\ UNCHANGED <<packetVars, sealed, aligned, troubles>>

\* Bytes of no packet arrive, at most once before a packet and once after.
AddNoise(noise) ==
    /\ aligned
    /\ Len(Data) = sent.length
    /\ Data' = Data \o noise
    /\ Forget
    /\ UNCHANGED <<packetVars, sealed, sent, aligned, troubles>>

\* One bit of the packet arrives altered.  The bytes that say where
\* the packet begins and ends are "framing".
Damage(i, bit) ==
    /\ sent.damage = "none"
    /\ i \in 1..sent.length
    /\ LET start == sent.length - Len(Bytes(sent.head, sent.body, Zero))
           framing == 1..(start + Len(Syncword)) \union
                        {start + Len(Syncword) + 2, start + Len(Syncword) + 3}
       IN sent' = [sent EXCEPT !.damage =
                      IF i \in framing THEN "framing" ELSE "payload"]
    /\ Data' = [Data EXCEPT ![i] = (@ \ {bit}) \union ({bit} \ @)]
    /\ Forget
    /\ troubles < MaxTroubles
    /\ troubles' = troubles + 1
    /\ UNCHANGED <<packetVars, sealed, aligned>>

\* What a call that is given n bytes from `skip' on should find, and what is
\* left when the client has dropped the bytes the call has read; it never
\* drops more than it has.  It may send on a packet that was read and is valid.
Consume(skip, n, valid) ==
    LET last == skip + (IF BytesRead' > n THEN n ELSE BytesRead')
        partly == sent # Nothing /\ last # sent.length
    IN /\ partly => troubles < MaxTroubles
       /\ troubles' = IF partly THEN troubles + 1 ELSE troubles
       /\ offered' = n
       /\ expected' = IF sent # Nothing
                      THEN [sent EXCEPT !.length = @ - skip] ELSE Nothing
       /\ sent' = Nothing
       /\ Data' = SubSeq(Data, last + 1, Len(Data))
       /\ aligned' = ((aligned /\ ~partly) \/ Data' = <<>>)
       /\ sealed' = IF valid /\ BytesRead' <= n THEN "clean" ELSE "no"

\* The part of both ReUse functions that follows the head h, when its body
\* has the given size.  A failure claims to have read the whole buffer.
ReadSized(size, h, buffer, at) ==
    LET end == at + size
        bodyRead == size \in 0..(Len(buffer) - at)
        footRead == bodyRead /\ end < Len(buffer)
    IN /\ head' = h
       /\ body' = IF bodyRead /\ h.uid # Zero THEN SubSeq(buffer, at + 1, end) ELSE body
       /\ foot' = IF footRead THEN FootIn(buffer, end) ELSE foot
       /\ sid' = IF footRead \/ h.uid = Zero THEN SessionID(h) ELSE Zero
       /\ bFastIntegrity' = (footRead /\ XOR(Bytes(head', body', foot')) = Zero)
       /\ BytesRead' = IF footRead THEN end + 1 ELSE Len(buffer)

ReadRest(h, buffer, at) == ReadSized(BodySize(h), h, buffer, at)

\* Mutated form: a failure answers BufferSize + 1, as TSNetPacket does.
ReUseNoHeadPast(n) ==
    LET buffer == SubSeq(Data, 1, n) IN
    /\ SyncwordAt(buffer) # {} => Len(buffer) - FirstSyncword(buffer) < HeadSize
    /\ sid' = Zero
    /\ bFastIntegrity' = FALSE
    /\ BytesRead' = n + 1
    /\ Consume(0, n, bFastIntegrity')
    /\ UNCHANGED <<head, body, foot>>

\* ReUse(Data, BufferSize, ...), and the constructor with these parameters,
\* on the n bytes that have arrived.
ReUseNoHead(n) ==
    LET buffer == SubSeq(Data, 1, n) IN
    /\ SyncwordAt(buffer) # {} => Len(buffer) - FirstSyncword(buffer) < HeadSize
    /\ sid' = Zero
    /\ bFastIntegrity' = FALSE
    /\ BytesRead' = n
    /\ Consume(0, n, bFastIntegrity')
    /\ UNCHANGED <<head, body, foot>>

ReUse(n) ==
    LET buffer == SubSeq(Data, 1, n)
        index == FirstSyncword(buffer)
    IN /\ SyncwordAt(buffer) # {}
       /\ Len(buffer) - index >= HeadSize
       /\ ReadRest(HeadIn(buffer, index), buffer, index + HeadSize)
       /\ Consume(0, n, bFastIntegrity')

\* ReUse(InHead, Data, BufferSize, ...): the client has received the head of
\* a packet by itself and passes the n bytes after it.
ReUseAfterHead(n) ==
    /\ SubSeq(Data, 1, Len(Syncword)) = Syncword
    /\ ReadRest(HeadIn(Data, 0), SubSeq(Data, HeadSize + 1, HeadSize + n), 0)
    /\ Consume(HeadSize, n, bFastIntegrity')

-----------------------------------------------------------------------------
Next ==
    \/ \E uid \in Uids, reserved \in Reserved, bytes \in Bodies, size \in Byte :
          Fill(uid, reserved, bytes, size)
    \/ \E now \in Times \union {foot} : OnStampSeal(now)
    \/ \E now \in Times : ReUseAsHeartbeat(now) \/ CreateHeartbeat(now)
    \/ CheckIntegrity \/ OnDealloc \/ OnAlloc \/ WriteToArray
    \/ \E noise \in Noise : AddNoise(noise)
    \/ \E i \in 1..Len(Data), bit \in DamageBits : Damage(i, bit)
    \/ \E n \in 1..Len(Data) : ReUseNoHead(n) \/ ReUse(n)
    \/ \E n \in 0..(Len(Data) - HeadSize) : ReUseAfterHead(n)

Spec == Init /\ [][Next]_vars

-----------------------------------------------------------------------------
(* Properties *)

TypeOK ==
    /\ head \in [fastcode : Byte, uid : Byte, size : Byte, reserved : Byte]
    /\ body \in Seq(Byte)
    /\ foot \in Byte
    /\ sid \in SUBSET SidBits
    /\ bFastIntegrity \in BOOLEAN
    /\ BytesRead \in Nat
    /\ offered \in Nat
    /\ Data \in Seq(Byte)
    /\ sealed \in {"no", "clean", "again"}
    /\ aligned \in BOOLEAN

\* The last call was given a packet as a whole.
Whole == expected.length \in 1..offered

\* The packet is what was sent, and the rest of the stream is left alone.
Arrived(p) ==
    /\ bFastIntegrity
    /\ head = p.head
    /\ p.head.uid # Zero => body = p.body
    /\ foot = p.foot
    /\ sid = SessionID(p.head)
    /\ BytesRead = p.length

\* A packet that was sealed with a blank fastcode and arrives whole and
\* undamaged is parsed as it was sent, whatever the packet object it is
\* parsed into was used for before, and the next one is found after it.
RoundTrip ==
    Whole /\ expected.sealed = "clean" /\ expected.damage = "none" => Arrived(expected)

\* One altered bit outside the framing makes the packet invalid, or the call
\* has failed and says so.
DamageDetected ==
    expected.sealed = "clean" /\ expected.damage = "payload"
        => ~(bFastIntegrity /\ BytesRead <= offered)

\* ReUse reports neither more bytes than there are nor, given some, none: a
\* client that goes on behind what was read comes to an end.
ReadsForward == BytesRead <= offered /\ (offered > 0 => BytesRead > 0)

\* ServoProtocol.h:46 says of fastcode "xor value without this byte", which
\* is the code a receiver checks: every packet that is sealed and arrives
\* whole and undamaged is valid.
SealedIsValid == Whole /\ expected.damage = "none" => bFastIntegrity

=============================================================================
