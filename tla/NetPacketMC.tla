---------------------------- MODULE NetPacketMC ----------------------------
(* Instances of NetPacket for TLC: bytes of two bits. *)
EXTENDS NetPacket

MCSyncword == <<{1}, {0, 1}>>

\* Sizes zero, one, two, and a negative one.
MCSizeOf == [b \in Byte |-> CASE b = {} -> 0 [] b = {0} -> 1 [] b = {1} -> 2
                              [] b = {0, 1} -> -1]

MCUids == {{}, {0}}
MCBodies == {<<>>, <<{0}, {1}>>}
MCReserved == {{0}}
MCTimes == {{0}}
MCNoise == {<<{1}>>}
=============================================================================
