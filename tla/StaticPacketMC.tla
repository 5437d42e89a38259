--------------------------- MODULE StaticPacketMC ---------------------------
(* The instance of NetPacketMC with static packets of one byte beside it. *)
EXTENDS NetPacketMC, StaticPacket

MCStaticBodies == {<<{0}>>, <<{1}>>}
MCNewBody == <<{}>>
=============================================================================
