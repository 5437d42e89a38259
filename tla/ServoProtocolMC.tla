--------------------------- MODULE ServoProtocolMC ---------------------------
(* Instances of ServoProtocol for TLC. *)
EXTENDS ServoProtocol, TLC

\* Producers, consumers and packets are interchangeable among themselves.
Symmetry == Permutations(Producers) \union Permutations(Consumers)
              \union Permutations(Packets)
=============================================================================
