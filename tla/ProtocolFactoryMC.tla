-------------------------- MODULE ProtocolFactoryMC --------------------------
(* Instances of ProtocolFactory for TLC. *)
EXTENDS ProtocolFactory, TLC

Symmetry == Permutations(Objects) \union Permutations(Delegates)
=============================================================================
