----------------------------- MODULE SingletonMC -----------------------------
(* Instances of Singleton for TLC. *)
EXTENDS Singleton, TLC

Symmetry == Permutations(Objects)
=============================================================================
