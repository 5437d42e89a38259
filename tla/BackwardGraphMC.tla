--------------------------- MODULE BackwardGraphMC ---------------------------
(* Instances of BackwardGraph for TLC. *)
EXTENDS BackwardGraph, FiniteSets

CONSTANTS MaxEdges  \* bound: keys in the edge map

SmallIds == -1..1

FewEdges == Cardinality(DOMAIN EdgeMap) <= MaxEdges
=============================================================================
