---------------------------- MODULE DirectedGraph ----------------------------
(***************************************************************************)
(* TDirectedGraph<VT, ET> (src/Core/Templates/DirectedGraph.hpp) with the  *)
(* STL containers: an array of vertices and a map from edge keys to edges. *)
(* A 64 bit key is two halves of Half (2^32) values each.  The graph is    *)
(* not thread safe, so each member function is one operator.               *)
(***************************************************************************)
EXTENDS Integers, Sequences

CONSTANTS
    Values,         \* values of type VT callers give to vertices
    DefaultValue,   \* VT()
    Weights,        \* ET, the type of edge weights
    DefaultWeight,  \* ET()
    Ids,            \* vertex indexes callers pass, some of them negative
    Half,           \* number of values of half a key
    MaxVertices     \* bound: vertices of a graph

ASSUME WeightsAssumption == DefaultWeight \in Weights
ASSUME HalfAssumption == Half \in Nat \ {0} /\ MaxVertices \in Nat /\ 2 * MaxVertices <= Half
ASSUME IdsAssumption == \A i \in Ids : i \in Int /\ -Half <= 2 * i /\ 2 * i < Half

VARIABLES VertexArray, EdgeMap

\* Mutated form: the key is computed with signed ids.
HashEdgeKeySigned(InStartId, InEndId) == InStartId * Half + InEndId

\* (InStartId << 32) | InEndId: the ids are sign-extended, so the halves of a
\* negative end are all ones and its low bits.
HashEdgeKey(InStartId, InEndId) ==
    IF InEndId >= 0
    THEN (InStartId % Half) * Half + InEndId
    ELSE (Half - 1) * Half + (InEndId % Half)

VertexCount == Len(VertexArray)
IsValidVertexIndex(i) == 0 <= i /\ i < VertexCount
IsValidEdge(s, e) == HashEdgeKey(s, e) \in DOMAIN EdgeMap

KeyOf(edge) == HashEdgeKey(edge.StartId, edge.EndId)

\* Mutated form: a second edge between the same vertices replaces the first.
CanAddEdgeAgain(s, e) ==
    /\ s # e
    /\ IsValidVertexIndex(s) /\ IsValidVertexIndex(e)

\* bDirectSelf is false, and nothing sets it.
CanAddEdge(s, e) ==
    /\ s # e
    /\ IsValidVertexIndex(s) /\ IsValidVertexIndex(e)
    /\ ~IsValidEdge(s, e)

NoEdges == [k \in {} |-> 0]
DefaultEdge == [StartId |-> 0, EndId |-> 0, Weight |-> DefaultWeight]

-----------------------------------------------------------------------------
GraphInit == VertexArray = <<>> /\ EdgeMap = NoEdges

GraphAddVertex(v) ==
    VertexArray' = Append(VertexArray, [Index |-> VertexCount, Value |-> v])

\* The client writes the value of the vertex GetVertex refers to.
GraphGetVertex(i, v) == VertexArray' = [VertexArray EXCEPT ![i + 1].Value = v]

GraphAddEdge(edge) ==
    EdgeMap' = [k \in DOMAIN EdgeMap \union {KeyOf(edge)} |->
                    IF k = KeyOf(edge) THEN edge ELSE EdgeMap[k]]

\* The client writes the weight of the edge GetEdge refers to; operator[]
\* of the map makes a default edge for a key it does not have.
GraphGetEdge(key, w) ==
    EdgeMap' = [k \in DOMAIN EdgeMap \union {key} |->
        IF k # key THEN EdgeMap[k]
        ELSE [(IF k \in DOMAIN EdgeMap THEN EdgeMap[k] ELSE DefaultEdge)
                EXCEPT !.Weight = w]]

\* Mutated form: the edges are not cleared.
GraphResetKeepsEdges == VertexArray' = <<>> /\ UNCHANGED EdgeMap

GraphReset == VertexArray' = <<>> /\ EdgeMap' = NoEdges

\* What Deseriallize makes of the memory Seriallize wrote: after the resize,
\* every vertex is appended once more.
LoadedVertices ==
    LET n == VertexCount
    IN  [i \in 1..(2 * n) |->
            IF i <= n THEN [Index |-> 0, Value |-> DefaultValue]
            ELSE [Index |-> i - 1, Value |-> VertexArray[i - n].Value]]

GetEdgeKeys == DOMAIN EdgeMap

\* The saved edges AddEdge takes once more.  The saved keys are read and not
\* used.
LoadedEdges ==
    {edge \in {EdgeMap[k] : k \in GetEdgeKeys} :
        /\ edge.StartId # edge.EndId
        /\ {edge.StartId, edge.EndId} \subseteq 0..(2 * VertexCount - 1)}

GraphDeseriallize ==
    /\ VertexArray' = LoadedVertices
    /\ EdgeMap' = [k \in {KeyOf(edge) : edge \in LoadedEdges} |->
                        CHOOSE edge \in LoadedEdges : KeyOf(edge) = k]
=============================================================================
