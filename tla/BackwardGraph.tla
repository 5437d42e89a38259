---------------------------- MODULE BackwardGraph ----------------------------
(***************************************************************************)
(* TBackwardGraph<VT, ET> (src/Core/Templates/BackwardGraph.hpp): a        *)
(* directed graph whose overridden AddVertex, AddEdge and Reset keep, for  *)
(* every vertex, the set of vertices with an edge to it.  Deseriallize is  *)
(* the inherited one and calls the overridden functions.                   *)
(*                                                                         *)
(* Seriallize and Deseriallize are one step: Deseriallize first resets the *)
(* graph, so what it makes depends on the memory only, and the model goes  *)
(* on with the copy.                                                       *)
(***************************************************************************)
EXTENDS DirectedGraph

VARIABLES
    ParentEdges,    \* of each vertex, the vertices with an edge to it
    answer,         \* history: the last AddEdge and its result
    overrun         \* ParentEdges was indexed past its end: undefined behaviour

vars == <<VertexArray, EdgeMap, ParentEdges, answer, overrun>>

\* The constructor of EdgeAdjustList ignores its argument.
EdgeAdjustList == [Index |-> 0, AdjustVertexes |-> {}]

-----------------------------------------------------------------------------
Init ==
    /\ GraphInit
    /\ ParentEdges = <<>>
    /\ answer = [pair |-> <<0, 0>>, added |-> FALSE]
    /\ overrun = FALSE

\* Mutated form: the new vertex gets no parent list.
AddVertexOnly ==
    /\ Len(VertexArray) < MaxVertices
    /\ \E v \in Values : GraphAddVertex(v)
    /\ UNCHANGED <<EdgeMap, ParentEdges, answer, overrun>>

AddVertex ==
    /\ Len(VertexArray) < MaxVertices
    /\ \E v \in Values : GraphAddVertex(v)
    /\ ParentEdges' = Append(ParentEdges, EdgeAdjustList)
    /\ UNCHANGED <<EdgeMap, answer, overrun>>

\* The edge is added before ParentEdges is indexed by its end.
AddEdge ==
    /\ \E s, e \in Ids, w \in Weights :
        /\ CanAddEdge(s, e)
        /\ GraphAddEdge([StartId |-> s, EndId |-> e, Weight |-> w])
        /\ answer' = [pair |-> <<s, e>>, added |-> TRUE]
        /\ IF e < Len(ParentEdges)
           THEN /\ ParentEdges' =
                    [ParentEdges EXCEPT ![e + 1].AdjustVertexes = @ \union {s}]
                /\ UNCHANGED overrun
           ELSE overrun' = TRUE /\ UNCHANGED ParentEdges
    /\ UNCHANGED VertexArray

RejectEdge ==
    /\ \E s, e \in Ids :
        /\ ~CanAddEdge(s, e)
        /\ answer' = [pair |-> <<s, e>>, added |-> FALSE]
    /\ UNCHANGED <<VertexArray, EdgeMap, ParentEdges, overrun>>

GetVertex ==
    /\ \E i \in Ids, v \in Values : IsValidVertexIndex(i) /\ GraphGetVertex(i, v)
    /\ UNCHANGED <<EdgeMap, ParentEdges, answer, overrun>>

GetEdge ==
    /\ \E s, e \in Ids, w \in Weights : GraphGetEdge(HashEdgeKey(s, e), w)
    /\ UNCHANGED <<VertexArray, ParentEdges, answer, overrun>>

\* Mutated form: the parent lists are not cleared.
ResetKeepsParents ==
    /\ GraphReset
    /\ UNCHANGED <<ParentEdges, answer, overrun>>

Reset ==
    /\ GraphReset
    /\ ParentEdges' = <<>>
    /\ UNCHANGED <<answer, overrun>>

\* Only the appended vertices get parent lists.
LoadedParents ==
    [i \in 1..Len(VertexArray) |-> [EdgeAdjustList EXCEPT !.AdjustVertexes =
        {edge.StartId : edge \in {d \in LoadedEdges : d.EndId = i - 1}}]]

Deseriallize ==
    /\ 2 * Len(VertexArray) <= MaxVertices
    /\ GraphDeseriallize
    /\ ParentEdges' = LoadedParents
    /\ UNCHANGED <<answer, overrun>>

\* Nothing is said of a graph after the overrun.
Next ==
    /\ ~overrun
    /\ \/ AddVertex \/ AddEdge \/ RejectEdge \/ GetVertex \/ GetEdge
       \/ Reset \/ Deseriallize

Spec == Init /\ [][Next]_vars

-----------------------------------------------------------------------------
EdgeType == [StartId : Nat, EndId : Nat, Weight : Weights]

TypeOK ==
    /\ VertexArray \in Seq([Index : Nat, Value : Values \union {DefaultValue}])
    /\ Len(VertexArray) <= MaxVertices
    /\ DOMAIN EdgeMap \subseteq Nat
    /\ \A k \in DOMAIN EdgeMap : EdgeMap[k] \in EdgeType
    /\ ParentEdges \in Seq([Index : {0}, AdjustVertexes : SUBSET Nat])
    /\ answer \in [pair : Ids \X Ids, added : BOOLEAN] \union
                  [pair : {<<0, 0>>}, added : {FALSE}]
    /\ overrun \in BOOLEAN

\* The edges that AddEdge put into the map; the others are default edges.
RealKeys == {k \in DOMAIN EdgeMap : EdgeMap[k].StartId # EdgeMap[k].EndId}

\* A real edge is stored under the key of its ends, and its ends are vertices
\* of the graph, through resets, copies and lookups of missing edges.
KeysAgree ==
    \A k \in RealKeys :
        /\ k = KeyOf(EdgeMap[k])
        /\ IsValidVertexIndex(EdgeMap[k].StartId)
        /\ IsValidVertexIndex(EdgeMap[k].EndId)

\* The parent lists (BackwardGraph.hpp:83-96) say what the edge map says, as
\* long as they are long enough: vertex s is a parent of e exactly if there is
\* an edge from s to e.
ParentsMirror ==
    overrun \/ \A s \in 0..(Len(VertexArray) - 1), i \in 1..Len(VertexArray) :
        (i <= Len(ParentEdges) /\ s \in ParentEdges[i].AdjustVertexes)
            <=> \E k \in RealKeys : EdgeMap[k].StartId = s /\ EdgeMap[k].EndId = i - 1

\* Every vertex has its own index and a parent list.
Aligned ==
    /\ Len(ParentEdges) = Len(VertexArray)
    /\ \A i \in 1..Len(VertexArray) : VertexArray[i].Index = i - 1

\* A graph that is not aligned comes from a copy of a graph with vertices.
\* Whatever else is called, an aligned graph stays aligned and no call indexes
\* ParentEdges past its end (BackwardGraph.hpp:91).
OnlyCopyMisaligns ==
    [][Aligned /\ ~Deseriallize => Aligned' /\ ~overrun']_vars

-----------------------------------------------------------------------------
Pair(k) == <<EdgeMap[k].StartId, EdgeMap[k].EndId>>
AbsEdges ==
    [p \in {Pair(k) : k \in RealKeys} |-> EdgeMap[HashEdgeKey(p[1], p[2])].Weight]

G == INSTANCE Digraph WITH
        values <- [i \in 1..Len(VertexArray) |-> VertexArray[i].Value],
        edges <- AbsEdges,
        phantoms <- {p \in (Ids \intersect Nat) \X (Ids \intersect Nat) :
                        IsValidEdge(p[1], p[2]) /\ p \notin DOMAIN AbsEdges}

\* The map of edges, with its keys and its default edges, implements a simple
\* directed graph: no self loops, no parallel edges, no edge is lost or refused
\* without a reason, and a copy has the same edges.
GraphRefined == G!Spec
=============================================================================
