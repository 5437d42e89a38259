------------------------------- MODULE Digraph -------------------------------
(***************************************************************************)
(* What the graphs of src/Core/Templates promise: a simple directed graph. *)
(* There is no edge from a vertex to itself, at most one edge from one     *)
(* vertex to another, and AddEdge answers whether it added one.  Looking   *)
(* up a pair that has no edge leaves a phantom: the pair is not connected, *)
(* and it cannot be connected any more.                                    *)
(***************************************************************************)
EXTENDS Integers, Sequences

CONSTANTS
    Ids,        \* vertex indexes callers name
    Values,     \* values of vertices
    Weights     \* weights of edges

VARIABLES
    values,     \* vertex i has the value values[i + 1]
    edges,      \* the weight of each connected pair <<start, end>>
    phantoms,   \* pairs that were looked up in vain
    answer      \* the last AddEdge: its pair, and whether it was added

vars == <<values, edges, phantoms, answer>>

Vertices == 0..(Len(values) - 1)

Addable(p) ==
    /\ p[1] \in Vertices /\ p[2] \in Vertices /\ p[1] # p[2]
    /\ p \notin DOMAIN edges \union phantoms

\* edges' has the pairs P and differs from edges at p only.
EdgesChange(P, p) ==
    /\ DOMAIN edges' = P
    /\ edges'[p] \in Weights
    /\ \A q \in P \ {p} : edges'[q] = edges[q]

-----------------------------------------------------------------------------
Init ==
    /\ values = <<>>
    /\ edges = [p \in {} |-> 0]
    /\ phantoms = {}
    /\ answer = [pair |-> <<0, 0>>, added |-> FALSE]

AddVertex ==
    /\ \E v \in Values : values' = Append(values, v)
    /\ UNCHANGED <<edges, phantoms, answer>>

SetValue ==
    /\ \E i \in DOMAIN values, v \in Values : values' = [values EXCEPT ![i] = v]
    /\ UNCHANGED <<edges, phantoms, answer>>

AddEdge ==
    \E p \in Ids \X Ids :
        /\ answer' = [pair |-> p, added |-> Addable(p)]
        /\ IF Addable(p) THEN EdgesChange(DOMAIN edges \union {p}, p)
                         ELSE UNCHANGED edges
        /\ UNCHANGED <<values, phantoms>>

SetWeight ==
    /\ \E p \in DOMAIN edges : EdgesChange(DOMAIN edges, p)
    /\ UNCHANGED <<values, phantoms, answer>>

Lookup ==
    /\ \E p \in (Ids \X Ids) \ DOMAIN edges : phantoms' = phantoms \union {p}
    /\ UNCHANGED <<values, edges, answer>>

Reset ==
    /\ values' = <<>>
    /\ edges' = [p \in {} |-> 0]
    /\ phantoms' = {}
    /\ UNCHANGED answer

\* A copy made through memory has every edge and no phantom.  The values are
\* the last ones of the copy, which may have more vertices.
Copy ==
    /\ \E n \in 0..(Len(values') - Len(values)) :
        values = SubSeq(values', n + 1, Len(values'))
    /\ phantoms' = {}
    /\ UNCHANGED <<edges, answer>>

Next == AddVertex \/ SetValue \/ AddEdge \/ SetWeight \/ Lookup \/ Reset \/ Copy

Spec == Init /\ [][Next]_vars
=============================================================================
