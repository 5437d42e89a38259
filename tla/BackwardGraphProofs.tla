------------------------- MODULE BackwardGraphProofs -------------------------
(***************************************************************************)
(* Proofs about BackwardGraph, for every set of values, weights and ids.   *)
(* In the inductive invariant, the parent lists say exactly which edges    *)
(* end where, and no edge ends beyond the lists: a list that is appended   *)
(* later is empty, as it should be.  That real edges are stored under      *)
(* their own key is what makes a copy keep all of them.                    *)
(* BackwardGraph implements Digraph because of the keys: those of two      *)
(* pairs of vertices differ, and no pair with a negative index has the key *)
(* of a pair of vertices, so the map never takes one pair for another.     *)
(***************************************************************************)
EXTENDS BackwardGraph, SequenceTheorems, TLAPS

USE WeightsAssumption, HalfAssumption, IdsAssumption

\* The starts of the edges to vertex e.
StartsOf(e) == {EdgeMap[k].StartId : k \in {l \in RealKeys : EdgeMap[l].EndId = e}}

Mirror ==
    /\ Len(ParentEdges) <= Len(VertexArray)
    /\ \A i \in 1..Len(ParentEdges) : ParentEdges[i].AdjustVertexes = StartsOf(i - 1)
    /\ \A k \in RealKeys : EdgeMap[k].EndId < Len(ParentEdges)

IInv == TypeOK /\ KeysAgree /\ (~overrun => Mirror)

\* A key is a natural number (DirectedGraph.hpp:270-274).
LEMMA KeyType ==
    ASSUME NEW s \in Int, NEW e \in Int
    PROVE  HashEdgeKey(s, e) \in Nat
<1>1. s % Half \in Nat /\ e % Half \in Nat  OBVIOUS
<1>2. (s % Half) * Half \in Nat  BY <1>1
<1>3. (Half - 1) * Half \in Nat  OBVIOUS
<1> QED  BY <1>1, <1>2, <1>3 DEF HashEdgeKey

\* A default edge, or an edge with another weight, has the ends it had.
LEMMA GetEdgeKeepsEnds ==
    ASSUME TypeOK, NEW key \in Nat, NEW w \in Weights, GraphGetEdge(key, w)
    PROVE  /\ DOMAIN EdgeMap' = DOMAIN EdgeMap \union {key}
           /\ \A k \in DOMAIN EdgeMap' : EdgeMap'[k] \in EdgeType
           /\ \A k \in DOMAIN EdgeMap :
                /\ EdgeMap'[k].StartId = EdgeMap[k].StartId
                /\ EdgeMap'[k].EndId = EdgeMap[k].EndId
           /\ key \notin DOMAIN EdgeMap =>
                EdgeMap'[key].StartId = 0 /\ EdgeMap'[key].EndId = 0
<1>1. \A k \in DOMAIN EdgeMap : EdgeMap[k] \in [StartId : Nat, EndId : Nat, Weight : Weights]
  BY DEF TypeOK, EdgeType
<1>2. DefaultEdge \in [StartId : Nat, EndId : Nat, Weight : Weights]
  BY DEF DefaultEdge
<1>3. EdgeMap' = [k \in DOMAIN EdgeMap \union {key} |->
        IF k # key THEN EdgeMap[k]
        ELSE [(IF k \in DOMAIN EdgeMap THEN EdgeMap[k] ELSE DefaultEdge)
                EXCEPT !.Weight = w]]
  BY DEF GraphGetEdge
<1>4. DOMAIN EdgeMap' = DOMAIN EdgeMap \union {key}  BY <1>3
<1>5. ASSUME NEW k \in DOMAIN EdgeMap \union {key}, k # key
      PROVE  EdgeMap'[k] = EdgeMap[k] /\ k \in DOMAIN EdgeMap
  BY <1>3, <1>5
<1>6. CASE key \in DOMAIN EdgeMap
  <2>1. EdgeMap'[key] = [EdgeMap[key] EXCEPT !.Weight = w]  BY <1>3, <1>6
  <2>2. EdgeMap[key] \in [StartId : Nat, EndId : Nat, Weight : Weights]  BY <1>1, <1>6
  <2>3. /\ EdgeMap'[key] \in EdgeType
        /\ EdgeMap'[key].StartId = EdgeMap[key].StartId
        /\ EdgeMap'[key].EndId = EdgeMap[key].EndId
    BY <2>1, <2>2 DEF EdgeType
  <2> QED  BY <1>1, <1>4, <1>5, <1>6, <2>3 DEF EdgeType
<1>7. CASE key \notin DOMAIN EdgeMap
  <2>1. EdgeMap'[key] = [DefaultEdge EXCEPT !.Weight = w]  BY <1>3, <1>7
  <2>2. /\ EdgeMap'[key] \in EdgeType
        /\ EdgeMap'[key].StartId = 0
        /\ EdgeMap'[key].EndId = 0
    BY <2>1, <1>2 DEF EdgeType, DefaultEdge
  <2> QED  BY <1>1, <1>4, <1>5, <1>7, <2>2 DEF EdgeType
<1> QED  BY <1>6, <1>7

\* Every real edge is loaded, under its own key, and nothing else is.
LEMMA CopyKeepsEdges ==
    ASSUME TypeOK, KeysAgree, GraphDeseriallize
    PROVE  /\ LoadedEdges = {EdgeMap[k] : k \in RealKeys}
           /\ DOMAIN EdgeMap' = RealKeys
           /\ \A k \in RealKeys : EdgeMap'[k] = EdgeMap[k]
<1>1. VertexCount \in Nat  BY DEF TypeOK, VertexCount
<1>2. \A k \in DOMAIN EdgeMap : EdgeMap[k].StartId \in Nat /\ EdgeMap[k].EndId \in Nat
  BY DEF TypeOK, EdgeType
<1>3. \A k \in RealKeys :
        {EdgeMap[k].StartId, EdgeMap[k].EndId} \subseteq 0..(2 * VertexCount - 1)
  BY <1>1, <1>2 DEF KeysAgree, RealKeys, IsValidVertexIndex
<1>4. LoadedEdges = {EdgeMap[k] : k \in RealKeys}
  BY <1>3 DEF LoadedEdges, RealKeys, GetEdgeKeys
<1>5. \A k \in RealKeys : KeyOf(EdgeMap[k]) = k  BY DEF KeysAgree
<1>6. {KeyOf(edge) : edge \in LoadedEdges} = RealKeys  BY <1>4, <1>5
<1>7. ASSUME NEW k \in RealKeys
      PROVE  (CHOOSE edge \in LoadedEdges : KeyOf(edge) = k) = EdgeMap[k]
  <2>1. EdgeMap[k] \in LoadedEdges /\ KeyOf(EdgeMap[k]) = k  BY <1>4, <1>5
  <2>2. \A edge \in LoadedEdges : KeyOf(edge) = k => edge = EdgeMap[k]  BY <1>4, <1>5
  <2> QED  BY <2>1, <2>2
<1>8. EdgeMap' = [k \in {KeyOf(edge) : edge \in LoadedEdges} |->
                        CHOOSE edge \in LoadedEdges : KeyOf(edge) = k]
  BY DEF GraphDeseriallize
<1>9. EdgeMap' = [k \in RealKeys |-> CHOOSE edge \in LoadedEdges : KeyOf(edge) = k]
  BY <1>6, <1>8
<1> QED  BY <1>4, <1>7, <1>9

-----------------------------------------------------------------------------
(* The actions.  Each lemma takes one of them and proves IInv'. *)

LEMMA AddVertexStep ==
    ASSUME IInv, ~overrun, AddVertex
    PROVE  IInv'
<1>1. PICK v \in Values : GraphAddVertex(v)  BY DEF AddVertex
<1>2. /\ VertexArray' = Append(VertexArray, [Index |-> Len(VertexArray), Value |-> v])
      /\ Len(VertexArray) < MaxVertices
      /\ ParentEdges' = Append(ParentEdges, EdgeAdjustList)
      /\ EdgeMap' = EdgeMap /\ answer' = answer /\ overrun' = overrun
  BY <1>1 DEF AddVertex, GraphAddVertex, VertexCount
<1>3. /\ VertexArray \in Seq([Index : Nat, Value : Values \union {DefaultValue}])
      /\ ParentEdges \in Seq([Index : {0}, AdjustVertexes : SUBSET Nat])
      /\ Len(VertexArray) \in Nat /\ Len(ParentEdges) \in Nat
  BY DEF IInv, TypeOK
<1>4. TypeOK'
  <2>1. VertexArray' \in Seq([Index : Nat, Value : Values \union {DefaultValue}])
    BY <1>2, <1>3
  <2>2. Len(VertexArray') <= MaxVertices  BY <1>2, <1>3
  <2>3. EdgeAdjustList \in [Index : {0}, AdjustVertexes : SUBSET Nat]
    BY DEF EdgeAdjustList
  <2>4. ParentEdges' \in Seq([Index : {0}, AdjustVertexes : SUBSET Nat])
    BY <1>2, <1>3, <2>3
  <2> QED  BY <1>2, <2>1, <2>2, <2>4 DEF IInv, TypeOK
<1>5. Len(VertexArray') = Len(VertexArray) + 1  BY <1>2, <1>3
<1>6. KeysAgree'
  <2>1. RealKeys' = RealKeys  BY <1>2 DEF RealKeys
  <2>2. ASSUME NEW k \in RealKeys
        PROVE  k = KeyOf(EdgeMap[k]) /\ EdgeMap[k].StartId \in 0..(Len(VertexArray) - 1)
                                     /\ EdgeMap[k].EndId \in 0..(Len(VertexArray) - 1)
    BY <1>3 DEF IInv, TypeOK, EdgeType, KeysAgree, RealKeys, IsValidVertexIndex, VertexCount
  <2>3. \A i \in 0..(Len(VertexArray) - 1) : IsValidVertexIndex(i)'
    BY <1>3, <1>5 DEF IsValidVertexIndex, VertexCount
  <2>4. ASSUME NEW k \in RealKeys  PROVE KeyOf(EdgeMap[k])' = KeyOf(EdgeMap[k])
    BY <1>2 DEF KeyOf
  <2> QED  BY <1>2, <2>1, <2>2, <2>3, <2>4 DEF KeysAgree
<1>7. Mirror'
  <2>1. /\ Len(ParentEdges') = Len(ParentEdges) + 1
        /\ \A i \in 1..Len(ParentEdges) : ParentEdges'[i] = ParentEdges[i]
        /\ ParentEdges'[Len(ParentEdges) + 1].AdjustVertexes = {}
    BY <1>2, <1>3 DEF EdgeAdjustList
  <2>2. RealKeys' = RealKeys  BY <1>2 DEF RealKeys
  <2>3. StartsOf(Len(ParentEdges)) = {}
    BY <1>3 DEF IInv, Mirror, StartsOf
  <2>4. ASSUME NEW i \in 1..Len(ParentEdges')
        PROVE  ParentEdges'[i].AdjustVertexes = StartsOf(i - 1)
    <3>1. CASE i = Len(ParentEdges) + 1
      <4>1. i - 1 = Len(ParentEdges)  BY <3>1, <1>3
      <4> QED  BY <2>1, <2>3, <3>1, <4>1
    <3>2. CASE i # Len(ParentEdges) + 1
      <4>1. i \in 1..Len(ParentEdges)  BY <2>1, <3>2, <1>3
      <4> QED  BY <2>1, <4>1 DEF IInv, Mirror
    <3> QED  BY <3>1, <3>2
  <2>5. ASSUME NEW e  PROVE StartsOf(e)' = StartsOf(e)
    BY <1>2, <2>2 DEF StartsOf
  <2>6. \A k \in RealKeys : EdgeMap[k].EndId < Len(ParentEdges)'
    BY <2>1, <1>3 DEF IInv, Mirror, TypeOK, EdgeType, RealKeys
  <2>7. Len(ParentEdges') <= Len(VertexArray')
    BY <2>1, <1>3, <1>5 DEF IInv, Mirror
  <2> QED  BY <1>2, <2>2, <2>4, <2>5, <2>6, <2>7 DEF Mirror
<1> QED  BY <1>4, <1>6, <1>7 DEF IInv

LEMMA AddEdgeStep ==
    ASSUME IInv, ~overrun, AddEdge
    PROVE  IInv'
<1>1. PICK s \in Ids, e \in Ids, w \in Weights :
        /\ CanAddEdge(s, e)
        /\ GraphAddEdge([StartId |-> s, EndId |-> e, Weight |-> w])
        /\ answer' = [pair |-> <<s, e>>, added |-> TRUE]
        /\ IF e < Len(ParentEdges)
           THEN /\ ParentEdges' =
                    [ParentEdges EXCEPT ![e + 1].AdjustVertexes = @ \union {s}]
                /\ UNCHANGED overrun
           ELSE overrun' = TRUE /\ UNCHANGED ParentEdges
  BY DEF AddEdge
<1> DEFINE edge == [StartId |-> s, EndId |-> e, Weight |-> w]
           key == HashEdgeKey(s, e)
<1>2. VertexArray' = VertexArray  BY DEF AddEdge
<1>3. /\ VertexArray \in Seq([Index : Nat, Value : Values \union {DefaultValue}])
      /\ ParentEdges \in Seq([Index : {0}, AdjustVertexes : SUBSET Nat])
      /\ Len(VertexArray) \in Nat /\ Len(ParentEdges) \in Nat
      /\ s \in Int /\ e \in Int
  BY <1>1 DEF IInv, TypeOK
<1>4. /\ s # e
      /\ s \in 0..(Len(VertexArray) - 1) /\ e \in 0..(Len(VertexArray) - 1)
      /\ key \notin DOMAIN EdgeMap
  BY <1>1, <1>3 DEF CanAddEdge, IsValidVertexIndex, IsValidEdge, VertexCount
<1>5. key \in Nat  BY <1>3, KeyType
<1>6. KeyOf(edge) = key  BY DEF KeyOf
<1>7. EdgeMap' = [k \in DOMAIN EdgeMap \union {key} |->
                    IF k = key THEN edge ELSE EdgeMap[k]]
  <2>1. EdgeMap' = [k \in DOMAIN EdgeMap \union {KeyOf(edge)} |->
                    IF k = KeyOf(edge) THEN edge ELSE EdgeMap[k]]
    BY <1>1 DEF GraphAddEdge
  <2> QED  BY <1>6, <2>1
<1>8. /\ DOMAIN EdgeMap' = DOMAIN EdgeMap \union {key}
      /\ EdgeMap'[key] = edge
      /\ \A k \in DOMAIN EdgeMap : EdgeMap'[k] = EdgeMap[k]
  BY <1>4, <1>7
<1>9. edge \in EdgeType /\ edge.StartId = s /\ edge.EndId = e
  BY <1>3, <1>4 DEF EdgeType
<1> HIDE DEF key, edge
<1>10. RealKeys' = RealKeys \union {key}  BY <1>4, <1>8, <1>9 DEF RealKeys
<1>11. TypeOK'
  <2>1. \A k \in DOMAIN EdgeMap' : EdgeMap'[k] \in EdgeType
    BY <1>8, <1>9 DEF IInv, TypeOK
  <2>2. DOMAIN EdgeMap' \subseteq Nat  BY <1>5, <1>8 DEF IInv, TypeOK
  <2>3. ParentEdges' \in Seq([Index : {0}, AdjustVertexes : SUBSET Nat])
    <3>1. CASE e < Len(ParentEdges)
      <4>1. e + 1 \in 1..Len(ParentEdges) /\ s \in Nat  BY <1>3, <1>4, <3>1
      <4>2. ParentEdges[e + 1] \in [Index : {0}, AdjustVertexes : SUBSET Nat]
        BY <1>3, <4>1, ElementOfSeq
      <4>3. [ParentEdges[e + 1] EXCEPT !.AdjustVertexes = @ \union {s}]
              \in [Index : {0}, AdjustVertexes : SUBSET Nat]
        BY <4>1, <4>2
      <4>4. ParentEdges' = [ParentEdges EXCEPT ![e + 1] =
                [ParentEdges[e + 1] EXCEPT !.AdjustVertexes = @ \union {s}]]
        BY <1>1, <3>1, <4>1
      <4> QED  BY <1>3, <4>1, <4>3, <4>4
    <3>2. CASE ~(e < Len(ParentEdges))
      BY <1>1, <1>3, <3>2
    <3> QED  BY <3>1, <3>2
  <2>4. answer' \in [pair : Ids \X Ids, added : BOOLEAN]  BY <1>1
  <2>5. overrun' \in BOOLEAN
    <3>1. CASE e < Len(ParentEdges)  BY <1>1, <3>1 DEF IInv, TypeOK
    <3>2. CASE ~(e < Len(ParentEdges))  BY <1>1, <3>2
    <3> QED  BY <3>1, <3>2
  <2> QED  BY <1>2, <2>1, <2>2, <2>3, <2>4, <2>5 DEF IInv, TypeOK
<1>12. KeysAgree'
  <2>1. \A i \in 0..(Len(VertexArray) - 1) : IsValidVertexIndex(i)'
    BY <1>2, <1>3 DEF IsValidVertexIndex, VertexCount
  <2>2. ASSUME NEW k \in RealKeys
        PROVE  /\ k = KeyOf(EdgeMap[k])'
               /\ IsValidVertexIndex(EdgeMap[k].StartId)'
               /\ IsValidVertexIndex(EdgeMap[k].EndId)'
    <3>1. k \in DOMAIN EdgeMap /\ EdgeMap'[k] = EdgeMap[k]  BY <1>8 DEF RealKeys
    <3>2. k = KeyOf(EdgeMap[k])  BY DEF IInv, KeysAgree
    <3>3. /\ EdgeMap[k].StartId \in 0..(Len(VertexArray) - 1)
          /\ EdgeMap[k].EndId \in 0..(Len(VertexArray) - 1)
      BY <1>3, <3>1 DEF IInv, TypeOK, EdgeType, KeysAgree, IsValidVertexIndex, VertexCount
    <3> QED  BY <2>1, <3>1, <3>2, <3>3 DEF KeyOf
  <2>3. /\ key = KeyOf(EdgeMap[key])'
        /\ IsValidVertexIndex(EdgeMap[key].StartId)'
        /\ IsValidVertexIndex(EdgeMap[key].EndId)'
    BY <1>4, <1>8, <1>9, <2>1 DEF KeyOf, key
  <2> QED  BY <1>10, <2>2, <2>3 DEF KeysAgree
<1>13. ASSUME ~overrun'  PROVE Mirror'
  <2>1. e < Len(ParentEdges)  BY <1>1, <1>13
  <2>2. e + 1 \in 1..Len(ParentEdges)  BY <1>3, <1>4, <2>1
  <2>3. /\ Len(ParentEdges') = Len(ParentEdges)
        /\ ParentEdges'[e + 1].AdjustVertexes = ParentEdges[e + 1].AdjustVertexes \union {s}
        /\ \A i \in 1..Len(ParentEdges) \ {e + 1} : ParentEdges'[i] = ParentEdges[i]
    <3>1. ParentEdges' = [ParentEdges EXCEPT ![e + 1] =
                [ParentEdges[e + 1] EXCEPT !.AdjustVertexes = @ \union {s}]]
      BY <1>1, <2>1, <2>2
    <3>2. ParentEdges[e + 1] \in [Index : {0}, AdjustVertexes : SUBSET Nat]
      BY <1>3, <2>2, ElementOfSeq
    <3> QED  BY <1>3, <2>2, <3>1, <3>2
  <2>4. StartsOf(e)' = StartsOf(e) \union {s}
    BY <1>8, <1>9, <1>10 DEF StartsOf, RealKeys
  <2>5. ASSUME NEW d, d # e  PROVE StartsOf(d)' = StartsOf(d)
    BY <1>4, <1>8, <1>9, <1>10, <2>5 DEF StartsOf, RealKeys
  <2>6. ASSUME NEW i \in 1..Len(ParentEdges)
        PROVE  ParentEdges'[i].AdjustVertexes = StartsOf(i - 1)'
    <3>1. ParentEdges[i].AdjustVertexes = StartsOf(i - 1)  BY DEF IInv, Mirror
    <3>2. CASE i = e + 1
      <4>1. i - 1 = e  BY <1>3, <3>2
      <4> QED  BY <2>3, <2>4, <3>1, <3>2, <4>1
    <3>3. CASE i # e + 1
      <4>1. i - 1 # e  BY <1>3, <3>3
      <4> QED  BY <2>3, <2>5, <3>1, <3>3, <4>1
    <3> QED  BY <3>2, <3>3
  <2>7. \A k \in RealKeys' : EdgeMap'[k].EndId < Len(ParentEdges')
    BY <1>8, <1>9, <1>10, <2>1, <2>3 DEF IInv, Mirror, RealKeys
  <2> QED  BY <1>2, <2>3, <2>6, <2>7 DEF IInv, Mirror
<1> QED  BY <1>11, <1>12, <1>13 DEF IInv

LEMMA GetVertexStep ==
    ASSUME IInv, ~overrun, GetVertex
    PROVE  IInv'
<1>1. PICK i \in Ids, v \in Values : IsValidVertexIndex(i) /\ GraphGetVertex(i, v)
  BY DEF GetVertex
<1>2. /\ VertexArray' = [VertexArray EXCEPT ![i + 1].Value = v]
      /\ EdgeMap' = EdgeMap /\ ParentEdges' = ParentEdges
      /\ answer' = answer /\ overrun' = overrun
  BY <1>1 DEF GetVertex, GraphGetVertex
<1>3. VertexArray \in Seq([Index : Nat, Value : Values \union {DefaultValue}])
  BY DEF IInv, TypeOK
<1>4. i + 1 \in 1..Len(VertexArray)
  BY <1>1, <1>3 DEF IsValidVertexIndex, VertexCount
<1>5. VertexArray[i + 1] \in [Index : Nat, Value : Values \union {DefaultValue}]
  BY <1>3, <1>4, ElementOfSeq
<1>6. [VertexArray[i + 1] EXCEPT !.Value = v]
        \in [Index : Nat, Value : Values \union {DefaultValue}]
  BY <1>5
<1>7. VertexArray' = [VertexArray EXCEPT ![i + 1] = [VertexArray[i + 1] EXCEPT !.Value = v]]
  BY <1>2, <1>4
<1>8. /\ VertexArray' \in Seq([Index : Nat, Value : Values \union {DefaultValue}])
      /\ Len(VertexArray') = Len(VertexArray)
  BY <1>3, <1>4, <1>6, <1>7
<1>9. TypeOK'  BY <1>2, <1>8 DEF IInv, TypeOK
<1>10. KeysAgree'
  BY <1>2, <1>8 DEF IInv, KeysAgree, RealKeys, KeyOf, IsValidVertexIndex, VertexCount
<1>11. Mirror'
  BY <1>2, <1>8 DEF IInv, Mirror, RealKeys, StartsOf
<1> QED  BY <1>9, <1>10, <1>11 DEF IInv

LEMMA GetEdgeStep ==
    ASSUME IInv, ~overrun, GetEdge
    PROVE  IInv'
<1>1. PICK s \in Ids, e \in Ids, w \in Weights : GraphGetEdge(HashEdgeKey(s, e), w)
  BY DEF GetEdge
<1>2. /\ VertexArray' = VertexArray /\ ParentEdges' = ParentEdges
      /\ answer' = answer /\ overrun' = overrun
  BY DEF GetEdge
<1>3. HashEdgeKey(s, e) \in Nat
  <2>1. s \in Int /\ e \in Int  OBVIOUS
  <2> QED  BY <2>1, KeyType
<1>4. PICK key \in Nat : key = HashEdgeKey(s, e)  BY <1>3
<1>5. /\ DOMAIN EdgeMap' = DOMAIN EdgeMap \union {key}
      /\ \A k \in DOMAIN EdgeMap' : EdgeMap'[k] \in EdgeType
      /\ \A k \in DOMAIN EdgeMap :
           /\ EdgeMap'[k].StartId = EdgeMap[k].StartId
           /\ EdgeMap'[k].EndId = EdgeMap[k].EndId
      /\ key \notin DOMAIN EdgeMap =>
           EdgeMap'[key].StartId = 0 /\ EdgeMap'[key].EndId = 0
  <2>1. TypeOK /\ GraphGetEdge(key, w)  BY <1>1, <1>4 DEF IInv
  <2> QED  BY <2>1, GetEdgeKeepsEnds
<1>6. RealKeys' = RealKeys  BY <1>5 DEF RealKeys
<1>7. TypeOK'  BY <1>2, <1>5 DEF IInv, TypeOK
<1>8. KeysAgree'
  <2>1. \A i : IsValidVertexIndex(i)' <=> IsValidVertexIndex(i)
    BY <1>2 DEF IsValidVertexIndex, VertexCount
  <2>2. ASSUME NEW k \in RealKeys
        PROVE  /\ k = KeyOf(EdgeMap[k])'
               /\ IsValidVertexIndex(EdgeMap[k].StartId)'
               /\ IsValidVertexIndex(EdgeMap[k].EndId)'
    <3>1. /\ EdgeMap'[k].StartId = EdgeMap[k].StartId
          /\ EdgeMap'[k].EndId = EdgeMap[k].EndId
      BY <1>5 DEF RealKeys
    <3>2. /\ k = KeyOf(EdgeMap[k])
          /\ IsValidVertexIndex(EdgeMap[k].StartId)
          /\ IsValidVertexIndex(EdgeMap[k].EndId)
      BY DEF IInv, KeysAgree
    <3> QED  BY <2>1, <3>1, <3>2 DEF KeyOf
  <2> QED  BY <1>6, <2>2 DEF KeysAgree
<1>9. Mirror'
  <2>1. ASSUME NEW d  PROVE StartsOf(d)' = StartsOf(d)
    BY <1>5, <1>6 DEF StartsOf, RealKeys
  <2>2. \A k \in RealKeys : EdgeMap'[k].EndId < Len(ParentEdges)
    BY <1>5 DEF IInv, Mirror, RealKeys
  <2> QED  BY <1>2, <1>6, <2>1, <2>2 DEF IInv, Mirror
<1> QED  BY <1>7, <1>8, <1>9 DEF IInv

EmptyTyped(vertices, lists) ==
    /\ vertices \in Seq([Index : Nat, Value : Values \union {DefaultValue}])
    /\ Len(vertices) <= MaxVertices
    /\ lists \in Seq([Index : {0}, AdjustVertexes : SUBSET Nat])

LEMMA NothingTyped == EmptyTyped(<<>>, <<>>)
<1>1. Len(<<>>) = 0  OBVIOUS
<1>2. Len(<<>>) <= MaxVertices  BY <1>1
<1>3. \A T : <<>> \in Seq(T)  OBVIOUS
<1> QED  BY <1>2, <1>3 DEF EmptyTyped

LEMMA EmptyGraph ==
    ASSUME VertexArray = <<>>, EdgeMap = NoEdges, ParentEdges = <<>>
    PROVE  KeysAgree /\ Mirror
<1>1. DOMAIN EdgeMap = {}  BY DEF NoEdges
<1>2. RealKeys = {}  BY <1>1 DEF RealKeys
<1> QED  BY <1>2 DEF KeysAgree, Mirror

LEMMA ResetStep ==
    ASSUME IInv, ~overrun, Reset
    PROVE  IInv'
<1>1. /\ VertexArray' = <<>> /\ EdgeMap' = NoEdges /\ ParentEdges' = <<>>
      /\ answer' = answer /\ overrun' = overrun
  BY DEF Reset, GraphReset
<1>2. DOMAIN EdgeMap' = {}  BY <1>1 DEF NoEdges
<1>3. RealKeys' = {}  BY <1>2 DEF RealKeys
<1>4. TypeOK'
  <2>1. EmptyTyped(VertexArray', ParentEdges')  BY <1>1, NothingTyped
  <2> QED  BY <1>1, <1>2, <2>1 DEF IInv, TypeOK, EmptyTyped
<1>5. KeysAgree' /\ Mirror'  BY <1>1, <1>3 DEF KeysAgree, Mirror
<1> QED  BY <1>4, <1>5 DEF IInv

LEMMA DeseriallizeStep ==
    ASSUME IInv, ~overrun, Deseriallize
    PROVE  IInv'
<1>1. /\ VertexArray' = LoadedVertices
      /\ ParentEdges' = LoadedParents
      /\ answer' = answer /\ overrun' = overrun
      /\ 2 * Len(VertexArray) <= MaxVertices
  BY DEF Deseriallize, GraphDeseriallize
<1>2. /\ LoadedEdges = {EdgeMap[k] : k \in RealKeys}
      /\ DOMAIN EdgeMap' = RealKeys
      /\ \A k \in RealKeys : EdgeMap'[k] = EdgeMap[k]
  <2>1. TypeOK /\ KeysAgree /\ GraphDeseriallize  BY DEF IInv, Deseriallize
  <2> QED  BY <2>1, CopyKeepsEdges
<1>3. RealKeys' = RealKeys  BY <1>2 DEF RealKeys
<1>4. /\ VertexArray \in Seq([Index : Nat, Value : Values \union {DefaultValue}])
      /\ Len(VertexArray) \in Nat
      /\ \A k \in RealKeys : EdgeMap[k] \in EdgeType
      /\ RealKeys \subseteq Nat
  BY DEF IInv, TypeOK, RealKeys
<1>5. PICK n \in Nat : n = Len(VertexArray)  BY <1>4
<1>6. ASSUME NEW i \in 1..(2 * n)
      PROVE  (IF i <= n THEN [Index |-> 0, Value |-> DefaultValue]
              ELSE [Index |-> i - 1, Value |-> VertexArray[i - n].Value])
                \in [Index : Nat, Value : Values \union {DefaultValue}]
  <2>1. CASE i <= n  BY <2>1
  <2>2. CASE ~(i <= n)
    <3>1. i - n \in 1..Len(VertexArray)  BY <1>5, <2>2
    <3>2. VertexArray[i - n] \in [Index : Nat, Value : Values \union {DefaultValue}]
      BY <1>4, <3>1, ElementOfSeq
    <3>3. i - 1 \in Nat  OBVIOUS
    <3> QED  BY <2>2, <3>2, <3>3
  <2> QED  BY <2>1, <2>2
<1>7. /\ VertexArray' \in Seq([Index : Nat, Value : Values \union {DefaultValue}])
      /\ Len(VertexArray') = 2 * n
  <2>1. VertexArray' = [i \in 1..(2 * n) |->
            IF i <= n THEN [Index |-> 0, Value |-> DefaultValue]
            ELSE [Index |-> i - 1, Value |-> VertexArray[i - n].Value]]
    BY <1>1, <1>5 DEF LoadedVertices, VertexCount
  <2>2. 2 * n \in Nat  OBVIOUS
  <2> QED  BY <1>6, <2>1, <2>2
<1>8. /\ ParentEdges' \in Seq([Index : {0}, AdjustVertexes : SUBSET Nat])
      /\ Len(ParentEdges') = n
      /\ \A i \in 1..n : ParentEdges'[i].AdjustVertexes = StartsOf(i - 1)
  <2> DEFINE L(i) == {edge.StartId : edge \in {d \in LoadedEdges : d.EndId = i - 1}}
  <2>1. ParentEdges' = [i \in 1..n |-> [EdgeAdjustList EXCEPT !.AdjustVertexes = L(i)]]
    BY <1>1, <1>5 DEF LoadedParents
  <2>2. ASSUME NEW i \in 1..n  PROVE L(i) = StartsOf(i - 1)
    BY <1>2 DEF StartsOf
  <2>3. ASSUME NEW i \in 1..n  PROVE L(i) \in SUBSET Nat
    BY <1>2, <1>4 DEF EdgeType
  <2> HIDE DEF L
  <2>4. ASSUME NEW i \in 1..n
        PROVE  [EdgeAdjustList EXCEPT !.AdjustVertexes = L(i)]
                  = [Index |-> 0, AdjustVertexes |-> L(i)]
    BY DEF EdgeAdjustList
  <2>5. ParentEdges' = [i \in 1..n |-> [Index |-> 0, AdjustVertexes |-> L(i)]]
    BY <2>1, <2>4
  <2> QED  BY <2>2, <2>3, <2>5
<1>9. TypeOK'
  <2>1. Len(VertexArray') <= MaxVertices  BY <1>1, <1>5, <1>7
  <2>2. DOMAIN EdgeMap' \subseteq Nat /\ \A k \in DOMAIN EdgeMap' : EdgeMap'[k] \in EdgeType
    BY <1>2, <1>4
  <2> QED  BY <1>1, <1>7, <1>8, <2>1, <2>2 DEF IInv, TypeOK
<1>10. ASSUME NEW k \in RealKeys
       PROVE  /\ EdgeMap[k].StartId \in 0..(n - 1)
              /\ EdgeMap[k].EndId \in 0..(n - 1)
  BY <1>4, <1>5 DEF IInv, KeysAgree, IsValidVertexIndex, VertexCount, EdgeType
<1>11. KeysAgree'
  <2>1. \A i \in 0..(n - 1) : IsValidVertexIndex(i)'
    BY <1>7 DEF IsValidVertexIndex, VertexCount
  <2>2. ASSUME NEW k \in RealKeys  PROVE k = KeyOf(EdgeMap[k])'
    <3>1. k = KeyOf(EdgeMap[k])  BY DEF IInv, KeysAgree
    <3> QED  BY <1>2, <3>1 DEF KeyOf
  <2> QED  BY <1>2, <1>3, <1>10, <2>1, <2>2 DEF KeysAgree
<1>12. Mirror'
  <2>1. ASSUME NEW d  PROVE StartsOf(d)' = StartsOf(d)
    BY <1>2, <1>3 DEF StartsOf
  <2>2. \A k \in RealKeys' : EdgeMap'[k].EndId < Len(ParentEdges')
    BY <1>2, <1>3, <1>8, <1>10
  <2>3. Len(ParentEdges') <= Len(VertexArray')  BY <1>7, <1>8
  <2>4. \A i \in 1..Len(ParentEdges') : ParentEdges'[i].AdjustVertexes = StartsOf(i - 1)'
    BY <1>8, <2>1
  <2> QED  BY <2>2, <2>3, <2>4 DEF Mirror
<1> QED  BY <1>9, <1>11, <1>12 DEF IInv

LEMMA SameGraphStep ==
    ASSUME IInv, VertexArray' = VertexArray, EdgeMap' = EdgeMap,
           ParentEdges' = ParentEdges, overrun' = overrun, TypeOK'
    PROVE  IInv'
<1>1. RealKeys' = RealKeys  BY DEF RealKeys
<1>2. KeysAgree'
  BY <1>1 DEF IInv, KeysAgree, KeyOf, IsValidVertexIndex, VertexCount
<1>3. ASSUME NEW d  PROVE StartsOf(d)' = StartsOf(d)  BY <1>1 DEF StartsOf
<1>4. ~overrun' => Mirror'  BY <1>1, <1>3 DEF IInv, Mirror
<1> QED  BY <1>2, <1>4 DEF IInv

LEMMA InductiveStep ==
    ASSUME IInv, [Next]_vars
    PROVE  IInv'
<1>1. CASE AddVertex /\ ~overrun  BY <1>1, AddVertexStep
<1>2. CASE AddEdge /\ ~overrun  BY <1>2, AddEdgeStep
<1>3. CASE RejectEdge
  <2>1. TypeOK'  BY <1>3 DEF IInv, TypeOK, RejectEdge
  <2> QED  BY <1>3, <2>1, SameGraphStep DEF RejectEdge
<1>4. CASE GetVertex /\ ~overrun  BY <1>4, GetVertexStep
<1>5. CASE GetEdge /\ ~overrun  BY <1>5, GetEdgeStep
<1>6. CASE Reset /\ ~overrun  BY <1>6, ResetStep
<1>7. CASE Deseriallize /\ ~overrun  BY <1>7, DeseriallizeStep
<1>8. CASE UNCHANGED vars
  <2>1. TypeOK'  BY <1>8 DEF IInv, TypeOK, vars
  <2> QED  BY <1>8, <2>1, SameGraphStep DEF vars
<1> QED  BY <1>1, <1>2, <1>3, <1>4, <1>5, <1>6, <1>7, <1>8 DEF Next

LEMMA InitIInv ==
    ASSUME Init
    PROVE  IInv
<1>1. DOMAIN EdgeMap = {}  BY DEF Init, GraphInit, NoEdges
<1>2. TypeOK
  <2>1. EmptyTyped(VertexArray, ParentEdges)  BY NothingTyped DEF Init, GraphInit
  <2>2. answer \in [pair : {<<0, 0>>}, added : {FALSE}]  BY DEF Init
  <2>3. overrun \in BOOLEAN  BY DEF Init
  <2> QED  BY <1>1, <2>1, <2>2, <2>3 DEF TypeOK, EmptyTyped
<1>3. KeysAgree /\ Mirror  BY EmptyGraph DEF Init, GraphInit
<1> QED  BY <1>2, <1>3 DEF IInv

-----------------------------------------------------------------------------
(* The theorems *)

\* The inductive invariant holds in every behaviour of the graph.
THEOREM Invariance == Spec => []IInv
<1>1. Init => IInv  BY InitIInv
<1>2. IInv /\ [Next]_vars => IInv'  BY InductiveStep
<1> QED  BY <1>1, <1>2, PTL DEF Spec

\* Every variable keeps its type, and every key is a natural number
\* (DirectedGraph.hpp:270-274).
THEOREM TypeCorrect == Spec => []TypeOK
<1>1. IInv => TypeOK  BY DEF IInv
<1> QED  BY <1>1, Invariance, PTL

\* A real edge is stored under the key of its ends, which are vertices
\* (DirectedGraph.hpp:134-159), through resets, copies and lookups.
THEOREM KeysAgreeHolds == Spec => []KeysAgree
<1>1. IInv => KeysAgree  BY DEF IInv
<1> QED  BY <1>1, Invariance, PTL

\* The parent lists say what the edge map says (BackwardGraph.hpp:83-96).
THEOREM ParentsMirrorHolds == Spec => []ParentsMirror
<1>1. ASSUME IInv  PROVE ParentsMirror
  <2>1. CASE overrun  BY <2>1 DEF ParentsMirror
  <2>2. ASSUME ~overrun,
               NEW s \in 0..(Len(VertexArray) - 1), NEW i \in 1..Len(VertexArray)
        PROVE  (i <= Len(ParentEdges) /\ s \in ParentEdges[i].AdjustVertexes)
                <=> \E k \in RealKeys : EdgeMap[k].StartId = s /\ EdgeMap[k].EndId = i - 1
    <3>1. /\ Len(VertexArray) \in Nat /\ Len(ParentEdges) \in Nat
      BY <1>1 DEF IInv, TypeOK
    <3>2. \A k \in RealKeys : EdgeMap[k].EndId < Len(ParentEdges)
      BY <1>1, <2>2 DEF IInv, Mirror
    <3>3. CASE i <= Len(ParentEdges)
      <4>1. ParentEdges[i].AdjustVertexes = StartsOf(i - 1)
        BY <1>1, <2>2, <3>1, <3>3 DEF IInv, Mirror
      <4> QED  BY <3>3, <4>1 DEF StartsOf
    <3>4. CASE ~(i <= Len(ParentEdges))
      BY <3>1, <3>2, <3>4
    <3> QED  BY <3>3, <3>4
  <2> QED  BY <2>1, <2>2 DEF ParentsMirror
<1> QED  BY <1>1, Invariance, PTL

\* Only a copy through memory leaves a graph whose parent lists are shorter
\* than its vertices; no other call of an aligned graph indexes them past
\* their end (BackwardGraph.hpp:91).
THEOREM OnlyCopyMisalignsHolds == Spec => OnlyCopyMisaligns
<1>1. ASSUME IInv, Next, Aligned, ~Deseriallize
      PROVE  Aligned' /\ ~overrun'
  <2> USE <1>1
  <2>1. /\ VertexArray \in Seq([Index : Nat, Value : Values \union {DefaultValue}])
        /\ ParentEdges \in Seq([Index : {0}, AdjustVertexes : SUBSET Nat])
        /\ Len(VertexArray) \in Nat /\ Len(ParentEdges) \in Nat
        /\ ~overrun
    BY DEF IInv, TypeOK, Next
  <2>2. CASE AddVertex
    <3>1. PICK v \in Values : GraphAddVertex(v)  BY <2>2 DEF AddVertex
    <3>2. /\ VertexArray' = Append(VertexArray, [Index |-> Len(VertexArray), Value |-> v])
          /\ ParentEdges' = Append(ParentEdges, EdgeAdjustList)
          /\ overrun' = overrun
      BY <2>2, <3>1 DEF AddVertex, GraphAddVertex, VertexCount
    <3>3. Len(VertexArray') = Len(VertexArray) + 1 /\ Len(ParentEdges') = Len(ParentEdges) + 1
      BY <2>1, <3>2
    <3>4. ASSUME NEW i \in 1..Len(VertexArray')  PROVE VertexArray'[i].Index = i - 1
      <4>1. CASE i <= Len(VertexArray)  BY <2>1, <3>2, <4>1 DEF Aligned
      <4>2. CASE ~(i <= Len(VertexArray))
        <5>1. i = Len(VertexArray) + 1  BY <2>1, <3>3, <4>2
        <5> QED  BY <2>1, <3>2, <5>1
      <4> QED  BY <4>1, <4>2
    <3> QED  BY <2>1, <3>2, <3>3, <3>4 DEF Aligned
  <2>3. CASE AddEdge
    <3>1. PICK s \in Ids, e \in Ids :
            /\ CanAddEdge(s, e)
            /\ IF e < Len(ParentEdges)
               THEN /\ ParentEdges' =
                        [ParentEdges EXCEPT ![e + 1].AdjustVertexes = @ \union {s}]
                    /\ UNCHANGED overrun
               ELSE overrun' = TRUE /\ UNCHANGED ParentEdges
      BY <2>3 DEF AddEdge
    <3>2. e \in Int /\ e < Len(ParentEdges)
      BY <2>1, <3>1 DEF CanAddEdge, IsValidVertexIndex, VertexCount, Aligned
    <3>3. Len(ParentEdges') = Len(ParentEdges)  BY <2>1, <3>1, <3>2
    <3> QED  BY <2>1, <2>3, <3>1, <3>2, <3>3 DEF Aligned, AddEdge
  <2>4. CASE RejectEdge  BY <2>1, <2>4 DEF RejectEdge, Aligned
  <2>5. CASE GetVertex
    <3>1. PICK i \in Ids, v \in Values : IsValidVertexIndex(i) /\ GraphGetVertex(i, v)
      BY <2>5 DEF GetVertex
    <3>2. VertexArray' = [VertexArray EXCEPT ![i + 1].Value = v]
      BY <3>1 DEF GraphGetVertex
    <3>3. \A j \in 1..Len(VertexArray) : VertexArray[j] \in [Index : Nat, Value : Values \union {DefaultValue}]
      BY <2>1, ElementOfSeq
    <3>4. ASSUME NEW j \in 1..Len(VertexArray)
          PROVE  VertexArray'[j].Index = VertexArray[j].Index
      BY <2>1, <3>2, <3>3
    <3>5. Len(VertexArray') = Len(VertexArray)  BY <2>1, <3>2
    <3> QED  BY <2>1, <2>5, <3>4, <3>5 DEF GetVertex, Aligned
  <2>6. CASE GetEdge  BY <2>1, <2>6 DEF GetEdge, Aligned
  <2>7. CASE Reset  BY <2>1, <2>7 DEF Reset, GraphReset, Aligned
  <2> QED  BY <2>2, <2>3, <2>4, <2>5, <2>6, <2>7 DEF Next
<1>2. IInv /\ [Next]_vars
        => [Aligned /\ ~Deseriallize => Aligned' /\ ~overrun']_vars
  BY <1>1
<1> QED  BY <1>2, Invariance, PTL DEF Spec, OnlyCopyMisaligns

-----------------------------------------------------------------------------
(* Keys *)

\* The two halves of a key.
LEMMA HalvesUnique ==
    ASSUME NEW a \in 0..(Half - 1), NEW b \in 0..(Half - 1),
           NEW c \in 0..(Half - 1), NEW d \in 0..(Half - 1),
           a * Half + b = c * Half + d
    PROVE  a = c /\ b = d
<1>1. \A x, y \in Nat : x < y => (x + 1) * Half <= y * Half
  <2> SUFFICES ASSUME NEW x \in Nat, NEW y \in Nat, x < y
               PROVE  (x + 1) * Half <= y * Half
    OBVIOUS
  <2>1. PICK z \in Nat : y = (x + 1) + z
    <3>1. y - (x + 1) \in Nat /\ y = (x + 1) + (y - (x + 1))  OBVIOUS
    <3> QED  BY <3>1
  <2>2. y * Half = (x + 1) * Half + z * Half  BY <2>1
  <2>3. z * Half \in Nat /\ (x + 1) * Half \in Nat  OBVIOUS
  <2> QED  BY <2>2, <2>3
<1>2. /\ a * Half \in Nat /\ c * Half \in Nat
      /\ (a + 1) * Half = a * Half + Half /\ (c + 1) * Half = c * Half + Half
  OBVIOUS
<1>3. CASE a < c
  <2>1. a * Half + Half <= c * Half  BY <1>1, <1>2, <1>3
  <2> QED  BY <1>2, <2>1
<1>4. CASE c < a
  <2>1. c * Half + Half <= a * Half  BY <1>1, <1>2, <1>4
  <2> QED  BY <1>2, <2>1
<1>5. CASE a = c
  <2>1. b = d  BY <1>2, <1>5
  <2> QED  BY <1>5, <2>1
<1> QED  BY <1>3, <1>4, <1>5

\* HashEdgeKey of ids that a caller may pass.
LEMMA KeyHalves ==
    ASSUME NEW s \in Int, NEW e \in Int,
           -Half <= 2 * s, 2 * s < Half, -Half <= 2 * e, 2 * e < Half
    PROVE  \E a \in 0..(Half - 1), b \in 0..(Half - 1) :
              /\ HashEdgeKey(s, e) = a * Half + b
              /\ s >= 0 /\ e >= 0 => a = s /\ b = e
              /\ s < 0 \/ e < 0 => 2 * a >= Half \/ a = Half - 1
<1>1. /\ s >= 0 => s % Half = s
      /\ s < 0 => s % Half = s + Half
      /\ e >= 0 => e % Half = e
      /\ s % Half \in 0..(Half - 1) /\ e % Half \in 0..(Half - 1)
  OBVIOUS
<1>2. CASE e >= 0
  <2>1. HashEdgeKey(s, e) = (s % Half) * Half + e  BY <1>2 DEF HashEdgeKey
  <2>2. s % Half \in 0..(Half - 1) /\ e \in 0..(Half - 1)  BY <1>1, <1>2
  <2>3. s < 0 => 2 * (s % Half) >= Half  BY <1>1
  <2> USE <2>2
  <2> WITNESS s % Half \in 0..(Half - 1), e \in 0..(Half - 1)
  <2> QED  BY <1>1, <1>2, <2>1, <2>3
<1>3. CASE e < 0
  <2>1. HashEdgeKey(s, e) = (Half - 1) * Half + (e % Half)
    BY <1>3 DEF HashEdgeKey
  <2>2. Half - 1 \in 0..(Half - 1) /\ e % Half \in 0..(Half - 1)  BY <1>1
  <2> USE <2>2
  <2> WITNESS Half - 1 \in 0..(Half - 1), e % Half \in 0..(Half - 1)
  <2> QED  BY <1>3, <2>1
<1> QED  BY <1>2, <1>3

\* A pair of ids that has the key of a pair of natural ids is that pair.
LEMMA KeyUnique ==
    ASSUME NEW s \in Ids, NEW e \in Ids, NEW m \in Nat, NEW n \in Nat,
           2 * m < Half, 2 * n < Half, HashEdgeKey(s, e) = HashEdgeKey(m, n)
    PROVE  s = m /\ e = n
<1>1. /\ s \in Int /\ e \in Int
      /\ -Half <= 2 * s /\ 2 * s < Half /\ -Half <= 2 * e /\ 2 * e < Half
  OBVIOUS
<1>2. /\ m \in Int /\ n \in Int /\ m >= 0 /\ n >= 0
      /\ -Half <= 2 * m /\ 2 * m < Half /\ -Half <= 2 * n /\ 2 * n < Half
  OBVIOUS
<1>3. PICK a \in 0..(Half - 1), b \in 0..(Half - 1) :
        /\ HashEdgeKey(s, e) = a * Half + b
        /\ s >= 0 /\ e >= 0 => a = s /\ b = e
        /\ s < 0 \/ e < 0 => 2 * a >= Half \/ a = Half - 1
  BY <1>1, KeyHalves
<1>4. PICK c \in 0..(Half - 1), d \in 0..(Half - 1) :
        /\ HashEdgeKey(m, n) = c * Half + d
        /\ m >= 0 /\ n >= 0 => c = m /\ d = n
        /\ m < 0 \/ n < 0 => 2 * c >= Half \/ c = Half - 1
  BY <1>2, KeyHalves
<1>5. a = c /\ b = d
  <2>1. a * Half + b = c * Half + d  BY <1>3, <1>4
  <2> QED  BY <2>1, HalvesUnique
<1>6. 2 * a < Half /\ (Half > 1 => a # Half - 1)  BY <1>2, <1>4, <1>5
<1>7. s < 0 \/ e < 0 => Half > 1  BY <1>1
<1>8. ~(s < 0 \/ e < 0)  BY <1>3, <1>6, <1>7
<1> QED  BY <1>1, <1>3, <1>4, <1>5, <1>8

-----------------------------------------------------------------------------
(* The abstract graph *)

AbsValues == [i \in 1..Len(VertexArray) |-> VertexArray[i].Value]

NatPairs == (Ids \intersect Nat) \X (Ids \intersect Nat)
AbsPhantoms == {p \in NatPairs : IsValidEdge(p[1], p[2]) /\ p \notin DOMAIN AbsEdges}

absVars == <<AbsValues, AbsEdges, AbsPhantoms, answer>>

\* A connected pair is found under its key, and its ends are vertices.
EdgeFacts ==
    /\ DOMAIN AbsEdges = {Pair(k) : k \in RealKeys}
    /\ \A k \in RealKeys :
        /\ HashEdgeKey(Pair(k)[1], Pair(k)[2]) = k
        /\ AbsEdges[Pair(k)] = EdgeMap[k].Weight
        /\ AbsEdges[Pair(k)] \in Weights
        /\ Pair(k)[1] \in 0..(Len(VertexArray) - 1)
        /\ Pair(k)[2] \in 0..(Len(VertexArray) - 1)
        /\ Pair(k)[1] \in 0..(MaxVertices - 1)
        /\ Pair(k)[2] \in 0..(MaxVertices - 1)

LEMMA EdgesAre == IInv => EdgeFacts
<1> SUFFICES ASSUME IInv  PROVE EdgeFacts
  OBVIOUS
<1>1. DOMAIN AbsEdges = {Pair(k) : k \in RealKeys}  BY DEF AbsEdges
<1>2. ASSUME NEW k \in RealKeys
      PROVE  /\ k = HashEdgeKey(EdgeMap[k].StartId, EdgeMap[k].EndId)
             /\ EdgeMap[k].StartId \in 0..(Len(VertexArray) - 1)
             /\ EdgeMap[k].EndId \in 0..(Len(VertexArray) - 1)
             /\ Len(VertexArray) <= MaxVertices /\ Len(VertexArray) \in Nat
             /\ EdgeMap[k].Weight \in Weights
  BY DEF IInv, TypeOK, EdgeType, RealKeys, KeysAgree, KeyOf, IsValidVertexIndex, VertexCount
<1>3. ASSUME NEW k \in RealKeys
      PROVE  /\ HashEdgeKey(Pair(k)[1], Pair(k)[2]) = k
             /\ AbsEdges[Pair(k)] = EdgeMap[k].Weight
  <2>1. HashEdgeKey(Pair(k)[1], Pair(k)[2]) = k  BY <1>2 DEF Pair
  <2>2. AbsEdges[Pair(k)] = EdgeMap[HashEdgeKey(Pair(k)[1], Pair(k)[2])].Weight
    BY DEF AbsEdges
  <2> QED  BY <2>1, <2>2
<1>4. ASSUME NEW k \in RealKeys
      PROVE  /\ Pair(k)[1] \in 0..(MaxVertices - 1)
             /\ Pair(k)[2] \in 0..(MaxVertices - 1)
  BY <1>2 DEF Pair
<1>5. ASSUME NEW k \in RealKeys
      PROVE  /\ Pair(k)[1] \in 0..(Len(VertexArray) - 1)
             /\ Pair(k)[2] \in 0..(Len(VertexArray) - 1)
             /\ AbsEdges[Pair(k)] \in Weights
  BY <1>2, <1>3 DEF Pair
<1> QED  BY <1>1, <1>3, <1>4, <1>5 DEF EdgeFacts

LEMMA EdgesAreNext == IInv' => EdgeFacts'
  BY EdgesAre, PTL

\* The same, of the next state.
LEMMA NextEdge ==
    ASSUME IInv', NEW k \in RealKeys', NEW p, p = Pair(k)'
    PROVE  /\ p \in DOMAIN AbsEdges'
           /\ AbsEdges'[p] = EdgeMap'[k].Weight
           /\ AbsEdges'[p] \in Weights
  BY EdgesAreNext DEF EdgeFacts

\* The real edges are what matters to the abstract graph.
LEMMA SameEdges ==
    ASSUME IInv, RealKeys' = RealKeys,
           \A k \in RealKeys : EdgeMap'[k] = EdgeMap[k]
    PROVE  AbsEdges' = AbsEdges
<1>1. \A k \in RealKeys : Pair(k)' = Pair(k)  BY DEF Pair
<1>2. {Pair(k) : k \in RealKeys}' = {Pair(k) : k \in RealKeys}  BY <1>1
<1>3. ASSUME NEW p \in {Pair(k) : k \in RealKeys}
      PROVE  EdgeMap'[HashEdgeKey(p[1], p[2])] = EdgeMap[HashEdgeKey(p[1], p[2])]
  BY EdgesAre DEF EdgeFacts
<1> QED  BY <1>2, <1>3 DEF AbsEdges

LEMMA SamePhantoms ==
    ASSUME AbsEdges' = AbsEdges, DOMAIN EdgeMap' = DOMAIN EdgeMap
    PROVE  AbsPhantoms' = AbsPhantoms
  BY DEF AbsPhantoms, IsValidEdge

LEMMA SameGraph ==
    ASSUME IInv, UNCHANGED EdgeMap
    PROVE  AbsEdges' = AbsEdges /\ AbsPhantoms' = AbsPhantoms
<1>1. RealKeys' = RealKeys  BY DEF RealKeys
<1>2. AbsEdges' = AbsEdges  BY <1>1, SameEdges
<1> QED  BY <1>2, SamePhantoms

\* A pair that is a phantom or connected is a key of the map, and the other
\* way round for pairs of natural ids.
LEMMA KnownPairs ==
    ASSUME IInv, NEW s \in Ids, NEW e \in Ids
    PROVE  /\ <<s, e>> \in DOMAIN AbsEdges \union AbsPhantoms => IsValidEdge(s, e)
           /\ s \in Nat /\ e \in Nat /\ IsValidEdge(s, e)
                => <<s, e>> \in DOMAIN AbsEdges \union AbsPhantoms
<1>1. ASSUME <<s, e>> \in DOMAIN AbsEdges  PROVE IsValidEdge(s, e)
  <2>1. PICK k \in RealKeys : <<s, e>> = Pair(k)  BY <1>1, EdgesAre DEF EdgeFacts
  <2>2. HashEdgeKey(s, e) = k  BY <2>1, EdgesAre DEF EdgeFacts
  <2> QED  BY <2>2 DEF IsValidEdge, RealKeys
<1>2. ASSUME <<s, e>> \in AbsPhantoms  PROVE IsValidEdge(s, e)
  BY <1>2 DEF AbsPhantoms
<1>3. ASSUME s \in Nat, e \in Nat, IsValidEdge(s, e)
      PROVE  <<s, e>> \in DOMAIN AbsEdges \union AbsPhantoms
  <2>1. <<s, e>> \in NatPairs /\ <<s, e>>[1] = s /\ <<s, e>>[2] = e
    BY <1>3 DEF NatPairs
  <2> QED  BY <1>3, <2>1 DEF AbsPhantoms
<1> QED  BY <1>1, <1>2, <1>3

\* A key that is put into the map makes one pair of natural ids known, if any.
LEMMA PhantomsAfterKey ==
    ASSUME NEW s \in Ids, NEW e \in Ids, NEW q \in NatPairs,
           DOMAIN EdgeMap' = DOMAIN EdgeMap \union {HashEdgeKey(s, e)}
    PROVE  IsValidEdge(q[1], q[2])'
            <=> IsValidEdge(q[1], q[2]) \/ q = <<s, e>>
<1>1. /\ q[1] \in Ids \intersect Nat /\ q[2] \in Ids \intersect Nat
      /\ q = <<q[1], q[2]>>
  BY DEF NatPairs
<1>2. 2 * q[1] < Half /\ 2 * q[2] < Half  BY <1>1
<1>3. HashEdgeKey(q[1], q[2]) = HashEdgeKey(s, e) => s = q[1] /\ e = q[2]
  BY <1>1, <1>2, KeyUnique
<1>4. HashEdgeKey(q[1], q[2]) = HashEdgeKey(s, e) <=> q = <<s, e>>
  <2>1. ASSUME q = <<s, e>>
        PROVE  HashEdgeKey(q[1], q[2]) = HashEdgeKey(s, e)
    BY <2>1
  <2> QED  BY <1>1, <1>3, <2>1
<1> QED  BY <1>4 DEF IsValidEdge

-----------------------------------------------------------------------------
(* The steps *)

LEMMA InitRefines ==
    ASSUME Init
    PROVE  G!Init
<1>1. EdgeMap = [k \in {} |-> 0] /\ VertexArray = <<>> /\ Len(VertexArray) = 0
  BY DEF Init, GraphInit, NoEdges
<1>2. RealKeys = {} /\ DOMAIN EdgeMap = {}  BY <1>1 DEF RealKeys
<1>3. AbsEdges = [p \in {} |-> 0]
  <2>1. {Pair(k) : k \in RealKeys} = {}  BY <1>2
  <2> QED  BY <2>1 DEF AbsEdges
<1>4. AbsPhantoms = {}  BY <1>2 DEF AbsPhantoms, IsValidEdge
<1>5. AbsValues = <<>>  BY <1>1 DEF AbsValues
<1> QED  BY <1>3, <1>4, <1>5 DEF G!Init, AbsValues, AbsPhantoms, NatPairs, Init

LEMMA AppendEquals ==
    ASSUME NEW S, NEW s \in Seq(S), NEW x \in S, NEW r \in Seq(S),
           Len(r) = Len(s) + 1, \A i \in 1..Len(s) : r[i] = s[i], r[Len(s) + 1] = x
    PROVE  r = Append(s, x)
<1>1. Append(s, x) \in Seq(S) /\ Len(Append(s, x)) = Len(s) + 1
  OBVIOUS
<1>2. \A i \in 1..(Len(s) + 1) : Append(s, x)[i] = r[i]
  OBVIOUS
<1> QED  BY <1>1, <1>2, SeqEqual

LEMMA AddVertexRefines ==
    ASSUME IInv, IInv', AddVertex
    PROVE  G!AddVertex
<1>1. PICK v \in Values : GraphAddVertex(v)  BY DEF AddVertex
<1>2. /\ VertexArray' = Append(VertexArray, [Index |-> Len(VertexArray), Value |-> v])
      /\ EdgeMap' = EdgeMap /\ answer' = answer
  BY <1>1 DEF AddVertex, GraphAddVertex, VertexCount
<1>3. /\ VertexArray \in Seq([Index : Nat, Value : Values \union {DefaultValue}])
      /\ Len(VertexArray) \in Nat
  BY DEF IInv, TypeOK
<1>4. /\ Len(VertexArray') = Len(VertexArray) + 1
      /\ \A i \in 1..Len(VertexArray) : VertexArray'[i] = VertexArray[i]
      /\ VertexArray'[Len(VertexArray) + 1].Value = v
  BY <1>2, <1>3
<1>5. AbsValues' = Append(AbsValues, v)
  <2>1. PICK n \in Nat : n = Len(VertexArray)  BY <1>3
  <2>2. /\ AbsValues = [i \in 1..n |-> VertexArray[i].Value]
        /\ AbsValues' = [i \in 1..(n + 1) |-> VertexArray'[i].Value]
    BY <1>4, <2>1 DEF AbsValues
  <2>3. AbsValues \in Seq(Values \union {DefaultValue}) /\ Len(AbsValues) = n
    <3>1. \A i \in 1..n :
            VertexArray[i] \in [Index : Nat, Value : Values \union {DefaultValue}]
      BY <1>3, <2>1, ElementOfSeq
    <3>2. \A i \in 1..n : VertexArray[i].Value \in Values \union {DefaultValue}
      BY <3>1
    <3> QED  BY <2>2, <3>2
  <2>4. AbsValues' \in Seq(Values \union {DefaultValue}) /\ Len(AbsValues') = n + 1
    <3>1. ASSUME NEW i \in 1..(n + 1)
          PROVE  VertexArray'[i].Value \in Values \union {DefaultValue}
      <4>1. CASE i = n + 1  BY <1>4, <2>1, <4>1
      <4>2. CASE i \in 1..n
        <5>1. VertexArray[i] \in [Index : Nat, Value : Values \union {DefaultValue}]
          BY <1>3, <2>1, <4>2, ElementOfSeq
        <5> QED  BY <1>4, <2>1, <4>2, <5>1
      <4> QED  BY <4>1, <4>2
    <3> QED  BY <2>2, <3>1
  <2>5. \A i \in 1..n : AbsValues'[i] = AbsValues[i]  BY <1>4, <2>1, <2>2
  <2>6. AbsValues'[n + 1] = v  BY <1>4, <2>1, <2>2
  <2> QED  BY <2>3, <2>4, <2>5, <2>6, AppendEquals
<1>6. AbsEdges' = AbsEdges /\ AbsPhantoms' = AbsPhantoms  BY <1>2, SameGraph
<1> QED  BY <1>2, <1>5, <1>6 DEF G!AddVertex, AbsValues, AbsPhantoms, NatPairs

LEMMA GetVertexRefines ==
    ASSUME IInv, IInv', GetVertex
    PROVE  G!SetValue
<1>1. PICK i \in Ids, v \in Values : IsValidVertexIndex(i) /\ GraphGetVertex(i, v)
  BY DEF GetVertex
<1>2. /\ VertexArray \in Seq([Index : Nat, Value : Values \union {DefaultValue}])
      /\ Len(VertexArray) \in Nat
  BY DEF IInv, TypeOK
<1>3. i + 1 \in 1..Len(VertexArray)
  BY <1>1, <1>2 DEF IsValidVertexIndex, VertexCount
<1>4. /\ VertexArray' = [VertexArray EXCEPT ![i + 1].Value = v]
      /\ EdgeMap' = EdgeMap /\ answer' = answer
  BY <1>1 DEF GetVertex, GraphGetVertex
<1>5. AbsValues' = [AbsValues EXCEPT ![i + 1] = v]
  <2>1. \A j \in 1..Len(VertexArray) :
            VertexArray[j] \in [Index : Nat, Value : Values \union {DefaultValue}]
    BY <1>2, ElementOfSeq
  <2>2. Len(VertexArray') = Len(VertexArray)  BY <1>2, <1>4
  <2>3. ASSUME NEW j \in 1..Len(VertexArray)
        PROVE  VertexArray'[j].Value = IF j = i + 1 THEN v ELSE VertexArray[j].Value
    BY <1>2, <1>3, <1>4, <2>1
  <2> QED  BY <2>2, <2>3 DEF AbsValues
<1>6. i + 1 \in DOMAIN AbsValues  BY <1>3 DEF AbsValues
<1>7. AbsEdges' = AbsEdges /\ AbsPhantoms' = AbsPhantoms  BY <1>4, SameGraph
<1> QED  BY <1>4, <1>5, <1>6, <1>7 DEF G!SetValue, AbsValues, AbsPhantoms, NatPairs

LEMMA SameValues ==
    ASSUME VertexArray' = VertexArray
    PROVE  AbsValues' = AbsValues
  BY DEF AbsValues

\* CanAddEdge, in terms of the abstract graph.
LEMMA AddableIs ==
    ASSUME IInv, NEW s \in Ids, NEW e \in Ids
    PROVE  CanAddEdge(s, e)
            <=> /\ s \in 0..(Len(AbsValues) - 1) /\ e \in 0..(Len(AbsValues) - 1)
                /\ s # e
                /\ <<s, e>> \notin DOMAIN AbsEdges \union AbsPhantoms
<1>1. Len(AbsValues) = Len(VertexArray) /\ Len(VertexArray) \in Nat
  <2>1. Len(VertexArray) \in Nat  BY DEF IInv, TypeOK
  <2> QED  BY <2>1 DEF AbsValues
<1>2. s \in 0..(Len(VertexArray) - 1) <=> IsValidVertexIndex(s)
  BY <1>1 DEF IsValidVertexIndex, VertexCount
<1>3. e \in 0..(Len(VertexArray) - 1) <=> IsValidVertexIndex(e)
  BY <1>1 DEF IsValidVertexIndex, VertexCount
<1>4. IsValidVertexIndex(s) /\ IsValidVertexIndex(e) => s \in Nat /\ e \in Nat
  BY <1>1 DEF IsValidVertexIndex
<1> QED  BY <1>1, <1>2, <1>3, <1>4, KnownPairs DEF CanAddEdge

LEMMA RejectEdgeRefines ==
    ASSUME IInv, RejectEdge
    PROVE  G!AddEdge
<1>1. PICK s \in Ids, e \in Ids :
        ~CanAddEdge(s, e) /\ answer' = [pair |-> <<s, e>>, added |-> FALSE]
  BY DEF RejectEdge
<1>2. VertexArray' = VertexArray /\ EdgeMap' = EdgeMap  BY DEF RejectEdge
<1>3. AbsValues' = AbsValues /\ AbsEdges' = AbsEdges /\ AbsPhantoms' = AbsPhantoms
  BY <1>2, SameValues, SameGraph
<1>4. PICK p : p = <<s, e>>  OBVIOUS
<1>5. p \in Ids \X Ids /\ p[1] = s /\ p[2] = e  BY <1>4
<1>6. G!Addable(p) = FALSE
  <2>1. ~G!Addable(p)
    BY <1>1, <1>4, <1>5, AddableIs
    DEF G!Addable, G!Vertices, AbsValues, AbsPhantoms, NatPairs
  <2>2. G!Addable(p) \in BOOLEAN  BY DEF G!Addable
  <2> QED  BY <2>1, <2>2
<1>7. answer' = [pair |-> p, added |-> G!Addable(p)]  BY <1>1, <1>4, <1>6
<1> QED  BY <1>3, <1>5, <1>6, <1>7 DEF G!AddEdge, AbsValues, AbsPhantoms, NatPairs

LEMMA AddEdgeRefines ==
    ASSUME IInv, IInv', AddEdge
    PROVE  G!AddEdge
<1>1. PICK s \in Ids, e \in Ids, w \in Weights :
        /\ CanAddEdge(s, e)
        /\ GraphAddEdge([StartId |-> s, EndId |-> e, Weight |-> w])
        /\ answer' = [pair |-> <<s, e>>, added |-> TRUE]
  BY DEF AddEdge
<1>2. AbsValues' = AbsValues
  <2>1. VertexArray' = VertexArray  BY DEF AddEdge
  <2> QED  BY <2>1, SameValues
<1>3. PICK p : p = <<s, e>>  OBVIOUS
<1>4. p \in Ids \X Ids /\ p[1] = s /\ p[2] = e  BY <1>3
<1>5. PICK key : key = HashEdgeKey(s, e)  OBVIOUS
<1>6. PICK edge : edge = [StartId |-> s, EndId |-> e, Weight |-> w]  OBVIOUS
<1>7. edge.StartId = s /\ edge.EndId = e /\ edge.Weight = w  BY <1>6
<1>8. KeyOf(edge) = key  BY <1>5, <1>7 DEF KeyOf
<1>9. EdgeMap' = [k \in DOMAIN EdgeMap \union {key} |->
                    IF k = key THEN edge ELSE EdgeMap[k]]
  BY <1>1, <1>6, <1>8 DEF GraphAddEdge
<1>10. s # e /\ key \notin DOMAIN EdgeMap
  BY <1>1, <1>5 DEF CanAddEdge, IsValidEdge
<1>11. /\ DOMAIN EdgeMap' = DOMAIN EdgeMap \union {key}
       /\ EdgeMap'[key] = edge
       /\ \A k \in DOMAIN EdgeMap : EdgeMap'[k] = EdgeMap[k]
  BY <1>9, <1>10
<1>12. RealKeys' = RealKeys \union {key}  BY <1>7, <1>10, <1>11 DEF RealKeys
<1>13. Pair(key)' = p /\ \A k \in RealKeys : Pair(k)' = Pair(k)
  BY <1>3, <1>7, <1>11 DEF Pair, RealKeys
<1>14. DOMAIN AbsEdges' = DOMAIN AbsEdges \union {p}
  <2>1. DOMAIN AbsEdges' = {Pair(k)' : k \in RealKeys'}  BY EdgesAreNext DEF EdgeFacts
  <2>2. DOMAIN AbsEdges = {Pair(k) : k \in RealKeys}  BY EdgesAre DEF EdgeFacts
  <2> QED  BY <1>12, <1>13, <2>1, <2>2
<1>15. p \notin DOMAIN AbsEdges \union AbsPhantoms /\ G!Addable(p)
  BY <1>1, <1>3, <1>4, AddableIs
  DEF G!Addable, G!Vertices, AbsValues, AbsPhantoms, NatPairs
<1>16. AbsEdges'[p] \in Weights  BY <1>12, <1>13, NextEdge
<1>17. ASSUME NEW q \in DOMAIN AbsEdges  PROVE AbsEdges'[q] = AbsEdges[q]
  <2>1. PICK k \in RealKeys : q = Pair(k)  BY EdgesAre DEF EdgeFacts
  <2>2. AbsEdges[q] = EdgeMap[k].Weight  BY <2>1, EdgesAre DEF EdgeFacts
  <2>3. AbsEdges'[q] = EdgeMap'[k].Weight  BY <1>12, <1>13, <2>1, NextEdge
  <2>4. EdgeMap'[k] = EdgeMap[k]  BY <1>11 DEF RealKeys
  <2> QED  BY <2>2, <2>3, <2>4
<1>18. AbsPhantoms' = AbsPhantoms
  <2>1. ASSUME NEW q \in NatPairs, q # p
        PROVE  IsValidEdge(q[1], q[2])' <=> IsValidEdge(q[1], q[2])
    BY <1>3, <1>5, <1>11, <2>1, PhantomsAfterKey
  <2> QED  BY <1>14, <1>15, <2>1 DEF AbsPhantoms
<1>19. G!EdgesChange(DOMAIN AbsEdges \union {p}, p)
  BY <1>14, <1>15, <1>16, <1>17 DEF G!EdgesChange
<1>20. answer' = [pair |-> p, added |-> G!Addable(p)]
  <2>1. G!Addable(p) = TRUE
    <3>1. G!Addable(p) \in BOOLEAN  BY DEF G!Addable
    <3> QED  BY <1>15, <3>1
  <2> QED  BY <1>1, <1>3, <2>1
<1> QED  BY <1>2, <1>4, <1>15, <1>18, <1>19, <1>20
         DEF G!AddEdge, AbsValues, AbsPhantoms, NatPairs

LEMMA GetEdgeRefines ==
    ASSUME IInv, IInv', GetEdge
    PROVE  G!SetWeight \/ G!Lookup \/ UNCHANGED absVars
<1>1. PICK s \in Ids, e \in Ids, w \in Weights : GraphGetEdge(HashEdgeKey(s, e), w)
  BY DEF GetEdge
<1>2. AbsValues' = AbsValues /\ answer' = answer  BY SameValues DEF GetEdge
<1>3. HashEdgeKey(s, e) \in Nat
  <2>1. s \in Int /\ e \in Int  OBVIOUS
  <2> QED  BY <2>1, KeyType
<1>4. PICK key \in Nat : key = HashEdgeKey(s, e)  BY <1>3
<1>5. /\ DOMAIN EdgeMap' = DOMAIN EdgeMap \union {key}
      /\ \A k \in DOMAIN EdgeMap :
           /\ EdgeMap'[k].StartId = EdgeMap[k].StartId
           /\ EdgeMap'[k].EndId = EdgeMap[k].EndId
      /\ key \notin DOMAIN EdgeMap =>
           EdgeMap'[key].StartId = 0 /\ EdgeMap'[key].EndId = 0
  <2>1. TypeOK /\ GraphGetEdge(key, w)  BY <1>1, <1>4 DEF IInv
  <2> QED  BY <2>1, GetEdgeKeepsEnds
<1>6. \A k \in DOMAIN EdgeMap \ {key} : EdgeMap'[k] = EdgeMap[k]
  BY <1>1, <1>4 DEF GraphGetEdge
<1>7. RealKeys' = RealKeys  BY <1>5 DEF RealKeys
<1>8. CASE key \in RealKeys
  <2>1. \A k \in RealKeys : Pair(k)' = Pair(k)  BY <1>5 DEF Pair, RealKeys
  <2>2. DOMAIN AbsEdges' = DOMAIN AbsEdges
    <3>1. DOMAIN AbsEdges' = {Pair(k)' : k \in RealKeys'}
      BY EdgesAreNext DEF EdgeFacts
    <3>2. DOMAIN AbsEdges = {Pair(k) : k \in RealKeys}  BY EdgesAre DEF EdgeFacts
    <3> QED  BY <1>7, <2>1, <3>1, <3>2
  <2>3. PICK p : p = Pair(key)  OBVIOUS
  <2>4. p \in DOMAIN AbsEdges  BY <1>8, <2>3, EdgesAre DEF EdgeFacts
  <2>5. AbsEdges'[p] \in Weights  BY <1>7, <1>8, <2>1, <2>3, NextEdge
  <2>6. ASSUME NEW q \in DOMAIN AbsEdges \ {p}  PROVE AbsEdges'[q] = AbsEdges[q]
    <3>1. PICK k \in RealKeys : q = Pair(k)  BY EdgesAre DEF EdgeFacts
    <3>2. AbsEdges[q] = EdgeMap[k].Weight  BY <3>1, EdgesAre DEF EdgeFacts
    <3>3. AbsEdges'[q] = EdgeMap'[k].Weight  BY <1>7, <2>1, <3>1, NextEdge
    <3>4. k # key  BY <2>3, <3>1
    <3>5. EdgeMap'[k] = EdgeMap[k]  BY <1>6, <3>4 DEF RealKeys
    <3> QED  BY <3>2, <3>3, <3>5
  <2>7. AbsPhantoms' = AbsPhantoms
    <3>1. DOMAIN EdgeMap' = DOMAIN EdgeMap  BY <1>5, <1>8 DEF RealKeys
    <3> QED  BY <2>2, <3>1 DEF AbsPhantoms, IsValidEdge
  <2>8. G!EdgesChange(DOMAIN AbsEdges, p)
    BY <2>2, <2>4, <2>5, <2>6 DEF G!EdgesChange
  <2>9. G!SetWeight
    BY <1>2, <2>4, <2>7, <2>8 DEF G!SetWeight, AbsValues, AbsPhantoms, NatPairs
  <2> QED  BY <2>9
<1>9. ASSUME key \notin RealKeys  PROVE AbsEdges' = AbsEdges
  <2>1. \A k \in RealKeys : EdgeMap'[k] = EdgeMap[k]  BY <1>6, <1>9 DEF RealKeys
  <2> QED  BY <1>7, <2>1, SameEdges
<1>10. CASE key \notin RealKeys /\ key \in DOMAIN EdgeMap
  <2>1. DOMAIN EdgeMap' = DOMAIN EdgeMap  BY <1>5, <1>10
  <2>2. AbsEdges' = AbsEdges  BY <1>9, <1>10
  <2>3. AbsPhantoms' = AbsPhantoms  BY <2>1, <2>2, SamePhantoms
  <2> QED  BY <1>2, <2>2, <2>3 DEF absVars
<1>11. CASE key \notin RealKeys /\ key \notin DOMAIN EdgeMap
  <2>1. PICK p : p = <<s, e>>  OBVIOUS
  <2>2. AbsEdges' = AbsEdges  BY <1>9, <1>11
  <2>3. \A q \in NatPairs :
          IsValidEdge(q[1], q[2])' <=> IsValidEdge(q[1], q[2]) \/ q = p
    BY <1>4, <1>5, <2>1, PhantomsAfterKey
  <2>4. CASE p \in NatPairs
    <3>1. p \notin DOMAIN AbsEdges
      <4>1. ~IsValidEdge(s, e)  BY <1>4, <1>11 DEF IsValidEdge
      <4> QED  BY <2>1, <4>1, KnownPairs
    <3>2. AbsPhantoms' = AbsPhantoms \union {p}
      BY <2>2, <2>3, <2>4, <3>1 DEF AbsPhantoms
    <3>3. p \in (Ids \X Ids) \ DOMAIN AbsEdges  BY <2>1, <3>1
    <3>4. G!Lookup
      BY <1>2, <2>2, <3>2, <3>3 DEF G!Lookup, AbsValues, AbsPhantoms, NatPairs
    <3> QED  BY <3>4
  <2>5. CASE p \notin NatPairs
    <3>1. AbsPhantoms' = AbsPhantoms  BY <2>2, <2>3, <2>5 DEF AbsPhantoms
    <3> QED  BY <1>2, <2>2, <3>1 DEF absVars
  <2> QED  BY <2>4, <2>5
<1> QED  BY <1>8, <1>10, <1>11

LEMMA ResetRefines ==
    ASSUME Reset
    PROVE  G!Reset
<1>1. EdgeMap' = [k \in {} |-> 0] /\ VertexArray' = <<>> /\ Len(VertexArray') = 0
      /\ answer' = answer
  BY DEF Reset, GraphReset, NoEdges
<1>2. RealKeys' = {} /\ DOMAIN EdgeMap' = {}  BY <1>1 DEF RealKeys
<1>3. AbsEdges' = [p \in {} |-> 0]
  <2>1. {Pair(k)' : k \in RealKeys'} = {}  BY <1>2
  <2> QED  BY <2>1 DEF AbsEdges
<1>4. AbsPhantoms' = {}  BY <1>2 DEF AbsPhantoms, IsValidEdge
<1>5. AbsValues' = <<>>  BY <1>1 DEF AbsValues
<1> QED  BY <1>1, <1>3, <1>4, <1>5 DEF G!Reset, AbsValues, AbsPhantoms, NatPairs

LEMMA DeseriallizeRefines ==
    ASSUME IInv, Deseriallize
    PROVE  G!Copy
<1>1. /\ VertexArray' = LoadedVertices
      /\ answer' = answer
  BY DEF Deseriallize, GraphDeseriallize
<1>2. DOMAIN EdgeMap' = RealKeys /\ \A k \in RealKeys : EdgeMap'[k] = EdgeMap[k]
  <2>1. TypeOK /\ KeysAgree /\ GraphDeseriallize  BY DEF IInv, Deseriallize
  <2> QED  BY <2>1, CopyKeepsEdges
<1>3. RealKeys' = RealKeys  BY <1>2 DEF RealKeys
<1>4. AbsEdges' = AbsEdges  BY <1>2, <1>3, SameEdges
<1>5. AbsPhantoms' = {}
  <2>1. ASSUME NEW q \in NatPairs, IsValidEdge(q[1], q[2])'
        PROVE  q \in DOMAIN AbsEdges'
    <3>1. /\ q[1] \in Ids /\ q[2] \in Ids /\ q = <<q[1], q[2]>>  BY DEF NatPairs
    <3>2. PICK k \in RealKeys : k = HashEdgeKey(q[1], q[2])
      BY <1>2, <2>1 DEF IsValidEdge
    <3>3. PICK m, n : m = EdgeMap[k].StartId /\ n = EdgeMap[k].EndId  OBVIOUS
    <3>4. Pair(k) = <<m, n>> /\ Pair(k)[1] = m /\ Pair(k)[2] = n
      BY <3>3 DEF Pair
    <3>5. /\ m \in 0..(MaxVertices - 1) /\ n \in 0..(MaxVertices - 1)
          /\ HashEdgeKey(m, n) = k /\ <<m, n>> \in DOMAIN AbsEdges
      BY <3>4, EdgesAre DEF EdgeFacts
    <3>6. m \in Nat /\ n \in Nat /\ 2 * m < Half /\ 2 * n < Half  BY <3>5
    <3>7. q[1] = m /\ q[2] = n  BY <3>1, <3>2, <3>5, <3>6, KeyUnique
    <3> QED  BY <1>4, <3>1, <3>5, <3>7
  <2> QED  BY <2>1 DEF AbsPhantoms
<1>6. /\ VertexArray \in Seq([Index : Nat, Value : Values \union {DefaultValue}])
      /\ Len(VertexArray) \in Nat
  BY DEF IInv, TypeOK
<1>7. PICK n \in Nat : n = Len(VertexArray)  BY <1>6
<1>8. /\ Len(VertexArray') = 2 * n
      /\ \A i \in (n + 1)..(2 * n) : VertexArray'[i].Value = VertexArray[i - n].Value
      /\ \A i \in 1..n : VertexArray'[i].Value = DefaultValue
  <2>1. VertexArray' = [i \in 1..(2 * n) |->
            IF i <= n THEN [Index |-> 0, Value |-> DefaultValue]
            ELSE [Index |-> i - 1, Value |-> VertexArray[i - n].Value]]
    BY <1>1, <1>7 DEF LoadedVertices, VertexCount
  <2>2. 2 * n \in Nat  OBVIOUS
  <2> QED  BY <2>1, <2>2
<1>9. \A i \in 1..n : VertexArray[i].Value \in Values \union {DefaultValue}
  <2>1. \A i \in 1..n :
          VertexArray[i] \in [Index : Nat, Value : Values \union {DefaultValue}]
    BY <1>6, <1>7, ElementOfSeq
  <2> QED  BY <2>1
<1>10. /\ AbsValues \in Seq(Values \union {DefaultValue}) /\ Len(AbsValues) = n
       /\ \A i \in 1..n : AbsValues[i] = VertexArray[i].Value
  BY <1>7, <1>9 DEF AbsValues
<1>11. /\ Len(AbsValues') = 2 * n
       /\ \A i \in 1..(2 * n) : AbsValues'[i] = VertexArray'[i].Value
  BY <1>8 DEF AbsValues
<1>12. AbsValues = SubSeq(AbsValues', n + 1, 2 * n)
  <2>1. PICK t : t = AbsValues'  OBVIOUS
  <2>2. \A i \in (n + 1)..(2 * n) : t[i] = AbsValues[i - n]
    <3>1. ASSUME NEW i \in (n + 1)..(2 * n)  PROVE i - n \in 1..n /\ i \in 1..(2 * n)
      OBVIOUS
    <3> QED  BY <1>8, <1>10, <1>11, <2>1, <3>1
  <2>3. \A i \in (n + 1)..(2 * n) : t[i] \in Values \union {DefaultValue}
    <3>1. ASSUME NEW i \in (n + 1)..(2 * n)  PROVE i - n \in 1..n  OBVIOUS
    <3> QED  BY <1>9, <1>10, <2>2, <3>1
  <2>4. /\ SubSeq(t, n + 1, 2 * n) \in Seq(Values \union {DefaultValue})
        /\ Len(SubSeq(t, n + 1, 2 * n)) =
              IF n + 1 <= 2 * n THEN 2 * n - (n + 1) + 1 ELSE 0
        /\ \A i \in 1..(2 * n - (n + 1) + 1) :
              SubSeq(t, n + 1, 2 * n)[i] = t[n + 1 + i - 1]
    <3>1. n + 1 \in Int /\ 2 * n \in Int  OBVIOUS
    <3> QED  BY <2>3, <3>1, SubSeqProperties
  <2>5. Len(SubSeq(t, n + 1, 2 * n)) = n  BY <2>4
  <2>6. ASSUME NEW i \in 1..n  PROVE SubSeq(t, n + 1, 2 * n)[i] = AbsValues[i]
    <3>1. i \in 1..(2 * n - (n + 1) + 1) /\ n + 1 + i - 1 = n + i  OBVIOUS
    <3>2. n + i \in (n + 1)..(2 * n) /\ (n + i) - n = i  OBVIOUS
    <3>3. t[n + i] = AbsValues[i]  BY <2>2, <3>2
    <3> QED  BY <2>4, <3>1, <3>3
  <2> QED  BY <1>10, <2>1, <2>4, <2>5, <2>6, SeqEqual
<1>13. n \in 0..(Len(AbsValues') - Len(AbsValues))  BY <1>10, <1>11
<1> QED  BY <1>1, <1>4, <1>5, <1>11, <1>12, <1>13
         DEF G!Copy, AbsValues, AbsPhantoms, NatPairs

-----------------------------------------------------------------------------
LEMMA GraphStep ==
    ASSUME IInv, IInv', [Next]_vars
    PROVE  [G!Next]_absVars
<1>1. CASE AddVertex  BY <1>1, AddVertexRefines DEF G!Next
<1>2. CASE AddEdge  BY <1>2, AddEdgeRefines DEF G!Next
<1>3. CASE RejectEdge  BY <1>3, RejectEdgeRefines DEF G!Next
<1>4. CASE GetVertex  BY <1>4, GetVertexRefines DEF G!Next
<1>5. CASE GetEdge  BY <1>5, GetEdgeRefines DEF G!Next
<1>6. CASE Reset  BY <1>6, ResetRefines DEF G!Next
<1>7. CASE Deseriallize  BY <1>7, DeseriallizeRefines DEF G!Next
<1>8. CASE UNCHANGED vars
  <2>1. VertexArray' = VertexArray /\ EdgeMap' = EdgeMap /\ answer' = answer
    BY <1>8 DEF vars
  <2> QED  BY <2>1, SameValues, SameGraph DEF absVars
<1> QED  BY <1>1, <1>2, <1>3, <1>4, <1>5, <1>6, <1>7, <1>8 DEF Next

\* The array of vertices and the map of keys (DirectedGraph.hpp:93-99) behave
\* as a simple directed graph: an edge is added exactly if its ends are
\* different vertices and the pair was neither connected nor looked up before,
\* no other edge changes, and a copy (DirectedGraph.hpp:361-446) has the same
\* edges.
THEOREM Refinement == Spec => GraphRefined
<1>1. Init => G!Init  BY InitRefines
<1>2. IInv /\ IInv' /\ [Next]_vars => [G!Next]_absVars  BY GraphStep
<1> QED  BY <1>1, <1>2, Invariance, PTL
         DEF Spec, GraphRefined, G!Spec, G!vars, absVars, AbsValues, AbsPhantoms, NatPairs
=============================================================================
