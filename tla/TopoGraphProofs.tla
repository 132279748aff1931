--------------------------- MODULE TopoGraphProofs ---------------------------
(***************************************************************************)
(* What the topology graph guarantees for every id range, every set of     *)
(* positions and linestrings, and every way of cutting a linestring that   *)
(* chains its parts.                                                       *)
(***************************************************************************)
EXTENDS TopoGraph, FiniteSetTheorems, SequenceTheorems, TLAPS

-----------------------------------------------------------------------------
(* The inductive invariant *)

\* The counters are one past the largest identifier, or stuck at the top.  A
\* clip may take away the largest edge; the first part it inserts is larger.
NodeCounter ==
    /\ \A n \in DOMAIN nodes : nextNode >= Successor(n)
    /\ nextNode = 0 \/ \E n \in DOMAIN nodes : nextNode = Successor(n)
EdgeCounter ==
    /\ \A e \in DOMAIN edges : nextEdge >= Successor(e)
    /\ \/ ~NotClipping /\ clip.parts = <<>>
       \/ nextEdge = 0
       \/ \E e \in DOMAIN edges : nextEdge = Successor(e)

\* A running clip has the identifiers it still has to mint, and the nodes its
\* parts will join.
ClipInv ==
    ~NotClipping =>
        /\ Len(clip.minted) < Len(clip.runs)
        /\ Len(clip.parts) < Len(clip.runs)
        /\ \A i \in DOMAIN clip.runs : clip.runs[i].line # <<>>
        /\ {clip.start, clip.end} \subseteq DOMAIN nodes
        /\ \A i \in DOMAIN clip.minted : clip.minted[i] \in DOMAIN nodes
        /\ clip.parts # <<>> => Len(clip.minted) = Len(clip.runs) - 1
        /\ nextNode + Len(clip.runs) <= MaxId + (Len(clip.minted) + 1)
        /\ nextEdge + Len(clip.runs) <= MaxId + Len(clip.parts)

IInv ==
    /\ TypeOK
    /\ AdjacencyMirrors
    /\ EndpointsExist
    /\ FacesRing
    /\ NodeCounter
    /\ EdgeCounter
    /\ ClipInv
    /\ NoTornClip

-----------------------------------------------------------------------------
(* Lists in order *)

\* The enumeration of a finite set of numbers: every member once, smaller ones
\* first.  The member at a position is the one with so many below it.
LEMMA AscendingLists ==
    ASSUME NEW S \in SUBSET Nat, IsFiniteSet(S)
    PROVE  /\ Cardinality(S) \in Nat
           /\ Ascending(S) \in [1 .. Cardinality(S) -> S]
           /\ \A x \in S : \E k \in 1 .. Cardinality(S) : Ascending(S)[k] = x
           /\ \A i, j \in 1 .. Cardinality(S) : i < j => Ascending(S)[i] < Ascending(S)[j]
<1> DEFINE n == Cardinality(S)
           Below(x) == {j \in S : j < x}
           rank == [x \in S |-> Cardinality(Below(x)) + 1]
<1>1. n \in Nat
  BY FS_CardinalityType
<1>2. ASSUME NEW x \in S
      PROVE  /\ IsFiniteSet(Below(x)) /\ Cardinality(Below(x)) \in Nat
             /\ Cardinality(Below(x)) + 1 <= n
             /\ Cardinality(Below(x) \cup {x}) = Cardinality(Below(x)) + 1
             /\ IsFiniteSet(Below(x) \cup {x})
  <2>1. IsFiniteSet(Below(x))
    BY FS_Subset
  <2>2. Cardinality(Below(x)) \in Nat
    BY <2>1, FS_CardinalityType
  <2>3. /\ IsFiniteSet(Below(x) \cup {x})
        /\ Cardinality(Below(x) \cup {x}) = Cardinality(Below(x)) + 1
    <3>1. x \notin Below(x)
      OBVIOUS
    <3> HIDE DEF Below
    <3> QED BY <2>1, <3>1, FS_AddElement
  <2>4. Cardinality(Below(x) \cup {x}) <= n
    <3>1. Below(x) \cup {x} \in SUBSET S
      OBVIOUS
    <3> QED BY <3>1, FS_Subset
  <2> QED BY <2>1, <2>2, <2>3, <2>4
<1>3. ASSUME NEW x \in S, NEW y \in S, x < y
      PROVE  Cardinality(Below(x)) < Cardinality(Below(y))
  <2>1. Below(x) \cup {x} \in SUBSET Below(y)
    <3>1. \A j \in S : j < x => j < y
      BY <1>3
    <3>2. \A j \in Below(x) : j \in S /\ j < x
      OBVIOUS
    <3>3. \A j \in S : j < y => j \in Below(y)
      OBVIOUS
    <3> HIDE DEF Below
    <3> QED BY <1>3, <3>1, <3>2, <3>3
  <2>2. IsFiniteSet(Below(y)) /\ Cardinality(Below(y)) \in Nat
    BY <1>2
  <2>3. Cardinality(Below(x) \cup {x}) <= Cardinality(Below(y))
    BY <2>1, <2>2, FS_Subset
  <2> HIDE DEF Below
  <2> QED BY <1>2, <2>2, <2>3
<1>4. \A x, y \in S : x # y => x < y \/ y < x
  OBVIOUS
<1>5. rank \in [S -> 1 .. n]
  <2> SUFFICES ASSUME NEW x \in S PROVE Cardinality(Below(x)) + 1 \in 1 .. n
    OBVIOUS
  <2>1. Cardinality(Below(x)) \in Nat /\ Cardinality(Below(x)) + 1 <= n
    BY <1>2
  <2> HIDE DEF Below, n
  <2> QED BY <1>1, <2>1
<1>6. \A x, y \in S : rank[x] = rank[y] => x = y
  <2> SUFFICES ASSUME NEW x \in S, NEW y \in S, x # y PROVE rank[x] # rank[y]
    OBVIOUS
  <2>1. Cardinality(Below(x)) \in Nat /\ Cardinality(Below(y)) \in Nat
    BY <1>2
  <2>2. Cardinality(Below(x)) < Cardinality(Below(y)) \/ Cardinality(Below(y)) < Cardinality(Below(x))
    BY <1>3, <1>4
  <2>3. rank[x] = Cardinality(Below(x)) + 1 /\ rank[y] = Cardinality(Below(y)) + 1
    OBVIOUS
  <2> HIDE DEF Below, rank
  <2> QED BY <2>1, <2>2, <2>3
<1>7. \A k \in 1 .. n : \E x \in S : rank[x] = k
  <2>1. rank \in Injection(S, 1 .. n)
    <3> HIDE DEF rank, n
    <3> QED BY <1>5, <1>6 DEF Injection, IsInjective
  <2>2. IsFiniteSet(1 .. n) /\ Cardinality(1 .. n) = n
    <3> HIDE DEF n
    <3>1. IsFiniteSet(1 .. n) /\ Cardinality(1 .. n) = IF 1 > n THEN 0 ELSE n - 1 + 1
      BY <1>1, FS_Interval
    <3> QED BY <1>1, <3>1
  <2>3. rank \in Surjection(S, 1 .. n)
    <3> HIDE DEF rank
    <3> QED BY <2>1, <2>2, FS_Injection
  <2> QED BY <2>3 DEF Surjection
<1>8. ASSUME NEW k \in 1 .. n, NEW x \in S, rank[x] = k
      PROVE  Ascending(S)[k] = x
  <2>1. \A y \in S : Cardinality(Below(y)) = k - 1 => y = x
    <3> SUFFICES ASSUME NEW y \in S, Cardinality(Below(y)) = k - 1 PROVE y = x
      OBVIOUS
    <3>1. rank[y] = k
      <4>1. rank[y] = Cardinality(Below(y)) + 1
        OBVIOUS
      <4> HIDE DEF Below, rank
      <4> QED BY <4>1
    <3> HIDE DEF rank
    <3> QED BY <1>6, <1>8, <3>1
  <2>2. Cardinality(Below(x)) = k - 1
    <3>1. rank[x] = Cardinality(Below(x)) + 1 /\ Cardinality(Below(x)) \in Nat
      BY <1>2
    <3> HIDE DEF Below, rank
    <3> QED BY <1>8, <3>1
  <2>3. Ascending(S)[k] = CHOOSE y \in S : Cardinality(Below(y)) = k - 1
    BY DEF Ascending
  <2> HIDE DEF Below
  <2> QED BY <2>1, <2>2, <2>3
<1> HIDE DEF rank, Below
<1>9. \A k \in 1 .. n : Ascending(S)[k] \in S /\ rank[Ascending(S)[k]] = k
  BY <1>7, <1>8
<1>10. Ascending(S) \in [1 .. n -> S]
  <2> DEFINE Member(k) == CHOOSE i \in S : Cardinality({j \in S : j < i}) = k - 1
  <2>1. Ascending(S) = [k \in 1 .. n |-> Member(k)]
    BY DEF Ascending
  <2> HIDE DEF Member, n
  <2>2. \A k \in 1 .. n : Member(k) \in S
    BY <1>9, <2>1
  <2> QED BY <2>1, <2>2
<1>11. \A x \in S : \E k \in 1 .. n : Ascending(S)[k] = x
  BY <1>5, <1>8
<1>12. ASSUME NEW i \in 1 .. n, NEW j \in 1 .. n, i < j
       PROVE  Ascending(S)[i] < Ascending(S)[j]
  <2> DEFINE x == Ascending(S)[i]
             y == Ascending(S)[j]
  <2>1. x \in S /\ y \in S /\ rank[x] = i /\ rank[y] = j
    BY <1>9
  <2> HIDE DEF x, y
  <2>2. CASE y < x
    <3>1. Cardinality(Below(y)) < Cardinality(Below(x))
      BY <1>3, <2>1, <2>2
    <3>2. /\ rank[x] = Cardinality(Below(x)) + 1 /\ rank[y] = Cardinality(Below(y)) + 1
          /\ Cardinality(Below(x)) \in Nat /\ Cardinality(Below(y)) \in Nat
      BY <1>2, <2>1 DEF rank
    <3> QED BY <1>12, <2>1, <3>1, <3>2
  <2>3. x # y
    <3>1. i # j
      BY <1>12
    <3> QED BY <2>1, <3>1
  <2>4. x < y \/ y < x
    BY <1>4, <2>1, <2>3
  <2> QED BY <2>2, <2>4 DEF x, y
<1> QED BY <1>1, <1>10, <1>11, <1>12

\* It is the only list of the set that grows.
LEMMA AscendingOnly ==
    ASSUME NEW S \in SUBSET Nat, IsFiniteSet(S), NEW m \in Nat, NEW p \in [1 .. m -> S],
           \A x \in S : \E k \in 1 .. m : p[k] = x,
           \A i, j \in 1 .. m : i < j => p[i] < p[j]
    PROVE  m = Cardinality(S) /\ p = Ascending(S)
<1>1. \A i, j \in 1 .. m : p[i] = p[j] => i = j
  <2> SUFFICES ASSUME NEW i \in 1 .. m, NEW j \in 1 .. m, i # j PROVE p[i] # p[j]
    OBVIOUS
  <2>1. i < j \/ j < i
    OBVIOUS
  <2>2. p[i] \in Nat /\ p[j] \in Nat
    OBVIOUS
  <2> QED BY <2>1, <2>2
<1>2. m = Cardinality(S)
  <2>1. p \in Bijection(1 .. m, S)
    BY <1>1 DEF Bijection, Injection, Surjection, IsInjective
  <2> QED BY <2>1, FS_CountingElements DEF ExistsBijection
<1>3. ASSUME NEW k \in 1 .. m
      PROVE  Cardinality({j \in S : j < p[k]}) = k - 1
  <2> DEFINE B == {j \in S : j < p[k]}
             q == [i \in 1 .. k - 1 |-> p[i]]
  <2>1. \A i \in 1 .. k - 1 : i \in 1 .. m /\ i < k
    OBVIOUS
  <2>2. \A i \in 1 .. k - 1 : p[i] \in B
    BY <2>1
  <2>3. ASSUME NEW x \in B PROVE \E i \in 1 .. k - 1 : p[i] = x
    <3>1. PICK i \in 1 .. m : p[i] = x
      OBVIOUS
    <3>2. ~(k < i) /\ i # k
      <4>1. p[i] < p[k] /\ p[i] \in Nat /\ p[k] \in Nat
        BY <3>1
      <4> QED BY <4>1
    <3>3. i \in 1 .. k - 1
      BY <3>2
    <3> QED BY <3>1, <3>3
  <2>4. q \in Bijection(1 .. k - 1, B)
    <3> HIDE DEF B
    <3>1. q \in [1 .. k - 1 -> B]
      BY <2>2
    <3>2. \A i, j \in 1 .. k - 1 : q[i] = q[j] => i = j
      BY <1>1, <2>1
    <3>3. \A x \in B : \E i \in 1 .. k - 1 : q[i] = x
      BY <2>3
    <3> HIDE DEF q
    <3> QED BY <3>1, <3>2, <3>3 DEF Bijection, Injection, Surjection, IsInjective
  <2>5. k - 1 \in Nat
    OBVIOUS
  <2> HIDE DEF B, q
  <2>6. Cardinality(B) = k - 1
    BY <2>4, <2>5, FS_CountingElements DEF ExistsBijection
  <2> QED BY <2>6 DEF B
<1>4. ASSUME NEW k \in 1 .. m
      PROVE  Ascending(S)[k] = p[k]
  <2> DEFINE B(x) == {j \in S : j < x}
  <2>1. Cardinality(B(p[k])) = k - 1
    BY <1>3
  <2>2. ASSUME NEW y \in S, Cardinality(B(y)) = k - 1 PROVE y = p[k]
    <3>1. PICK h \in 1 .. m : p[h] = y
      OBVIOUS
    <3>2. Cardinality(B(p[h])) = h - 1
      BY <1>3
    <3>3. h = k
      <4> HIDE DEF B
      <4> QED BY <2>2, <3>1, <3>2
    <3> QED BY <3>1, <3>3
  <2>3. Ascending(S)[k] = CHOOSE y \in S : Cardinality(B(y)) = k - 1
    BY <1>2 DEF Ascending
  <2>4. p[k] \in S
    OBVIOUS
  <2> HIDE DEF B
  <2> QED BY <2>1, <2>2, <2>3, <2>4
<1>5. Ascending(S) \in [1 .. m -> S]
  BY <1>2, AscendingLists
<1> QED BY <1>2, <1>4, <1>5

\* A list goes on being exact when an entry it lacks is appended, and when the
\* entries of an edge are taken out.
LEMMA ExactlyAppend ==
    ASSUME NEW list \in Seq(Signed), NEW S, Exactly(list, S), NEW x \in Signed, x \notin S
    PROVE  Append(list, x) \in Seq(Signed) /\ Exactly(Append(list, x), S \cup {x})
<1> DEFINE new == Append(list, x)
<1>1. /\ new \in Seq(Signed) /\ Len(list) \in Nat /\ DOMAIN list = 1 .. Len(list)
      /\ DOMAIN new = 1 .. Len(list) + 1 /\ new[Len(list) + 1] = x
      /\ \A i \in 1 .. Len(list) : new[i] = list[i]
  OBVIOUS
<1>2. \A i \in 1 .. Len(list) + 1 : i \in 1 .. Len(list) \/ i = Len(list) + 1
  BY <1>1
<1>3. \A i \in 1 .. Len(list) : i \in 1 .. Len(list) + 1 /\ list[i] \in S
  BY <1>1 DEF Exactly
<1>4. Len(list) + 1 \in 1 .. Len(list) + 1
  BY <1>1
<1> HIDE DEF new
<1>5. {new[i] : i \in DOMAIN new} = S \cup {x}
  BY <1>1, <1>2, <1>3, <1>4 DEF Exactly
<1>6. \A i, j \in DOMAIN new : new[i] = new[j] => i = j
  BY <1>1, <1>2, <1>3 DEF Exactly
<1> QED BY <1>1, <1>5, <1>6 DEF Exactly, new

LEMMA ExactlyRetained ==
    ASSUME NEW list \in Seq(Signed), NEW S, Exactly(list, S), NEW id
    PROVE  /\ Retained(list, id) \in Seq(Signed)
           /\ Exactly(Retained(list, id), {s \in S : s.edge # id})
<1> DEFINE K == {i \in DOMAIN list : list[i].edge # id}
           kept == Ascending(K)
           n == Cardinality(K)
           new == Retained(list, id)
<1>1. DOMAIN list = 1 .. Len(list) /\ Len(list) \in Nat
  OBVIOUS
<1>2. K \in SUBSET Nat /\ IsFiniteSet(K) /\ K \subseteq DOMAIN list
  <2>1. K \in SUBSET (1 .. Len(list)) /\ IsFiniteSet(1 .. Len(list))
    BY <1>1, FS_Interval
  <2>2. IsFiniteSet(K)
    BY <2>1, FS_Subset
  <2> QED BY <1>1, <2>1, <2>2
<1>3. \A i \in DOMAIN list : i \in K <=> list[i].edge # id
  OBVIOUS
<1> HIDE DEF K
<1>4. /\ n \in Nat
      /\ kept \in [1 .. n -> K]
      /\ \A x \in K : \E k \in 1 .. n : kept[k] = x
      /\ \A i, j \in 1 .. n : i < j => kept[i] < kept[j]
  BY <1>2, AscendingLists
<1>5. new = [k \in 1 .. n |-> list[kept[k]]]
  <2>1. DOMAIN kept = 1 .. n
    BY <1>4
  <2> QED BY <2>1 DEF Retained, K
<1> HIDE DEF kept, n
<1>6. \A k \in 1 .. n : kept[k] \in K /\ kept[k] \in DOMAIN list /\ list[kept[k]] \in Signed
  <2>1. \A k \in 1 .. n : kept[k] \in K /\ kept[k] \in DOMAIN list
    BY <1>2, <1>4
  <2>2. \A i \in DOMAIN list : list[i] \in Signed
    OBVIOUS
  <2> QED BY <2>1, <2>2
<1>7. new \in Seq(Signed) /\ DOMAIN new = 1 .. n
  BY <1>4, <1>5, <1>6
<1> HIDE DEF new
<1>8. {new[k] : k \in DOMAIN new} = {s \in S : s.edge # id}
  <2>1. ASSUME NEW k \in 1 .. n PROVE new[k] \in S /\ new[k].edge # id
    BY <1>3, <1>5, <1>6 DEF Exactly
  <2>2. ASSUME NEW s \in S, s.edge # id PROVE \E k \in 1 .. n : new[k] = s
    <3>1. PICK i \in DOMAIN list : list[i] = s
      BY DEF Exactly
    <3>2. i \in K
      BY <1>3, <2>2, <3>1
    <3>3. PICK k \in 1 .. n : kept[k] = i
      BY <1>4, <3>2
    <3> QED BY <1>5, <3>1, <3>3
  <2> QED BY <1>7, <2>1, <2>2
<1>9. ASSUME NEW i \in 1 .. n, NEW j \in 1 .. n, new[i] = new[j] PROVE i = j
  <2>1. kept[i] = kept[j]
    BY <1>5, <1>6, <1>9 DEF Exactly
  <2>2. i < j => kept[i] < kept[j]
    BY <1>4
  <2>3. j < i => kept[j] < kept[i]
    BY <1>4
  <2>4. kept[i] \in Nat /\ kept[j] \in Nat
    BY <1>2, <1>6
  <2> QED BY <1>4, <2>1, <2>2, <2>3, <2>4
<1> QED BY <1>7, <1>8, <1>9 DEF Exactly, new

-----------------------------------------------------------------------------
(* Inserts *)

\* A successor is an identifier, and larger than its own below the top.
LEMMA SuccessorInRange ==
    ASSUME NEW id \in Id
    PROVE  /\ Successor(id) \in Id
           /\ id < MaxId => Successor(id) = id + 1
BY GraphAssumption DEF Successor, Id

\* An inserted node is in its map, and the counter stays one past the largest.
LEMMA NodeAdded ==
    ASSUME IInv, NEW id \in Id, NEW position \in Position \cup {NoPosition},
           id \notin DOMAIN nodes, AddNode(id, position)
    PROVE  /\ DOMAIN nodes' = DOMAIN nodes \cup {id}
           /\ \A n \in DOMAIN nodes' : nodes'[n] \in Position \cup {NoPosition}
           /\ nextNode' \in Id
           /\ NodeCounter'
<1>1. DOMAIN nodes' = DOMAIN nodes \cup {id}
  BY DEF AddNode, With
<1>2. \A n \in DOMAIN nodes' : nodes'[n] \in Position \cup {NoPosition}
  BY DEF AddNode, With, IInv, TypeOK
<1>3. /\ Successor(id) \in Id /\ nextNode \in Id /\ DOMAIN nodes \subseteq Id
      /\ \A n \in DOMAIN nodes : Successor(n) \in Id
  BY SuccessorInRange DEF IInv, TypeOK
<1>4. nextNode' = IF nextNode >= Successor(id) THEN nextNode ELSE Successor(id)
  BY DEF AddNode, Ahead
<1>5. nextNode' \in Id
  BY <1>3, <1>4
<1>6. \A n \in DOMAIN nodes' : nextNode' >= Successor(n)
  <2>1. \A n \in DOMAIN nodes : nextNode >= Successor(n)
    BY DEF IInv, NodeCounter
  <2> QED BY <1>1, <1>3, <1>4, <2>1, GraphAssumption DEF Id
<1>7. nextNode' = 0 \/ \E n \in DOMAIN nodes' : nextNode' = Successor(n)
  BY <1>1, <1>4 DEF IInv, NodeCounter
<1>8. \A n : Successor(n)' = Successor(n)
  BY DEF Successor
<1> QED BY <1>1, <1>2, <1>5, <1>6, <1>7 DEF NodeCounter, Successor

\* An inserted edge is listed at its two nodes, leaves every ring as it was,
\* and the counter stays one past the largest.
LEMMA EdgeAdded ==
    ASSUME IInv, NEW id \in Id, NEW edge \in Edge,
           EdgeFits(id, edge), AddEdge(id, edge),
           UNCHANGED <<nodes, faces>>
    PROVE  /\ DOMAIN edges' = DOMAIN edges \cup {id}
           /\ \A e \in DOMAIN edges' : edges'[e] \in Edge
           /\ adjacency' \in [Id -> Seq(Signed)]
           /\ AdjacencyMirrors'
           /\ EndpointsExist'
           /\ FacesRing'
           /\ nextEdge' \in Id
           /\ \A e \in DOMAIN edges' : nextEdge' >= Successor(e)
           /\ nextEdge' = nextEdge \/ nextEdge' = Successor(id)
           /\ nextEdge = id => nextEdge' = Successor(id)
<1>0. /\ TypeOK /\ AdjacencyMirrors /\ EndpointsExist /\ FacesRing /\ EdgeCounter
  BY DEF IInv
<1>1. /\ DOMAIN edges' = DOMAIN edges \cup {id}
      /\ edges'[id] = edge
      /\ \A e \in DOMAIN edges : edges'[e] = edges[e]
  BY DEF AddEdge, With, EdgeFits
<1>2. \A e \in DOMAIN edges' : edges'[e] \in Edge
  BY <1>0, <1>1 DEF TypeOK
<1>3. /\ edge.start \in Id /\ edge.end \in Id
      /\ Leaving(id) \in Signed /\ Entering(id) \in Signed /\ Leaving(id) # Entering(id)
      /\ Leaving(id).edge = id /\ Leaving(id).sign = "leaving"
      /\ Entering(id).edge = id /\ Entering(id).sign = "entering"
  BY DEF Edge, Signed, Leaving, Entering
<1>4. ASSUME NEW n \in Id
      PROVE  adjacency'[n] \in Seq(Signed) /\ Exactly(adjacency'[n], Incident(n)')
  <2> DEFINE old == adjacency[n]
             left == IF n = edge.start THEN Append(old, Leaving(id)) ELSE old
             L == IF n = edge.start THEN {Leaving(id)} ELSE {}
             R == IF n = edge.end THEN {Entering(id)} ELSE {}
  <2>1. adjacency'[n] = IF n = edge.end THEN Append(left, Entering(id)) ELSE left
    <3> DEFINE mid == [adjacency EXCEPT ![edge.start] = Append(@, Leaving(id))]
    <3>1. adjacency \in [Id -> Seq(Signed)]
      BY <1>0 DEF TypeOK
    <3>2. adjacency' = [mid EXCEPT ![edge.end] = Append(@, Entering(id))]
      BY DEF AddEdge, List
    <3>3. DOMAIN mid = Id /\ mid[n] = left
      BY <1>3, <3>1
    <3> HIDE DEF mid, left
    <3> QED BY <1>3, <3>2, <3>3
  <2>2. Incident(n)' = Incident(n) \cup L \cup R
    <3>1. Incident(n)' \subseteq Incident(n) \cup L \cup R
      BY <1>1, <1>3 DEF Incident, Touches, Leaving, Entering
    <3>2. Incident(n) \subseteq Incident(n)'
      BY <1>1 DEF Incident, Touches
    <3>3. L \subseteq Incident(n)' /\ R \subseteq Incident(n)'
      BY <1>1 DEF Incident, Touches, Leaving, Entering
    <3> QED BY <3>1, <3>2, <3>3
  <2>3. old \in Seq(Signed) /\ Exactly(old, Incident(n))
    BY <1>0 DEF TypeOK, AdjacencyMirrors
  <2>4. Leaving(id) \notin Incident(n) /\ Entering(id) \notin Incident(n)
    BY <1>3 DEF EdgeFits, Incident
  <2>5. left \in Seq(Signed) /\ Exactly(left, Incident(n) \cup L)
    <3>1. CASE n = edge.start
      BY <1>3, <2>3, <2>4, <3>1, ExactlyAppend
    <3>2. CASE n # edge.start
      BY <2>3, <3>2
    <3> QED BY <3>1, <3>2
  <2>6. Entering(id) \notin Incident(n) \cup L
    BY <1>3, <2>4
  <2> HIDE DEF left, L, old
  <2>7. CASE n = edge.end
    BY <1>3, <2>1, <2>2, <2>5, <2>6, <2>7, ExactlyAppend
  <2>8. CASE n # edge.end
    BY <2>1, <2>2, <2>5, <2>8
  <2> QED BY <2>7, <2>8
<1>5. adjacency' \in [Id -> Seq(Signed)] /\ AdjacencyMirrors'
  <2>1. DOMAIN adjacency' = Id /\ adjacency' = [n \in DOMAIN adjacency' |-> adjacency'[n]]
    BY <1>0 DEF AddEdge, List, TypeOK
  <2>2. adjacency' \in [Id -> Seq(Signed)]
    BY <1>4, <2>1
  <2> QED BY <1>4, <2>2 DEF AdjacencyMirrors
<1>6. EndpointsExist'
  BY <1>0, <1>1 DEF EndpointsExist, EdgeFits
<1>7. FacesRing'
  <2> SUFFICES ASSUME NEW f \in DOMAIN faces PROVE Ring(faces[f])'
    BY DEF FacesRing
  <2>1. Ring(faces[f]) /\ faces'[f] = faces[f]
    BY <1>0 DEF FacesRing
  <2>2. faces[f] \in Seq(Directed)
    BY <1>0 DEF TypeOK
  <2>3. \A i \in DOMAIN faces[f] : /\ From(faces[f][i])' = From(faces[f][i])
                                   /\ To(faces[f][i])' = To(faces[f][i])
                                   /\ faces[f][i].edge \in DOMAIN edges'
    BY <2>1, <1>1 DEF Ring, From, To
  <2>4. 1 \in DOMAIN faces[f] /\ Len(faces[f]) \in DOMAIN faces[f]
    BY <2>1, <2>2 DEF Ring
  <2>5. \A i \in 1 .. Len(faces[f]) - 1 : i \in DOMAIN faces[f] /\ i + 1 \in DOMAIN faces[f]
    BY <2>2
  <2> QED BY <2>1, <2>3, <2>4, <2>5 DEF Ring, First, Final
<1>8. /\ Successor(id) \in Id /\ nextEdge \in Id /\ DOMAIN edges \subseteq Id
      /\ \A e \in DOMAIN edges : Successor(e) \in Id
  BY <1>0, SuccessorInRange DEF TypeOK
<1>9. nextEdge' = IF nextEdge >= Successor(id) THEN nextEdge ELSE Successor(id)
  BY DEF AddEdge, Ahead
<1>10. nextEdge' \in Id
  BY <1>8, <1>9
<1>11. \A e \in DOMAIN edges' : nextEdge' >= Successor(e)
  <2>1. \A e \in DOMAIN edges : nextEdge >= Successor(e)
    BY <1>0 DEF EdgeCounter
  <2> QED BY <1>1, <1>8, <1>9, <2>1, GraphAssumption DEF Id
<1>12. nextEdge = id => nextEdge' = Successor(id)
  BY <1>9, <1>8, GraphAssumption DEF Id, Successor
<1> QED BY <1>1, <1>2, <1>5, <1>6, <1>7, <1>9, <1>10, <1>11, <1>12

-----------------------------------------------------------------------------
(* Each action keeps the invariant *)

LEMMA InitHolds == Init => IInv
<1> SUFFICES ASSUME Init PROVE IInv
  OBVIOUS
<1> USE GraphAssumption DEF Init
<1>1. TypeOK
  <2>1. NoClip \in Clip
    BY DEF NoClip, Clip, Id
  <2>2. 0 \in Id
    BY DEF Id
  <2> QED BY <2>1, <2>2 DEF TypeOK, Outcome
<1>2. AdjacencyMirrors /\ EndpointsExist /\ FacesRing
  BY DEF AdjacencyMirrors, Exactly, Incident, EndpointsExist, FacesRing
<1>3. NodeCounter /\ EdgeCounter /\ ClipInv /\ NoTornClip
  BY DEF NodeCounter, EdgeCounter, ClipInv, NoTornClip, NotClipping, NoClip
<1> QED BY <1>1, <1>2, <1>3 DEF IInv

\* Whether a boundary is a ring depends on the edges alone.
LEMMA RingKept ==
    ASSUME edges' = edges, NEW boundary
    PROVE  Ring(boundary)' <=> Ring(boundary)
<1>1. \A step : From(step)' = From(step) /\ To(step)' = To(step)
  BY DEF From, To
<1>2. DOMAIN edges' = DOMAIN edges
  OBVIOUS
<1> QED BY <1>1, <1>2 DEF Ring, First, Final

\* A refusal, a whole edge and a stutter leave the graph alone.
LEMMA GraphKept ==
    ASSUME IInv, UNCHANGED <<graph, clip>>, outcome' \in Outcome \ {"torn"}
    PROVE  IInv'
<1>1. TypeOK'
  BY DEF IInv, TypeOK, graph
<1>2. AdjacencyMirrors' /\ EndpointsExist'
  BY DEF IInv, AdjacencyMirrors, Exactly, Incident, EndpointsExist, Touches, graph
<1>3. FacesRing'
  BY RingKept DEF IInv, FacesRing, graph
<1>4. NodeCounter' /\ EdgeCounter'
  BY DEF IInv, NodeCounter, EdgeCounter, NotClipping, Successor, graph
<1>5. ClipInv' /\ NoTornClip'
  BY DEF IInv, ClipInv, NoTornClip, NotClipping, graph
<1> QED BY <1>1, <1>2, <1>3, <1>4, <1>5 DEF IInv

LEMMA InsertNodeStep ==
    ASSUME IInv, NEW n \in OfferedNodes, InsertNode(n)
    PROVE  IInv'
<1>1. n.id \in Id /\ n.position \in Position \cup {NoPosition}
  BY GraphAssumption
<1>2. CASE Refuse
  BY <1>2, GraphKept DEF Refuse, Outcome
<1>3. CASE /\ n.id \notin DOMAIN nodes
           /\ AddNode(n.id, n.position)
           /\ outcome' = "ok"
           /\ UNCHANGED <<edges, faces, adjacency, nextEdge, clip, routes>>
  <2>1. /\ DOMAIN nodes' = DOMAIN nodes \cup {n.id}
        /\ \A m \in DOMAIN nodes' : nodes'[m] \in Position \cup {NoPosition}
        /\ nextNode' \in Id
        /\ NodeCounter'
    BY <1>1, <1>3, NodeAdded
  <2>2. TypeOK'
    BY <1>1, <1>3, <2>1 DEF IInv, TypeOK, Outcome
  <2>3. AdjacencyMirrors'
    BY <1>3 DEF IInv, AdjacencyMirrors, Exactly, Incident, Touches
  <2>6. FacesRing'
    BY <1>3, RingKept DEF IInv, FacesRing
  <2>7. EdgeCounter'
    BY <1>3 DEF IInv, EdgeCounter, Successor, NotClipping
  <2>4. EndpointsExist'
    BY <1>3, <2>1 DEF IInv, EndpointsExist
  <2>5. ClipInv' /\ NoTornClip'
    BY <1>3 DEF InsertNode, ClipInv, NotClipping, NoTornClip
  <2> QED BY <2>1, <2>2, <2>3, <2>4, <2>5, <2>6, <2>7 DEF IInv
<1> QED BY <1>2, <1>3 DEF InsertNode

LEMMA InsertEdgeStep ==
    ASSUME IInv, NEW e \in OfferedEdges, InsertEdge(e)
    PROVE  IInv'
<1> DEFINE edge == [start |-> e.start, end |-> e.end, geometry |-> e.geometry]
<1>1. e.id \in Id /\ edge \in Edge
  BY GraphAssumption
<1>2. CASE Refuse
  BY <1>2, GraphKept DEF Refuse, Outcome
<1>3. CASE /\ EdgeFits(e.id, edge)
           /\ AddEdge(e.id, edge)
           /\ outcome' = "ok"
           /\ UNCHANGED <<nodes, faces, nextNode, clip>>
  <2> HIDE DEF edge
  <2>1. /\ DOMAIN edges' = DOMAIN edges \cup {e.id}
        /\ \A d \in DOMAIN edges' : edges'[d] \in Edge
        /\ adjacency' \in [Id -> Seq(Signed)]
        /\ AdjacencyMirrors' /\ EndpointsExist' /\ FacesRing'
        /\ nextEdge' \in Id
        /\ \A d \in DOMAIN edges' : nextEdge' >= Successor(d)
        /\ nextEdge' = nextEdge \/ nextEdge' = Successor(e.id)
    BY <1>1, <1>3, EdgeAdded
  <2>2. TypeOK'
    BY <1>1, <1>3, <2>1 DEF IInv, TypeOK, Outcome
  <2>3. EdgeCounter'
    <3>1. nextEdge = 0 \/ \E d \in DOMAIN edges : nextEdge = Successor(d)
      BY DEF IInv, EdgeCounter, InsertEdge
    <3> QED BY <2>1, <3>1 DEF EdgeCounter, Successor
  <2>4. NodeCounter' /\ ClipInv' /\ NoTornClip'
    BY <1>3 DEF InsertEdge, IInv, NodeCounter, ClipInv, NotClipping, NoTornClip, Successor
  <2> QED BY <2>1, <2>2, <2>3, <2>4 DEF IInv
<1> QED BY <1>2, <1>3 DEF InsertEdge

LEMMA InsertFaceStep ==
    ASSUME IInv, NEW f \in OfferedFaces, InsertFace(f)
    PROVE  IInv'
<1>1. f.id \in FaceId /\ f.boundary \in Seq(Directed)
  BY GraphAssumption
<1>2. CASE Refuse
  BY <1>2, GraphKept DEF Refuse, Outcome
<1>3. CASE /\ Ring(f.boundary)
           /\ faces' = With(faces, f.id, f.boundary)
           /\ outcome' = "ok"
           /\ UNCHANGED <<nodes, edges, adjacency, nextNode, nextEdge, clip, routes>>
  <2>1. DOMAIN faces' = DOMAIN faces \cup {f.id}
    BY <1>3 DEF With
  <2>2. \A g \in DOMAIN faces' :
           faces'[g] = IF g = f.id THEN f.boundary ELSE faces[g]
    BY <1>3, <2>1 DEF With
  <2>3. TypeOK'
    BY <1>1, <1>3, <2>1, <2>2 DEF IInv, TypeOK, Outcome
  <2>4. FacesRing'
    BY <1>3, <2>1, <2>2, RingKept DEF IInv, FacesRing
  <2>5. AdjacencyMirrors' /\ EndpointsExist' /\ NodeCounter' /\ EdgeCounter'
    BY <1>3 DEF IInv, AdjacencyMirrors, Exactly, Incident, EndpointsExist, NodeCounter, EdgeCounter,
                Touches, Successor, NotClipping
  <2>6. ClipInv' /\ NoTornClip'
    BY <1>3 DEF InsertFace, ClipInv, NotClipping, NoTornClip
  <2> QED BY <2>3, <2>4, <2>5, <2>6 DEF IInv
<1> QED BY <1>2, <1>3 DEF InsertFace

-----------------------------------------------------------------------------
(* The clip *)

\* What a clippable edge is cut into.
LEMMA RunsOfEdge ==
    ASSUME IInv, NEW id \in DOMAIN edges, Clippable(edges[id]), NEW tile \in Tile
    PROVE  LET runs == Splitting(Assembled(edges[id]), tile)
           IN  /\ runs \in Seq(Run)
               /\ \A i \in DOMAIN runs : runs[i].line # <<>>
<1> DEFINE edge == edges[id]
           line == Assembled(edge)
<1>1. edge \in Edge /\ {edge.start, edge.end} \subseteq DOMAIN nodes
  BY DEF IInv, TypeOK, EndpointsExist
<1>2. line \in Lines /\ Len(line) >= 2
  <2>1. CASE edge.geometry # NoGeometry
    BY <1>1, <2>1 DEF Assembled, Clippable, Edge
  <2>2. CASE edge.geometry = NoGeometry
    <3>1. line = <<nodes[edge.start], nodes[edge.end]>>
      BY <2>2 DEF Assembled, Clippable
    <3>2. nodes[edge.start] \in Position /\ nodes[edge.end] \in Position
      BY <1>1, <2>2 DEF Assembled, Clippable, IInv, TypeOK
    <3> QED BY <3>1, <3>2, GraphAssumption
  <2> QED BY <2>1, <2>2
<1>3. \A i \in DOMAIN line : line[i] \in Finite
  BY DEF Clippable
<1> HIDE DEF line
<1>4. /\ Splitting(line, tile) \in Seq(Run)
      /\ \A i \in DOMAIN Splitting(line, tile) : Len(Splitting(line, tile)[i].line) >= 2
  BY <1>2, <1>3, SplitAssumption
<1>5. \A i \in DOMAIN Splitting(line, tile) : Splitting(line, tile)[i].line # <<>>
  BY <1>4
<1> QED BY <1>4, <1>5 DEF line

\* Removing an edge that is in no face leaves the rest of the graph whole.
LEMMA BeginClipStep ==
    ASSUME IInv, NotClipping, NEW id \in DOMAIN edges, ~InFace(id),
           NEW runs \in Seq(Run), \A i \in DOMAIN runs : runs[i].line # <<>>,
           BeginClip(id, runs)
    PROVE  IInv'
<1>0. /\ TypeOK /\ AdjacencyMirrors /\ EndpointsExist /\ FacesRing
      /\ NodeCounter /\ EdgeCounter
  BY DEF IInv
<1>1. /\ DOMAIN edges' = DOMAIN edges \ {id}
      /\ \A e \in DOMAIN edges' : edges'[e] = edges[e]
      /\ UNCHANGED <<nodes, faces, nextNode, nextEdge>>
  BY DEF BeginClip, WithoutId
<1>2. /\ edges[id] \in Edge /\ id \in Id
      /\ {edges[id].start, edges[id].end} \subseteq DOMAIN nodes
  BY <1>0 DEF TypeOK, EndpointsExist
<1>3. adjacency' = [n \in Id |-> IF n \in {edges[id].start, edges[id].end}
                                 THEN Retained(adjacency[n], id) ELSE adjacency[n]]
  BY DEF BeginClip, Unlist
<1>4. ASSUME NEW n \in Id
      PROVE  adjacency'[n] \in Seq(Signed) /\ Exactly(adjacency'[n], Incident(n)')
  <2>1. adjacency[n] \in Seq(Signed) /\ Exactly(adjacency[n], Incident(n))
    BY <1>0 DEF TypeOK, AdjacencyMirrors
  <2>2. Incident(n)' = {s \in Incident(n) : s.edge # id}
    BY <1>1 DEF Incident, Touches
  <2>3. CASE n \in {edges[id].start, edges[id].end}
    <3>1. adjacency'[n] = Retained(adjacency[n], id)
      BY <1>3, <2>3
    <3> QED BY <2>1, <2>2, <3>1, ExactlyRetained
  <2>4. CASE n \notin {edges[id].start, edges[id].end}
    <3>1. \A s \in Incident(n) : s.edge # id
      BY <2>4 DEF Incident, Touches
    <3>2. Incident(n)' = Incident(n) /\ adjacency'[n] = adjacency[n]
      BY <1>3, <2>2, <2>4, <3>1
    <3> QED BY <2>1, <3>2
  <2> QED BY <2>3, <2>4
<1>5. adjacency' \in [Id -> Seq(Signed)] /\ AdjacencyMirrors'
  <2>1. adjacency' \in [Id -> Seq(Signed)]
    BY <1>3, <1>4
  <2> QED BY <1>4, <2>1 DEF AdjacencyMirrors
<1>6. EndpointsExist'
  BY <1>0, <1>1 DEF EndpointsExist
<1>7. FacesRing'
  <2> SUFFICES ASSUME NEW f \in DOMAIN faces PROVE Ring(faces[f])'
    BY <1>1 DEF FacesRing
  <2>1. Ring(faces[f]) /\ faces'[f] = faces[f] /\ faces[f] \in Seq(Directed)
    BY <1>0, <1>1 DEF FacesRing, TypeOK
  <2>2. \A i \in DOMAIN faces[f] : /\ From(faces[f][i])' = From(faces[f][i])
                                   /\ To(faces[f][i])' = To(faces[f][i])
                                   /\ faces[f][i].edge \in DOMAIN edges'
    BY <2>1, <1>1 DEF Ring, From, To, InFace
  <2>3. 1 \in DOMAIN faces[f] /\ Len(faces[f]) \in DOMAIN faces[f]
    BY <2>1 DEF Ring
  <2>4. \A i \in 1 .. Len(faces[f]) - 1 : i \in DOMAIN faces[f] /\ i + 1 \in DOMAIN faces[f]
    BY <2>1
  <2> QED BY <2>1, <2>2, <2>3, <2>4 DEF Ring, First, Final
<1>8. TypeOK'
  <2>1. clip' \in Clip
    BY <1>2 DEF BeginClip, Clip, Edge
  <2>2. \A e \in DOMAIN edges' : edges'[e] \in Edge
    BY <1>0, <1>1 DEF TypeOK
  <2> QED BY <1>0, <1>1, <1>5, <2>1, <2>2 DEF TypeOK, BeginClip, Outcome
<1>9. NodeCounter' /\ EdgeCounter'
  <2>1. ~NotClipping' /\ clip'.parts = <<>>
    BY DEF BeginClip, NotClipping
  <2> QED BY <1>0, <1>1, <2>1 DEF NodeCounter, EdgeCounter, Successor
<1>10. ClipInv' /\ NoTornClip'
  <2>1. /\ Len(runs) \in Nat /\ nextNode \in Int /\ nextEdge \in Int
    BY <1>0 DEF TypeOK, Id
  <2> QED BY <1>1, <1>2, <2>1, GraphAssumption
          DEF BeginClip, Headroom, ClipInv, NotClipping, NoTornClip
<1> QED BY <1>5, <1>6, <1>7, <1>8, <1>9, <1>10 DEF IInv

LEMMA ClipEdgeStep ==
    ASSUME IInv, NEW id \in Id, NEW tile \in Tile, ClipEdge(id, tile)
    PROVE  IInv'
<1> DEFINE runs == Splitting(Assembled(edges[id]), tile)
           clippable == id \in DOMAIN edges /\ ~InFace(id) /\ Clippable(edges[id])
<1>1. CASE Refuse
  BY <1>1, GraphKept DEF Refuse, Outcome
<1>2. CASE Untouched
  BY <1>2, GraphKept DEF Untouched, Outcome
<1>3. CASE clippable /\ BeginClip(id, runs)
  <2>1. runs \in Seq(Run) /\ \A i \in DOMAIN runs : runs[i].line # <<>>
    BY <1>3, RunsOfEdge
  <2> HIDE DEF runs
  <2> QED BY <1>3, <2>1, BeginClipStep DEF ClipEdge
<1> QED BY <1>1, <1>2, <1>3 DEF ClipEdge

\* One identifier minted, one fewer to come.
LEMMA OneMinted ==
    ASSUME NEW next \in Int, NEW total \in Int, NEW top \in Int, NEW done \in Int,
           next + total <= top + done
    PROVE  (next + 1) + total <= top + (done + 1)
OBVIOUS
LEMMA BelowTop ==
    ASSUME NEW next \in Int, NEW total \in Int, NEW top \in Int, NEW done \in Int,
           next + total <= top + done, done < total
    PROVE  next < top
OBVIOUS

\* What the type invariant says of a running clip.
LEMMA ClipTyped ==
    ASSUME IInv
    PROVE  /\ clip.runs \in Seq(Run) /\ clip.minted \in Seq(Id) /\ clip.parts \in Seq(Id)
           /\ clip.start \in Id /\ clip.end \in Id
           /\ Len(clip.runs) \in Nat /\ Len(clip.minted) \in Nat /\ Len(clip.parts) \in Nat
           /\ nextNode \in Id /\ nextEdge \in Id
BY DEF IInv, TypeOK, Clip

\* While a node is still to be minted, its identifier is below the top and
\* not in use.
LEMMA FreshNode ==
    ASSUME IInv, ~NotClipping, Len(clip.minted) + 1 < Len(clip.runs)
    PROVE  nextNode \notin DOMAIN nodes /\ nextNode < MaxId
<1>1. nextNode < MaxId
  <2>1. nextNode + Len(clip.runs) <= MaxId + (Len(clip.minted) + 1)
    BY DEF IInv, ClipInv
  <2>2. nextNode \in Int /\ MaxId \in Int /\ Len(clip.runs) \in Int /\ Len(clip.minted) + 1 \in Int
    BY ClipTyped, GraphAssumption DEF Id
  <2> QED BY <2>1, <2>2, BelowTop
<1>2. nextNode \in DOMAIN nodes => nextNode >= nextNode + 1
  BY <1>1, ClipTyped, SuccessorInRange DEF IInv, NodeCounter
<1> QED BY <1>1, <1>2, ClipTyped DEF Id

LEMMA FreshEdge ==
    ASSUME IInv, ~NotClipping
    PROVE  nextEdge \notin DOMAIN edges /\ nextEdge < MaxId
<1>1. nextEdge < MaxId
  <2>1. nextEdge + Len(clip.runs) <= MaxId + Len(clip.parts) /\ Len(clip.parts) < Len(clip.runs)
    BY DEF IInv, ClipInv
  <2>2. nextEdge \in Int /\ MaxId \in Int /\ Len(clip.runs) \in Int /\ Len(clip.parts) \in Int
    BY ClipTyped, GraphAssumption DEF Id
  <2> QED BY <2>1, <2>2, BelowTop
<1>2. nextEdge \in DOMAIN edges => nextEdge >= nextEdge + 1
  BY <1>1, ClipTyped, SuccessorInRange DEF IInv, EdgeCounter
<1> QED BY <1>1, <1>2, ClipTyped DEF Id

LEMMA MintNodeStep ==
    ASSUME IInv, MintNode
    PROVE  IInv'
<1> DEFINE k == Len(clip.minted) + 1
           node == Crossing(clip.runs[k])
<1>1. k < Len(clip.runs) /\ k \in DOMAIN clip.runs /\ ~NotClipping
  BY ClipTyped DEF MintNode, NotClipping
<1>2. nextNode \notin DOMAIN nodes /\ nextNode < MaxId
  BY <1>1, FreshNode
<1>3. /\ AddNode(nextNode, node)
      /\ clip' = [clip EXCEPT !.minted = Append(@, nextNode)]
      /\ UNCHANGED <<edges, faces, adjacency, nextEdge, outcome, routes>>
  BY <1>2 DEF MintNode
<1>4. node \in Position \cup {NoPosition}
  <2>1. clip.runs[k] \in Run
    BY <1>1, ClipTyped
  <2>2. clip.runs[k].line \in Seq(Position)
    BY <2>1, GraphAssumption DEF Run
  <2>3. clip.runs[k].line # <<>>
    BY <1>1 DEF IInv, ClipInv
  <2> QED BY <2>2, <2>3 DEF Crossing, Final
<1>5. /\ DOMAIN nodes' = DOMAIN nodes \cup {nextNode}
      /\ \A m \in DOMAIN nodes' : nodes'[m] \in Position \cup {NoPosition}
      /\ nextNode' \in Id
      /\ NodeCounter'
  <2> HIDE DEF node
  <2> QED BY <1>2, <1>3, <1>4, NodeAdded, ClipTyped
<1>6. nextNode' = nextNode + 1
  BY <1>2, <1>3, ClipTyped, SuccessorInRange DEF AddNode, Ahead, Id
<1>7. TypeOK'
  <2>0. clip \in Clip /\ Append(clip.minted, nextNode) \in Seq(Id)
    BY ClipTyped DEF IInv, TypeOK
  <2>1. clip' \in Clip
    BY <1>3, <2>0 DEF Clip
  <2> QED BY <1>2, <1>3, <1>5, <2>1, ClipTyped DEF IInv, TypeOK
<1>8. AdjacencyMirrors' /\ EndpointsExist'
  BY <1>3, <1>5 DEF IInv, AdjacencyMirrors, Exactly, Incident, EndpointsExist, Touches
<1>9. FacesRing'
  BY <1>3, RingKept DEF IInv, FacesRing
<1>10. clip' = [clip EXCEPT !.minted = Append(clip.minted, nextNode)]
  BY <1>3
<1>11. /\ clip'.runs = clip.runs /\ clip'.parts = clip.parts
       /\ clip'.start = clip.start /\ clip'.end = clip.end
       /\ clip'.minted = Append(clip.minted, nextNode)
  BY <1>10 DEF IInv, TypeOK, Clip
<1>12. EdgeCounter'
  BY <1>3, <1>11 DEF IInv, EdgeCounter, NotClipping, Successor
<1>13. ClipInv'
  <2>1. /\ Len(clip'.minted) = Len(clip.minted) + 1
        /\ \A i \in DOMAIN clip'.minted : clip'.minted[i] \in DOMAIN nodes'
    BY <1>1, <1>5, <1>11, ClipTyped DEF IInv, ClipInv
  <2>2. clip.parts = <<>>
    BY <1>1, ClipTyped DEF IInv, ClipInv
  <2>3. /\ \A i \in DOMAIN clip.runs : clip.runs[i].line # <<>>
        /\ {clip.start, clip.end} \subseteq DOMAIN nodes
        /\ Len(clip.parts) < Len(clip.runs)
        /\ nextNode + Len(clip.runs) <= MaxId + (Len(clip.minted) + 1)
        /\ nextEdge + Len(clip.runs) <= MaxId + Len(clip.parts)
    BY <1>1 DEF IInv, ClipInv
  <2>4. /\ Len(clip.runs) \in Int /\ Len(clip.minted) \in Int
        /\ nextNode \in Int /\ MaxId \in Int
    BY ClipTyped, GraphAssumption DEF Id
  <2>5. nextNode' + Len(clip.runs) <= MaxId + (Len(clip'.minted) + 1)
    <3>1. nextNode + Len(clip.runs) <= MaxId + (Len(clip.minted) + 1)
      BY <2>3
    <3>2. (nextNode + 1) + Len(clip.runs) <= MaxId + ((Len(clip.minted) + 1) + 1)
      <4>1. Len(clip.minted) + 1 \in Int
        BY <2>4
      <4> QED BY <2>4, <3>1, <4>1, OneMinted
    <3> QED BY <1>6, <2>1, <3>2
  <2>6. Len(clip'.minted) < Len(clip.runs)
    BY <1>1, <2>1
  <2> QED BY <1>3, <1>5, <1>11, <2>1, <2>2, <2>3, <2>5, <2>6 DEF ClipInv
<1>14. NoTornClip'
  BY <1>3 DEF IInv, NoTornClip
<1> QED BY <1>5, <1>7, <1>8, <1>9, <1>12, <1>13, <1>14 DEF IInv

LEMMA InsertPartStep ==
    ASSUME IInv, InsertPart
    PROVE  IInv'
<1> DEFINE k == Len(clip.parts) + 1
           part == [start |-> Junction(k - 1), end |-> Junction(k),
                    geometry |-> clip.runs[k].line]
<1>1. /\ ~NotClipping /\ Len(clip.minted) = Len(clip.runs) - 1
      /\ k \in DOMAIN clip.runs
  BY ClipTyped DEF InsertPart, IInv, ClipInv
<1>2. nextEdge \notin DOMAIN edges /\ nextEdge < MaxId
  BY <1>1, FreshEdge
<1>3. \A j \in 0 .. Len(clip.runs) : Junction(j) \in DOMAIN nodes
  <2>1. {clip.start, clip.end} \subseteq DOMAIN nodes
    BY <1>1 DEF IInv, ClipInv
  <2>2. \A i \in DOMAIN clip.minted : clip.minted[i] \in DOMAIN nodes
    BY <1>1 DEF IInv, ClipInv
  <2>3. \A j \in 1 .. Len(clip.runs) - 1 : j \in DOMAIN clip.minted
    BY <1>1, ClipTyped
  <2> QED BY <2>1, <2>2, <2>3, ClipTyped DEF Junction
<1>4. part \in Edge /\ {part.start, part.end} \subseteq DOMAIN nodes
  <2>1. Junction(k - 1) \in DOMAIN nodes /\ Junction(k) \in DOMAIN nodes
    BY <1>1, <1>3, ClipTyped
  <2>2. clip.runs[k] \in Run
    BY <1>1, ClipTyped
  <2>3. clip.runs[k].line \in Lines
    BY <2>2 DEF Run
  <2> QED BY <2>1, <2>3 DEF Edge, IInv, TypeOK
<1> HIDE DEF part
<1>5. EdgeFits(nextEdge, part)
  BY <1>2, <1>4 DEF EdgeFits
<1>6. /\ AddEdge(nextEdge, part)
      /\ UNCHANGED <<nodes, faces, nextNode>>
      /\ \/ k = Len(clip.runs) /\ clip' = NoClip /\ outcome' = "clipped"
         \/ /\ k # Len(clip.runs) /\ outcome' = outcome
            /\ clip' = [clip EXCEPT !.parts = Append(@, nextEdge)]
  BY <1>5 DEF InsertPart, part
<1>7. /\ DOMAIN edges' = DOMAIN edges \cup {nextEdge}
      /\ \A d \in DOMAIN edges' : edges'[d] \in Edge
      /\ adjacency' \in [Id -> Seq(Signed)]
      /\ AdjacencyMirrors' /\ EndpointsExist' /\ FacesRing'
      /\ nextEdge' \in Id
      /\ \A d \in DOMAIN edges' : nextEdge' >= Successor(d)
      /\ nextEdge' = Successor(nextEdge)
  BY <1>4, <1>5, <1>6, EdgeAdded, ClipTyped
<1>8. nextEdge' = nextEdge + 1
  BY <1>2, <1>7, ClipTyped, SuccessorInRange
<1>9. clip' \in Clip
  <2>1. NoClip \in Clip
    BY GraphAssumption DEF NoClip, Clip, Id
  <2>2. clip \in Clip /\ nextEdge \in Id
    BY DEF IInv, TypeOK
  <2>3. Append(clip.parts, nextEdge) \in Seq(Id)
    BY ClipTyped
  <2>4. [clip EXCEPT !.parts = Append(@, nextEdge)] \in Clip
    BY <2>2, <2>3 DEF Clip
  <2> QED BY <1>6, <2>1, <2>4
<1>10. outcome' \in Outcome \ {"torn"}
  BY <1>6 DEF IInv, TypeOK, NoTornClip, Outcome
<1>11. TypeOK'
  BY <1>2, <1>6, <1>7, <1>9, <1>10, ClipTyped DEF IInv, TypeOK
<1>12. EdgeCounter'
  BY <1>7 DEF EdgeCounter, Successor
<1>13. NodeCounter'
  BY <1>6 DEF IInv, NodeCounter, Successor
<1>14. ClipInv'
  <2>1. CASE clip' = NoClip
    BY <2>1 DEF ClipInv, NotClipping, NoClip
  <2>2. CASE k # Len(clip.runs) /\ clip' = [clip EXCEPT !.parts = Append(@, nextEdge)]
    <3>1. /\ clip'.runs = clip.runs /\ clip'.minted = clip.minted
          /\ clip'.start = clip.start /\ clip'.end = clip.end
          /\ clip'.parts = Append(clip.parts, nextEdge)
      BY <2>2 DEF IInv, TypeOK, Clip
    <3>2. Len(clip'.parts) = Len(clip.parts) + 1
      BY <3>1, ClipTyped
    <3>3. Len(clip'.parts) < Len(clip'.runs)
      BY <1>1, <2>2, <3>1, <3>2, ClipTyped
    <3>4. /\ \A i \in DOMAIN clip.runs : clip.runs[i].line # <<>>
          /\ {clip.start, clip.end} \subseteq DOMAIN nodes
          /\ \A i \in DOMAIN clip.minted : clip.minted[i] \in DOMAIN nodes
          /\ nextNode + Len(clip.runs) <= MaxId + (Len(clip.minted) + 1)
          /\ nextEdge + Len(clip.runs) <= MaxId + Len(clip.parts)
      BY <1>1 DEF IInv, ClipInv
    <3>5. nextEdge' + Len(clip'.runs) <= MaxId + Len(clip'.parts)
      <4>1. /\ Len(clip.runs) \in Int /\ Len(clip.parts) \in Int
            /\ nextEdge \in Int /\ MaxId \in Int
        BY ClipTyped, GraphAssumption DEF Id
      <4>2. nextEdge + Len(clip.runs) <= MaxId + Len(clip.parts)
        BY <3>4
      <4>3. (nextEdge + 1) + Len(clip.runs) <= MaxId + (Len(clip.parts) + 1)
        BY <4>1, <4>2, OneMinted
      <4> QED BY <1>8, <3>1, <3>2, <4>3
    <3>6. Len(clip'.minted) = Len(clip'.runs) - 1 /\ Len(clip'.minted) < Len(clip'.runs)
      BY <1>1, <3>1, ClipTyped
    <3> QED BY <1>6, <3>1, <3>3, <3>4, <3>5, <3>6 DEF ClipInv
  <2> QED BY <1>6, <2>1, <2>2
<1> QED BY <1>7, <1>10, <1>11, <1>12, <1>13, <1>14 DEF IInv, NoTornClip

-----------------------------------------------------------------------------
(* Reading back *)

\* A counter one past the largest identifier is found again from the
\* identifiers alone.
LEMMA CounterFound ==
    ASSUME NEW ids \in SUBSET Id, NEW c \in Id,
           \A i \in ids : c >= Successor(i),
           c = 0 \/ \E i \in ids : c = Successor(i)
    PROVE  CounterOver(ids) = c
<1> DEFINE Good(d) == /\ \A i \in ids : d >= Successor(i)
                      /\ d = 0 \/ \E i \in ids : d = Successor(i)
<1>1. \A i \in ids : Successor(i) \in Id
  BY SuccessorInRange
<1>2. \A d \in Id : Good(d) => d = c
  BY <1>1, GraphAssumption DEF Id
<1>3. Good(c)
  OBVIOUS
<1> HIDE DEF Good
<1>4. (CHOOSE d \in Id : Good(d)) = c
  BY <1>2, <1>3
<1> QED BY <1>4 DEF CounterOver, Good

\* At every node the lists are rebuilt exact, in order, and as they were where
\* they were in order.
LEMMA MirrorLists ==
    ASSUME IInv, NEW n \in Id
    PROVE  /\ Mirror[n] \in Seq(Signed)
           /\ Exactly(Mirror[n], Incident(n))
           /\ InOrder(Mirror[n])
           /\ InOrder(adjacency[n]) => adjacency[n] = Mirror[n]
<1> DEFINE I == Incident(n)
           P == {Place(s) : s \in I}
           m == Cardinality(P)
           up == Ascending(P)
           At(place) == CHOOSE s \in I : Place(s) = place
<1>1. I \subseteq Signed
  BY DEF IInv, TypeOK, Incident, Signed
<1>2. \A s \in Signed : Place(s) \in Nat
  BY GraphAssumption DEF Signed, Place, Id
<1>3. \A s, t \in Signed : Place(s) = Place(t) => s = t
  <2> SUFFICES ASSUME NEW s \in Signed, NEW t \in Signed, Place(s) = Place(t) PROVE s = t
    OBVIOUS
  <2>1. s.edge \in Int /\ t.edge \in Int
    BY DEF Signed, Id
  <2>2. s.edge = t.edge /\ (s.sign = "leaving" <=> t.sign = "leaving")
    <3>1. \A a, b \in Int : \A x, y \in {0, 1} : 2 * a + x = 2 * b + y => a = b /\ x = y
      OBVIOUS
    <3> DEFINE x == IF s.sign = "leaving" THEN 0 ELSE 1
               y == IF t.sign = "leaving" THEN 0 ELSE 1
    <3>2. 2 * s.edge + x = 2 * t.edge + y
      BY DEF Place
    <3>3. x \in {0, 1} /\ y \in {0, 1}
      OBVIOUS
    <3> HIDE DEF x, y
    <3>4. s.edge = t.edge /\ x = y
      BY <2>1, <3>1, <3>2, <3>3
    <3> QED BY <3>4 DEF x, y
  <2>3. /\ s = [edge |-> s.edge, sign |-> s.sign] /\ t = [edge |-> t.edge, sign |-> t.sign]
        /\ s.sign \in {"leaving", "entering"} /\ t.sign \in {"leaving", "entering"}
    BY DEF Signed
  <2>4. s.sign = t.sign
    BY <2>2, <2>3
  <2> QED BY <2>2, <2>3, <2>4
<1>4. P \in SUBSET Nat /\ IsFiniteSet(P)
  <2>1. P \in SUBSET Nat
    BY <1>1, <1>2
  <2>2. ASSUME NEW x \in P PROVE x <= 2 * MaxId + 1
    <3>1. PICK s \in I : x = Place(s)
      OBVIOUS
    <3>2. s.edge \in Int /\ s.edge <= MaxId /\ MaxId \in Int
      BY <1>1, GraphAssumption DEF Signed, Id
    <3> QED BY <3>1, <3>2 DEF Place
  <2>3. 2 * MaxId + 1 \in Nat
    BY GraphAssumption
  <2> HIDE DEF P
  <2>4. IsFiniteSet(P)
    BY <2>1, <2>2, <2>3, FS_BoundedSetOfNaturals
  <2> QED BY <2>1, <2>4
<1>5. \A s \in I : Place(s) \in P
  OBVIOUS
<1>6. \A x \in P : \E s \in I : Place(s) = x
  OBVIOUS
<1>7. Mirror[n] = [k \in DOMAIN up |-> At(up[k])]
  BY DEF Mirror
<1> HIDE DEF P, I
<1>8. \A x \in P : At(x) \in I /\ Place(At(x)) = x
  BY <1>6
<1> HIDE DEF At
<1>9. /\ m \in Nat
      /\ up \in [1 .. m -> P]
      /\ \A x \in P : \E k \in 1 .. m : up[k] = x
      /\ \A i, j \in 1 .. m : i < j => up[i] < up[j]
  BY <1>4, AscendingLists
<1> DEFINE list == Mirror[n]
<1>10. DOMAIN list = 1 .. m /\ \A k \in 1 .. m : list[k] = At(up[k])
  BY <1>7, <1>9
<1>11. \A k \in 1 .. m : list[k] \in I /\ Place(list[k]) = up[k]
  BY <1>8, <1>9, <1>10
<1>12. list \in Seq(Signed)
  <2>1. list = [k \in 1 .. m |-> At(up[k])]
    BY <1>7, <1>9
  <2>2. \A k \in 1 .. m : At(up[k]) \in Signed
    BY <1>1, <1>10, <1>11
  <2> HIDE DEF list, up
  <2> QED BY <1>9, <2>1, <2>2
<1> HIDE DEF list, up, m
<1>13. InOrder(list)
  BY <1>9, <1>10, <1>11 DEF InOrder
<1>14. Exactly(list, I)
  <2>1. ASSUME NEW s \in I PROVE \E k \in 1 .. m : list[k] = s
    <3>1. PICK k \in 1 .. m : up[k] = Place(s)
      BY <1>5, <1>9
    <3>2. Place(list[k]) = Place(s) /\ list[k] \in Signed /\ s \in Signed
      BY <1>1, <1>11, <3>1
    <3> QED BY <1>3, <3>2
  <2>2. {list[k] : k \in DOMAIN list} = I
    BY <1>10, <1>11, <2>1
  <2>3. ASSUME NEW i \in 1 .. m, NEW j \in 1 .. m, list[i] = list[j] PROVE i = j
    <3>1. up[i] = up[j]
      BY <1>11, <2>3
    <3>2. /\ i < j => up[i] < up[j]
          /\ j < i => up[j] < up[i]
          /\ up[i] \in Nat /\ up[j] \in Nat
      BY <1>4, <1>9
    <3> QED BY <1>9, <3>1, <3>2
  <2> QED BY <1>10, <2>2, <2>3 DEF Exactly
<1>15. ASSUME InOrder(adjacency[n]) PROVE adjacency[n] = list
  <2> DEFINE old == adjacency[n]
             p == [k \in 1 .. Len(old) |-> Place(old[k])]
  <2>1. old \in Seq(Signed) /\ Exactly(old, I)
    BY DEF IInv, TypeOK, AdjacencyMirrors, I
  <2>2. Len(old) \in Nat /\ DOMAIN old = 1 .. Len(old)
    BY <2>1
  <2> HIDE DEF old
  <2>3. \A k \in 1 .. Len(old) : old[k] \in I
    BY <2>1, <2>2 DEF Exactly
  <2>4. p \in [1 .. Len(old) -> P]
    BY <1>5, <2>3
  <2>5. ASSUME NEW x \in P PROVE \E k \in 1 .. Len(old) : p[k] = x
    <3>1. PICK s \in I : Place(s) = x
      BY <1>6
    <3>2. PICK k \in 1 .. Len(old) : old[k] = s
      BY <2>1, <2>2 DEF Exactly
    <3> QED BY <3>1, <3>2
  <2>6. \A i, j \in 1 .. Len(old) : i < j => p[i] < p[j]
    BY <1>15, <2>2 DEF InOrder, old
  <2>7. \A k \in 1 .. Len(old) : p[k] = Place(old[k])
    OBVIOUS
  <2> HIDE DEF p
  <2>8. Len(old) = Cardinality(P) /\ p = Ascending(P)
    BY <1>4, <2>2, <2>4, <2>5, <2>6, AscendingOnly
  <2>9. ASSUME NEW k \in 1 .. m PROVE old[k] = list[k]
    <3>1. k \in 1 .. Len(old) /\ Place(old[k]) = up[k]
      BY <2>7, <2>8 DEF m, up
    <3>2. Place(old[k]) = Place(list[k]) /\ old[k] \in Signed /\ list[k] \in Signed
      BY <1>1, <1>11, <2>3, <3>1
    <3> QED BY <1>3, <3>2
  <2>10. Len(old) = m /\ Len(list) = m
    BY <1>9, <1>10, <1>12, <2>8 DEF m
  <2> QED BY <1>12, <2>1, <2>9, <2>10, SeqEqual DEF old
<1> QED BY <1>12, <1>13, <1>14, <1>15 DEF list, I

\* Between calls, everything that is rebuilt is what it was, but for the order
\* of the lists.
LEMMA ReloadStep ==
    ASSUME IInv, Reload
    PROVE  /\ Loadable
           /\ UNCHANGED <<nodes, edges, faces, nextNode, nextEdge, clip, routes>>
           /\ outcome' = "loaded"
           /\ adjacency' = Mirror
<1>1. Loadable
  BY DEF IInv, EndpointsExist, FacesRing, Loadable
<1>2. /\ adjacency' = Mirror
      /\ nextNode' = CounterOver(DOMAIN nodes)
      /\ nextEdge' = CounterOver(DOMAIN edges)
      /\ outcome' = "loaded"
      /\ UNCHANGED <<nodes, edges, faces, clip, routes>>
  BY <1>1 DEF Reload
<1>3. nextNode = CounterOver(DOMAIN nodes)
  BY CounterFound DEF IInv, TypeOK, NodeCounter
<1>4. nextEdge = CounterOver(DOMAIN edges)
  BY CounterFound DEF IInv, TypeOK, EdgeCounter, Reload
<1> QED BY <1>1, <1>2, <1>3, <1>4

LEMMA ReloadExact ==
    ASSUME IInv, Reload
    PROVE  AdjacencyMirrors' /\ adjacency' \in [Id -> Seq(Signed)]
<1>1. adjacency' = Mirror /\ UNCHANGED edges
  BY ReloadStep
<1>2. \A n : Incident(n)' = Incident(n)
  BY <1>1 DEF Incident, Touches
<1>3. \A n \in Id : adjacency'[n] \in Seq(Signed) /\ Exactly(adjacency'[n], Incident(n))
  BY <1>1, MirrorLists
<1>4. adjacency' = [n \in Id |-> adjacency'[n]]
  BY <1>1 DEF Mirror
<1>5. adjacency' \in [Id -> Seq(Signed)]
  BY <1>3, <1>4
<1> QED BY <1>2, <1>3, <1>5 DEF AdjacencyMirrors

LEMMA ReloadKeepsInv ==
    ASSUME IInv, Reload
    PROVE  IInv'
<1>1. /\ UNCHANGED <<nodes, edges, faces, nextNode, nextEdge, clip, routes>>
      /\ outcome' = "loaded"
  BY ReloadStep
<1>2. TypeOK' /\ AdjacencyMirrors'
  BY <1>1, ReloadExact DEF IInv, TypeOK, Outcome
<1>3. EndpointsExist'
  BY <1>1 DEF IInv, EndpointsExist
<1>4. FacesRing'
  BY <1>1, RingKept DEF IInv, FacesRing
<1>5. NodeCounter' /\ EdgeCounter'
  BY <1>1 DEF IInv, NodeCounter, EdgeCounter, NotClipping, Successor
<1>6. ClipInv' /\ NoTornClip'
  BY <1>1 DEF IInv, ClipInv, NoTornClip, NotClipping
<1> QED BY <1>2, <1>3, <1>4, <1>5, <1>6 DEF IInv

-----------------------------------------------------------------------------
(* The theorems *)

LEMMA NextKeeps == IInv /\ [Next]_vars => IInv'
<1> SUFFICES ASSUME IInv, [Next]_vars PROVE IInv'
  OBVIOUS
<1>1. ASSUME NEW n \in OfferedNodes, InsertNode(n) PROVE IInv'
  BY <1>1, InsertNodeStep
<1>2. ASSUME NEW e \in OfferedEdges, InsertEdge(e) PROVE IInv'
  BY <1>2, InsertEdgeStep
<1>3. ASSUME NEW f \in OfferedFaces, InsertFace(f) PROVE IInv'
  BY <1>3, InsertFaceStep
<1>4. ASSUME NEW id \in Id, NEW tile \in Tile, ClipEdge(id, tile) PROVE IInv'
  BY <1>4, ClipEdgeStep
<1>5. CASE MintNode
  BY <1>5, MintNodeStep
<1>6. CASE InsertPart
  BY <1>6, InsertPartStep
<1>7. CASE Reload
  BY <1>7, ReloadKeepsInv
<1>8. CASE UNCHANGED vars
  <2>1. UNCHANGED <<graph, clip>> /\ outcome' = outcome
    BY <1>8 DEF vars, graph
  <2> QED BY <2>1, GraphKept DEF IInv, TypeOK, NoTornClip
<1> QED BY <1>1, <1>2, <1>3, <1>4, <1>5, <1>6, <1>7, <1>8 DEF Next

\* The invariant holds in every state of every graph.
THEOREM Invariance == Spec => []IInv
BY InitHolds, NextKeeps, PTL DEF Spec

\* The maps of the graph keep their types, and the mint counters stay in the
\* u64 range, whatever is inserted and clipped.
THEOREM TypeCorrect == Spec => []TypeOK
BY Invariance, PTL DEF IInv

\* Topo4: insert_edge and clip_edge_to_tile keep the directed-node view of
\* every node exact, in the middle of a clip too.
THEOREM DirectedNodesExact == Spec => []AdjacencyMirrors
BY Invariance, PTL DEF IInv

\* Topo5: no edge ever has an end that does not exist.
THEOREM EndpointsAlwaysExist == Spec => []EndpointsExist
BY Invariance, PTL DEF IInv

\* Face3: the EdgeInFace guard of clip_edge_to_tile is enough to keep every
\* face a chained and closed ring of existing edges.
THEOREM FacesStayRings == Spec => []FacesRing
BY Invariance, PTL DEF IInv

\* The headroom check of clip_edge_to_tile is enough: the inserts of a clip
\* never fail, so no clip stops with its edge gone.
THEOREM ClipsNeverTear == Spec => []NoTornClip
BY Invariance, PTL DEF IInv

\* A graph read back from what was written has the primitives and the counters
\* of the graph that was written, and at every node the same directed edges:
\* leaving them off the wire loses their order and nothing else, and that only
\* the first time.
THEOREM ReloadsKeepTheGraph == Spec => ReloadKeeps
<1>1. ASSUME IInv, Reload
      PROVE  /\ Loadable
             /\ UNCHANGED <<nodes, edges, faces, nextNode, nextEdge>>
             /\ AdjacencyMirrors'
             /\ \A n \in Id : /\ InOrder(adjacency'[n])
                              /\ InOrder(adjacency[n]) => adjacency'[n] = adjacency[n]
  <2>1. adjacency' = Mirror
    BY <1>1, ReloadStep
  <2>2. ASSUME NEW n \in Id
        PROVE  /\ InOrder(adjacency'[n])
               /\ InOrder(adjacency[n]) => adjacency'[n] = adjacency[n]
    BY <1>1, <2>1, MirrorLists
  <2> QED BY <1>1, <2>2, ReloadStep, ReloadExact
<1>2. IInv /\ [Next]_vars =>
        [Reload =>
            /\ Loadable
            /\ UNCHANGED <<nodes, edges, faces, nextNode, nextEdge>>
            /\ AdjacencyMirrors'
            /\ \A n \in Id : /\ InOrder(adjacency'[n])
                             /\ InOrder(adjacency[n]) => adjacency'[n] = adjacency[n]]_vars
  BY <1>1
<1> QED BY <1>2, Invariance, PTL DEF Spec, ReloadKeeps
-----------------------------------------------------------------------------
(* The routes of the inserted edges, in the middle of a clip too *)

\* An edge that is being clipped stays laid where it was until its last part
\* is in; its parts are laid only then.
InClip(id) == ~NotClipping /\ id = clip.edge
Begin(id) == IF InClip(id) THEN clip.start ELSE edges[id].start
Ending(id) == IF InClip(id) THEN clip.end ELSE edges[id].end
Laid == IF NotClipping THEN DOMAIN edges
        ELSE (DOMAIN edges \cup {clip.edge}) \ {clip.parts[i] : i \in DOMAIN clip.parts}

Chained(r) ==
    /\ DOMAIN r = {"start", "end", "parts"} /\ r.parts \in Seq(Id) /\ r.parts # <<>>
    /\ \A i \in DOMAIN r.parts : r.parts[i] \in Laid
    /\ Begin(r.parts[1]) = r.start
    /\ Ending(r.parts[Len(r.parts)]) = r.end
    /\ \A i \in 1 .. Len(r.parts) - 1 : Ending(r.parts[i]) = Begin(r.parts[i + 1])
OnePlace(rs) ==
    \A r, q \in rs : \A i \in DOMAIN r.parts, j \in DOMAIN q.parts :
        r.parts[i] = q.parts[j] => r = q /\ i = j
RouteInv ==
    /\ \A r \in routes : Chained(r)
    /\ \A e \in Laid : \E r \in routes : \E i \in DOMAIN r.parts : r.parts[i] = e
    /\ OnePlace(routes)

\* The parts inserted so far run along the junctions of the clip.
PartsInv ==
    ~NotClipping =>
        /\ clip.edge \in Id \ DOMAIN edges
        /\ clip.edge < nextEdge
        /\ \A i \in DOMAIN clip.parts :
              /\ clip.parts[i] \in DOMAIN edges
              /\ edges[clip.parts[i]].start = Junction(i - 1)
              /\ edges[clip.parts[i]].end = Junction(i)
        /\ \A i, j \in DOMAIN clip.parts : clip.parts[i] = clip.parts[j] => i = j

\* What is laid, and between which nodes, is all the routes depend on.
LEMMA RoutesKept ==
    ASSUME RouteInv, routes' = routes, Laid' = Laid,
           \A id \in Laid : Begin(id)' = Begin(id) /\ Ending(id)' = Ending(id)
    PROVE  RouteInv'
<1>1. ASSUME NEW r \in routes PROVE Chained(r)'
  <2>1. Chained(r)
    BY DEF RouteInv
  <2>2. /\ 1 \in DOMAIN r.parts /\ Len(r.parts) \in DOMAIN r.parts
        /\ \A i \in 1 .. Len(r.parts) - 1 : i \in DOMAIN r.parts /\ i + 1 \in DOMAIN r.parts
    BY <2>1 DEF Chained
  <2>3. \A i \in DOMAIN r.parts : /\ r.parts[i] \in Laid
                                  /\ Begin(r.parts[i])' = Begin(r.parts[i])
                                  /\ Ending(r.parts[i])' = Ending(r.parts[i])
    BY <2>1 DEF Chained
  <2> QED BY <2>1, <2>2, <2>3 DEF Chained
<1>2. \A e \in Laid' : \E r \in routes' : \E i \in DOMAIN r.parts : r.parts[i] = e
  BY DEF RouteInv
<1>3. OnePlace(routes')
  BY DEF RouteInv
<1> QED BY <1>1, <1>2, <1>3 DEF RouteInv

\* A call that leaves the edges alone, outside of a clip, leaves the routes.
LEMMA EdgesKept ==
    ASSUME RouteInv, PartsInv, UNCHANGED <<edges, nextEdge, clip, routes>>
    PROVE  RouteInv' /\ PartsInv'
<1>1. Laid' = Laid
  BY DEF Laid, NotClipping
<1>2. \A id \in Laid : Begin(id)' = Begin(id) /\ Ending(id)' = Ending(id)
  BY DEF Begin, Ending, InClip, NotClipping
<1>3. RouteInv'
  BY <1>1, <1>2, RoutesKept
<1>4. PartsInv'
  BY DEF PartsInv, Junction, NotClipping
<1> QED BY <1>3, <1>4

LEMMA RouteOfInsert ==
    ASSUME IInv, RouteInv, PartsInv, NEW e \in OfferedEdges, InsertEdge(e)
    PROVE  RouteInv' /\ PartsInv'
<1> DEFINE edge == [start |-> e.start, end |-> e.end, geometry |-> e.geometry]
           route == [start |-> e.start, end |-> e.end, parts |-> <<e.id>>]
<1>1. e.id \in Id
  BY GraphAssumption
<1>2. CASE Refuse
  BY <1>2, EdgesKept DEF Refuse, graph
<1>3. CASE EdgeFits(e.id, edge) /\ AddEdge(e.id, edge) /\ routes' = routes \cup {route}
           /\ clip' = clip
  <2>1. /\ NotClipping /\ NotClipping'
        /\ Laid = DOMAIN edges /\ Laid' = DOMAIN edges \cup {e.id}
        /\ e.id \notin Laid
        /\ edges'[e.id] = edge
        /\ \A d \in DOMAIN edges : edges'[d] = edges[d]
    BY <1>3 DEF InsertEdge, NotClipping, Laid, AddEdge, With, EdgeFits
  <2>2. \A d \in Laid : Begin(d)' = Begin(d) /\ Ending(d)' = Ending(d)
    BY <2>1 DEF Begin, Ending, InClip
  <2>3. Begin(e.id)' = e.start /\ Ending(e.id)' = e.end
    BY <2>1 DEF Begin, Ending, InClip
  <2>4. ASSUME NEW r \in routes PROVE Chained(r)'
    <3>1. Chained(r)
      BY DEF RouteInv
    <3>2. /\ 1 \in DOMAIN r.parts /\ Len(r.parts) \in DOMAIN r.parts
          /\ \A i \in 1 .. Len(r.parts) - 1 : i \in DOMAIN r.parts /\ i + 1 \in DOMAIN r.parts
      BY <3>1 DEF Chained
    <3>3. \A i \in DOMAIN r.parts : /\ r.parts[i] \in Laid /\ r.parts[i] \in Laid'
                                    /\ Begin(r.parts[i])' = Begin(r.parts[i])
                                    /\ Ending(r.parts[i])' = Ending(r.parts[i])
      BY <2>1, <2>2, <3>1 DEF Chained
    <3> QED BY <3>1, <3>2, <3>3 DEF Chained
  <2>5. Chained(route)'
    <3>1. /\ DOMAIN route = {"start", "end", "parts"} /\ route.parts = <<e.id>>
          /\ route.start = e.start /\ route.end = e.end
      OBVIOUS
    <3>2. /\ <<e.id>> \in Seq(Id) /\ <<e.id>> # <<>> /\ Len(<<e.id>>) = 1
          /\ <<e.id>>[1] = e.id /\ DOMAIN <<e.id>> = {1} /\ 1 .. Len(<<e.id>>) - 1 = {}
      BY <1>1
    <3> HIDE DEF route
    <3> QED BY <2>1, <2>3, <3>1, <3>2 DEF Chained
  <2>6. \A d \in Laid' : \E r \in routes' : \E i \in DOMAIN r.parts : r.parts[i] = d
    <3>1. 1 \in DOMAIN route.parts /\ route.parts[1] = e.id /\ route \in routes'
      BY <1>3
    <3> HIDE DEF route
    <3> QED BY <1>3, <2>1, <3>1 DEF RouteInv
  <2>7. OnePlace(routes')
    <3>1. \A i \in DOMAIN route.parts : i = 1 /\ route.parts[i] = e.id
      OBVIOUS
    <3>2. \A r \in routes : \A i \in DOMAIN r.parts : r.parts[i] # e.id
      BY <2>1 DEF RouteInv, Chained
    <3> HIDE DEF route
    <3> QED BY <1>3, <3>1, <3>2 DEF RouteInv, OnePlace
  <2>8. RouteInv'
    <3> HIDE DEF route
    <3> QED BY <1>3, <2>4, <2>5, <2>6, <2>7 DEF RouteInv
  <2>9. PartsInv'
    BY <2>1 DEF PartsInv
  <2> QED BY <2>8, <2>9
<1> QED BY <1>2, <1>3 DEF InsertEdge

\* The edge taken out to be clipped stays laid.
LEMMA RouteOfBegin ==
    ASSUME IInv, RouteInv, NotClipping, NEW id \in DOMAIN edges,
           NEW runs \in Seq(Run), BeginClip(id, runs)
    PROVE  RouteInv' /\ PartsInv'
<1>1. /\ DOMAIN edges' = DOMAIN edges \ {id}
      /\ \A e \in DOMAIN edges' : edges'[e] = edges[e]
      /\ nextEdge' = nextEdge /\ routes' = routes
  BY DEF BeginClip, WithoutId
<1>2. /\ ~NotClipping' /\ clip'.parts = <<>> /\ clip'.edge = id
      /\ clip'.start = edges[id].start /\ clip'.end = edges[id].end
  BY DEF BeginClip, NotClipping
<1>3. Laid' = Laid
  <2>1. {clip'.parts[i] : i \in DOMAIN clip'.parts} = {}
    BY <1>2
  <2> QED BY <1>1, <1>2, <2>1 DEF Laid
<1>4. \A e \in Laid : Begin(e)' = Begin(e) /\ Ending(e)' = Ending(e)
  BY <1>1, <1>2 DEF Laid, Begin, Ending, InClip
<1>5. RouteInv'
  BY <1>1, <1>3, <1>4, RoutesKept
<1>6. id \in Id /\ nextEdge \in Id /\ nextEdge >= Successor(id)
  BY DEF IInv, TypeOK, EdgeCounter
<1>7. id < nextEdge
  <2>1. nextEdge < MaxId
    BY <1>6, GraphAssumption DEF BeginClip, Headroom, Id
  <2> QED BY <1>6, <2>1, GraphAssumption DEF Successor, Id
<1>8. PartsInv'
  BY <1>1, <1>2, <1>6, <1>7 DEF PartsInv
<1> QED BY <1>5, <1>8

LEMMA RouteOfClip ==
    ASSUME IInv, RouteInv, PartsInv, NEW id \in Id, NEW tile \in Tile, ClipEdge(id, tile)
    PROVE  RouteInv' /\ PartsInv'
<1> DEFINE runs == Splitting(Assembled(edges[id]), tile)
           clippable == id \in DOMAIN edges /\ ~InFace(id) /\ Clippable(edges[id])
<1>1. CASE Refuse
  BY <1>1, EdgesKept DEF Refuse, graph
<1>2. CASE Untouched
  BY <1>2, EdgesKept DEF Untouched, graph
<1>3. CASE clippable /\ BeginClip(id, runs)
  <2>1. runs \in Seq(Run)
    BY <1>3, RunsOfEdge
  <2> HIDE DEF runs
  <2> QED BY <1>3, <2>1, RouteOfBegin DEF ClipEdge
<1> QED BY <1>1, <1>2, <1>3 DEF ClipEdge

\* While the nodes are minted, no part is in yet.
LEMMA RouteOfMint ==
    ASSUME IInv, RouteInv, PartsInv, MintNode
    PROVE  RouteInv' /\ PartsInv'
<1> DEFINE k == Len(clip.minted) + 1
<1>1. k < Len(clip.runs) /\ ~NotClipping
  BY ClipTyped DEF MintNode, NotClipping
<1>2. nextNode \notin DOMAIN nodes
  BY <1>1, FreshNode
<1>3. /\ clip' = [clip EXCEPT !.minted = Append(clip.minted, nextNode)]
      /\ UNCHANGED <<edges, nextEdge, routes>>
  BY <1>2 DEF MintNode
<1>4. /\ clip'.runs = clip.runs /\ clip'.parts = clip.parts /\ clip'.edge = clip.edge
      /\ clip'.start = clip.start /\ clip'.end = clip.end
  BY <1>3 DEF IInv, TypeOK, Clip
<1>5. clip.parts = <<>>
  BY <1>1, ClipTyped DEF IInv, ClipInv
<1>6. Laid' = Laid
  BY <1>3, <1>4 DEF Laid, NotClipping
<1>7. \A id \in Laid : Begin(id)' = Begin(id) /\ Ending(id)' = Ending(id)
  BY <1>3, <1>4 DEF Begin, Ending, InClip, NotClipping
<1>8. RouteInv'
  BY <1>3, <1>6, <1>7, RoutesKept
<1>9. PartsInv'
  BY <1>1, <1>3, <1>4, <1>5 DEF PartsInv, NotClipping
<1> QED BY <1>8, <1>9

-----------------------------------------------------------------------------
(* The last part *)

\* The clipped edge's place in a route, taken by its parts.
Spliced(s, at, t) == SubSeq(s, 1, at - 1) \o t \o SubSeq(s, at + 1, Len(s))

\* Three sequences in a row.
LEMMA JoinElements ==
    ASSUME NEW b \in Seq(Id), NEW t \in Seq(Id), NEW a \in Seq(Id)
    PROVE  /\ b \o t \o a \in Seq(Id)
           /\ Len(b \o t \o a) = Len(b) + Len(t) + Len(a)
           /\ \A i \in DOMAIN (b \o t \o a) :
                 (b \o t \o a)[i] = IF i <= Len(b) THEN b[i]
                                    ELSE IF i <= Len(b) + Len(t) THEN t[i - Len(b)]
                                    ELSE a[i - (Len(b) + Len(t))]
OBVIOUS
\* A position of the spliced route lies before, in or behind the parts.
LEMMA SplicedElements ==
    ASSUME NEW s \in Seq(Id), NEW t \in Seq(Id), NEW at \in 1 .. Len(s), t # <<>>
    PROVE  LET u == Spliced(s, at, t)
           IN  /\ u \in Seq(Id)
               /\ Len(u) = Len(s) + Len(t) - 1
               /\ \A i \in 1 .. Len(u) : u[i] = IF i < at THEN s[i]
                    ELSE IF i < at + Len(t) THEN t[i - at + 1] ELSE s[i - Len(t) + 1]
<1> DEFINE b == SubSeq(s, 1, at - 1)
           a == SubSeq(s, at + 1, Len(s))
           u == b \o t \o a
<1>1. /\ b \in Seq(Id) /\ Len(b) = at - 1
      /\ \A i \in 1 .. at - 1 : b[i] = s[i]
  OBVIOUS
<1>2. /\ a \in Seq(Id) /\ Len(a) = Len(s) - at
      /\ \A i \in 1 .. Len(s) - at : a[i] = s[at + i]
  OBVIOUS
<1>3. u = Spliced(s, at, t)
  BY DEF Spliced
<1> HIDE DEF a, b
<1>4. /\ u \in Seq(Id)
      /\ Len(u) = Len(b) + Len(t) + Len(a)
      /\ \A i \in DOMAIN u :
            u[i] = IF i <= Len(b) THEN b[i]
                   ELSE IF i <= Len(b) + Len(t) THEN t[i - Len(b)]
                   ELSE a[i - (Len(b) + Len(t))]
  BY <1>1, <1>2, JoinElements
<1> HIDE DEF u
<1>5. Len(u) = Len(s) + Len(t) - 1
  BY <1>1, <1>2, <1>4
<1>6. ASSUME NEW i \in 1 .. Len(u), i < at PROVE u[i] = s[i]
  <2>1. i \in DOMAIN u /\ i <= Len(b) /\ i \in 1 .. at - 1
    BY <1>1, <1>4, <1>6
  <2>2. u[i] = b[i]
    BY <1>4, <2>1
  <2> QED BY <1>1, <2>1, <2>2
<1>7. ASSUME NEW i \in 1 .. Len(u), ~(i < at), i < at + Len(t) PROVE u[i] = t[i - at + 1]
  <2>1. /\ i - Len(b) = i - at + 1 /\ ~(i <= Len(b)) /\ i <= Len(b) + Len(t)
        /\ i \in DOMAIN u
    BY <1>1, <1>4, <1>7
  <2>2. u[i] = t[i - Len(b)]
    BY <1>4, <2>1
  <2> QED BY <2>1, <2>2
<1>8. ASSUME NEW i \in 1 .. Len(u), ~(i < at), ~(i < at + Len(t)) PROVE u[i] = s[i - Len(t) + 1]
  <2>1. /\ ~(i <= Len(b)) /\ ~(i <= Len(b) + Len(t))
        /\ i - (Len(b) + Len(t)) \in 1 .. Len(s) - at
        /\ at + (i - (Len(b) + Len(t))) = i - Len(t) + 1
        /\ i \in DOMAIN u
    BY <1>1, <1>4, <1>5, <1>8
  <2>2. u[i] = a[i - (Len(b) + Len(t))]
    BY <1>4, <2>1
  <2>3. a[i - (Len(b) + Len(t))] = s[at + (i - (Len(b) + Len(t)))]
    BY <1>2, <2>1
  <2> QED BY <2>1, <2>2, <2>3
<1> QED BY <1>3, <1>4, <1>5, <1>6, <1>7, <1>8

\* The one route of the clipped edge is spliced, and no other changes.
LEMMA OneRerouted ==
    ASSUME OnePlace(routes), NEW parts, NEW r0 \in routes, NEW at \in DOMAIN r0.parts,
           r0.parts[at] = clip.edge
    PROVE  Rerouted(parts) =
               (routes \ {r0}) \cup {[r0 EXCEPT !.parts = Spliced(r0.parts, at, parts)]}
<1> DEFINE Here(r) == CHOOSE i \in DOMAIN r.parts : r.parts[i] = clip.edge
           New(r) == IF \E i \in DOMAIN r.parts : r.parts[i] = clip.edge
                     THEN [r EXCEPT !.parts = SubSeq(@, 1, Here(r) - 1) \o parts
                                                  \o SubSeq(@, Here(r) + 1, Len(@))]
                     ELSE r
<1>1. \A r \in routes : \A i \in DOMAIN r.parts : r.parts[i] = clip.edge => r = r0 /\ i = at
  BY DEF OnePlace
<1>2. Here(r0) = at
  BY <1>1
<1>3. New(r0) = [r0 EXCEPT !.parts = Spliced(r0.parts, at, parts)]
  <2> HIDE DEF Here
  <2> QED BY <1>2 DEF Spliced
<1>4. \A r \in routes \ {r0} : New(r) = r
  BY <1>1
<1>5. Rerouted(parts) = {New(r) : r \in routes}
  BY DEF Rerouted
<1> HIDE DEF New
<1> QED BY <1>3, <1>4, <1>5

\* The last part is in: the parts are laid where the clipped edge was.
LEMMA LastPart ==
    ASSUME IInv, RouteInv, PartsInv, ~NotClipping, NotClipping',
           NEW n \in Id, n \notin DOMAIN edges, n # clip.edge,
           DOMAIN edges' = DOMAIN edges \cup {n},
           \A d \in DOMAIN edges : edges'[d] = edges[d],
           NEW parts \in Seq(Id), parts # <<>>,
           {parts[i] : i \in DOMAIN parts} = {clip.parts[i] : i \in DOMAIN clip.parts} \cup {n},
           \A i, j \in DOMAIN parts : parts[i] = parts[j] => i = j,
           edges'[parts[1]].start = clip.start,
           edges'[parts[Len(parts)]].end = clip.end,
           \A i \in 1 .. Len(parts) - 1 : edges'[parts[i]].end = edges'[parts[i + 1]].start,
           routes' = Rerouted(parts)
    PROVE  RouteInv'
<1> DEFINE c == clip.edge
           P == {parts[i] : i \in DOMAIN parts}
<1>1. /\ c \in Laid
      /\ Laid' = (Laid \ {c}) \cup P
      /\ P \cap Laid = {}
  <2>1. c \notin DOMAIN edges /\ {clip.parts[i] : i \in DOMAIN clip.parts} \subseteq DOMAIN edges
    BY DEF PartsInv
  <2> QED BY <2>1 DEF Laid
<1>2. \A d \in Laid' : Begin(d)' = edges'[d].start /\ Ending(d)' = edges'[d].end
  BY DEF Begin, Ending, InClip
<1>3. \A d \in Laid \ {c} : Begin(d)' = Begin(d) /\ Ending(d)' = Ending(d)
  <2>1. \A d \in Laid \ {c} : d \in DOMAIN edges
    BY DEF Laid
  <2> QED BY <2>1 DEF Begin, Ending, InClip
<1>4. Begin(c) = clip.start /\ Ending(c) = clip.end
  BY DEF Begin, Ending, InClip
<1>5. PICK r0 \in routes : \E i \in DOMAIN r0.parts : r0.parts[i] = c
  BY <1>1 DEF RouteInv
<1>6. OnePlace(routes) /\ \A r \in routes : Chained(r)
  BY DEF RouteInv
<1>7. PICK at \in Int : at \in DOMAIN r0.parts /\ r0.parts[at] = c
  <2>1. r0.parts \in Seq(Id)
    BY <1>6 DEF Chained
  <2> QED BY <1>5, <2>1
<1> DEFINE s == r0.parts
           u == Spliced(s, at, parts)
           r1 == [r0 EXCEPT !.parts = u]
<1>8. routes' = (routes \ {r0}) \cup {r1}
  BY <1>7, <1>6, OneRerouted
<1>9. \A r \in routes : \A i \in DOMAIN r.parts : r.parts[i] = c => r = r0 /\ i = at
  BY <1>7, <1>6 DEF OnePlace
<1>10. /\ s \in Seq(Id) /\ at \in 1 .. Len(s) /\ s # <<>>
      /\ DOMAIN r1 = {"start", "end", "parts"}
      /\ r1.start = r0.start /\ r1.end = r0.end /\ r1.parts = u
  BY <1>7, <1>6 DEF Chained
<1>11. /\ u \in Seq(Id)
       /\ Len(u) = Len(s) + Len(parts) - 1
       /\ \A i \in 1 .. Len(u) : u[i] = IF i < at THEN s[i]
              ELSE IF i < at + Len(parts) THEN parts[i - at + 1] ELSE s[i - Len(parts) + 1]
  <2> HIDE DEF s
  <2> QED BY <1>10, SplicedElements
<1> HIDE DEF u, r1
<1>12. ASSUME NEW r \in routes \ {r0} PROVE Chained(r)'
  <2>1. Chained(r)
    BY <1>6
  <2>2. /\ 1 \in DOMAIN r.parts /\ Len(r.parts) \in DOMAIN r.parts
        /\ \A i \in 1 .. Len(r.parts) - 1 : i \in DOMAIN r.parts /\ i + 1 \in DOMAIN r.parts
    BY <2>1 DEF Chained
  <2>3. \A i \in DOMAIN r.parts : /\ r.parts[i] \in Laid'
                                  /\ Begin(r.parts[i])' = Begin(r.parts[i])
                                  /\ Ending(r.parts[i])' = Ending(r.parts[i])
    BY <1>1, <1>3, <1>9, <2>1 DEF Chained
  <2>4. Begin(r.parts[1])' = r.start /\ Ending(r.parts[Len(r.parts)])' = r.end
    BY <2>1, <2>2, <2>3 DEF Chained
  <2>5. \A i \in 1 .. Len(r.parts) - 1 : Ending(r.parts[i])' = Begin(r.parts[i + 1])'
    BY <2>1, <2>2, <2>3 DEF Chained
  <2>6. DOMAIN r = {"start", "end", "parts"} /\ r.parts \in Seq(Id) /\ r.parts # <<>>
    BY <2>1 DEF Chained
  <2> QED BY <2>3, <2>4, <2>5, <2>6 DEF Chained
<1>13. PICK m \in Int : m = Len(s)
  BY <1>10
<1>14. PICK k \in Int : k = Len(parts)
  OBVIOUS
<1>15. /\ m \in Nat /\ k \in Nat /\ k >= 1 /\ at \in Int /\ 1 <= at /\ at <= m
       /\ Len(u) = m + k - 1
       /\ DOMAIN s = 1 .. m /\ DOMAIN u = 1 .. Len(u) /\ DOMAIN parts = 1 .. k
  BY <1>10, <1>11, <1>13, <1>14
<1>16. \A i \in 1 .. m : i # at => /\ s[i] \in Laid' /\ s[i] \in Laid
                                   /\ Begin(s[i])' = Begin(s[i])
                                   /\ Ending(s[i])' = Ending(s[i])
  BY <1>1, <1>3, <1>6, <1>9, <1>15 DEF Chained
<1>17. \A i \in 1 .. k : parts[i] \in Laid' /\ parts[i] \notin Laid
  BY <1>1, <1>15
<1>18. /\ Begin(s[1]) = r0.start /\ Ending(s[m]) = r0.end
       /\ \A i \in 1 .. m - 1 : Ending(s[i]) = Begin(s[i + 1])
  BY <1>6, <1>13 DEF Chained
<1>19. /\ Begin(parts[1])' = Begin(s[at]) /\ Ending(parts[k])' = Ending(s[at])
       /\ \A i \in 1 .. k - 1 : Ending(parts[i])' = Begin(parts[i + 1])'
  <2>1. 1 \in 1 .. k /\ k \in 1 .. k /\ \A i \in 1 .. k - 1 : i \in 1 .. k /\ i + 1 \in 1 .. k
    BY <1>15
  <2>2. \A i \in 1 .. k : /\ Begin(parts[i])' = edges'[parts[i]].start
                          /\ Ending(parts[i])' = edges'[parts[i]].end
    BY <1>2, <1>17
  <2>3. Begin(s[at]) = clip.start /\ Ending(s[at]) = clip.end
    BY <1>4, <1>7
  <2>4. Begin(parts[1])' = clip.start /\ Ending(parts[k])' = clip.end
    BY <1>14, <2>1, <2>2
  <2>5. \A i \in 1 .. k - 1 : Ending(parts[i])' = Begin(parts[i + 1])'
    BY <1>14, <2>1, <2>2
  <2> QED BY <2>3, <2>4, <2>5
<1>20. /\ \A i \in 1 .. m + k - 1 : i < at => u[i] = s[i]
       /\ \A i \in 1 .. m + k - 1 : at <= i /\ i < at + k => u[i] = parts[i - at + 1]
       /\ \A i \in 1 .. m + k - 1 : at + k <= i => u[i] = s[i - k + 1]
  BY <1>11, <1>15, <1>14
<1> HIDE DEF s, c
<1>21. m \in Int /\ k \in Int /\ at \in Int /\ k >= 1 /\ 1 <= at /\ at <= m
  BY <1>15
<1>22. Chained(r1)'
  <2>1. u # <<>>
    BY <1>11, <1>15
  <2>2. \A i \in DOMAIN u : u[i] \in Laid'
    <3> SUFFICES ASSUME NEW i \in 1 .. m + k - 1 PROVE u[i] \in Laid'
      BY <1>15
    <3>1. CASE i < at
      BY <3>1, <1>15, <1>16, <1>20
    <3>2. CASE at <= i /\ i < at + k
      BY <3>2, <1>15, <1>17, <1>20
    <3>3. CASE at + k <= i
      BY <3>3, <1>15, <1>16, <1>20
    <3> QED BY <1>15, <3>1, <3>2, <3>3
  <2>3. Begin(u[1])' = r0.start
    <3>1. CASE at = 1
      <4>1. u[1] = parts[1]
        BY <3>1, <1>15, <1>20
      <4> QED BY <3>1, <4>1, <1>18, <1>19
    <3>2. CASE at # 1
      <4>1. u[1] = s[1]
        BY <3>2, <1>15, <1>20
      <4> QED BY <3>2, <4>1, <1>15, <1>16, <1>18
    <3> QED BY <3>1, <3>2
  <2>4. Ending(u[m + k - 1])' = r0.end
    <3>1. CASE at = m
      <4>1. u[m + k - 1] = parts[k]
        BY <3>1, <1>15, <1>20
      <4> QED BY <3>1, <4>1, <1>18, <1>19
    <3>2. CASE at # m
      <4>1. u[m + k - 1] = s[m]
        BY <3>2, <1>15, <1>20
      <4> QED BY <3>2, <4>1, <1>15, <1>16, <1>18
    <3> QED BY <3>1, <3>2
  <2>5. \A i \in 1 .. m + k - 2 : Ending(u[i])' = Begin(u[i + 1])'
    <3> TAKE i \in 1 .. m + k - 2
    <3>1. CASE i + 1 < at
      <4>1. /\ i \in 1 .. m - 1 /\ i # at /\ i + 1 # at /\ i \in 1 .. m /\ i + 1 \in 1 .. m
            /\ u[i] = s[i] /\ u[i + 1] = s[i + 1]
        BY <3>1, <1>15, <1>20
      <4> QED BY <4>1, <1>16, <1>18
    <3>2. CASE i + 1 = at
      <4>1. /\ i \in 1 .. m - 1 /\ i \in 1 .. m /\ i # at /\ i < at /\ at < at + k
            /\ i \in 1 .. m + k - 1 /\ at \in 1 .. m + k - 1 /\ at <= at /\ at - at + 1 = 1
        BY <3>2, <1>21
      <4>2. u[i] = s[i] /\ u[at] = parts[at - at + 1]
        BY <4>1, <1>20
      <4> QED BY <3>2, <4>1, <4>2, <1>16, <1>18, <1>19
    <3>3. CASE at <= i /\ i + 1 < at + k
      <4>1. /\ i - at + 1 \in 1 .. k - 1 /\ (i + 1) - at + 1 = (i - at + 1) + 1
            /\ u[i] = parts[i - at + 1] /\ u[i + 1] = parts[(i + 1) - at + 1]
        BY <3>3, <1>15, <1>20
      <4> QED BY <4>1, <1>19
    <3>4. CASE i + 1 = at + k
      <4>1. /\ at \in 1 .. m - 1 /\ at + 1 \in 1 .. m /\ at + 1 # at
            /\ i - at + 1 = k /\ (i + 1) - k + 1 = at + 1
            /\ i \in 1 .. m + k - 1 /\ i + 1 \in 1 .. m + k - 1
            /\ at <= i /\ i < at + k /\ at + k <= i + 1
        BY <3>4, <1>21
      <4>2. u[i] = parts[i - at + 1] /\ u[i + 1] = s[(i + 1) - k + 1]
        BY <4>1, <1>20
      <4>3. i - at + 1 = k /\ (i + 1) - k + 1 = at + 1
        BY <3>4, <1>21
      <4>4. u[i] = parts[k] /\ u[i + 1] = s[at + 1]
        BY <4>2, <4>3
      <4> QED BY <4>1, <4>4, <1>16, <1>18, <1>19
    <3>5. CASE at + k <= i
      <4>1. /\ i - k + 1 \in 1 .. m - 1 /\ i - k + 1 \in 1 .. m /\ (i - k + 1) + 1 \in 1 .. m
            /\ i - k + 1 # at /\ (i - k + 1) + 1 # at
            /\ (i + 1) - k + 1 = (i - k + 1) + 1
            /\ i \in 1 .. m + k - 1 /\ i + 1 \in 1 .. m + k - 1 /\ at + k <= i + 1
        BY <3>5, <1>21
      <4>2. u[i] = s[i - k + 1] /\ u[i + 1] = s[(i + 1) - k + 1]
        BY <3>5, <4>1, <1>20
      <4> QED BY <4>1, <4>2, <1>16, <1>18
    <3>6. i + 1 < at \/ i + 1 = at \/ (at <= i /\ i + 1 < at + k) \/ i + 1 = at + k \/ at + k <= i
      BY <1>21
    <3> QED BY <3>1, <3>2, <3>3, <3>4, <3>5, <3>6
  <2>6. Len(u) = m + k - 1 /\ Len(u) - 1 = m + k - 2
    BY <1>15
  <2> QED BY <1>10, <1>11, <2>1, <2>2, <2>3, <2>4, <2>5, <2>6 DEF Chained
<1>23. \A e \in Laid' : \E r \in routes' : \E i \in DOMAIN r.parts : r.parts[i] = e
  <2> SUFFICES ASSUME NEW e \in Laid'
               PROVE  \E r \in routes' : \E i \in DOMAIN r.parts : r.parts[i] = e
    OBVIOUS
  <2>1. CASE e \in P
    <3>1. PICK j \in 1 .. k : parts[j] = e
      BY <1>15, <2>1
    <3>2. /\ at + j - 1 \in 1 .. m + k - 1 /\ at <= at + j - 1 /\ at + j - 1 < at + k
          /\ (at + j - 1) - at + 1 = j
      BY <1>15
    <3>3. u[at + j - 1] = e
      BY <1>20, <3>1, <3>2
    <3> QED BY <1>8, <1>10, <1>15, <3>2, <3>3
  <2>2. CASE e \notin P
    <3>1. e \in Laid /\ e # c
      BY <1>1, <2>2
    <3>0. PICK r \in routes : \E j \in DOMAIN r.parts : r.parts[j] = e
      BY <3>1 DEF RouteInv
    <3>2. PICK j \in DOMAIN r.parts : r.parts[j] = e
      BY <3>0
    <3>3. CASE r # r0
      BY <1>8, <3>2, <3>3
    <3>4. CASE r = r0
      <4>1. PICK h \in 1 .. m : h # at /\ s[h] = e
        BY <1>7, <1>15, <3>1, <3>2, <3>4 DEF s
      <4>2. CASE h < at
        <5>1. h \in 1 .. m + k - 1
          BY <1>21, <4>1, <4>2
        <5>2. u[h] = e
          BY <1>20, <4>1, <4>2, <5>1
        <5> QED BY <1>8, <1>10, <1>15, <5>1, <5>2
      <4>3. CASE at < h
        <5>1. /\ h + k - 1 \in 1 .. m + k - 1 /\ at + k <= h + k - 1
              /\ (h + k - 1) - k + 1 = h
          BY <1>21, <4>1, <4>3
        <5>2. u[h + k - 1] = e
          BY <1>20, <4>1, <5>1
        <5> QED BY <1>8, <1>10, <1>15, <5>1, <5>2
      <4> QED BY <1>21, <4>1, <4>2, <4>3
    <3> QED BY <3>3, <3>4
  <2> QED BY <2>1, <2>2
<1>24. OnePlace(routes')
  \* Where each position of the new route comes from.
  <2>1. ASSUME NEW i \in 1 .. m + k - 1, u[i] \in Laid
        PROVE  \E a \in 1 .. m : /\ a # at /\ u[i] = s[a]
                                 /\ i = IF a < at THEN a ELSE a + k - 1
    <3>1. CASE i < at
      BY <1>15, <1>20, <3>1
    <3>2. CASE at <= i /\ i < at + k
      <4>1. i - at + 1 \in 1 .. k /\ u[i] = parts[i - at + 1]
        BY <1>15, <1>20, <3>2
      <4> QED BY <1>17, <2>1, <4>1
    <3>3. CASE at + k <= i
      <4>1. /\ i - k + 1 \in 1 .. m /\ i - k + 1 # at /\ ~(i - k + 1 < at)
            /\ i = (i - k + 1) + k - 1
        BY <1>15, <3>3
      <4>2. u[i] = s[i - k + 1]
        BY <1>15, <1>20, <3>3
      <4> QED BY <4>1, <4>2
    <3> QED BY <1>15, <3>1, <3>2, <3>3
  <2>2. ASSUME NEW i \in 1 .. m + k - 1, u[i] \notin Laid
        PROVE  \E a \in 1 .. k : u[i] = parts[a] /\ i = at + a - 1
    <3>1. CASE i < at
      <4>1. i \in 1 .. m /\ i # at /\ u[i] = s[i]
        BY <1>15, <1>20, <3>1
      <4> QED BY <1>16, <2>2, <4>1
    <3>2. CASE at <= i /\ i < at + k
      <4>1. /\ i - at + 1 \in 1 .. k /\ u[i] = parts[i - at + 1]
            /\ i = at + (i - at + 1) - 1
        BY <1>15, <1>20, <3>2
      <4> QED BY <4>1
    <3>3. CASE at + k <= i
      <4>1. i - k + 1 \in 1 .. m /\ i - k + 1 # at
        BY <1>15, <3>3
      <4>2. u[i] = s[i - k + 1]
        BY <1>15, <1>20, <3>3
      <4> QED BY <1>16, <2>2, <4>1, <4>2
    <3> QED BY <1>15, <3>1, <3>2, <3>3
  <2>3. \A i, j \in 1 .. m : s[i] = s[j] => i = j
    BY <1>6, <1>15 DEF OnePlace, s
  <2>4. \A i, j \in 1 .. k : parts[i] = parts[j] => i = j
    BY <1>15
  <2>5. ASSUME NEW i \in 1 .. m + k - 1, NEW j \in 1 .. m + k - 1, u[i] = u[j]
        PROVE  i = j
    <3>1. CASE u[i] \in Laid
      <4>1. PICK a \in 1 .. m : a # at /\ u[i] = s[a] /\ i = IF a < at THEN a ELSE a + k - 1
        BY <2>1, <3>1
      <4>2. PICK b \in 1 .. m : b # at /\ u[j] = s[b] /\ j = IF b < at THEN b ELSE b + k - 1
        BY <2>1, <2>5, <3>1
      <4>3. a = b
        BY <2>3, <2>5, <4>1, <4>2
      <4> QED BY <4>1, <4>2, <4>3
    <3>2. CASE u[i] \notin Laid
      <4>1. PICK a \in 1 .. k : u[i] = parts[a] /\ i = at + a - 1
        BY <2>2, <3>2
      <4>2. PICK b \in 1 .. k : u[j] = parts[b] /\ j = at + b - 1
        BY <2>2, <2>5, <3>2
      <4>3. a = b
        BY <2>4, <2>5, <4>1, <4>2
      <4> QED BY <4>1, <4>2, <4>3
    <3> QED BY <3>1, <3>2
  <2>6. ASSUME NEW q \in routes \ {r0}, NEW i \in 1 .. m + k - 1, NEW j \in DOMAIN q.parts
        PROVE  u[i] # q.parts[j]
    <3>1. q.parts[j] \in Laid
      BY <1>6 DEF Chained
    <3>2. CASE u[i] \in Laid
      <4>1. PICK a \in 1 .. m : u[i] = s[a]
        BY <2>1, <3>2
      <4> QED BY <1>6, <1>15, <2>6, <4>1 DEF OnePlace, s
    <3> QED BY <3>1, <3>2
  <2>7. \A r, q \in routes \ {r0} : \A i \in DOMAIN r.parts, j \in DOMAIN q.parts :
            r.parts[i] = q.parts[j] => r = q /\ i = j
    BY <1>6 DEF OnePlace
  <2>8. r1.parts = u /\ DOMAIN r1.parts = 1 .. m + k - 1
    BY <1>10, <1>15
  <2> SUFFICES ASSUME NEW r \in routes', NEW q \in routes',
                      NEW i \in DOMAIN r.parts, NEW j \in DOMAIN q.parts,
                      r.parts[i] = q.parts[j]
               PROVE  r = q /\ i = j
    BY DEF OnePlace
  <2>9. CASE r = r1 /\ q = r1
    BY <2>5, <2>8, <2>9
  <2>10. CASE r = r1 /\ q \in routes \ {r0}
    <3>1. r.parts = u /\ i \in 1 .. m + k - 1
      BY <2>8, <2>10
    <3>2. u[i] # q.parts[j]
      BY <2>6, <2>10, <3>1
    <3> QED BY <3>1, <3>2
  <2>11. CASE r \in routes \ {r0} /\ q = r1
    <3>1. q.parts = u /\ j \in 1 .. m + k - 1
      BY <2>8, <2>11
    <3>2. u[j] # r.parts[i]
      BY <2>6, <2>11, <3>1
    <3> QED BY <3>1, <3>2
  <2>12. CASE r \in routes \ {r0} /\ q \in routes \ {r0}
    BY <2>7, <2>12
  <2> QED BY <1>8, <2>9, <2>10, <2>11, <2>12
<1> QED BY <1>8, <1>12, <1>22, <1>23, <1>24 DEF RouteInv

LEMMA RouteOfPart ==
    ASSUME IInv, RouteInv, PartsInv, InsertPart
    PROVE  RouteInv' /\ PartsInv'
<1> DEFINE n == nextEdge
           parts == Append(clip.parts, n)
<1>1. PICK k \in Int : k = Len(clip.parts) + 1
  BY ClipTyped
<1>2. PICK part : part = [start |-> Junction(k - 1), end |-> Junction(k),
                          geometry |-> clip.runs[k].line]
  OBVIOUS
<1>3. /\ ~NotClipping /\ n \in Id /\ n \notin DOMAIN edges /\ n < MaxId
      /\ 1 <= k /\ k <= Len(clip.runs)
  <2>1. ~NotClipping /\ Len(clip.parts) < Len(clip.runs)
    BY DEF InsertPart, IInv, ClipInv
  <2> QED BY <2>1, <1>1, ClipTyped, FreshEdge
<1>4. outcome' # "torn"
  BY InsertPartStep DEF IInv, NoTornClip
<1>5. /\ AddEdge(n, part)
      /\ \/ k = Len(clip.runs) /\ clip' = NoClip /\ routes' = Rerouted(parts)
         \/ /\ k # Len(clip.runs) /\ routes' = routes
            /\ clip' = [clip EXCEPT !.parts = parts]
  BY <1>1, <1>2, <1>4 DEF InsertPart, Tear
<1>6. /\ DOMAIN edges' = DOMAIN edges \cup {n} /\ edges'[n] = part
      /\ \A d \in DOMAIN edges : edges'[d] = edges[d]
  BY <1>3, <1>5 DEF AddEdge, With
<1>7. nextEdge' = n + 1
  <2>1. Successor(n) = n + 1
    BY <1>3, SuccessorInRange
  <2> QED BY <1>3, <1>5, <2>1, GraphAssumption DEF AddEdge, Ahead, Id
<1>8. /\ clip.edge \in Id /\ clip.edge \notin DOMAIN edges /\ clip.edge < n
      /\ \A i \in DOMAIN clip.parts :
            /\ clip.parts[i] \in DOMAIN edges
            /\ edges[clip.parts[i]].start = Junction(i - 1)
            /\ edges[clip.parts[i]].end = Junction(i)
      /\ \A i, j \in DOMAIN clip.parts : clip.parts[i] = clip.parts[j] => i = j
  BY <1>3 DEF PartsInv
<1>9. /\ parts \in Seq(Id) /\ parts # <<>> /\ Len(parts) = k
      /\ DOMAIN clip.parts = 1 .. k - 1 /\ DOMAIN parts = 1 .. k
      /\ \A i \in 1 .. k - 1 : parts[i] = clip.parts[i]
      /\ parts[k] = n
  BY <1>1, <1>3, ClipTyped
<1>10. {parts[i] : i \in DOMAIN parts} = {clip.parts[i] : i \in DOMAIN clip.parts} \cup {n}
  <2> HIDE DEF parts
  <2>1. \A i \in 1 .. k : i \in 1 .. k - 1 \/ i = k
    OBVIOUS
  <2>2. k \in 1 .. k /\ \A i \in 1 .. k - 1 : i \in 1 .. k
    BY <1>3
  <2> QED BY <1>9, <2>1, <2>2
<1>11. \A i \in 1 .. k : /\ parts[i] \in DOMAIN edges'
                         /\ edges'[parts[i]].start = Junction(i - 1)
                         /\ edges'[parts[i]].end = Junction(i)
  <2> HIDE DEF parts
  <2> SUFFICES ASSUME NEW i \in 1 .. k
               PROVE  /\ parts[i] \in DOMAIN edges'
                      /\ edges'[parts[i]].start = Junction(i - 1)
                      /\ edges'[parts[i]].end = Junction(i)
    OBVIOUS
  <2>1. CASE i = k
    BY <1>2, <1>6, <1>9, <2>1
  <2>2. CASE i # k
    <3>1. i \in 1 .. k - 1
      BY <2>2
    <3> QED BY <1>6, <1>8, <1>9, <3>1
  <2> QED BY <2>1, <2>2
<1>12. \A i, j \in DOMAIN parts : parts[i] = parts[j] => i = j
  <2> HIDE DEF parts
  <2>1. \A i \in 1 .. k - 1 : parts[i] # n
    BY <1>3, <1>8, <1>9
  <2>2. \A i \in 1 .. k : i \in 1 .. k - 1 \/ i = k
    OBVIOUS
  <2> QED BY <1>8, <1>9, <2>1, <2>2
<1> HIDE DEF parts
<1>13. CASE k # Len(clip.runs) /\ routes' = routes /\ clip' = [clip EXCEPT !.parts = parts]
  <2>1. /\ clip'.runs = clip.runs /\ clip'.minted = clip.minted /\ clip'.edge = clip.edge
        /\ clip'.start = clip.start /\ clip'.end = clip.end
        /\ clip'.parts = parts
    BY <1>13 DEF IInv, TypeOK, Clip
  <2>2. ~NotClipping' /\ \A i : Junction(i)' = Junction(i)
    BY <1>3, <2>1 DEF NotClipping, Junction
  <2>3. n # clip.edge
    BY <1>3, <1>8, GraphAssumption DEF Id
  <2>4. Laid' = Laid
    BY <1>3, <1>6, <1>10, <2>1, <2>2, <2>3 DEF Laid
  <2>5. \A id \in Laid : Begin(id)' = Begin(id) /\ Ending(id)' = Ending(id)
    <3>1. \A id \in Laid : id \in DOMAIN edges \/ id = clip.edge
      BY <1>3 DEF Laid
    <3> QED BY <1>3, <1>6, <2>1, <2>2, <3>1 DEF Begin, Ending, InClip
  <2>6. RouteInv'
    BY <1>13, <2>4, <2>5, RoutesKept
  <2>7. clip.edge \in Id \ DOMAIN edges' /\ clip.edge < nextEdge'
    BY <1>3, <1>6, <1>7, <1>8, <2>3, GraphAssumption DEF Id
  <2>8. PartsInv'
    BY <1>9, <1>11, <1>12, <2>1, <2>2, <2>7 DEF PartsInv
  <2> QED BY <2>6, <2>8
<1>14. CASE k = Len(clip.runs) /\ clip' = NoClip /\ routes' = Rerouted(parts)
  <2>1. NotClipping'
    BY <1>14 DEF NotClipping, NoClip
  <2>2. Junction(0) = clip.start /\ Junction(k) = clip.end
    BY <1>3, <1>14 DEF Junction
  <2>3. /\ edges'[parts[1]].start = clip.start
        /\ edges'[parts[Len(parts)]].end = clip.end
    <3>1. 1 \in 1 .. k /\ k \in 1 .. k /\ 1 - 1 = 0
      BY <1>3
    <3> QED BY <1>9, <1>11, <2>2, <3>1
  <2>4. \A i \in 1 .. Len(parts) - 1 : edges'[parts[i]].end = edges'[parts[i + 1]].start
    <3> SUFFICES ASSUME NEW i \in 1 .. k - 1
                 PROVE  edges'[parts[i]].end = edges'[parts[i + 1]].start
      BY <1>9
    <3>1. i \in 1 .. k /\ i + 1 \in 1 .. k /\ (i + 1) - 1 = i
      OBVIOUS
    <3> QED BY <1>11, <3>1
  <2>5. n # clip.edge
    BY <1>3, <1>8, GraphAssumption DEF Id
  <2>6. RouteInv'
    <3> HIDE DEF n
    <3> QED BY <1>3, <1>6, <1>9, <1>10, <1>12, <1>14, <2>1, <2>3, <2>4, <2>5, LastPart
  <2> QED BY <2>1, <2>6 DEF PartsInv
<1> QED BY <1>5, <1>13, <1>14

-----------------------------------------------------------------------------
LEMMA NextKeepsRoutes == IInv /\ RouteInv /\ PartsInv /\ [Next]_vars => RouteInv' /\ PartsInv'
<1> SUFFICES ASSUME IInv, RouteInv, PartsInv, [Next]_vars PROVE RouteInv' /\ PartsInv'
  OBVIOUS
<1>1. ASSUME NEW n \in OfferedNodes, InsertNode(n) PROVE RouteInv' /\ PartsInv'
  <2>1. UNCHANGED <<edges, nextEdge, clip, routes>>
    BY <1>1 DEF InsertNode, Refuse, graph
  <2> QED BY <2>1, EdgesKept
<1>2. ASSUME NEW e \in OfferedEdges, InsertEdge(e) PROVE RouteInv' /\ PartsInv'
  BY <1>2, RouteOfInsert
<1>3. ASSUME NEW f \in OfferedFaces, InsertFace(f) PROVE RouteInv' /\ PartsInv'
  <2>1. UNCHANGED <<edges, nextEdge, clip, routes>>
    BY <1>3 DEF InsertFace, Refuse, graph
  <2> QED BY <2>1, EdgesKept
<1>4. ASSUME NEW id \in Id, NEW tile \in Tile, ClipEdge(id, tile) PROVE RouteInv' /\ PartsInv'
  BY <1>4, RouteOfClip
<1>5. CASE MintNode
  BY <1>5, RouteOfMint
<1>6. CASE InsertPart
  BY <1>6, RouteOfPart
<1>7. CASE Reload
  <2>1. UNCHANGED <<edges, nextEdge, clip, routes>>
    BY <1>7, ReloadStep
  <2> QED BY <2>1, EdgesKept
<1>8. CASE UNCHANGED vars
  BY <1>8, EdgesKept DEF vars
<1> QED BY <1>1, <1>2, <1>3, <1>4, <1>5, <1>6, <1>7, <1>8 DEF Next

LEMMA InitRoutes == Init => RouteInv /\ PartsInv
BY DEF Init, RouteInv, PartsInv, OnePlace, Laid, NotClipping, NoClip

\* Between two calls, what the invariant says is what RoutesChain says.
LEMMA RoutesBetweenCalls == RouteInv => RoutesChain
<1> SUFFICES ASSUME RouteInv, NotClipping PROVE RoutesChain
  BY DEF RoutesChain
<1>1. Laid = DOMAIN edges
  BY DEF Laid
<1>2. \A id : Begin(id) = edges[id].start /\ Ending(id) = edges[id].end
  BY DEF Begin, Ending, InClip
<1>3. ASSUME NEW r \in routes
      PROVE  /\ \A i \in DOMAIN r.parts : r.parts[i] \in DOMAIN edges
             /\ edges[r.parts[1]].start = r.start
             /\ edges[r.parts[Len(r.parts)]].end = r.end
             /\ \A i \in 1 .. Len(r.parts) - 1 : edges[r.parts[i]].end = edges[r.parts[i + 1]].start
  <2>1. Chained(r)
    BY DEF RouteInv
  <2> QED BY <2>1, <1>1, <1>2 DEF Chained
<1> QED BY <1>1, <1>3 DEF RouteInv, OnePlace, RoutesChain

\* However an edge is clipped, and its parts clipped again, its parts chain
\* the start it was inserted with to its end, and every edge of the graph is
\* in exactly one place of exactly one inserted edge.
THEOREM RoutesAlwaysChain == Spec => []RoutesChain
<1>1. IInv /\ [Next]_vars => IInv'
  BY NextKeeps
<1> QED BY <1>1, InitHolds, InitRoutes, NextKeepsRoutes, RoutesBetweenCalls, PTL DEF Spec
=============================================================================
