------------------------------ MODULE TopoGraph ------------------------------
(***************************************************************************)
(* The topology graph of a vector dataset: TopoGraph in src/topology.rs.   *)
(*                                                                         *)
(* One owner inserts nodes, edges and faces and clips edges against tiles. *)
(* A clip that crosses the tile's boundary removes the edge, mints a node  *)
(* for each crossing and inserts the parts, one insert at a time; an       *)
(* insert that fails returns at once and leaves what is done.              *)
(***************************************************************************)
EXTENDS Integers, Sequences, FiniteSets

CONSTANTS
    MaxId,         \* u64::MAX
    FaceId,
    Position,      \* the direct positions
    Finite,        \* those without a NaN or an infinity
    Lines,         \* the linestrings
    Tile,          \* the tile extents
    Splitting(_, _), \* the parts of a linestring cut by a tile, each inside or
                     \* outside of it
    OfferedNodes, OfferedEdges, OfferedFaces,   \* what the owner may insert
    NoPosition, NoGeometry, NoLine

VARIABLES
    nodes,      \* node id -> position
    edges,      \* edge id -> start, end and geometry
    faces,      \* face id -> boundary
    adjacency,  \* node id -> its signed edges, as they were listed; an
                \* absent entry is an empty one
    nextNode, nextEdge,   \* the mint counters
    clip,       \* the running clip: parts to come, nodes and parts minted
    outcome,    \* what the last call returned
    routes      \* history: what has become of each edge inserted

graph == <<nodes, edges, faces, adjacency, nextNode, nextEdge>>
vars == <<nodes, edges, faces, adjacency, nextNode, nextEdge, clip, outcome, routes>>

-----------------------------------------------------------------------------
(* Data *)

Id == 0 .. MaxId
Edge == [start : Id, end : Id, geometry : Lines \cup {NoGeometry}]
Directed == [edge : Id, orientation : {"forward", "reverse"}]
Signed == [edge : Id, sign : {"leaving", "entering"}]
Run == [inside : BOOLEAN, line : Lines]
Clip == [runs : Seq(Run), minted : Seq(Id), parts : Seq(Id), edge : Id,
         start : Id, end : Id]
Outcome == {"none", "running", "ok", "untouched", "clipped", "refused", "torn",
            "loaded", "rejected"}

First(line) == line[1]
Final(line) == line[Len(line)]

\* A split line starts and ends where the line does, and its parts chain.
ASSUME GraphAssumption ==
    /\ MaxId \in Nat
    /\ NoPosition \notin Position /\ NoGeometry \notin Lines /\ NoLine \notin Lines
    /\ Finite \subseteq Position
    /\ Lines \subseteq Seq(Position)
    /\ \A p, q \in Position : <<p, q>> \in Lines
    /\ \A n \in OfferedNodes : n.id \in Id /\ n.position \in Position \cup {NoPosition}
    /\ \A e \in OfferedEdges :
          e.id \in Id /\ [start |-> e.start, end |-> e.end, geometry |-> e.geometry] \in Edge
    /\ \A f \in OfferedFaces : f.id \in FaceId /\ f.boundary \in Seq(Directed)
ASSUME SplitAssumption ==
    \A line \in Lines, tile \in Tile :
        Len(line) >= 2 /\ (\A i \in DOMAIN line : line[i] \in Finite) =>
            LET runs == Splitting(line, tile)
            IN  /\ runs \in Seq(Run)
                /\ Len(runs) >= 1
                /\ \A i \in DOMAIN runs : Len(runs[i].line) >= 2
                /\ First(runs[1].line) = First(line)
                /\ Final(runs[Len(runs)].line) = Final(line)
                /\ \A i \in 1 .. Len(runs) - 1 :
                      /\ Final(runs[i].line) = First(runs[i + 1].line)
                      /\ runs[i].inside # runs[i + 1].inside

\* saturating_add(1), and the counter after an insert.
\* Mutant AheadLast: the counter follows the last insert.
Successor(id) == IF id = MaxId THEN MaxId ELSE id + 1
AheadLast(counter, id) == Successor(id)
Ahead(counter, id) ==
    IF counter >= Successor(id) THEN counter ELSE Successor(id)

With(f, id, value) == [i \in DOMAIN f \cup {id} |-> IF i = id THEN value ELSE f[i]]
WithoutId(f, id) == [i \in DOMAIN f \ {id} |-> f[i]]

-----------------------------------------------------------------------------
(* Directed nodes *)

Leaving(id) == [edge |-> id, sign |-> "leaving"]
Entering(id) == [edge |-> id, sign |-> "entering"]
Touches(edge, n, sign) ==
    IF sign = "leaving" THEN edge.start = n ELSE edge.end = n

\* The members of a finite set of numbers, from the smallest up.
Ascending(numbers) ==
    [k \in 1 .. Cardinality(numbers) |->
        CHOOSE i \in numbers : Cardinality({j \in numbers : j < i}) = k - 1]

\* insert_edge pushes the edge at both of its nodes, twice at that of a loop.
List(adj, id, edge) ==
    LET left == [adj EXCEPT ![edge.start] = Append(@, Leaving(id))]
    IN  [left EXCEPT ![edge.end] = Append(@, Entering(id))]

\* The clip retains every other edge at both nodes, in order.
Retained(list, id) ==
    LET kept == Ascending({i \in DOMAIN list : list[i].edge # id})
    IN  [k \in DOMAIN kept |-> list[kept[k]]]
\* Mutant: at the start node only.
UnlistAtStart(adj, id, edge) ==
    [adj EXCEPT ![edge.start] = Retained(@, id)]
Unlist(adj, id, edge) ==
    [n \in Id |-> IF n \in {edge.start, edge.end} THEN Retained(adj[n], id) ELSE adj[n]]

-----------------------------------------------------------------------------
(* Inserts *)

Refuse ==
    /\ outcome' = "refused"
    /\ UNCHANGED <<graph, clip, routes>>

AddNode(id, position) ==
    /\ nodes' = With(nodes, id, position)
    /\ nextNode' = Ahead(nextNode, id)

EdgeFits(id, edge) ==
    /\ id \notin DOMAIN edges
    /\ {edge.start, edge.end} \subseteq DOMAIN nodes
AddEdge(id, edge) ==
    /\ edges' = With(edges, id, edge)
    /\ adjacency' = List(adjacency, id, edge)
    /\ nextEdge' = Ahead(nextEdge, id)

\* DirectedEdge::endpoints.
From(step) == IF step.orientation = "forward" THEN edges[step.edge].start
              ELSE edges[step.edge].end
To(step) == IF step.orientation = "forward" THEN edges[step.edge].end
            ELSE edges[step.edge].start
Ring(boundary) ==
    /\ boundary # <<>>
    /\ \A i \in DOMAIN boundary : boundary[i].edge \in DOMAIN edges
    /\ \A i \in 1 .. Len(boundary) - 1 : To(boundary[i]) = From(boundary[i + 1])
    /\ To(Final(boundary)) = From(First(boundary))

NotClipping == clip.runs = <<>>

\* insert_node
InsertNode(n) ==
    /\ NotClipping
    /\ \/ /\ n.id \notin DOMAIN nodes
          /\ AddNode(n.id, n.position)
          /\ outcome' = "ok"
          /\ UNCHANGED <<edges, faces, adjacency, nextEdge, clip, routes>>
       \/ n.id \in DOMAIN nodes /\ Refuse

\* insert_edge
InsertEdge(e) ==
    LET edge == [start |-> e.start, end |-> e.end, geometry |-> e.geometry]
    IN  /\ NotClipping
        /\ \/ /\ EdgeFits(e.id, edge)
              /\ AddEdge(e.id, edge)
              /\ outcome' = "ok"
              /\ routes' = routes \cup
                    {[start |-> e.start, end |-> e.end, parts |-> <<e.id>>]}
              /\ UNCHANGED <<nodes, faces, nextNode, clip>>
           \/ ~EdgeFits(e.id, edge) /\ Refuse

\* insert_face
InsertFace(f) ==
    /\ NotClipping
    /\ \/ /\ f.id \notin DOMAIN faces
          /\ Ring(f.boundary)
          /\ faces' = With(faces, f.id, f.boundary)
          /\ outcome' = "ok"
          /\ UNCHANGED <<nodes, edges, adjacency, nextNode, nextEdge, clip, routes>>
       \/ (f.id \in DOMAIN faces \/ ~Ring(f.boundary)) /\ Refuse

-----------------------------------------------------------------------------
(* clip_edge_to_tile *)

\* edge_polyline: the geometry where it agrees with the end positions, or the
\* straight line between them.
AgreesAt(id, p) == nodes[id] \in {p, NoPosition}
Assembled(edge) ==
    CASE edge.geometry # NoGeometry ->
            IF /\ Len(edge.geometry) >= 2
               /\ AgreesAt(edge.start, First(edge.geometry))
               /\ AgreesAt(edge.end, Final(edge.geometry))
            THEN edge.geometry ELSE NoLine
      [] edge.geometry = NoGeometry ->
            IF NoPosition \notin {nodes[edge.start], nodes[edge.end]}
            THEN <<nodes[edge.start], nodes[edge.end]>> ELSE NoLine
Clippable(edge) ==
    /\ Assembled(edge) # NoLine
    /\ \A i \in DOMAIN Assembled(edge) : Assembled(edge)[i] \in Finite

\* Mutant: an edge of a face may be clipped.
InFaceNever(id) == FALSE
InFace(id) ==
    \E f \in DOMAIN faces : \E i \in DOMAIN faces[f] : faces[f][i].edge = id

\* Minting must not run a counter into the top of the id range.
\* Mutant: not checked.
HeadroomAlways(count) == TRUE
Headroom(count) ==
    nextNode + count - 1 <= MaxId /\ nextEdge + count <= MaxId

NoClip == [runs |-> <<>>, minted |-> <<>>, parts |-> <<>>, edge |-> 0,
           start |-> 0, end |-> 0]

\* Every check, then the edge is removed.
BeginClip(id, runs) ==
    /\ Len(runs) >= 2
    /\ Headroom(Len(runs))
    /\ edges' = WithoutId(edges, id)
    /\ adjacency' = Unlist(adjacency, id, edges[id])
    /\ clip' = [runs |-> runs, minted |-> <<>>, parts |-> <<>>, edge |-> id,
                start |-> edges[id].start, end |-> edges[id].end]
    /\ outcome' = "running"
    /\ UNCHANGED <<nodes, faces, nextNode, nextEdge, routes>>

\* The outcome reports the edge whole.
Untouched ==
    /\ outcome' = "untouched"
    /\ UNCHANGED <<graph, clip, routes>>

ClipEdge(id, tile) ==
    LET clippable == id \in DOMAIN edges /\ ~InFace(id) /\ Clippable(edges[id])
        runs == Splitting(Assembled(edges[id]), tile)
    IN  /\ NotClipping
        /\ \/ clippable /\ BeginClip(id, runs)
           \/ clippable /\ Len(runs) = 1 /\ Untouched
           \/ clippable /\ Len(runs) >= 2 /\ ~Headroom(Len(runs)) /\ Refuse
           \/ ~clippable /\ Refuse

\* A failed insert returns with the edge gone.
Tear ==
    /\ clip' = NoClip
    /\ outcome' = "torn"
    /\ UNCHANGED <<graph, routes>>

\* One node for each crossing: where one run ends and the next begins.
Crossing(run) == Final(run.line)
MintNode ==
    LET k == Len(clip.minted) + 1
    IN  /\ k < Len(clip.runs)
        /\ IF nextNode \in DOMAIN nodes THEN Tear
           ELSE /\ AddNode(nextNode, Crossing(clip.runs[k]))
                /\ clip' = [clip EXCEPT !.minted = Append(@, nextNode)]
                /\ UNCHANGED <<edges, faces, adjacency, nextEdge, outcome, routes>>

\* Original start, clip nodes, original end.
\* Mutant: the end is left out.
JunctionWithoutEnd(k) == IF k = 0 THEN clip.start
                         ELSE clip.minted[IF k = Len(clip.runs) THEN k - 1 ELSE k]
Junction(k) == CASE k = 0 -> clip.start
                 [] k = Len(clip.runs) -> clip.end
                 [] OTHER -> clip.minted[k]

\* The parts of a clipped edge take its place in the route it belonged to.
Rerouted(parts) ==
    {LET at == CHOOSE i \in DOMAIN r.parts : r.parts[i] = clip.edge
     IN  IF \E i \in DOMAIN r.parts : r.parts[i] = clip.edge
         THEN [r EXCEPT !.parts = SubSeq(@, 1, at - 1) \o parts
                                      \o SubSeq(@, at + 1, Len(@))]
         ELSE r : r \in routes}

InsertPart ==
    LET k == Len(clip.parts) + 1
        part == [start |-> Junction(k - 1), end |-> Junction(k),
                 geometry |-> clip.runs[k].line]
        parts == Append(clip.parts, nextEdge)
    IN  /\ ~NotClipping /\ Len(clip.minted) = Len(clip.runs) - 1
        /\ IF ~EdgeFits(nextEdge, part) THEN Tear
           ELSE /\ AddEdge(nextEdge, part)
                /\ IF k = Len(clip.runs)
                   THEN clip' = NoClip /\ outcome' = "clipped" /\ routes' = Rerouted(parts)
                   ELSE clip' = [clip EXCEPT !.parts = parts] /\ UNCHANGED <<outcome, routes>>
                /\ UNCHANGED <<nodes, faces, nextNode>>

-----------------------------------------------------------------------------
(* Serialize, then Deserialize *)

\* Only the primitives are on the wire, in the order of their identifiers;
\* what is derived is rebuilt by inserting them into an empty graph.  The
\* format is one that keeps every coordinate: JSON has no infinity.
Incident(n) ==
    {s \in [edge : DOMAIN edges, sign : {"leaving", "entering"}] :
        Touches(edges[s.edge], n, s.sign)}
Place(s) == 2 * s.edge + (IF s.sign = "leaving" THEN 0 ELSE 1)
Mirror ==
    [n \in Id |->
        LET places == Ascending({Place(s) : s \in Incident(n)})
        IN  [k \in DOMAIN places |-> CHOOSE s \in Incident(n) : Place(s) = places[k]]]
CounterOver(ids) ==
    CHOOSE c \in Id : /\ \A i \in ids : c >= Successor(i)
                      /\ c = 0 \/ \E i \in ids : c = Successor(i)
Loadable ==
    /\ \A e \in DOMAIN edges : {edges[e].start, edges[e].end} \subseteq DOMAIN nodes
    /\ \A f \in DOMAIN faces : Ring(faces[f])
Reload ==
    /\ NotClipping
    /\ UNCHANGED <<nodes, edges, faces, clip, routes>>
    /\ IF Loadable
       THEN /\ adjacency' = Mirror
            /\ nextNode' = CounterOver(DOMAIN nodes)
            /\ nextEdge' = CounterOver(DOMAIN edges)
            /\ outcome' = "loaded"
       ELSE /\ outcome' = "rejected"
            /\ UNCHANGED <<adjacency, nextNode, nextEdge>>

-----------------------------------------------------------------------------

Init ==
    /\ nodes = <<>> /\ edges = <<>> /\ faces = <<>>
    /\ adjacency = [n \in Id |-> <<>>]
    /\ nextNode = 0 /\ nextEdge = 0
    /\ clip = NoClip
    /\ outcome = "none"
    /\ routes = {}

Next ==
    \/ \E n \in OfferedNodes : InsertNode(n)
    \/ \E e \in OfferedEdges : InsertEdge(e)
    \/ \E f \in OfferedFaces : InsertFace(f)
    \/ \E id \in Id, tile \in Tile : ClipEdge(id, tile)
    \/ MintNode
    \/ InsertPart
    \/ Reload

Spec == Init /\ [][Next]_vars

-----------------------------------------------------------------------------
(* Properties *)

\* TopoGraph holds what its Rust types say: maps from identifiers, and mint
\* counters that never leave the u64 range.
TypeOK ==
    /\ DOMAIN nodes \subseteq Id
    /\ \A n \in DOMAIN nodes : nodes[n] \in Position \cup {NoPosition}
    /\ DOMAIN edges \subseteq Id
    /\ \A e \in DOMAIN edges : edges[e] \in Edge
    /\ DOMAIN faces \subseteq FaceId
    /\ \A f \in DOMAIN faces : faces[f] \in Seq(Directed)
    /\ adjacency \in [Id -> Seq(Signed)]
    /\ nextNode \in Id /\ nextEdge \in Id
    /\ clip \in Clip
    /\ outcome \in Outcome

Exactly(list, entries) ==
    /\ {list[i] : i \in DOMAIN list} = entries
    /\ \A i, j \in DOMAIN list : list[i] = list[j] => i = j

\* Topo4: at every moment, also in the middle of a clip, a node lists exactly
\* the edges that leave it and the edges that enter it, each once.
AdjacencyMirrors == \A n \in Id : Exactly(adjacency[n], Incident(n))

\* Topo5: both ends of every edge exist, whatever was clipped.
EndpointsExist ==
    \A e \in DOMAIN edges : {edges[e].start, edges[e].end} \subseteq DOMAIN nodes

\* Face3: every face stays a chained, closed ring of existing edges: no clip
\* takes an edge from under it.
FacesRing == \A f \in DOMAIN faces : Ring(faces[f])

\* The comment at the mint, "minted identifiers are fresh ... so these inserts
\* cannot fail": no clip stops halfway with its edge gone, and none comes near
\* the top of the id range.
NoTornClip == outcome # "torn"

InOrder(list) == \A i, j \in DOMAIN list : i < j => Place(list[i]) < Place(list[j])

\* A graph that is written out is read back, whatever was clipped before: the
\* same primitives, the same identifiers to mint next, and at every node the
\* same directed edges, each once.  Their lists come back in the order of the
\* identifiers, so what is read back a second time is equal to the first.
ReloadKeeps ==
    [][Reload =>
        /\ Loadable
        /\ UNCHANGED <<nodes, edges, faces, nextNode, nextEdge>>
        /\ AdjacencyMirrors'
        /\ \A n \in Id : /\ InOrder(adjacency'[n])
                         /\ InOrder(adjacency[n]) => adjacency'[n] = adjacency[n]]_vars

\* The test of the round trip, assert_eq!(back, graph): the graph read back is
\* equal to the graph written, by the derived equality, which compares the
\* lists too.  Refuted on the instance of topo_clip: they are written to in the
\* order of the inserts, and Reload keeps what ReloadKeeps says, no more.
ReloadIsIdentity == [][Reload => UNCHANGED graph]_vars

\* However often an edge is clipped, its parts chain its start to its end, and
\* every edge of the graph is a part of exactly one inserted edge.
RoutesChain ==
    NotClipping =>
        /\ \A r \in routes :
              LET on(i) == edges[r.parts[i]]
              IN  /\ \A i \in DOMAIN r.parts : r.parts[i] \in DOMAIN edges
                  /\ on(1).start = r.start
                  /\ on(Len(r.parts)).end = r.end
                  /\ \A i \in 1 .. Len(r.parts) - 1 : on(i).end = on(i + 1).start
        /\ \A e \in DOMAIN edges :
              \E r \in routes : \E i \in DOMAIN r.parts : r.parts[i] = e
        /\ \A r, q \in routes : \A i \in DOMAIN r.parts, j \in DOMAIN q.parts :
              r.parts[i] = q.parts[j] => r = q /\ i = j
=============================================================================
