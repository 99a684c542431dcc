--------------------------- MODULE EdgeExpansion ---------------------------
(***************************************************************************)
(* The second half of osrm-extract: the node-based graph of the .osrm file *)
(* is compressed and expanded into the edge-based graph                    *)
(* (extractor.cpp BuildEdgeExpandedGraph, algorithms/graph_compressor.cpp, *)
(* data_structures/compressed_edge_container.cpp and restriction_map.*,    *)
(* extractor/edge_based_graph_factory.cpp).                                *)
(*                                                                         *)
(* graph is the dynamic graph: an arc by its EdgeID, both directions of an *)
(* edge being there and a closed one marked reversed.  rmap is the         *)
(* restriction map, with the bucket of a (start, via) pair in place of the *)
(* index of the bucket.  geometry is the container of compressed edges.    *)
(***************************************************************************)
EXTENDS Extraction

CONSTANTS
  SignalPenalty, UTurnPenalty,
  TurnPenalty(_, _, _),     \* the profile's turn_function, on three nodes
  FreeListChunk             \* the slots IncreaseFreeList adds, 100 in the code

VARIABLES graph, rmap, geometry, expanded

expansionVars == <<graph, rmap, geometry, expanded>>

NumberOfNodes == Len(file.nodes)
BarrierNodes == {k \in 0 .. NumberOfNodes - 1 : file.nodes[k + 1].barrier}
TrafficLights == {k \in 0 .. NumberOfNodes - 1 : file.nodes[k + 1].lights}

-----------------------------------------------------------------------------
(* Loading.                                                                *)

loadRestrictionsFromFile == file.restrictions
loadEdgesFromFile == file.edges

NodeBasedEdgeData(e, reversed) ==
  [distance |-> e.weight, reversed |-> reversed, name_id |-> e.name_id,
   roundabout |-> e.roundabout, mode |-> e.mode, edge_id |-> Special]

(* A split edge is one arc, its way back being an edge of its own; any     *)
(* other is two, the way back marked reversed when it is closed.           *)
directedEdgesFromCompressed(edges) ==
  {[source |-> e.source, target |-> e.target] @@ NodeBasedEdgeData(e, FALSE) : e \in edges}
    \cup {[source |-> e.target, target |-> e.source] @@ NodeBasedEdgeData(e, ~ e.backward) :
            e \in {d \in edges : ~ d.is_split}}

(* The arcs of the edges, sorted by source and target; their places are    *)
(* their ids.                                                              *)
NodeBasedGraph ==
  InOrder(directedEdgesFromCompressed(Range(loadEdgesFromFile)),
          LAMBDA a, b : a.source < b.source \/ (a.source = b.source /\ a.target < b.target))

(* RestrictionMap's constructor, one restriction after the other.  An      *)
(* only_ restriction replaces what its bucket holds and keeps out what     *)
(* follows.                                                                *)
AddRestriction(map, r) ==
  LET source == <<r.from, r.via>>
      bucket == IF source \in DOMAIN map.buckets THEN map.buckets[source] ELSE <<>>
      target == [node |-> r.to, is_only |-> r.is_only]
      added == CASE bucket # <<>> /\ bucket[1].is_only -> bucket
                 [] bucket # <<>> /\ ~ bucket[1].is_only /\ r.is_only -> <<target>>
                 [] OTHER -> Append(bucket, target)
  IN [starts |-> map.starts \cup {r.from}, vias |-> map.vias \cup {r.via},
      buckets |-> (source :> added) @@ map.buckets]
RestrictionMap(list) ==
  FoldLeft(AddRestriction, [starts |-> {}, vias |-> {}, buckets |-> <<>>], list)

(* IncreaseFreeList; the slots are taken from the end.                     *)
IncreaseFreeList(geo) ==
  LET size == Len(geo.lists)
  IN [geo EXCEPT !.lists = @ \o [k \in 1 .. FreeListChunk |-> <<>>],
                 !.free = @ \o [k \in 1 .. FreeListChunk |-> size + k]]

NoGeometry == IncreaseFreeList([index |-> <<>>, lists |-> <<>>, free |-> <<>>])

ExpansionInit ==
  /\ graph = <<>> /\ rmap = RestrictionMap(<<>>) /\ geometry = NoGeometry
  /\ expanded = [nodes |-> {}, edges |-> <<>>]

(* LoadRestrictionMap and LoadNodeBasedGraph.  Without an edge there is no *)
(* graph, and the null pointer is dereferenced.                            *)
LoadGraph ==
  /\ stage = "written"
  /\ IF loadEdgesFromFile = <<>>
     THEN stage' = "crashed" /\ UNCHANGED <<graph, rmap>>
     ELSE /\ stage' = "compress"
          /\ graph' = NodeBasedGraph
          /\ rmap' = RestrictionMap(loadRestrictionsFromFile)
  /\ it' = 0
  /\ UNCHANGED <<input, buffer, todo, string_map, lists, jt, file, geometry, expanded>>

-----------------------------------------------------------------------------
(* Compression.                                                            *)

OutArcs(g, v) == {e \in DOMAIN g : g[e].source = v}
OutDegree(g, v) == Cardinality(OutArcs(g, v))
Joined(g, u, v) == \E e \in DOMAIN g : g[e].source = u /\ g[e].target = v
FindEdge(g, u, v) == CHOOSE e \in DOMAIN g : g[e].source = u /\ g[e].target = v

IsCompatibleTo(a, b) ==
  a.reversed = b.reversed /\ a.name_id = b.name_id /\ a.mode = b.mode

(* Restrictions that start on the edge (v, w) start on (u, w).             *)
FixupStarting(map, u, v, w) ==
  IF v \notin map.starts \/ <<v, w>> \notin DOMAIN map.buckets THEN map
  ELSE [map EXCEPT !.starts = @ \cup {u},
                   !.buckets = [s \in DOMAIN @ \ {<<v, w>>} |-> @[s]]
                                 @@ (<<u, w>> :> @[<<v, w>>])]

\* Restrictions that end in a compressed edge are left as they are.
FixupArrivingNot(map, g, u, v, w) == map

(* Restrictions via u that end in v end in w.                              *)
FixupArriving(map, g, u, v, w) ==
  LET touched == {<<g[e].target, u>> : e \in {a \in OutArcs(g, u) : g[a].target # v}}
  IN IF u \notin map.vias THEN map
     ELSE [map EXCEPT !.buckets =
             [s \in DOMAIN @ |->
                IF s \notin touched THEN @[s]
                ELSE [k \in DOMAIN @[s] |->
                        IF @[s][k].node = v THEN [@[s][k] EXCEPT !.node = w] ELSE @[s][k]]]]

HasEntryForID(geo, e) == e \in DOMAIN geo.index
GetBucketReference(geo, e) == geo.lists[geo.index[e]]

(* The list of edge e1 gets the via node, if it is new, and the list of    *)
(* edge e2, or its target if it has none; e2's slot becomes free.          *)
CompressEdge(geo, e1, e2, via, target, weight1, weight2) ==
  LET grown == IF HasEntryForID(geo, e1) \/ geo.free # <<>> THEN geo ELSE IncreaseFreeList(geo)
      placed == IF HasEntryForID(geo, e1) THEN grown
                ELSE [grown EXCEPT !.index = @ @@ (e1 :> Last(grown.free)), !.free = Front(@)]
      slot == placed.index[e1]
      begun == IF placed.lists[slot] = <<>> THEN <<[node |-> via, weight |-> weight1]>>
               ELSE placed.lists[slot]
  IN IF HasEntryForID(placed, e2)
     THEN LET old == placed.index[e2]
          IN [index |-> [e \in DOMAIN placed.index \ {e2} |-> placed.index[e]],
              lists |-> [placed.lists EXCEPT ![slot] = begun \o placed.lists[old], ![old] = <<>>],
              free |-> Append(placed.free, old)]
     ELSE [placed EXCEPT !.lists[slot] =
             Append(begun, [node |-> target, weight |-> weight2])]

(* The .geometry file: where each list begins, and the nodes of all lists. *)
SerializeInternalVector(geo) ==
  [indices |-> [k \in 0 .. Len(geo.lists) |->
                  MapThenSumSet(LAMBDA i : Len(geo.lists[i]), 1 .. k)],
   nodes |-> FlattenSeq([k \in DOMAIN geo.lists |->
               [i \in DOMAIN geo.lists[k] |-> geo.lists[k][i].node]])]

(* InternalDataFacade reads a list back; slots count from 1 here.          *)
GetUncompressedGeometry(serialized, slot) ==
  SubSeq(serialized.nodes, serialized.indices[slot - 1] + 1, serialized.indices[slot])

(* The arcs around a node of degree two, named as in the code:             *)
(*      reverse_e2   forward_e2                                            *)
(*   u <---------- v ----------> w      forward_e1 : u -> v,               *)
(*                                      reverse_e1 : w -> v.               *)
Around(v) ==
  LET lo == CHOOSE e \in OutArcs(graph, v) : \A d \in OutArcs(graph, v) : e <= d
      hi == CHOOSE e \in OutArcs(graph, v) : e # lo
      f2 == IF graph[lo].reversed THEN hi ELSE lo
      r2 == IF graph[lo].reversed THEN lo ELSE hi
      w == graph[f2].target
      u == graph[r2].target
  IN [u |-> u, w |-> w, f2 |-> f2, r2 |-> r2,
      f1 |-> FindEdge(graph, u, v), r1 |-> FindEdge(graph, w, v)]

(* The edges on the two sides of v can become one.                         *)
SidesMatch(a) ==
  /\ ~ Joined(graph, a.u, a.w) /\ ~ Joined(graph, a.w, a.u)
  /\ graph[a.f1].name_id = graph[a.r1].name_id /\ graph[a.f2].name_id = graph[a.r2].name_id
  /\ IsCompatibleTo(graph[a.f1], graph[a.f2]) /\ IsCompatibleTo(graph[a.r1], graph[a.r2])

(* A node is skipped when it is not on a plain stretch of road.            *)
Compressible(v) ==
  /\ OutDegree(graph, v) = 2 /\ v \notin BarrierNodes /\ v \notin rmap.vias
  /\ SidesMatch(Around(v))

(* One iteration of GraphCompressor::Compress.                             *)
CompressNode ==
  /\ stage = "compress" /\ it < NumberOfNodes
  /\ it' = it + 1
  /\ IF ~ Compressible(it) THEN UNCHANGED <<graph, rmap, geometry>>
     ELSE LET a == Around(it)
              penalty == IF it \in TrafficLights THEN SignalPenalty ELSE 0
              merged == [e \in DOMAIN graph \ {a.f2, a.r2} |->
                CASE e = a.f1 -> [graph[e] EXCEPT !.target = a.w,
                                    !.distance = @ + graph[a.f2].distance + penalty]
                  [] e = a.r1 -> [graph[e] EXCEPT !.target = a.u,
                                    !.distance = @ + graph[a.r2].distance + penalty]
                  [] OTHER -> graph[e]]
              map1 == FixupArriving(FixupStarting(rmap, a.u, it, a.w), merged, a.u, it, a.w)
              map2 == FixupArriving(FixupStarting(map1, a.w, it, a.u), merged, a.w, it, a.u)
          IN /\ graph' = merged
             /\ rmap' = map2
             /\ geometry' =
                  CompressEdge(
                    CompressEdge(geometry, a.f1, a.f2, it, a.w,
                                 graph[a.f1].distance + penalty, graph[a.f2].distance),
                    a.r1, a.r2, it, a.u,
                    graph[a.r1].distance, graph[a.r2].distance + penalty)
  /\ UNCHANGED <<input, buffer, todo, string_map, lists, stage, jt, file, expanded>>

-----------------------------------------------------------------------------
(* Expansion.                                                              *)

Forward(g) == {e \in DOMAIN g : ~ g[e].reversed}

(* Every open arc is a node of the edge-based graph, numbered in order.    *)
RenumberEdges ==
  /\ stage = "compress" /\ it = NumberOfNodes
  /\ graph' = [e \in DOMAIN graph |->
                 IF graph[e].reversed THEN graph[e]
                 ELSE [graph[e] EXCEPT !.edge_id = Cardinality({d \in Forward(graph) : d < e})]]
  /\ stage' = "expand_nodes" /\ it' = 0
  /\ UNCHANGED <<input, buffer, todo, string_map, lists, jt, file, rmap, geometry, expanded>>

PrefixSum(bucket, k) == FoldSeq(LAMBDA x, sum : x.weight + sum, 0, SubSeq(bucket, 1, k))

\* The way back is summed up from its own start.
ReverseOffsetFromStart(distance, back, k) == distance - PrefixSum(back, k)

(* reverse_dist_prefix_sum: what is left of the way back behind its last k *)
(* segments.                                                               *)
ReverseOffset(distance, back, k) ==
  distance - (PrefixSum(back, Len(back)) - PrefixSum(back, Len(back) - k))

(* The pieces of the edge between u and v that the nearest-neighbour index *)
(* holds: one for each segment of its geometry.                            *)
InsertEdgeBasedNode(u, v) ==
  LET e1 == FindEdge(graph, u, v)
      e2 == FindEdge(graph, v, u)
      forward == graph[e1]
      reverse == graph[e2]
      there == GetBucketReference(geometry, e1)
      back == GetBucketReference(geometry, e2)
      size == Len(there)
      Piece(a, b, fw, rw, fo, ro, slot, k) ==
        [forward_id |-> forward.edge_id, reverse_id |-> reverse.edge_id, u |-> a, v |-> b,
         forward_weight |-> fw, reverse_weight |-> rw, forward_offset |-> fo,
         reverse_offset |-> ro, slot |-> slot, position |-> k]
  IN IF forward.edge_id = Special /\ reverse.edge_id = Special THEN {}
     ELSE IF HasEntryForID(geometry, e1)
     THEN {Piece(IF k = 1 THEN u ELSE there[k - 1].node, there[k].node,
                 there[k].weight, back[size + 1 - k].weight,
                 PrefixSum(there, k - 1),
                 ReverseOffset(reverse.distance, back, k),
                 geometry.index[e1], k - 1) : k \in 1 .. size}
     ELSE {Piece(u, v, forward.distance, reverse.distance, 0, 0, Special, 0)}

GenerateEdgeExpandedNodes ==
  /\ stage = "expand_nodes"
  /\ expanded' = [expanded EXCEPT !.nodes =
       UNION {IF graph[e].edge_id = Special
              THEN InsertEdgeBasedNode(graph[e].target, graph[e].source)
              ELSE InsertEdgeBasedNode(graph[e].source, graph[e].target) :
                e \in {d \in DOMAIN graph : graph[d].source < graph[d].target}}]
  /\ stage' = "expand_edges"
  /\ UNCHANGED <<input, buffer, todo, string_map, lists, it, jt, file, graph, rmap, geometry>>

CheckForEmanatingIsOnlyTurn(u, v) ==
  LET bucket == IF u \in rmap.starts /\ <<u, v>> \in DOMAIN rmap.buckets
                THEN rmap.buckets[<<u, v>>] ELSE <<>>
      only == {k \in DOMAIN bucket : bucket[k].is_only}
  IN IF only = {} THEN Special
     ELSE bucket[CHOOSE k \in only : \A l \in only : k <= l].node

CheckIfTurnIsRestricted(u, v, w) ==
  /\ u \in rmap.starts /\ <<u, v>> \in DOMAIN rmap.buckets
  /\ \E t \in Range(rmap.buckets[<<u, v>>]) : t.is_only # (t.node = w)

TurnAllowed(u, v, w) ==
  LET only == CheckForEmanatingIsOnlyTurn(u, v)
  IN /\ only # Special => w = only
     /\ IF v \in BarrierNodes THEN u = w ELSE ~ (u = w /\ OutDegree(graph, v) > 1)
     /\ ~ (CheckIfTurnIsRestricted(u, v, w) /\ only = Special)

(* AnalyzeTurn; the direction of a real turn is left to the angle.         *)
AnalyzeTurn(u, v, w) ==
  LET d1 == graph[FindEdge(graph, u, v)]
      d2 == graph[FindEdge(graph, v, w)]
      open == Cardinality({e \in OutArcs(graph, v) : ~ graph[e].reversed})
  IN CASE u = w -> "UTurn"
       [] u # w /\ d1.roundabout /\ d2.roundabout ->
            IF open = 1 THEN "NoTurn" ELSE "StayOnRoundAbout"
       [] u # w /\ ~ d1.roundabout /\ d2.roundabout -> "EnterRoundAbout"
       [] u # w /\ d1.roundabout /\ ~ d2.roundabout -> "LeaveRoundAbout"
       [] u # w /\ ~ d1.roundabout /\ ~ d2.roundabout ->
            IF d1.name_id = d2.name_id /\ d1.mode = d2.mode
                 /\ (d1.name_id # 0 \/ OutDegree(graph, v) <= 2)
            THEN "NoTurn" ELSE "Turn"

GetLastEdgeSourceID(e) == LET b == GetBucketReference(geometry, e) IN b[Len(b) - 1].node
GetFirstEdgeTargetID(e) == GetBucketReference(geometry, e)[1].node

TurnCost(e1, e2) ==
  LET u == graph[e1].source
      v == graph[e1].target
      w == graph[e2].target
      before == IF HasEntryForID(geometry, e1) THEN GetLastEdgeSourceID(e1) ELSE u
      after == IF HasEntryForID(geometry, e2) THEN GetFirstEdgeTargetID(e2) ELSE w
  IN (IF v \in TrafficLights THEN SignalPenalty ELSE 0)
       + (IF AnalyzeTurn(u, v, w) = "UTurn" THEN UTurnPenalty ELSE 0)
       + TurnPenalty(before, v, after)

(* One iteration of the outer loop of GenerateEdgeExpandedEdges: the turns *)
(* from the edges that leave the node.  The number of an edge-based edge   *)
(* is its place in the list.                                               *)
GenerateEdgeExpandedEdges ==
  /\ stage = "expand_edges" /\ it < NumberOfNodes
  /\ LET turns == {<<e1, e2>> \in Forward(graph) \X Forward(graph) :
                     /\ graph[e1].source = it /\ graph[e2].source = graph[e1].target
                     /\ TurnAllowed(it, graph[e1].target, graph[e2].target)}
         Edge(t) ==
           LET e1 == t[1]
               e2 == t[2]
               compressed == HasEntryForID(geometry, e1)
           IN [source |-> graph[e1].edge_id, target |-> graph[e2].edge_id,
               weight |-> graph[e1].distance + TurnCost(e1, e2),
               via |-> IF compressed THEN geometry.index[e1] ELSE graph[e1].target,
               compressed |-> compressed, name_id |-> graph[e1].name_id,
               instruction |-> AnalyzeTurn(it, graph[e1].target, graph[e2].target),
               mode |-> graph[e2].mode,
               fixed_penalty |-> TurnCost(e1, e2),
               segments |-> IF compressed THEN GetBucketReference(geometry, e1)
                            ELSE <<[node |-> graph[e1].target, weight |-> graph[e1].distance]>>]
         ordered == InOrder(turns, LAMBDA s, t : s[1] < t[1] \/ (s[1] = t[1] /\ s[2] < t[2]))
     IN expanded' = [expanded EXCEPT !.edges = @ \o [k \in DOMAIN ordered |-> Edge(ordered[k])]]
  /\ it' = it + 1
  /\ UNCHANGED <<input, buffer, todo, string_map, lists, stage, jt, file, graph, rmap, geometry>>

EdgesGenerated ==
  /\ stage = "expand_edges" /\ it = NumberOfNodes
  /\ stage' = "expanded" /\ it' = 0
  /\ UNCHANGED <<input, buffer, todo, string_map, lists, jt, file, graph, rmap, geometry, expanded>>

Expand ==
  \/ LoadGraph \/ CompressNode \/ RenumberEdges
  \/ GenerateEdgeExpandedNodes \/ GenerateEdgeExpandedEdges \/ EdgesGenerated

-----------------------------------------------------------------------------
(* What the edge-based graph should be, from the node-based graph of the   *)
(* files alone.                                                            *)

Original == NodeBasedGraph
Segment(u, v) == Original[FindEdge(Original, u, v)]

(* The turns the written restrictions, the barriers and the rule against   *)
(* turning round allow between two segments that meet in v.                *)
LegalTurn(u, v, w) ==
  LET rules == SelectSeq(file.restrictions, LAMBDA r : r.from = u /\ r.via = v)
      only == SelectSeq(rules, LAMBDA r : r.is_only)
  IN /\ only # <<>> => w = only[1].to
     /\ only = <<>> => \A r \in Range(rules) : r.to # w
     /\ IF v \in BarrierNodes THEN u = w ELSE u = w => OutDegree(Original, v) = 1

(* The nodes an arc of the compressed graph passes, its ends included.     *)
Course(e) ==
  IF HasEntryForID(geometry, e)
  THEN <<graph[e].source>> \o [k \in DOMAIN GetBucketReference(geometry, e) |->
                                 GetBucketReference(geometry, e)[k].node]
  ELSE <<graph[e].source, graph[e].target>>

CourseCost(c) ==
  MapThenSumSet(LAMBDA k : Segment(c[k], c[k + 1]).distance, 1 .. Len(c) - 1)
    + MapThenSumSet(LAMBDA k : IF c[k] \in TrafficLights THEN SignalPenalty ELSE 0,
                    2 .. Len(c) - 1)

(* Compression and expansion lose no turn and add none.  Every open arc    *)
(* follows open segments of the node-based graph through nodes where       *)
(* nothing but going on is legal, and every open segment is on one arc.    *)
(* There is an edge from one arc to another exactly when the turn between  *)
(* their last and first segments is legal by the restrictions as written,  *)
(* although the compressor has moved the restrictions' ends along; its     *)
(* weight is that of the segments, the signals passed and the turn         *)
(* (GraphCompressor::Compress, RestrictionMap::Fixup*,                     *)
(* GenerateEdgeExpandedEdges).                                             *)
TurnsExact == stage = "expanded" =>
  LET open == Forward(graph)
      Turns(e1) == {<<c.target, c.weight>> :
                      c \in {d \in Range(expanded.edges) : d.source = graph[e1].edge_id}}
  IN /\ \A e \in open : \A k \in 1 .. Len(Course(e)) - 1 :
          LET c == Course(e)
          IN /\ Joined(Original, c[k], c[k + 1]) /\ ~ Segment(c[k], c[k + 1]).reversed
             /\ k > 1 => {w \in {Original[a].target : a \in OutArcs(Original, c[k])} :
                            LegalTurn(c[k - 1], c[k], w)} = {c[k + 1]}
     /\ \A a \in Forward(Original) :
          Cardinality({e \in open : \E k \in 1 .. Len(Course(e)) - 1 :
                         Course(e)[k] = Original[a].source /\ Course(e)[k + 1] = Original[a].target}) = 1
     /\ Len(expanded.edges) = Cardinality(Range(expanded.edges))
     /\ \A e1 \in open :
          LET way == Course(e1)
              v == Last(way)
              u == way[Len(way) - 1]
          IN Turns(e1) =
               {<<graph[e2].edge_id,
                  CourseCost(way) + (IF v \in TrafficLights THEN SignalPenalty ELSE 0)
                    + (IF Course(e2)[2] = u THEN UTurnPenalty ELSE 0)
                    + TurnPenalty(u, v, Course(e2)[2])>> :
                e2 \in {e \in open : Course(e)[1] = v /\ LegalTurn(u, v, Course(e)[2])}}

(* The geometry of an edge is the same road in both directions: the list   *)
(* of the way back is that of the way there turned round, no two edges     *)
(* share a slot and no slot in use is free (CompressEdge); the pieces      *)
(* handed to the nearest-neighbour index lie end to end, and no piece      *)
(* begins before its edge does or ends after it, signals and all           *)
(* (InsertEdgeBasedNode); and a list read back from the .geometry file by  *)
(* its slot is the list that was written.                                  *)
GeometryMirrored == stage = "expanded" =>
  /\ \A e, d \in DOMAIN graph :
       /\ graph[e].source = graph[d].target /\ graph[e].target = graph[d].source
            => Course(e) = Reverse(Course(d))
       /\ HasEntryForID(geometry, e) /\ HasEntryForID(geometry, d)
            /\ geometry.index[e] = geometry.index[d] => e = d
  /\ Range(geometry.index) \cap Range(geometry.free) = {}
  /\ LET serialized == SerializeInternalVector(geometry)
     IN \A e \in DOMAIN geometry.index :
          GetUncompressedGeometry(serialized, geometry.index[e]) = Tail(Course(e))
  /\ \A p \in expanded.nodes :
       LET Length(id) == graph[CHOOSE e \in Forward(graph) : graph[e].edge_id = id].distance
       IN /\ p.forward_id # Special =>
               0 <= p.forward_offset /\ p.forward_offset + p.forward_weight <= Length(p.forward_id)
          /\ p.reverse_id # Special =>
               0 <= p.reverse_offset /\ p.reverse_offset + p.reverse_weight <= Length(p.reverse_id)
          /\ p.position > 0 => \E q \in expanded.nodes :
               q.slot = p.slot /\ q.position = p.position - 1 /\ q.v = p.u

=============================================================================
