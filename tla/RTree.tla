------------------------------- MODULE RTree -------------------------------
(***************************************************************************)
(* The spatial index: a packed R-tree over road segments, built once       *)
(* (data_structures/static_rtree.hpp, rectangle.hpp) and searched for the  *)
(* segments nearest to a coordinate, by number, within a distance, or with *)
(* one of the big component (algorithms/geospatial_query.hpp).             *)
(*                                                                         *)
(* The plane is a grid, segments are parallel to its axes, and a distance  *)
(* is the square of the Euclidean one, so that all of it is exact.         *)
(***************************************************************************)
EXTENDS Integers, Sequences, FiniteSets, FiniteSetsExt, SequencesExt

CONSTANTS Segments,          \* the input of the tree
          SpatialQueries,    \* the searches to run on it
          LEAF_NODE_SIZE,
          BRANCHING_FACTOR

\* A segment goes from u to v, is in a tiny component or not, and may be used
\* in either direction or in one of them.
ASSUME SegmentsAssumption ==
    /\ Segments # {} /\ LEAF_NODE_SIZE > 0 /\ BRANCHING_FACTOR > 1
    /\ \A s \in Segments : /\ DOMAIN s = {"u", "v", "tiny", "forward", "reverse"}
                           /\ s.u # s.v
                           /\ s.u[1] = s.v[1] \/ s.u[2] = s.v[2]
                           /\ s.forward \/ s.reverse

VARIABLES rtAt,     \* what is being done
          pending,  \* the input in the order of its Hilbert values, as yet unpacked
          leaves,   \* the leaf file
          level,    \* tree_nodes_in_level
          tree,     \* m_search_tree; the node with number i is its entry i + 1
          wanted,   \* the search: coordinate, filter and when to stop
          queue,    \* traversal_queue
          results,  \* the segments found, with the directions that may be used
          has_small, has_big

rtVars == <<rtAt, pending, leaves, level, tree, wanted, queue, results, has_small, has_big>>

\* Any order of the input: the Hilbert values make good rectangles and are not
\* needed for good answers.
RTInit ==
    /\ rtAt = "leaves"
    /\ pending \in SetToSeqs(Segments)
    /\ leaves = <<>> /\ level = <<>> /\ tree = <<>>
    /\ wanted = <<>> /\ queue = {} /\ results = <<>>
    /\ has_small = FALSE /\ has_big = FALSE

-----------------------------------------------------------------------------
(* Rectangles.  The first coordinate is lon, the second lat.               *)

\* InitializeMBRectangle.
Rectangle(segments) ==
    LET lons == UNION {{s.u[1], s.v[1]} : s \in segments}
        lats == UNION {{s.u[2], s.v[2]} : s \in segments}
    IN  [min_lon |-> Min(lons), max_lon |-> Max(lons),
         min_lat |-> Min(lats), max_lat |-> Max(lats)]

\* MergeBoundingBoxes over the children.
Merged(boxes) ==
    [min_lon |-> Min({b.min_lon : b \in boxes}), max_lon |-> Max({b.max_lon : b \in boxes}),
     min_lat |-> Min({b.min_lat : b \in boxes}), max_lat |-> Max({b.max_lat : b \in boxes})]

\* Distances between coordinates (great_circle_distance).
DistanceBetween(p, q) == (p[1] - q[1]) * (p[1] - q[1]) + (p[2] - q[2]) * (p[2] - q[2])

\* The border of low .. high that x lies beyond, or x.
Border(x, low, high) == IF x > high THEN high ELSE IF x < low THEN low ELSE x

\* A mutation of GetMinDist: a corner is taken also beside an edge.
GetMinDistCorner(box, p) ==
    IF /\ box.min_lon <= p[1] /\ p[1] <= box.max_lon
       /\ box.min_lat <= p[2] /\ p[2] <= box.max_lat
    THEN 0
    ELSE Min({DistanceBetween(p, <<x, y>>) :
                x \in {box.min_lon, box.max_lon}, y \in {box.min_lat, box.max_lat}})

\* GetMinDist: nothing inside, else the distance to the edge or to the corner
\* in the direction of the location.
GetMinDist(box, p) ==
    DistanceBetween(p, <<Border(p[1], box.min_lon, box.max_lon), Border(p[2], box.min_lat, box.max_lat)>>)

\* The nearest location of a segment along an axis: an end of it, or the foot
\* of the perpendicular, by where on the segment the foot is.
NearestLocation(s, p) ==
    LET ratio == (p[1] - s.u[1]) * (s.v[1] - s.u[1]) + (p[2] - s.u[2]) * (s.v[2] - s.u[2])
    IN  IF ratio <= 0 THEN s.u
        ELSE IF ratio >= DistanceBetween(s.u, s.v) THEN s.v
        ELSE [i \in 1 .. 2 |-> IF s.u[i] = s.v[i] THEN s.u[i] ELSE p[i]]

\* perpendicular_distance.
SegmentDistance(s, p) == DistanceBetween(p, NearestLocation(s, p))

-----------------------------------------------------------------------------
(* The construction.                                                       *)

Node(box, on_disk, children) == [box |-> box, on_disk |-> on_disk, children |-> children]

\* The next leaf is filled and written, and its node put into the level.
PackLeaf ==
    /\ rtAt = "leaves" /\ pending # <<>>
    /\ LET n == Min({LEAF_NODE_SIZE, Len(pending)})
           leaf == SubSeq(pending, 1, n)
       IN  /\ level' = Append(level, Node(Rectangle(Range(leaf)), TRUE, <<Len(level)>>))
           /\ leaves' = Append(leaves, leaf)
           /\ pending' = SubSeq(pending, n + 1, Len(pending))
    /\ UNCHANGED <<rtAt, tree, wanted, queue, results, has_small, has_big>>

\* One level: its nodes go to the tree as they are, and parents over up to
\* BRANCHING_FACTOR of them make the next level.
PackLevel ==
    /\ rtAt = "leaves" /\ pending = <<>> /\ Len(level) > 1
    /\ LET parents == (Len(level) + BRANCHING_FACTOR - 1) \div BRANCHING_FACTOR
           first(k) == (k - 1) * BRANCHING_FACTOR + 1
           last(k) == Min({k * BRANCHING_FACTOR, Len(level)})
       IN  level' = [k \in 1 .. parents |->
                       Node(Merged({level[i].box : i \in first(k) .. last(k)}), FALSE,
                            [i \in 1 .. last(k) - first(k) + 1 |-> Len(tree) + first(k) + i - 2])]
    /\ tree' = tree \o level
    /\ UNCHANGED <<rtAt, pending, leaves, wanted, queue, results, has_small, has_big>>

\* The root is stored, and the tree turned round and renumbered.
FinishTree ==
    /\ rtAt = "leaves" /\ pending = <<>> /\ Len(level) = 1
    /\ LET size == Len(tree) + 1
           renumbered(node) ==
             IF node.on_disk THEN node
             ELSE [node EXCEPT !.children = [i \in DOMAIN @ |-> size - @[i] - 1]]
           nodes == Reverse(Append(tree, level[1]))
       IN  tree' = [i \in 1 .. size |-> renumbered(nodes[i])]
    /\ rtAt' = "ready"
    /\ UNCHANGED <<pending, leaves, level, wanted, queue, results, has_small, has_big>>

-----------------------------------------------------------------------------
(* Bearings: 0 is north, 90 east.                                          *)

\* coordinate_calculation::bearing along the axes.
Bearing(from, to) ==
    IF from[1] = to[1] THEN (IF from[2] < to[2] THEN 0 ELSE 180)
    ELSE (IF from[1] < to[1] THEN 90 ELSE 270)

\* CheckInBounds, for bearings that are not negative.
CheckInBounds(A, B, range) ==
    LET b == B % 360
        a == A % 360
    IN  \/ range >= 180
        \/ /\ 0 < range /\ range < 180
           /\ CASE b - range < 0   -> b - range + 360 <= a \/ a <= b + range
                [] b + range > 360 -> b - range <= a \/ a <= b + range - 360
                [] OTHER           -> b - range <= a /\ a <= b + range

\* checkSegmentBearing: the directions that may be used.
SegmentBearing(s) ==
    LET ahead == Bearing(s.u, s.v)
        back == IF ahead + 180 > 360 THEN ahead - 180 ELSE ahead + 180
    IN  (IF s.forward /\ CheckInBounds(ahead, wanted.bearing, wanted.range)
         THEN {"forward"} ELSE {})
        \cup (IF s.reverse /\ CheckInBounds(back, wanted.bearing, wanted.range)
              THEN {"reverse"} ELSE {})

-----------------------------------------------------------------------------
(* Nearest: best first.                                                    *)

Candidate(dist, node, segment) == [dist |-> dist, node |-> node, segment |-> segment]

AskNearest(q) ==
    /\ rtAt = "ready"
    /\ rtAt' = "search"
    /\ wanted' = q
    /\ queue' = {Candidate(0, 0, <<>>)}
    /\ UNCHANGED <<pending, leaves, level, tree, results, has_small, has_big>>

\* The three terminators, asked with the distance of the best candidate.
Terminate(dist) ==
    CASE wanted.kind = "nearest"     -> Len(results) >= wanted.max_results
      [] wanted.kind = "range"       -> dist > wanted.max_distance
      [] wanted.kind = "alternative" -> Len(results) > 0 /\ has_big

\* The filters: the alternative search takes one tiny segment and, later, one
\* of the big component.
Filter(s) ==
    IF wanted.kind # "alternative" \/ ~has_small \/ (~has_big /\ ~s.tiny)
    THEN SegmentBearing(s) ELSE {}

\* ExploreLeafNode and ExploreTreeNode.
Explored(node) ==
    IF node.on_disk
    THEN {Candidate(SegmentDistance(s, wanted.at), -1, s) : s \in Range(leaves[node.children[1] + 1])}
    ELSE {Candidate(GetMinDist(tree[child + 1].box, wanted.at), child, <<>>) :
            child \in Range(node.children)}

\* One round: of several best candidates any may be on top.
SearchStep ==
    /\ rtAt = "search"
    /\ \E c \in {c \in queue : \A d \in queue : c.dist <= d.dist} :
         /\ ~Terminate(c.dist)
         /\ IF c.node >= 0
            THEN /\ queue' = (queue \ {c}) \cup Explored(tree[c.node + 1])
                 /\ UNCHANGED <<results, has_small, has_big>>
            ELSE LET used == Filter(c.segment)
                 IN  /\ queue' = queue \ {c}
                     /\ results' = IF used = {} THEN results
                                   ELSE Append(results, [segment |-> c.segment, used |-> used])
                     /\ has_big' = (has_big \/ (used # {} /\ ~c.segment.tiny))
                     /\ has_small' = (has_small \/ (used # {} /\ c.segment.tiny))
    /\ UNCHANGED <<rtAt, pending, leaves, level, tree, wanted>>

EndSearch ==
    /\ rtAt = "search"
    /\ queue = {} \/ Terminate(Min({c.dist : c \in queue}))
    /\ rtAt' = "found"
    /\ UNCHANGED <<pending, leaves, level, tree, wanted, queue, results, has_small, has_big>>

RTStep ==
    \/ PackLeaf
    \/ PackLevel
    \/ FinishTree
    \/ rtAt = "ready" /\ \E q \in SpatialQueries : AskNearest(q)
    \/ SearchStep
    \/ EndSearch

RTSpec == RTInit /\ [][RTStep]_rtVars

-----------------------------------------------------------------------------
Away(s) == SegmentDistance(s, wanted.at)

Suitable == {s \in Segments : SegmentBearing(s) # {}}

\* A sequence of the segments of S that are nearest, nearest first.
NearestOf(found, S, n) ==
    /\ Len(found) = Min({n, Cardinality(S)})
    /\ IsInjective(found) /\ Range(found) \subseteq S
    /\ \A i \in DOMAIN found : \A s \in S \ {found[j] : j \in 1 .. i} : Away(found[i]) <= Away(s)

\* A search finds what an inspection of all segments would: the given number
\* of nearest ones, all within the distance, or the nearest and, if that is in
\* a tiny component, the nearest one of the big component as well, of the
\* segments with a usable direction in the wanted bearing
\* (StaticRTree::Nearest, GeospatialQuery).
NearestExact ==
    rtAt = "found" =>
      LET found == [i \in DOMAIN results |-> results[i].segment]
          large == {s \in Suitable : ~s.tiny}
      IN  /\ \A i \in DOMAIN results : results[i].used = SegmentBearing(found[i])
          /\ CASE wanted.kind = "nearest" -> NearestOf(found, Suitable, wanted.max_results)
               [] wanted.kind = "range"   ->
                    NearestOf(found, {s \in Suitable : Away(s) <= wanted.max_distance},
                              Cardinality(Segments))
               [] wanted.kind = "alternative" ->
                    /\ (found = <<>>) = (Suitable = {})
                    /\ found # <<>> => NearestOf(<<Head(found)>>, Suitable, 1)
                    /\ found # <<>> /\ Head(found).tiny => NearestOf(Tail(found), large, 1)
                    /\ found # <<>> /\ ~Head(found).tiny => Len(found) = 1
=============================================================================
