------------------------------ MODULE MCRTree ------------------------------
(* Five road segments and the searches among them.                         *)
EXTENDS RTree

RoadSegment(u, v, tiny, directions) ==
    [u |-> u, v |-> v, tiny |-> tiny, forward |-> "f" \in directions, reverse |-> "r" \in directions]

MCSegments ==
    {RoadSegment(<<0, 0>>, <<0, 3>>, FALSE, {"f", "r"}), RoadSegment(<<1, 1>>, <<2, 1>>, TRUE, {"f"}),
     RoadSegment(<<3, 0>>, <<3, 1>>, TRUE, {"r"}), RoadSegment(<<4, 4>>, <<1, 4>>, FALSE, {"f"}),
     RoadSegment(<<5, 2>>, <<6, 2>>, FALSE, {"f", "r"})}

Look(at, kind, limit, bearing, range) ==
    [at |-> at, kind |-> kind, max_results |-> limit, max_distance |-> limit,
     bearing |-> bearing, range |-> range]

MCSpatialQueries ==
    {Look(at, kind, limit, 0, 180) :
       at \in {<<2, 2>>, <<4, 1>>, <<0, 5>>}, kind \in {"nearest", "range"}, limit \in {1, 2, 4}}
    \cup {Look(at, "alternative", 0, b[1], b[2]) :
            at \in {<<2, 0>>, <<3, 2>>, <<5, 5>>}, b \in {<<0, 180>>, <<0, 10>>, <<95, 10>>, <<180, 20>>}}
=============================================================================
