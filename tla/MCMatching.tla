----------------------------- MODULE MCMatching -----------------------------
(* Traces along two roads that are not connected, with and without times.  *)
EXTENDS Matching

Road(island, at, directions) ==
    [island |-> island, at |-> at, distance |-> 0,
     forward |-> IF "f" \in directions THEN (IF island = "a" THEN "fa" ELSE "fb") ELSE SPECIAL_NODEID,
     reverse |-> IF "r" \in directions THEN (IF island = "a" THEN "ra" ELSE "rb") ELSE SPECIAL_NODEID]

Point(at, near) == [at |-> at, near |-> near]

NoCandidates == {<<Point(0, {}), Point(1, {Road("a", 1, {"f"})})>>,
            <<Point(0, {Road("a", 1, {"f"})})>>}

\* The k-th kind of surroundings, the same for every point.
Kind(k, at) ==
    CASE k = 1 -> {Road("a", at, {"f", "r"})}
      [] k = 2 -> {Road("b", at + 1, {"f"})}
      [] k = 3 -> {Road("a", at + 1, {"f"}), Road("b", at, {"r"})}

PointChains(n) == {[i \in 1 .. n |-> Point(2 * i, Kind(kinds[i], 2 * i))] : kinds \in [1 .. n -> 1 .. 3]}
TurnBack == {<<Point(2, a), Point(4, b), Point(1, {Road("a", 1, {"f", "r"})})>> :
               a \in {Kind(k, 2) : k \in 1 .. 3}, b \in {Kind(k, 4) : k \in 1 .. 3}}

Trace(points, times, bonus) ==
    [points |-> points, valid |-> TRUE, times |-> times, bearings |-> 0, bonus |-> bonus]
SomePoints == <<Point(2, Kind(1, 2)), Point(4, Kind(1, 4))>>

MCTraces ==
    {[Trace(SomePoints, <<>>, -1) EXCEPT !.valid = valid, !.bearings = n] :
       valid \in BOOLEAN, n \in 0 .. 2} \cup
    {Trace(points, <<>>, bonus) : points \in NoCandidates \cup TurnBack \cup PointChains(4), bonus \in {-1, 3}}
    \cup {Trace(points, <<>>, -1) : points \in PointChains(5)}
    \cup {Trace(points, times, -1) :
            points \in PointChains(4), times \in
              {<<0, 1, 2, 3>>, <<0, 1, 5, 6>>, <<0, 1, 2, 9>>, <<0, 2, 1, 3>>, <<0, 0, 0, 1>>, <<0, 1>>}}
=============================================================================
