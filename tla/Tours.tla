------------------------------- MODULE Tours -------------------------------
(***************************************************************************)
(* Round trips: plugins/trip.hpp with the two algorithms it runs on every  *)
(* group of locations that can reach each other, all permutations for a    *)
(* small group (algorithms/trip_brute_force.hpp) and farthest insertion    *)
(* for a large one (algorithms/trip_farthest_insertion.hpp).               *)
(*                                                                         *)
(* Locations are numbered from 0, as NodeIDs are.                          *)
(***************************************************************************)
EXTENDS Integers, Sequences, FiniteSets, FiniteSetsExt, SequencesExt

CONSTANTS Tables,           \* the distance tables a request may lead to
          BF_MAX_FEASABLE,  \* a group below this size is brought through all permutations
          Far               \* INVALID_EDGE_WEIGHT, larger than the length of any tour

\* A table is square, and who can be reached through others can be reached.
ASSUME TablesAssumption ==
    \A table \in Tables :
      LET n == Cardinality(DOMAIN table)
      IN  /\ DOMAIN table = 0 .. n - 1
          /\ \A i, j \in 0 .. n - 1 :
               /\ table[i][j] \in Nat /\ table[i][j] <= Far
               /\ \A k \in 0 .. n - 1 :
                    table[i][j] < Far /\ table[j][k] < Far => table[i][k] < Far

VARIABLES tourAt,      \* where HandleRequest is
          table,       \* result_table
          groups,      \* the components, each a sequence of locations
          perm,        \* the permutation to look at, or the growing route
          route,       \* the best route so far of the brute force
          min_dist,    \* min_route_dist
          trips,       \* route_result
          legs         \* comp_route: for every trip the pairs it is driven in

tourVars == <<tourAt, table, groups, perm, route, min_dist, trips, legs>>

TourInit ==
    /\ tourAt = "idle"
    /\ table = <<>> /\ groups = <<>> /\ perm = <<>> /\ route = <<>>
    /\ min_dist = 0 /\ trips = <<>> /\ legs = <<>>

Locations == DOMAIN table

\* operator(): the table is one vector, row by row.
dist_table(from, to) == table[from][to]

\* The table of the coordinates, from the many-to-many search.
AskTour(tab) ==
    /\ tourAt = "idle"
    /\ tourAt' = "split"
    /\ table' = tab
    /\ UNCHANGED <<groups, perm, route, min_dist, trips, legs>>

-----------------------------------------------------------------------------
(* SplitUnaccessibleLocations.                                             *)

\* GetAdjacentEdgeRange of the matrix read as a graph: in a table of distances
\* everything reachable is adjacent.
Adjacent(i, j) == dist_table(i, j) # Far

\* The strongly connected components, and one as ascending locations.
SCCs == {{j \in Locations : Adjacent(i, j) /\ Adjacent(j, i)} : i \in Locations}

Ascending(S) ==
    [i \in 1 .. Cardinality(S) |-> CHOOSE x \in S : Cardinality({y \in S : y < x}) = i - 1]

\* One group when every distance is valid.  Otherwise the groups come in the
\* order Tarjan's algorithm numbers them in, which is left open.
SplitComponents ==
    /\ tourAt = "split"
    /\ IF \A i, j \in Locations : dist_table(i, j) # Far
       THEN groups' = <<Ascending(Locations)>>
       ELSE \E order \in SetToSeqs(SCCs) : groups' = [k \in DOMAIN order |-> Ascending(order[k])]
    /\ tourAt' = "group"
    /\ UNCHANGED <<table, perm, route, min_dist, trips, legs>>

-----------------------------------------------------------------------------
(* The trip of one group.                                                  *)

\* The group that is next.
Group == groups[Len(trips) + 1]

GroupSize == Len(Group)

MoreGroups == Len(trips) < Len(groups)

\* A group of one location x: emplace_back makes a vector of x zeros.
SingleTrip ==
    /\ tourAt = "group" /\ MoreGroups /\ GroupSize = 1
    /\ trips' = Append(trips, [i \in 1 .. Head(Group) |-> 0])
    /\ UNCHANGED <<tourAt, table, groups, perm, route, min_dist, legs>>

\* BruteForceTrip starts with the ascending order.
StartBruteForce ==
    /\ tourAt = "group" /\ MoreGroups
    /\ 1 < GroupSize /\ GroupSize < BF_MAX_FEASABLE
    /\ tourAt' = "brute"
    /\ perm' = Group
    /\ route' = <<>>
    /\ min_dist' = Far
    /\ UNCHANGED <<table, groups, trips, legs>>

\* The length of the first k legs of a round trip.
PartLength(tour, k) ==
    LET leg(i) == dist_table(tour[i], tour[(i % Len(tour)) + 1])
    IN  MapThenSumSet(leg, 1 .. k)

\* ReturnDistance adds leg after leg until the bound is reached.
ReturnDistance(tour, bound) ==
    LET reaching == {k \in 0 .. Len(tour) : PartLength(tour, k) >= bound}
    IN  PartLength(tour, IF reaching = {} THEN Len(tour) ELSE Min(reaching))

\* next_permutation.
Lexicographic(s, t) ==
    \E i \in DOMAIN s : s[i] < t[i] /\ \A j \in 1 .. i - 1 : s[j] = t[j]

Permuted(tour) == {t \in [DOMAIN tour -> Range(tour)] : Range(t) = Range(tour)}

Later(tour) == {t \in Permuted(tour) : Lexicographic(tour, t)}

NextPermutation(tour) ==
    CHOOSE t \in Later(tour) : \A u \in Later(tour) \ {t} : Lexicographic(t, u)

BruteForceStep ==
    /\ tourAt = "brute"
    /\ LET new_distance == ReturnDistance(perm, min_dist)
           better == new_distance <= min_dist
           route1 == IF better THEN perm ELSE route
       IN  /\ min_dist' = IF better THEN new_distance ELSE min_dist
           /\ route' = route1
           /\ IF Later(perm) # {}
              THEN perm' = NextPermutation(perm) /\ UNCHANGED <<tourAt, trips>>
              ELSE tourAt' = "group" /\ trips' = Append(trips, route1) /\ UNCHANGED perm
    /\ UNCHANGED <<table, groups, legs>>

\* FarthestInsertionTrip: the pair with the largest distance, the first one in
\* the order of the rows.  Outside a group of everybody a distance has to be
\* positive to count, and without one the route starts at location -1.
StartPairs(positive) ==
    LET pairs == {p \in Range(Group) \X Range(Group) : positive => dist_table(p[1], p[2]) > 0}
    IN  {p \in pairs : \A q \in pairs \ {p} :
           \/ dist_table(q[1], q[2]) < dist_table(p[1], p[2])
           \/ dist_table(q[1], q[2]) = dist_table(p[1], p[2]) /\ Lexicographic(p, q)}

StartInsertion ==
    /\ tourAt = "group" /\ MoreGroups /\ GroupSize >= BF_MAX_FEASABLE
    /\ LET start == StartPairs(GroupSize # Cardinality(Locations))
       IN  \/ /\ start = {}
              /\ tourAt' = "undefined" /\ UNCHANGED perm
           \/ \E p \in start : tourAt' = "insert" /\ perm' = p
    /\ UNCHANGED <<table, groups, route, min_dist, trips, legs>>

\* The cost of a location between the i-th of the route and the next.
InsertCost(loc, i) ==
    LET to == (i % Len(perm)) + 1
    IN  dist_table(perm[i], loc) + dist_table(loc, perm[to]) - dist_table(perm[i], perm[to])

\* GetShortestRoundTrip: the first of the cheapest places, and its cost.
BestPlace(loc) ==
    Min({i \in DOMAIN perm : \A j \in DOMAIN perm : InsertCost(loc, i) <= InsertCost(loc, j)})

BestCost(loc) == InsertCost(loc, BestPlace(loc))

\* A mutation of Farthest: a location may be taken twice.
FarthestAny ==
    {loc \in Range(Group) :
       \A other \in Range(Group) \ {loc} :
         BestCost(loc) > BestCost(other) \/ (BestCost(loc) = BestCost(other) /\ loc > other)}

\* The last of the unvisited locations that lengthen the route most.
Farthest ==
    LET unvisited == {loc \in Range(Group) \ Range(perm) : BestCost(loc) >= 0}
    IN  {loc \in unvisited :
           \A other \in unvisited \ {loc} :
             BestCost(loc) > BestCost(other) \/ (BestCost(loc) = BestCost(other) /\ loc > other)}

\* One round of FindRoute: insert() puts it before the location it precedes,
\* which after the last one is the first.
InsertStep ==
    /\ tourAt = "insert" /\ Len(perm) < GroupSize
    /\ \/ /\ Farthest = {}
          /\ tourAt' = "undefined" /\ UNCHANGED perm
       \/ \E loc \in Farthest :
            /\ perm' = InsertAt(perm, (BestPlace(loc) % Len(perm)) + 1, loc)
            /\ UNCHANGED tourAt
    /\ UNCHANGED <<table, groups, route, min_dist, trips, legs>>

EndInsertion ==
    /\ tourAt = "insert" /\ Len(perm) >= GroupSize
    /\ trips' = Append(trips, perm)
    /\ tourAt' = "group"
    /\ UNCHANGED <<table, groups, perm, route, min_dist, legs>>

\* ComputeRoute: the pairs of a round trip, back to the start at the end.  The
\* turning flags come from trip.front(), which an empty trip does not have.
ComputeRoute ==
    /\ tourAt = "group" /\ ~MoreGroups /\ Len(legs) < Len(trips)
    /\ LET trip == trips[Len(legs) + 1]
       IN  \/ /\ legs' = Append(legs, [i \in DOMAIN trip |-> <<trip[i], trip[(i % Len(trip)) + 1]>>])
              /\ UNCHANGED tourAt
           \/ /\ trip = <<>>
              /\ tourAt' = "undefined" /\ UNCHANGED legs
    /\ UNCHANGED <<table, groups, perm, route, min_dist, trips>>

\* The answer: a permutation and a route for every trip.
TourDone ==
    /\ tourAt = "group" /\ ~MoreGroups /\ Len(legs) = Len(trips)
    /\ tourAt' = "done"
    /\ UNCHANGED <<table, groups, perm, route, min_dist, trips, legs>>

TourStep ==
    \/ tourAt = "idle" /\ \E tab \in Tables : AskTour(tab)
    \/ SplitComponents
    \/ SingleTrip
    \/ StartBruteForce
    \/ BruteForceStep
    \/ StartInsertion
    \/ InsertStep
    \/ EndInsertion
    \/ ComputeRoute
    \/ TourDone

TourSpec == TourInit /\ [][TourStep]_tourVars

-----------------------------------------------------------------------------
\* A group that has a distance to go by.
Spread(group) == \E i, j \in Range(group) : dist_table(i, j) > 0

\* The trip of every group of several locations that are not all in one place
\* visits each of them once and nobody else, every leg of it can be driven,
\* and it is driven leg after leg back to where it starts (BruteForceTrip,
\* FarthestInsertionTrip, ComputeRoute).
ToursVisitAll ==
    tourAt = "done" =>
      \A k \in DOMAIN groups : Len(groups[k]) > 1 /\ Spread(groups[k]) =>
        LET trip == trips[k]
        IN  /\ Len(trip) = Len(groups[k]) /\ Range(trip) = Range(groups[k])
            /\ \A leg \in Range(legs[k]) : dist_table(leg[1], leg[2]) # Far
            /\ \A i \in DOMAIN trip : /\ legs[k][i][1] = trip[i]
                                      /\ legs[k][i][2] = legs[k][(i % Len(trip)) + 1][1]

\* trip_brute_force.hpp: "computes the route by computing all permutations and
\* selecting the shortest".
ShortestSelected ==
    tourAt = "done" =>
      \A k \in DOMAIN groups : 1 < Len(groups[k]) /\ Len(groups[k]) < BF_MAX_FEASABLE =>
        \A tour \in Permuted(groups[k]) :
          PartLength(trips[k], Len(trips[k])) <= PartLength(tour, Len(tour))
=============================================================================
