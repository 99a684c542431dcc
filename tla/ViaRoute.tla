------------------------------ MODULE ViaRoute ------------------------------
(***************************************************************************)
(* A route through several coordinates: ShortestPathRouting of             *)
(* routing_algorithms/shortest_path.hpp.  It is a dynamic program: for     *)
(* every leg it finds the best way to the forward and to the reverse node  *)
(* of the leg's target, continuing the ways to the two nodes of its        *)
(* source, and it keeps the packed legs of both.  Each search of a leg is  *)
(* the Search of ChQuery, one RoutingStep at a time.                       *)
(*                                                                         *)
(* A phantom node gives, for each of the nodes it has ("forward",          *)
(* "reverse"), the node and the weight from its start to the coordinate.   *)
(***************************************************************************)
EXTENDS ChQuery

CONSTANT ViaQueries     \* the phantom nodes of a route, and for each of them
                        \* whether the driver may turn round there

\* Stops that share a node lie on the same road and have the same nodes.
OnRoads(q) ==
    \A a, b \in {q.phantoms[i] : i \in DOMAIN q.phantoms} :
       (\E s \in DOMAIN a, t \in DOMAIN b : a[s].node = b[t].node) =>
         /\ DOMAIN a = DOMAIN b
         /\ \A s \in DOMAIN a : a[s].node = b[s].node

ASSUME ViaAssumption ==
    \A q \in ViaQueries : /\ Len(q.phantoms) > 1
                          /\ Len(q.uturns) = Len(q.phantoms)
                          /\ OnRoads(q)

VARIABLES
    trip,       \* phantom_nodes_vector and uturn_indicators
    leg,        \* current_leg
    totals,     \* total_distance_to_*, for the nodes search_from_* is set for
    pending,    \* the searches of this leg still to run
    found,      \* new_total_distance_to_* and packed_leg_to_*, once found
    routes      \* total_packed_path_to_*, leg by leg

viaVars == <<trip, leg, totals, pending, found, routes>>

ViaInit == /\ trip = <<>> /\ leg = 0 /\ totals = <<>> /\ pending = <<>>
           /\ found = <<>> /\ routes = [s \in Side |-> <<>>]

LegSource == trip.phantoms[leg]

LegTarget == trip.phantoms[leg + 1]

-----------------------------------------------------------------------------
(* The searches of a leg. *)

\* Get*WeightPlusOffset.
Weight(phantom, s) == IF s \in DOMAIN phantom THEN phantom[s].weight ELSE 0

\* The target lies before the source on the same node.
BehindOn(s) == /\ s \in DOMAIN LegSource \cap DOMAIN LegTarget
               /\ LegSource[s].node = LegTarget[s].node
               /\ LegSource[s].weight > LegTarget[s].weight

\* search_to_*.
Heading == {s \in DOMAIN LegTarget : ~BehindOn(s)}

\* The keys with which the nodes of some sides of a phantom are inserted.
Inserted(phantom, keys) ==
    [n \in {phantom[s].node : s \in DOMAIN keys} |->
       keys[CHOOSE s \in DOMAIN keys : phantom[s].node = n]]

\* What the forward heap starts with.
FromSource ==
    Inserted(LegSource, [s \in DOMAIN totals |-> totals[s] - Weight(LegSource, s)])

\* What the reverse heap starts with.
ToTarget(sides) ==
    Inserted(LegTarget, [s \in sides |-> Weight(LegTarget, s)])

ByDesignation(sides) ==
    SelectSeq(<<"forward", "reverse">>, LAMBDA s : s \in sides)

\* One search to both nodes of the target; either of them may be left from.
SearchWithUTurn ==
    <<[gives |-> DOMAIN LegTarget, from |-> FromSource,
       to |-> ToTarget(Heading), closing |-> <<>>]>>

\* One search for each node of the target.
SearchApart ==
    LET order == ByDesignation(Heading)
    IN  [i \in DOMAIN order |->
           [gives |-> {order[i]}, from |-> FromSource,
            to |-> ToTarget({order[i]}), closing |-> <<>>]]

\* From the neighbours a node leads to, to those that lead to it: the way
\* round from a place behind the target.  An edge inserted twice keeps the
\* shorter key.
SearchLoop ==
    LET order == ByDesignation(DOMAIN totals)
        Keys(side, node, base) ==
          [n \in {e.target : e \in Along(side, node)} |->
             base + Min({e.distance : e \in
                           {e \in Along(side, node) : e.target = n}})]
        Loop(s) ==
          LET node == LegSource[s].node
          IN  [gives |-> {s},
               from |-> Keys("forward", node,
                             totals[s] - Weight(LegSource, s)),
               to |-> Keys("reverse", node, Weight(LegTarget, s)),
               closing |-> <<node>>]
    IN  [i \in DOMAIN order |-> Loop(order[i])]

-----------------------------------------------------------------------------
(* The loop over the legs. *)

AskVia(q) ==
    /\ at = "idle"
    /\ task' = "via" /\ trip' = q
    /\ leg' = 1
    /\ totals' = [s \in DOMAIN q.phantoms[1] |-> 0]
    /\ at' = "leg"
    /\ UNCHANGED <<vars, query, searchVars, pathVars, pending, found, routes>>

PlanLeg ==
    /\ at = "leg" /\ leg < Len(trip.phantoms)
    /\ pending' = IF Heading = {} THEN SearchLoop
                  ELSE IF trip.uturns[leg + 1] THEN SearchWithUTurn
                  ELSE SearchApart
    /\ found' = <<>>
    /\ at' = "seek"
    /\ UNCHANGED <<vars, task, query, searchVars, pathVars, trip, leg, totals,
                   routes>>

\* The heaps are cleared and filled.
StartSearch ==
    /\ at = "seek" /\ pending # <<>>
    /\ LET search == Head(pending)
       IN  /\ heaps' = [heaps EXCEPT !["hierarchy"] =
                          [forward |-> Filled(search.from),
                           reverse |-> Filled(search.to)]]
           /\ offset' = Min({0} \cup {search.from[n] : n \in DOMAIN search.from})
    /\ middle' = NumNodes /\ distance' = IntMax /\ turn' = "forward"
    /\ at' = "hierarchy"
    /\ UNCHANGED <<vars, task, query, entry, pathVars, viaVars>>

EndSearch ==
    /\ task = "via" /\ SearchEnds
    /\ LET search == Head(pending)
           way == [length |-> distance,
                   path |-> search.closing \o PackedPath \o search.closing]
       IN  found' = IF middle = NumNodes THEN found
                    ELSE [s \in DOMAIN found \cup search.gives |->
                            IF s \in search.gives THEN way ELSE found[s]]
    /\ pending' = Tail(pending)
    /\ at' = "seek"
    /\ UNCHANGED <<vars, task, query, searchVars, pathVars, trip, leg, totals,
                   routes>>

\* The leg to side s starts in node d of the source.
StartsAt(s, d) == /\ s \in DOMAIN found /\ d \in DOMAIN LegSource
                  /\ Head(found[s].path) = LegSource[d].node

\* A mutation of Carried: the legs before are never swapped.
CarriedUnswapped ==
    IF StartsAt("forward", "forward") /\ StartsAt("reverse", "forward")
    THEN [s \in Side |-> routes["forward"]]
    ELSE IF StartsAt("forward", "reverse") /\ StartsAt("reverse", "reverse")
    THEN [s \in Side |-> routes["reverse"]]
    ELSE routes

\* The legs so far that each of the new legs continues.
Carried ==
    IF StartsAt("forward", "forward") /\ StartsAt("reverse", "forward")
    THEN [s \in Side |-> routes["forward"]]
    ELSE IF StartsAt("forward", "reverse") /\ StartsAt("reverse", "reverse")
    THEN [s \in Side |-> routes["reverse"]]
    ELSE IF StartsAt("forward", "reverse") \/ StartsAt("reverse", "forward")
    THEN [s \in Side |-> routes[Opposite(s)]]
    ELSE routes

ConnectLeg ==
    /\ at = "seek" /\ pending = <<>> /\ found # <<>>
    /\ LET before == IF leg = 1 THEN routes ELSE Carried
       IN  routes' = [s \in Side |-> IF s \in DOMAIN found
                                     THEN Append(before[s], found[s].path)
                                     ELSE <<>>]
    /\ totals' = [s \in DOMAIN found |-> found[s].length]
    /\ leg' = leg + 1
    /\ at' = "leg"
    /\ UNCHANGED <<vars, task, query, searchVars, pathVars, trip, pending, found>>

\* No way to either node of the target: no route at all.
NoLeg ==
    /\ at = "seek" /\ pending = <<>> /\ found = <<>>
    /\ distance' = IntMax
    /\ at' = "answered"
    /\ UNCHANGED <<vars, task, query, heaps, entry, middle, offset, turn,
                   pathVars, viaVars>>

\* The shorter of the two ways is unpacked, leg by leg.
FinishRoute ==
    /\ at = "leg" /\ leg = Len(trip.phantoms)
    /\ LET Total(s) == IF s \in DOMAIN totals THEN totals[s] ELSE IntMax
           best == IF Total("forward") > Total("reverse") THEN "reverse"
                                                          ELSE "forward"
       IN  distance' = Total(best) /\ packed' = routes[best]
    /\ at' = "legs"
    /\ UNCHANGED <<vars, task, query, heaps, entry, middle, offset, turn, stack,
                   unpacked, driven, viaVars>>

ViaStep == \/ at = "idle" /\ \E q \in ViaQueries : AskVia(q)
           \/ PlanLeg
           \/ StartSearch
           \/ EndSearch
           \/ ConnectLeg
           \/ NoLeg
           \/ FinishRoute
-----------------------------------------------------------------------------
(* Properties. *)

\* A stop in some leg: its nodes with their weights.
Stop(i) == LET p == trip.phantoms[i]
           IN  Inserted(p, [s \in DOMAIN p |-> Weight(p, s)])

\* The least weight with which each node of stop i can be left, in the input
\* graph; IntMax if it cannot.
Leaving ==
    LET given == InputArcs
        Way(n, m) == LET w == {l[2] : l \in {l \in From(given, n) : l[1] = m}}
                     IN  IF w = {} THEN IntMax ELSE Min(w)
        least[i \in 1 .. Len(trip.phantoms)] ==
          IF i = 1 THEN [n \in DOMAIN Stop(1) |-> 0]
          ELSE LET before == least[i - 1]
                   arrive == [m \in DOMAIN Stop(i) |->
                                Min({IntMax} \cup
                                    {before[n] - Stop(i - 1)[n] + Way(n, m)
                                        + Stop(i)[m] :
                                       n \in DOMAIN before})]
               IN  IF trip.uturns[i]
                   THEN [m \in DOMAIN arrive |->
                           Min({arrive[k] : k \in DOMAIN arrive})]
                   ELSE arrive
    IN  least[Len(trip.phantoms)]

\* ShortestPathRouting finds the best route: searching leg by leg, with the
\* ways to both nodes of a stop kept apart unless the driver may turn there,
\* loses nothing.
ViaExact ==
    at = "answered" /\ task = "via"
      /\ (\A i \in 1 .. Len(trip.phantoms) - 1 : ~Behind(Stop(i), Stop(i + 1)))
      => distance = Min({Leaving[n] : n \in DOMAIN Leaving})

\* The legs UnpackLegs returns are the route it claims: each goes from its
\* own stop to the next over edges of the input, begins in the node where
\* the one before it ended unless the driver may turn round there, and
\* together they are as long as the answer says, also where a leg has to
\* loop back to its own node.
ViaIsDrive ==
    at = "answered" /\ task = "via" /\ distance # IntMax =>
      LET n == Len(trip.phantoms) - 1
          Start(i) == driven[i][1]
          Final(i) == driven[i][Len(driven[i])]
      IN  /\ Len(driven) = n
          /\ \A i \in 1 .. n : /\ Start(i) \in DOMAIN Stop(i)
                               /\ Final(i) \in DOMAIN Stop(i + 1)
          /\ \A i \in 2 .. n : trip.uturns[i] \/ Start(i) = Final(i - 1)
          /\ distance = FoldSet(LAMBDA i, sum : sum + Driven(driven[i])
                                                  - Stop(i)[Start(i)]
                                                  + Stop(i + 1)[Final(i)],
                                0, 1 .. n)

\* The route is the best one and the legs that are returned are that route.
ViaSound == ViaExact /\ ViaIsDrive
=============================================================================
