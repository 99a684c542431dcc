------------------------------ MODULE Plugins ------------------------------
(***************************************************************************)
(* What the plugins do with a request before and after the search: they    *)
(* check it, match every coordinate to a road (by the client's hint or by  *)
(* the nearest segment), decide between small and big components           *)
(* (plugin_base.hpp) and hand the matches to the search (viaroute.hpp,     *)
(* distance_table.hpp, trip.hpp, nearest.hpp).                             *)
(*                                                                         *)
(* A matched road is known by its component: 0 is no road (an invalid      *)
(* PhantomNode), Big the large component, the others are tiny.             *)
(***************************************************************************)
EXTENDS Integers, Sequences, FiniteSets, SequencesExt

CONSTANTS Requests,                      \* the requests the plugins may get
          max_locations_distance_table   \* the square root of the largest table

Big == 1

Tiny(component) == component > Big

\* A coordinate of a request: whether it is valid, source and destination, the
\* road its hint names (0 for no hint or one that does not decode to a valid
\* road of these data), and the nearest road with the nearest of the big
\* component, as NearestPhantomNodeWithAlternativeFromBigComponent finds them.
PlaceOK(place) ==
    /\ DOMAIN place = {"valid", "source", "target", "hint", "near"}
    /\ place.source \/ place.target
    /\ LET near == place.near
       IN  IF Tiny(near[1]) THEN near[2] \in {near[1], Big} ELSE near[2] = near[1]

ASSUME RequestsAssumption ==
    \A request \in Requests :
      /\ DOMAIN request = {"service", "places", "bearings", "checksum", "alternate", "routable"}
      /\ \A place \in Range(request.places) : PlaceOK(place)

VARIABLES plugAt,      \* where HandleRequest is
          plugRequest, \* its route_parameters, and the data's side of it
          matched,     \* the places that have been looked at
          sources,     \* phantom_node_pair_list, or phantom_node_source_vector
          targets,     \* phantom_node_target_vector
          together,    \* all_in_same_component
          search,      \* the search that is run
          code         \* the value returned

plugVars == <<plugAt, plugRequest, matched, sources, targets, together, search, code>>

PlugInit ==
    /\ plugAt = "idle"
    /\ plugRequest = <<>> /\ matched = 0
    /\ sources = <<>> /\ targets = <<>>
    /\ together = FALSE /\ search = "none" /\ code = 0

Returns(value) == plugAt' = "done" /\ code' = value

-----------------------------------------------------------------------------
\* check_all_coordinates.
CheckAllCoordinates(places, min) ==
    Len(places) >= min /\ \A place \in Range(places) : place.valid

\* The early returns of the plugins, in front of the matching.
Refused(request) ==
    LET places == request.places
    IN  \/ ~CheckAllCoordinates(places, 2)
        \/ request.bearings > 0 /\ request.bearings # Len(places)
        \/ /\ request.service = "table"
           /\ Cardinality({i \in DOMAIN places : places[i].source})
                * Cardinality({i \in DOMAIN places : places[i].target})
                > max_locations_distance_table * max_locations_distance_table

Receive(request) ==
    /\ plugAt = "idle"
    /\ request.service # "nearest"
    /\ plugRequest' = request
    /\ IF Refused(request) THEN Returns(400) ELSE plugAt' = "match" /\ UNCHANGED code
    /\ UNCHANGED <<matched, sources, targets, together, search>>

\* NearestPlugin looks at the first coordinate alone.
ReceiveNearest(request) ==
    /\ plugAt = "idle"
    /\ request.service = "nearest"
    /\ plugRequest' = request
    /\ LET places == request.places
           bad == \/ places = <<>> \/ ~Head(places).valid
                  \/ request.bearings > 0 /\ request.bearings # Len(places)
       IN  /\ Returns(IF bad THEN 400 ELSE 200)
           /\ sources' = IF bad \/ Head(places).near[1] = 0 THEN <<>>
                         ELSE <<Head(places).near>>
    /\ UNCHANGED <<matched, targets, together, search>>

\* A usable hint stands for the road alone.  Viaroute leaves the other half of
\* the pair invalid, the table and the round trip double the hint.
HintPair(service, hint) == IF service = "viaroute" THEN <<hint, 0>> ELSE <<hint, hint>>

\* The pair of the i-th coordinate; the round trip takes the nearest road only.
MatchOf(request, i) ==
    LET place == request.places[i]
    IN  IF request.checksum /\ place.hint # 0 THEN HintPair(request.service, place.hint)
        ELSE IF request.service = "trip" THEN <<place.near[1], place.near[1]>>
        ELSE place.near

\* One round of the matching loop.  A coordinate without a road ends viaroute
\* and the table with 400; the round trip takes front() of an empty list.
MatchPlace ==
    /\ plugAt = "match" /\ matched < Len(plugRequest.places)
    /\ LET place == plugRequest.places[matched + 1]
           pair == MatchOf(plugRequest, matched + 1)
           table == plugRequest.service = "table"
       IN  IF pair[1] = 0
           THEN /\ IF plugRequest.service = "trip"
                   THEN plugAt' = "undefined" /\ UNCHANGED code ELSE Returns(400)
                /\ UNCHANGED <<matched, sources, targets>>
           ELSE /\ matched' = matched + 1
                /\ sources' = IF place.source \/ ~table THEN Append(sources, pair) ELSE sources
                /\ targets' = IF place.target /\ table THEN Append(targets, pair) ELSE targets
                /\ UNCHANGED <<plugAt, code>>
    /\ UNCHANGED <<plugRequest, together, search>>

-----------------------------------------------------------------------------
(* snapPhantomNodes.                                                       *)

InSameComponent(pairs) == \A p, q \in Range(pairs) : p[1] = q[1]

\* swap_phantom_from_big_cc_into_front.
BigInFront(pair) ==
    IF Tiny(pair[1]) /\ pair[2] # 0 /\ ~Tiny(pair[2]) THEN <<pair[2], pair[1]>> ELSE pair

\* A mutation of Snapped: the small components are left whenever all are small.
SnappedAlways(pairs) ==
    IF \A p \in Range(pairs) : Tiny(p[1])
    THEN [i \in DOMAIN pairs |-> BigInFront(pairs[i])] ELSE pairs

Snapped(pairs) ==
    IF (\A p \in Range(pairs) : Tiny(p[1])) /\ ~InSameComponent(pairs)
    THEN [i \in DOMAIN pairs |-> BigInFront(pairs[i])] ELSE pairs

\* Snapping: viaroute once, the table its sources and its targets, the round
\* trip not at all.  A table without sources or without targets asks an empty
\* list for its front.
Snap ==
    /\ plugAt = "match" /\ matched = Len(plugRequest.places)
    /\ IF plugRequest.service = "table" /\ (sources = <<>> \/ targets = <<>>)
       THEN plugAt' = "undefined" /\ UNCHANGED <<sources, targets, together>>
       ELSE /\ plugAt' = "search"
            /\ sources' = IF plugRequest.service = "trip" THEN sources ELSE Snapped(sources)
            /\ targets' = Snapped(targets)
            /\ together' = InSameComponent(sources')
    /\ UNCHANGED <<plugRequest, matched, search, code>>

\* The search of a viaroute depends on the legs it has and on the request for
\* alternatives; it fails the request only between different components.
SearchAndReply ==
    /\ plugAt = "search"
    /\ search' = CASE plugRequest.service = "table" -> "distance_table"
                   [] plugRequest.service = "trip"  -> "tours"
                   [] Len(sources) > 2              -> "shortest_path"
                   [] plugRequest.alternate         -> "alternative_path"
                   [] OTHER                         -> "direct_shortest_path"
    /\ Returns(IF plugRequest.service = "viaroute" /\ ~plugRequest.routable /\ ~together
               THEN 400 ELSE 200)
    /\ UNCHANGED <<plugRequest, matched, sources, targets, together>>

PlugStep ==
    \/ plugAt = "idle" /\ \E request \in Requests : Receive(request) \/ ReceiveNearest(request)
    \/ MatchPlace
    \/ Snap
    \/ SearchAndReply

PlugSpec == PlugInit /\ [][PlugStep]_plugVars

-----------------------------------------------------------------------------
\* The roads a list of coordinates was matched to, before the snapping.
MatchesOf(list) == [k \in DOMAIN list |-> MatchOf(plugRequest, list[k])]

\* The indices of the coordinates with a property, ascending.
Selected(Test(_)) ==
    SelectSeq([i \in DOMAIN plugRequest.places |-> i], LAMBDA i : Test(plugRequest.places[i]))

\* What a list may be after the snapping: every coordinate is matched to its
\* own road or to the big component's instead; nobody leaves a component that
\* all of them share, nor the big one; and coordinates that are in different
\* tiny components are brought together in the big one whenever it has a road
\* for each of them.
SoundlySnapped(list, near) ==
    /\ Len(list) = Len(near)
    /\ \A k \in DOMAIN list : list[k] \in {near[k], BigInFront(near[k])}
    /\ InSameComponent(near) => list = near
    /\ (/\ \A k \in DOMAIN near : Tiny(near[k][1]) /\ near[k][2] = Big
        /\ ~InSameComponent(near))
         => \A k \in DOMAIN list : list[k][1] = Big

\* When the search starts, its lists have an entry for every coordinate that
\* belongs there, in the order of the request, soundly snapped
\* (HandleRequest of the plugins, snapPhantomNodes).
PlacesMatched ==
    plugAt = "search" =>
      LET asSource == Selected(LAMBDA p : p.source \/ plugRequest.service # "table")
          asTarget == Selected(LAMBDA p : p.target /\ plugRequest.service = "table")
      IN  /\ IF plugRequest.service = "trip" THEN sources = MatchesOf(asSource)
             ELSE SoundlySnapped(sources, MatchesOf(asSource))
          /\ SoundlySnapped(targets, MatchesOf(asTarget))
=============================================================================
