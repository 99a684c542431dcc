------------------------- MODULE MCRouteDescription -------------------------
(* Routes of one to three legs, with empty legs, roundabouts and a ferry.  *)
EXTENDS RouteDescription
PathPoint(location, turn, duration) ==
    [location |-> location, turn |-> turn, duration |-> duration, mode |-> "drive"]
End(location) == [location |-> location, mode |-> "drive"]
Leg(path, target) == [path |-> path, target |-> End(target)]
Turns == {"NoTurn", "TurnLeft", "EnterRoundAbout", "StayOnRoundAbout", "LeaveRoundAbout"}

\* One leg of four points; the last may be on the target, the first on the start.
Straight == {[start |-> End(s), legs |-> <<Leg(<<PathPoint(1, a, 1), PathPoint(4, b, 1),
                                                 PathPoint(5, c, 0), PathPoint(8, "NoTurn", 1)>>, t)>>] :
               s \in {0, 1}, a \in {"NoTurn", "TurnLeft"}, b \in Turns, c \in Turns, t \in {8, 9}}

\* Two or three legs, of which one may be empty, back and forth.
Vias == {[start |-> End(s), legs |-> <<Leg(<<PathPoint(1, "NoTurn", 1), PathPoint(3, a, 1)>>, v),
                                       Leg(p, v), Leg(<<PathPoint(6, b, 1), PathPoint(2, "NoTurn", 1)>>, t)>>] :
           s \in {0, 1}, a \in {"NoTurn", "TurnLeft"}, v \in {1, 3}, b \in {"NoTurn", "TurnLeft"}, t \in {2, 0},
           p \in {<<>>, <<PathPoint(1, "TurnLeft", 1)>>, <<PathPoint(9, "NoTurn", 0)>>}}

\* By ferry in between.
ByFerry == {[start |-> End(0), legs |-> <<Leg(<<PathPoint(1, "NoTurn", 1),
                                             [PathPoint(l, t, d) EXCEPT !.mode = "ferry"],
                                             PathPoint(6, "NoTurn", 1)>>, 8)>>] :
            l \in {0, 3}, t \in {"NoTurn", "TurnLeft"}, d \in {0, 1}}

Short == {[start |-> End(s), legs |-> <<Leg(<<>>, t)>>] : s, t \in {0, 1}}

MCItineraries == Straight \cup Vias \cup ByFerry \cup Short
=============================================================================
