-------------------------- MODULE RouteDescription --------------------------
(***************************************************************************)
(* From an unpacked route to its geometry, instructions and via indices    *)
(* (descriptors/description_factory.cpp, descriptors/json_descriptor.hpp,  *)
(* algorithms/douglas_peucker.cpp).                                        *)
(*                                                                         *)
(* Locations are points of a line, so that lengths are exact; bearings,    *)
(* names and texts are left out.                                           *)
(***************************************************************************)
EXTENDS Integers, Sequences, FiniteSets, FiniteSetsExt, SequencesExt

CONSTANTS Itineraries,      \* the routes to describe
          Threshold    \* of the zoom level, DOUGLAS_PEUCKER_THRESHOLDS

\* A route has a start and at least one leg: the points on the way, each with the
\* turn at it, and the target.
ASSUME DrivesAssumption ==
    /\ Threshold \in Nat
    /\ \A d \in Itineraries : /\ DOMAIN d = {"start", "legs"}
                         /\ d.legs # <<>>
                         /\ \A i \in DOMAIN d.legs : DOMAIN d.legs[i] = {"path", "target"}

VARIABLES descAt,
          drive,             \* the route
          path_description,  \* the entries: location, turn, length ...
          via_indices, entire_length,
          ranges_left,   \* ranges of DouglasPeucker
          leg,               \* the number of legs described
          rows,              \* the instructions
          leave_at_exit

descVars == <<descAt, drive, path_description, via_indices, entire_length, ranges_left,
              leg, rows, leave_at_exit>>

DescInit ==
    /\ descAt = "idle" /\ drive = <<>> /\ path_description = <<>>
    /\ via_indices = <<0>> /\ entire_length = 0 /\ ranges_left = <<>>
    /\ leg = 0 /\ rows = <<>> /\ leave_at_exit = 0

Stretch(x, y) == IF x < y THEN y - x ELSE x - y

-----------------------------------------------------------------------------
(* The entries.                                                            *)

Piece(location, turn, mode, necessary, via) ==
    [location |-> location, turn |-> turn, mode |-> mode, length |-> 0,
     necessary |-> necessary, via |-> via]

\* AppendSegment: a first point on the start itself is not added; a change from
\* the mode of the first entry is announced.
Appended(entries, point) ==
    LET turn == IF point.turn = "NoTurn" /\ Head(entries).mode # point.mode /\ point.duration > 0
                THEN "GoStraight" ELSE point.turn
    IN  IF Len(entries) = 1 /\ Head(entries).location = point.location
        THEN IF point.duration > 0 THEN [entries EXCEPT ![1].mode = point.mode] ELSE entries
        ELSE Append(entries, Piece(point.location, turn, point.mode, turn # "NoTurn", FALSE))

\* SetStartSegment, from which AppendSegment is called with an empty list.
Describe(d) ==
    /\ descAt = "idle"
    /\ drive' = d
    /\ path_description' = <<Piece(d.start.location, "HeadOn", d.start.mode, TRUE, FALSE)>>
    /\ descAt' = "legs"
    /\ UNCHANGED <<via_indices, entire_length, ranges_left, leg, rows, leave_at_exit>>

\* DescribeLeg with SetEndSegment.
DescribeLeg ==
    /\ descAt = "legs" /\ leg < Len(drive.legs)
    /\ leg' = leg + 1
    /\ LET l == drive.legs[leg']
           last == leg' = Len(drive.legs)
       IN  path_description' =
             Append(FoldLeft(Appended, path_description, l.path),
                    Piece(l.target.location, IF last THEN "NoTurn" ELSE "ReachViaLocation",
                          l.target.mode, TRUE, TRUE))
    /\ UNCHANGED <<descAt, drive, via_indices, entire_length, ranges_left, rows, leave_at_exit>>

-----------------------------------------------------------------------------
(* DescriptionFactory::Run.                                                *)

\* The length of each entry: first to the one before, then, at each turn, the sum
\* up to the next turn.
Lengths(entries) ==
    LET piece(i) == IF i = 1 THEN 0 ELSE Stretch(entries[i - 1].location, entries[i].location)
        starts == {1} \cup {i \in DOMAIN entries : entries[i].turn # "NoTurn"}
        next(i) == Min({j \in starts : j > i} \cup {Len(entries)})
        sum(from, to) == FoldLeft(+, 0, [k \in 1 .. to - from + 1 |-> piece(from + k - 1)])
    IN  [i \in DOMAIN entries |->
           [entries[i] EXCEPT !.length = IF i \in starts /\ i < Len(entries)
                                         THEN sum(i + 1, next(i)) ELSE piece(i)]]

\* An empty piece at the end, and then one at the start, is removed unless it
\* belongs to a via location.
WithoutEmptyEnd(entries) ==
    LET n == Len(entries)
    IN  IF n > 2 /\ entries[n].length = 0 /\ ~entries[n - 1].via
        THEN [Front(entries) EXCEPT ![n - 1].necessary = TRUE, ![n - 1].turn = "NoTurn"]
        ELSE entries

WithoutEmptyStart(entries) ==
    IF Len(entries) > 2 /\ entries[1].length = 0 /\ ~entries[2].via
    THEN [Tail(entries) EXCEPT ![1].necessary = TRUE, ![1].turn = "HeadOn"]
    ELSE entries

\* Up to the generalisation, whose first sweep collects the ranges between
\* necessary entries.
StartRun ==
    /\ descAt = "legs" /\ leg = Len(drive.legs)
    /\ LET all == Lengths(path_description)
           kept == WithoutEmptyStart(WithoutEmptyEnd(all))
           n == Len(kept)
           marked == IF n < 2 THEN kept
                     ELSE [kept EXCEPT ![1].necessary = TRUE, ![n].necessary = TRUE]
           borders == SelectSeq([i \in 1 .. n |-> i], LAMBDA i : marked[i].necessary)
           ranges == [k \in 1 .. Len(borders) - 1 |-> <<borders[k], borders[k + 1]>>]
       IN  /\ path_description' = marked
           /\ ranges_left' = Reverse(ranges)
           /\ entire_length' = FoldLeft(+, 0, [i \in 1 .. Len(all) - 1 |->
                                                 Stretch(all[i].location, all[i + 1].location)])
    /\ descAt' = "generalise"
    /\ UNCHANGED <<drive, via_indices, leg, rows, leave_at_exit>>

\* CoordinatePairCalculator: the distance to the nearer of the borders.
Off(x, left, right) == Min({Stretch(x, left), Stretch(x, right)})

\* One range: its farthest entry, the first of several, is kept if it is beyond
\* the threshold, and splits the range.
Generalise ==
    /\ descAt = "generalise" /\ ranges_left # <<>>
    /\ LET left == Head(ranges_left)[1]
           right == Head(ranges_left)[2]
           at(k) == path_description[k].location
           off(k) == Off(at(k), at(left), at(right))
           inside == left + 1 .. right - 1
           farthest == {k \in inside : /\ \A j \in inside : off(j) <= off(k)
                                       /\ \A j \in inside : j < k => off(j) < off(k)
                                       /\ off(k) > Threshold}
           halves(k) == (IF k + 1 < right THEN <<<<k, right>>>> ELSE <<>>)
                        \o (IF left + 1 < k THEN <<<<left, k>>>> ELSE <<>>)
       IN  IF farthest = {}
           THEN /\ ranges_left' = Tail(ranges_left)
                /\ UNCHANGED path_description
           ELSE \E k \in farthest :
                  /\ path_description' = [path_description EXCEPT ![k].necessary = TRUE]
                  /\ ranges_left' = halves(k) \o Tail(ranges_left)
    /\ UNCHANGED <<descAt, drive, via_indices, entire_length, leg, rows, leave_at_exit>>

Necessary(entries) == SelectSeq(entries, LAMBDA e : e.necessary)

\* A mutation of NecessaryBefore: every entry is counted.
AllBefore(i) == i - 1

\* The running index of the necessary entries.
NecessaryBefore(i) == Len(Necessary(SubSeq(path_description, 1, i - 1)))

\* The via indices, at the end of Run.
IndexVias ==
    /\ descAt = "generalise" /\ ranges_left = <<>>
    /\ LET n == Len(path_description)
           vias == SelectSeq([i \in 1 .. n - 1 |-> i],
                             LAMBDA i : path_description[i].necessary /\ path_description[i].via)
       IN  via_indices' = via_indices \o [k \in DOMAIN vias |-> NecessaryBefore(vias[k])]
                          \o <<NecessaryBefore(n)>>
    /\ descAt' = "instructions"
    /\ UNCHANGED <<drive, path_description, entire_length, ranges_left, leg, rows, leave_at_exit>>

-----------------------------------------------------------------------------
(* BuildTextualDescription.                                                *)

Row(instruction, length, position) ==
    [instruction |-> instruction, length |-> length, position |-> position]

\* The rows, with the number of the exit where a roundabout is left; entering
\* it and staying on it make none.
Instructions ==
    /\ descAt = "instructions"
    /\ LET row(state, i) ==
             LET e == path_description[i]
             IN  CASE e.turn \in {"NoTurn", "EnterRoundAbout"} -> state
                   [] e.turn = "StayOnRoundAbout" -> [state EXCEPT !.exits = @ + 1]
                   [] e.turn = "LeaveRoundAbout" ->
                        [rows |-> Append(state.rows, Row(<<"EnterRoundAbout", state.exits + 1>>,
                                                         e.length, NecessaryBefore(i))),
                         exits |-> 0]
                   [] OTHER -> [state EXCEPT !.rows =
                                  Append(@, Row(<<e.turn, 0>>, e.length, NecessaryBefore(i)))]
           all == FoldLeft(row, [rows |-> <<>>, exits |-> leave_at_exit],
                           [i \in DOMAIN path_description |-> i])
           end == Row(<<"ReachedYourDestination", 0>>, 0, Len(Necessary(path_description)) - 1)
       IN  /\ rows' = Append(all.rows, end)
           /\ leave_at_exit' = all.exits
    /\ descAt' = "described"
    /\ UNCHANGED <<drive, path_description, via_indices, entire_length, ranges_left, leg>>

DescStep ==
    \/ descAt = "idle" /\ \E d \in Itineraries : Describe(d)
    \/ DescribeLeg
    \/ StartRun
    \/ Generalise
    \/ IndexVias
    \/ Instructions

DescSpec == DescInit /\ [][DescStep]_descVars

-----------------------------------------------------------------------------
\* The points of the way, as they were given.
WayPoints == <<drive.start.location>>
       \o FlattenSeq([k \in DOMAIN drive.legs |->
            [i \in DOMAIN drive.legs[k].path |-> drive.legs[k].path[i].location]
            \o <<drive.legs[k].target.location>>])

OnRoundAbout == {"EnterRoundAbout", "StayOnRoundAbout"}

\* After empty pieces were dropped and the line was generalised, what refers to
\* the geometry by index still refers to the right point: it starts and ends
\* where the route does, each via index is the place of that via location, and
\* each instruction is at its own point; the lengths of the instructions, and of
\* the pieces on roundabouts, add up to that of the way; no point that was left
\* out is farther than the threshold from both its neighbours
\* (DescriptionFactory::Run, JSONDescriptor::BuildTextualDescription).
DescriptionFaithful ==
    descAt = "described" =>
      LET geometry == [i \in DOMAIN Necessary(path_description) |->
                         Necessary(path_description)[i].location]
          turns == SelectSeq(path_description, LAMBDA e : e.turn \notin OnRoundAbout \cup {"NoTurn"})
          around == SelectSeq(path_description, LAMBDA e : e.turn \in OnRoundAbout)
          total(s) == FoldLeft(+, 0, [i \in DOMAIN s |-> s[i].length])
      IN  /\ Head(geometry) = Head(WayPoints) /\ Last(geometry) = Last(WayPoints)
          /\ Len(via_indices) = Len(drive.legs) + 1 /\ via_indices[1] = 0
          /\ \A k \in DOMAIN drive.legs : /\ via_indices[k + 1] + 1 \in DOMAIN geometry
                                         /\ geometry[via_indices[k + 1] + 1] = drive.legs[k].target.location
          /\ Len(rows) = Len(turns) + 1
          /\ \A k \in DOMAIN turns : /\ rows[k].position + 1 \in DOMAIN geometry
                                     /\ geometry[rows[k].position + 1] = turns[k].location
          /\ Last(rows).position = Len(geometry) - 1
          /\ total(rows) + total(around) =
               FoldLeft(+, 0, [i \in 1 .. Len(WayPoints) - 1 |-> Stretch(WayPoints[i], WayPoints[i + 1])])
          /\ \A i, j \in DOMAIN path_description :
               i < j /\ path_description[i].necessary /\ path_description[j].necessary
                 /\ (\A k \in i + 1 .. j - 1 : ~path_description[k].necessary) =>
                 \A k \in i + 1 .. j - 1 :
                   Min({Stretch(path_description[k].location, path_description[i].location),
                        Stretch(path_description[k].location, path_description[j].location)}) <= Threshold
=============================================================================
