----------------------------- MODULE TripStops -----------------------------
(***************************************************************************)
(* The stop arithmetic of data/models/Trip.scala: which stops of a         *)
(* circular route lie between a pickup and a dropoff, how many seats the   *)
(* occupancy table leaves at each stop, and when a vehicle is available.   *)
(*                                                                         *)
(* A route is a function `order' from its stop ids to their stopOrder.     *)
(***************************************************************************)
EXTENDS Integers, FiniteSets, FiniteSetsExt

\* Trip.getInBetweenStops, as a set of stop ids.
GetInBetweenStops(order, pickup, dropoff) ==
  LET p == order[pickup]
      d == order[dropoff]
  IN  {s \in DOMAIN order :
         \/ p < d /\ order[s] > p /\ order[s] < d
         \/ p > d /\ (order[s] > p \/ order[s] < d)}

\* TripMeta.tripStopIds: the stops at which room is asked for.
TripStopIds(order, pickup, dropoff) ==
  {pickup, dropoff} \cup GetInBetweenStops(order, pickup, dropoff)

\* Trip.buildOccupancyTable.  `rows' maps the ids in `occupied' to trips; the
\* requested seats are subtracted once for every trip that passes the stop.
BuildOccupancyTable(order, rows, occupied, occupancy, seats) ==
  [s \in DOMAIN order |->
     occupancy - MapThenSumSet(LAMBDA t : rows[t].seats + seats,
                   {t \in occupied : s \in GetInBetweenStops(order,
                                       rows[t].pickupStop, rows[t].dropoffStop)})]

\* The filter of Trip.getAvailableVehicles for one entry of the table.
HasRoom(table, stopIds) ==
  /\ DOMAIN table # {}
  /\ \A s \in stopIds : table[s] > 0
=============================================================================
