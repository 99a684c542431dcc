--------------------------- MODULE MCTripDispatch ---------------------------
(* Small instances of TripDispatch.                                         *)
EXTENDS TripDispatch, TLC

CONSTANTS u1, u2, r1, r2

MCOrder == <<1, 2, 3>>

\* One vehicle each for drivers 11 and 12.
MCDriverOf == (1 :> 11) @@ (2 :> 12)
MCOccupancy == (1 :> 2) @@ (2 :> 1)

MCDriverOfOne == 1 :> 11
MCOccupancyOne == 1 :> 2

\* A trip through an intermediate stop, and one whose dropoff does not exist.
MCBookings == {[pickupStop |-> 1, dropoffStop |-> 3, seats |-> 1],
               [pickupStop |-> 1, dropoffStop |-> 9, seats |-> 1]}
MCOneBooking == {[pickupStop |-> 1, dropoffStop |-> 3, seats |-> 1]}

MCRideStates == {"Initial", "FindingVehicle", "VehicleAccepted", "VehicleOnWay",
                 "RideUnderway", "RideCompleted", "PassengerCancelled",
                 "DriverNoShow", "NoAvailableVehicles"}
=============================================================================
