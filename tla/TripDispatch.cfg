SPECIFICATION FairSpec
CONSTANTS
  TripIds = {1, 2}
  u1 = u1
  u2 = u2
  r1 = r1
  r2 = r2
  Users = {u1}
  Vehicles = {1, 2}
  DriverOf <- MCDriverOf
  MaximumOccupancy <- MCOccupancy
  Profiled = {11}
  StopOrder <- MCOrder
  Bookings <- MCBookings
  ApiStates = {"PassengerCancelled"}
  RideStates <- MCRideStates
  Requests = {r1}
  MaxClock = 2
  EtaDelays = {0}
  MaxCrashes = 1
  NoRow = NoRow
INVARIANTS AssignmentConsistent UnprofiledTripFrozen
PROPERTIES NeverReassigned PendingIsPicked LateIsFlagged
