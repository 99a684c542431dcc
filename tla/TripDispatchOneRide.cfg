SPECIFICATION Spec
CONSTANTS
  TripIds = {1, 2}
  u1 = u1
  u2 = u2
  r1 = r1
  r2 = r2
  Users = {u1}
  Vehicles = {1}
  DriverOf <- MCDriverOfOne
  MaximumOccupancy <- MCOccupancyOne
  Profiled = {11}
  StopOrder <- MCOrder
  Bookings <- MCOneBooking
  ApiStates = {"PassengerCancelled"}
  RideStates <- MCRideStates
  Requests = {r1}
  MaxClock = 0
  EtaDelays = {0}
  MaxCrashes = 0
  NoRow = NoRow
INVARIANT OneRidePerUser
