---------------------------- MODULE TripDispatch ----------------------------
(***************************************************************************)
(* Booking and dispatching of trips: the trips table (data/models/Trip),   *)
(* the HTTP handlers that write it (api/action/Trip), and the dispatch     *)
(* actor (actors/Dispatch) whose round hands every pending trip to a       *)
(* worker of a parallel collection and then flags overdue vehicles.        *)
(*                                                                         *)
(* Every database access of the code runs in a transaction of its own      *)
(* (a nested withTransaction opens an independent session), so each read   *)
(* and each write is a step.  Rows are written whole.                      *)
(***************************************************************************)
EXTENDS TripStops

CONSTANTS
  TripIds,           \* ids the sequence may hand out (bound on bookings)
  Users,
  Vehicles,          \* ids of the vehicles of the route, none is 0
  DriverOf,          \* Vehicle.driverId
  MaximumOccupancy,  \* Vehicle.maximumOccupancy
  Profiled,          \* drivers with a profile row
  StopOrder,         \* the route: stop id -> stopOrder
  Bookings,          \* booking requests: [pickupStop, dropoffStop, seats]
  ApiStates,         \* ride states clients ask for
  RideStates,        \* every value the rideState column may hold
  Requests,          \* HTTP requests that run concurrently
  MaxClock,          \* bound on the clock, in units of ten minutes
  EtaDelays,         \* travel times the routing service may answer
  MaxCrashes,        \* bound on crashes of the server process
  NoRow

NoEta == -1

HaveRideStates == {"VehicleAccepted", "VehicleOnWay", "RideUnderway"}

Drivers == {DriverOf[v] : v \in Vehicles}

Clock == 0 .. MaxClock

Row == [userId : Users, pickupStop : Nat, dropoffStop : Nat, seats : Nat,
        rideState : RideStates, vehicleId : Vehicles \cup {0},
        driverId : Drivers \cup {0}, eta : Int]

ASSUME TripDispatchAssumption ==
  /\ TripIds \subseteq Nat
  /\ Vehicles \subseteq Nat \ {0}
  /\ DriverOf \in [Vehicles -> Nat \ {0}]
  /\ MaximumOccupancy \in [Vehicles -> Nat]
  /\ IsFiniteSet(Vehicles)
  /\ HaveRideStates \cup {"Initial", "FindingVehicle", "NoAvailableVehicles",
                          "DriverNoShow"} \subseteq RideStates
  /\ ApiStates \subseteq RideStates
  /\ \A b \in Bookings :
        b \in [pickupStop : Nat, dropoffStop : Nat, seats : Nat]
  /\ MaxClock \in Nat
  /\ EtaDelays \subseteq Nat
  /\ MaxCrashes \in Nat
  /\ NoRow \notin Row

VARIABLES
  trips,       \* the trips table: id -> row, NoRow before the insert
  req,         \* request -> the handler's local state
  processing,  \* processingStates("rideState") of the actor instance
  phase,       \* which parallel pass the actor is in
  failed,      \* a task of the running pass has thrown
  pc,          \* trip id -> where the task of the pass for that trip is
  trip,        \* trip id -> the Trip object getPending gave the task
  row,         \* trip id -> the Trip object updateState of the task has read
  unchecked,   \* trip id -> vehicles whose availability is still to be read
  avail,       \* trip id -> drivers whose table entry has room
  fleet,       \* trip id -> the active vehicles TripMeta has read
  now,
  crashes

task == <<pc, trip, row, unchecked, avail, fleet>>
env == <<now, crashes>>
dispatcher == <<processing, phase, failed, task>>
vars == <<trips, req, dispatcher, env>>

IdleReq == [op |-> "idle"]

Inserted == {t \in TripIds : trips[t] # NoRow}

Init ==
  /\ trips = [t \in TripIds |-> NoRow]
  /\ req = [r \in Requests |-> IdleReq]
  /\ processing = FALSE
  /\ phase = "idle"
  /\ failed = FALSE
  /\ pc = [t \in TripIds |-> "none"]
  /\ trip = [t \in TripIds |-> NoRow]
  /\ row = [t \in TripIds |-> NoRow]
  /\ unchecked = [t \in TripIds |-> {}]
  /\ avail = [t \in TripIds |-> {}]
  /\ fleet = [t \in TripIds |-> {}]
  /\ now = 0
  /\ crashes = 0

\* Serialising a trip for the Pubnub message asks for the profile of the
\* driver of its vehicle and throws when there is none; inside updateState the
\* exception rolls the update back.
AsMapThrows(t) == t.vehicleId # 0 /\ t.driverId \notin Profiled

-----------------------------------------------------------------------------
(* HTTP handlers                                                            *)

\* BookTrip -> Trip.create, first transaction: getExisting.  A user who has a
\* ride gets AlreadyHaveTripException and nothing changes.  (Bound: an id is left.)
BookCheck(r, u, b) ==
  /\ req[r] = IdleReq
  /\ Inserted # TripIds
  /\ \A t \in Inserted : ~(trips[t].userId = u /\ trips[t].rideState \in HaveRideStates)
  /\ req' = [req EXCEPT ![r] = [op |-> "book", userId |-> u, booking |-> b]]
  /\ UNCHANGED <<trips, dispatcher, env>>

NewTrip(u, b) ==
  [userId |-> u, pickupStop |-> b.pickupStop, dropoffStop |-> b.dropoffStop,
   seats |-> b.seats, rideState |-> "Initial", vehicleId |-> 0, driverId |-> 0,
   eta |-> NoEta]

\* Trip.create, second transaction: the insert.
BookInsert(r, t) ==
  /\ req[r].op = "book"
  /\ trips[t] = NoRow
  /\ \A i \in TripIds : i < t => i \in Inserted
  /\ trips' = [trips EXCEPT ![t] = NewTrip(req[r].userId, req[r].booking)]
  /\ req' = [req EXCEPT ![r] = IdleReq]
  /\ UNCHANGED <<dispatcher, env>>

\* UpdateTripState and UpdateTrip -> Trip.updateState, the read.  The state is
\* not checked against the current one.
UpdateTripRead(r, t, s) ==
  /\ req[r] = IdleReq
  /\ t \in Inserted
  /\ req' = [req EXCEPT ![r] = [op |-> "update", id |-> t, state |-> s, row |-> trips[t]]]
  /\ UNCHANGED <<trips, dispatcher, env>>

\* Mutant: the update is kept although the message could not be built.
UpdateTripWriteNoRollback(r) ==
  /\ req[r].op = "update"
  /\ trips' = [trips EXCEPT ![req[r].id] = [req[r].row EXCEPT !.rideState = req[r].state]]
  /\ req' = [req EXCEPT ![r] = IdleReq]
  /\ UNCHANGED <<dispatcher, env>>

\* Trip.updateState, the write of the whole row, unless serialising it throws.
UpdateTripWrite(r) ==
  /\ req[r].op = "update"
  /\ trips' = IF AsMapThrows(req[r].row) THEN trips
              ELSE [trips EXCEPT ![req[r].id] = [req[r].row EXCEPT !.rideState = req[r].state]]
  /\ req' = [req EXCEPT ![r] = IdleReq]
  /\ UNCHANGED <<dispatcher, env>>

-----------------------------------------------------------------------------
(* The dispatch actor                                                       *)

\* Mutant: getPending without its criterion on the ride state.
IsPendingAlways(t) == t \in Inserted

\* Trip.getPending.
IsPending(t) == t \in Inserted /\ trips[t].rideState = "Initial"

\* CheckRideState is received: the flag goes up and getPending is read.
StartRound ==
  /\ phase = "idle"
  /\ ~processing
  /\ processing' = TRUE
  /\ phase' = "pending"
  /\ pc' = [t \in TripIds |-> IF IsPending(t) THEN "queued" ELSE "none"]
  /\ trip' = [t \in TripIds |-> IF IsPending(t) THEN trips[t] ELSE NoRow]
  /\ UNCHANGED <<trips, req, failed, row, unchecked, avail, fleet, env>>

\* A task ends.
End(t) ==
  /\ pc' = [pc EXCEPT ![t] = "none"]
  /\ trip' = [trip EXCEPT ![t] = NoRow]
  /\ row' = [row EXCEPT ![t] = NoRow]
  /\ avail' = [avail EXCEPT ![t] = {}]
  /\ fleet' = [fleet EXCEPT ![t] = {}]
  /\ UNCHANGED unchecked

\* A task throws: it ends, and the pass will rethrow once all tasks ended.
Throw(t) == End(t) /\ failed' = TRUE

\* A task not started when another one threw may be abandoned.
Abandon(t) ==
  /\ failed
  /\ pc[t] \in {"queued", "late"}
  /\ End(t)
  /\ UNCHANGED <<trips, req, processing, phase, failed, env>>

\* updateState of a task, the read: before the search, when it found no
\* vehicle, and in the overdue pass.
WriteOf == [queued |-> "mark", nobody |-> "giveUp", late |-> "noShow"]

TaskRead(t) ==
  /\ pc[t] \in DOMAIN WriteOf
  /\ pc' = [pc EXCEPT ![t] = WriteOf[pc[t]]]
  /\ row' = [row EXCEPT ![t] = trips[t]]
  /\ UNCHANGED <<trips, req, processing, phase, failed, trip, unchecked, avail, fleet, env>>

StateOf == [mark |-> "FindingVehicle", giveUp |-> "NoAvailableVehicles",
            noShow |-> "DriverNoShow"]

\* updateState of a task, the write; the search goes on after the first one.
TaskWrite(t) ==
  /\ pc[t] \in DOMAIN StateOf
  /\ ~AsMapThrows(row[t])
  /\ trips' = [trips EXCEPT ![t] = [row[t] EXCEPT !.rideState = StateOf[pc[t]]]]
  /\ IF pc[t] = "mark"
     THEN /\ pc' = [pc EXCEPT ![t] = "meta"]
          /\ row' = [row EXCEPT ![t] = NoRow]
          /\ UNCHANGED <<trip, unchecked, avail, fleet>>
     ELSE End(t)
  /\ UNCHANGED <<req, processing, phase, failed, env>>

TaskWriteThrows(t) ==
  /\ pc[t] \in DOMAIN StateOf
  /\ AsMapThrows(row[t])
  /\ Throw(t)
  /\ UNCHANGED <<trips, req, processing, phase, env>>

\* TripMeta: the stops of the trip must exist.
StopsExist(t) == {t.pickupStop, t.dropoffStop} \subseteq DOMAIN StopOrder

\* The active column of the vehicles is edited from outside and read only
\* here: the active vehicles are any set.
TaskMeta(t, active) ==
  /\ pc[t] = "meta"
  /\ StopsExist(trip[t])
  /\ pc' = [pc EXCEPT ![t] = "check"]
  /\ fleet' = [fleet EXCEPT ![t] = active]
  /\ unchecked' = [unchecked EXCEPT ![t] = active]
  /\ UNCHANGED <<trips, req, processing, phase, failed, trip, row, avail, env>>

TaskMetaThrows(t) ==
  /\ pc[t] = "meta"
  /\ ~StopsExist(trip[t])
  /\ Throw(t)
  /\ UNCHANGED <<trips, req, processing, phase, env>>

\* Trip.getOccupiedTripsByVehicle.  Their stops are on the route: TaskMeta let
\* only such trips through.
OccupiedTrips(v) ==
  {t \in Inserted : trips[t].vehicleId = v /\ trips[t].rideState \in HaveRideStates}

\* Trip.getVehicleAvailability of one vehicle for the trip of a task.
VehicleHasRoom(v, t) ==
  HasRoom(BuildOccupancyTable(StopOrder, trips, OccupiedTrips(v), MaximumOccupancy[v], t.seats),
          TripStopIds(StopOrder, t.pickupStop, t.dropoffStop))

\* One entry of the availability table.  The table is keyed by driver, so the
\* entry of a later vehicle of the same driver replaces the earlier one.
TaskCheck(t, v) ==
  /\ pc[t] = "check"
  /\ v \in unchecked[t]
  /\ unchecked' = [unchecked EXCEPT ![t] = @ \ {v}]
  /\ avail' = [avail EXCEPT ![t] = IF VehicleHasRoom(v, trip[t]) THEN @ \cup {DriverOf[v]}
                                   ELSE @ \ {DriverOf[v]}]
  /\ UNCHANGED <<trips, req, processing, phase, failed, pc, trip, row, fleet, env>>

AvailableVehicles(t) == {v \in fleet[t] : DriverOf[v] \in avail[t]}

\* getAvailableVehicles finds no vehicle: the trip will be given up.
TaskNobody(t) ==
  /\ pc[t] = "check"
  /\ unchecked[t] = {}
  /\ AvailableVehicles(t) = {}
  /\ pc' = [pc EXCEPT ![t] = "nobody"]
  /\ UNCHANGED <<trips, req, processing, phase, failed, trip, row, unchecked, avail, fleet, env>>

\* getBestVehicle of a single available vehicle: it is assigned, in memory.
TaskAssign(t, v) ==
  /\ pc[t] = "check"
  /\ unchecked[t] = {}
  /\ AvailableVehicles(t) = {v}
  /\ pc' = [pc EXCEPT ![t] = "eta"]
  /\ trip' = [trip EXCEPT ![t] = [@ EXCEPT !.driverId = DriverOf[v], !.vehicleId = v,
                                           !.rideState = "VehicleAccepted"]]
  /\ avail' = [avail EXCEPT ![t] = {}]
  /\ UNCHANGED <<trips, req, processing, phase, failed, row, unchecked, fleet, env>>

\* getBestVehicle of several: nothing is assigned, and getInitialTripEtaAndRoute
\* stops a trip that is not VehicleAccepted.
TaskSeveral(t) ==
  /\ pc[t] = "check"
  /\ unchecked[t] = {}
  /\ \E v, w \in AvailableVehicles(t) : v # w
  /\ End(t)
  /\ UNCHANGED <<trips, req, processing, phase, failed, env>>

\* getInitialTripEtaAndRoute: the driver's position and the routing service.
TaskEta(t, d) ==
  /\ pc[t] = "eta"
  /\ pc' = [pc EXCEPT ![t] = "save"]
  /\ trip' = [trip EXCEPT ![t] = [@ EXCEPT !.eta = now + d]]
  /\ UNCHANGED <<trips, req, processing, phase, failed, row, unchecked, avail, fleet, env>>

\* No position, or the routing service fails or times out.
TaskEtaThrows(t) ==
  /\ pc[t] = "eta"
  /\ Throw(t)
  /\ UNCHANGED <<trips, req, processing, phase, env>>

\* Mutant: the eta of the search is not among the columns written.
TaskSaveNoEta(t) ==
  /\ pc[t] = "save"
  /\ trips' = [trips EXCEPT ![t] = [trip[t] EXCEPT !.eta = trips[t].eta]]
  /\ failed' = (failed \/ AsMapThrows(trip[t]))
  /\ End(t)
  /\ UNCHANGED <<req, processing, phase, env>>

\* saveTrip: the upsert commits in its own transaction before the message is
\* serialised, so the row stays when that throws.
TaskSave(t) ==
  /\ pc[t] = "save"
  /\ trips' = [trips EXCEPT ![t] = trip[t]]
  /\ failed' = (failed \/ AsMapThrows(trip[t]))
  /\ End(t)
  /\ UNCHANGED <<req, processing, phase, env>>

PassDone == \A t \in TripIds : pc[t] = "none"

\* getVehicleOverdue: accepted, and the eta passed more than ten minutes ago.
IsOverdue(t) == t # NoRow /\ t.rideState = "VehicleAccepted" /\ t.eta # NoEta /\ t.eta + 1 < now

\* Mutant: the comparison of the eta with ten minutes ago is turned round.
StartOverdueFlipped ==
  /\ phase = "pending"
  /\ PassDone
  /\ ~failed
  /\ phase' = "overdue"
  /\ pc' = [t \in TripIds |->
        IF t \in Inserted /\ trips[t].rideState = "VehicleAccepted" /\ trips[t].eta + 1 > now
        THEN "late" ELSE "none"]
  /\ UNCHANGED <<trips, req, processing, failed, trip, row, unchecked, avail, fleet, env>>

StartOverdue ==
  /\ phase = "pending"
  /\ PassDone
  /\ ~failed
  /\ phase' = "overdue"
  /\ pc' = [t \in TripIds |-> IF IsOverdue(trips[t]) THEN "late" ELSE "none"]
  /\ UNCHANGED <<trips, req, processing, failed, trip, row, unchecked, avail, fleet, env>>

\* Both passes ended: the flag goes down.
EndRound ==
  /\ phase = "overdue"
  /\ PassDone
  /\ ~failed
  /\ phase' = "idle"
  /\ processing' = ~processing
  /\ UNCHANGED <<trips, req, failed, task, env>>

\* Mutant: the supervisor resumes the failed instance instead of replacing it.
RestartResumed ==
  /\ phase # "idle"
  /\ PassDone
  /\ failed
  /\ phase' = "idle"
  /\ failed' = FALSE
  /\ UNCHANGED <<trips, req, processing, task, env>>

\* A pass rethrows out of receive; the supervisor replaces the actor instance.
Restart ==
  /\ phase # "idle"
  /\ PassDone
  /\ failed
  /\ phase' = "idle"
  /\ processing' = FALSE
  /\ failed' = FALSE
  /\ UNCHANGED <<trips, req, task, env>>

-----------------------------------------------------------------------------
(* Environment                                                              *)

Tick ==
  /\ now < MaxClock
  /\ now' = now + 1
  /\ UNCHANGED <<trips, req, dispatcher, crashes>>

\* The server process dies and is started again: only the table survives.
Crash ==
  /\ crashes < MaxCrashes
  /\ crashes' = crashes + 1
  /\ req' = [r \in Requests |-> IdleReq]
  /\ processing' = FALSE
  /\ phase' = "idle"
  /\ failed' = FALSE
  /\ pc' = [t \in TripIds |-> "none"]
  /\ trip' = [t \in TripIds |-> NoRow]
  /\ row' = [t \in TripIds |-> NoRow]
  /\ unchecked' = [t \in TripIds |-> {}]
  /\ avail' = [t \in TripIds |-> {}]
  /\ fleet' = [t \in TripIds |-> {}]
  /\ UNCHANGED <<trips, now>>

Task(t) ==
  \/ TaskRead(t) \/ TaskWrite(t) \/ TaskWriteThrows(t)
  \/ \E active \in SUBSET Vehicles : TaskMeta(t, active)
  \/ TaskMetaThrows(t)
  \/ \E v \in Vehicles : TaskCheck(t, v) \/ TaskAssign(t, v)
  \/ TaskNobody(t) \/ TaskSeveral(t)
  \/ \E d \in EtaDelays : TaskEta(t, d)
  \/ TaskEtaThrows(t) \/ TaskSave(t)

Handler(r) ==
  \/ \E u \in Users, b \in Bookings : BookCheck(r, u, b)
  \/ \E t \in TripIds : BookInsert(r, t)
  \/ \E t \in TripIds, s \in ApiStates : UpdateTripRead(r, t, s)
  \/ UpdateTripWrite(r)

Next ==
  \/ \E r \in Requests : Handler(r)
  \/ StartRound
  \/ \E t \in TripIds : Task(t) \/ Abandon(t)
  \/ StartOverdue \/ EndRound \/ Restart
  \/ Tick \/ Crash

Spec == Init /\ [][Next]_vars

\* The scheduler keeps sending CheckRideState, every task runs to its end and
\* time passes; clients owe nothing.
Fairness ==
  /\ WF_vars(StartRound \/ StartOverdue \/ EndRound \/ Restart)
  /\ \A t \in TripIds : WF_vars(Task(t))
  /\ WF_vars(Tick)

FairSpec == Spec /\ Fairness
-----------------------------------------------------------------------------
(* Properties                                                               *)

TaskPcs == {"none", "queued", "mark", "meta", "check", "nobody", "giveUp",
            "eta", "save", "late", "noShow"}

ReqType ==
  [op : {"idle"}]
    \cup [op : {"book"}, userId : Users, booking : Bookings]
    \cup [op : {"update"}, id : TripIds, state : ApiStates, row : Row]

\* Every variable holds a value of the type the code gives it: ids are those
\* of the right table, states are ride states.
TypeOK ==
  /\ trips \in [TripIds -> Row \cup {NoRow}]
  /\ req \in [Requests -> ReqType]
  /\ processing \in BOOLEAN
  /\ phase \in {"idle", "pending", "overdue"}
  /\ failed \in BOOLEAN
  /\ pc \in [TripIds -> TaskPcs]
  /\ trip \in [TripIds -> Row \cup {NoRow}]
  /\ row \in [TripIds -> Row \cup {NoRow}]
  /\ unchecked \in [TripIds -> SUBSET Vehicles]
  /\ avail \in [TripIds -> SUBSET Drivers]
  /\ fleet \in [TripIds -> SUBSET Vehicles]
  /\ now \in Clock
  /\ crashes \in 0 .. MaxCrashes

\* The vehicle, driver and eta of a row belong to one assignment.
Consistent(t) ==
  /\ t.vehicleId = 0 <=> t.driverId = 0
  /\ t.vehicleId = 0 <=> t.eta = NoEta
  /\ t.vehicleId # 0 => t.driverId = DriverOf[t.vehicleId]

\* However the whole-row writes of requests and of dispatch tasks overtake one
\* another, a stored trip never mixes two assignments: it has a driver and an
\* eta exactly when it has a vehicle, and the driver is that vehicle's.
AssignmentConsistent == \A t \in Inserted : Consistent(trips[t])

\* A trip assigned to a driver without a profile is frozen: updateState rolls
\* back on every such row, so the row can only ever be in VehicleAccepted, the
\* state saveTrip committed before its message failed.
UnprofiledTripFrozen ==
  \A t \in Inserted : AsMapThrows(trips[t]) => trips[t].rideState = "VehicleAccepted"

\* Unless clients put a trip back to Initial, a trip that has a vehicle is
\* never handed to another one: the only other outcome is that a request
\* that read the row earlier writes it back without a vehicle.
NeverReassigned ==
  [][ "Initial" \notin ApiStates =>
        \A t \in Inserted : trips[t].vehicleId # 0 =>
           trips'[t].vehicleId \in {trips[t].vehicleId, 0} ]_vars

\* The flag that guards CheckRideState is up exactly during a round, also after
\* a round that threw or a crash: no message is ever dropped because an
\* earlier round left the flag up.
FlagFollowsRound == processing <=> phase # "idle"

\* A booked trip does not stay Initial: some round picks it, whatever other
\* tasks throw and wherever the process crashes.
PendingIsPicked ==
  \A t \in TripIds :
    (trips[t] # NoRow /\ trips[t].rideState = "Initial")
      ~> (trips[t] # NoRow /\ trips[t].rideState # "Initial")

\* An overdue trip that can never be flagged: updateState throws and rolls back
\* in every pass.
Stuck(t) == IsOverdue(t) /\ AsMapThrows(t)

\* A trip whose accepted vehicle is overdue leaves VehicleAccepted, whatever the
\* pending passes throw, unless some overdue trip has a driver without a
\* profile.  Such a trip throws in every overdue pass, so it stays overdue, and
\* the pass may abandon the other overdue trips for ever.
LateIsFlagged ==
  \A t \in TripIds :
    IsOverdue(trips[t]) ~> (~IsOverdue(trips[t]) \/ \E u \in TripIds : Stuck(trips[u]))

\* What AlreadyHaveTripException ("Already have ride") stands for: no user holds
\* two rides.
OneRidePerUser ==
  \A t, u \in Inserted :
    /\ trips[t].rideState \in HaveRideStates
    /\ trips[u].rideState \in HaveRideStates
    /\ trips[t].userId = trips[u].userId
    => t = u

=============================================================================
