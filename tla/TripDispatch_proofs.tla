------------------------ MODULE TripDispatch_proofs ------------------------
(* Proofs about TripDispatch for every number of trips, users, requests,    *)
(* vehicles and every route.                                                *)
EXTENDS TripDispatch, TLAPS

\* The steps at which a task holds the trip it got from getPending, as read.
SearchPcs == {"queued", "mark", "meta", "check", "nobody", "giveUp"}

\* What the local copies of a task may hold.
TaskInv(t) ==
  /\ pc[t] # "none" => trips[t] \in Row
  /\ pc[t] \in SearchPcs => trip[t] \in Row /\ Consistent(trip[t])
  /\ pc[t] \in {"eta", "save"} =>
       /\ trip[t] \in Row
       /\ trip[t].vehicleId # 0
       /\ trip[t].driverId = DriverOf[trip[t].vehicleId]
       /\ trip[t].rideState = "VehicleAccepted"
  /\ pc[t] = "save" => trip[t].eta # NoEta
  /\ pc[t] \in {"mark", "giveUp", "noShow"} => row[t] \in Row /\ Consistent(row[t])

\* What a request that is about to write holds.
ReqInv(r) ==
  req[r].op = "update" => /\ Consistent(req[r].row)
                          /\ trips[req[r].id] \in Row

\* A stored row is consistent, and frozen when its driver has no profile.
RowInv(t) ==
  trips[t] # NoRow =>
    /\ Consistent(trips[t])
    /\ AsMapThrows(trips[t]) => trips[t].rideState = "VehicleAccepted"

IInv ==
  /\ TypeOK
  /\ \A t \in TripIds : TaskInv(t) /\ RowInv(t)
  /\ \A r \in Requests : ReqInv(r)
  /\ FlagFollowsRound

USE TripDispatchAssumption DEF env

(* Before the first request there are no trips and no tasks.               *)
LEMMA InitIInv == Init => IInv
<1> SUFFICES ASSUME Init PROVE IInv
  BY Zenon
<1>1. TypeOK
  <2>1. IdleReq \in ReqType
    BY Zenon DEF IdleReq, ReqType
  <2>2. 0 \in Clock /\ 0 \in 0 .. MaxCrashes
    BY DEF Clock
  <2>3. "none" \in TaskPcs
    BY Zenon DEF TaskPcs
  <2> QED BY <2>1, <2>2, <2>3, Zenon DEF Init, TypeOK
<1>2. \A t \in TripIds : TaskInv(t) /\ RowInv(t)
  BY Zenon DEF Init, TaskInv, RowInv, SearchPcs
<1>3. \A r \in Requests : ReqInv(r)
  BY Zenon DEF Init, ReqInv, IdleReq
<1>4. FlagFollowsRound
  BY Zenon DEF Init, FlagFollowsRound
<1> QED BY <1>1, <1>2, <1>3, <1>4, Zenon DEF IInv

(* The HTTP handlers.                                                      *)
LEMMA RequestsKeepIInv ==
  ASSUME IInv, NEW r \in Requests, Handler(r) PROVE IInv'
<1> USE DEF IInv
<1>1. ASSUME NEW u \in Users, NEW b \in Bookings, BookCheck(r, u, b) PROVE IInv'
  <2>1. TypeOK'
    BY <1>1, Zenon DEF BookCheck, TypeOK, ReqType, dispatcher, task
  <2>2. (\A t \in TripIds : TaskInv(t) /\ RowInv(t))'
    BY <1>1, Zenon DEF BookCheck, dispatcher, task, TaskInv, RowInv
  <2>3. (\A q \in Requests : ReqInv(q))'
    BY <1>1, Zenon DEF BookCheck, ReqInv, TypeOK
  <2> QED BY <1>1, <2>1, <2>2, <2>3, Zenon DEF BookCheck, FlagFollowsRound, dispatcher
<1>2. ASSUME NEW t \in TripIds, BookInsert(r, t) PROVE IInv'
  <2>0. /\ req[r].userId \in Users
        /\ req[r].booking \in Bookings
        /\ trips[t] = NoRow
    BY <1>2, Zenon DEF BookInsert, TypeOK, ReqType
  <2>1. NewTrip(req[r].userId, req[r].booking) \in Row
    BY <2>0 DEF NewTrip, Row, NoEta
  <2>2. TypeOK'
    BY <1>2, <2>1, Zenon DEF BookInsert, TypeOK, ReqType, IdleReq, dispatcher, task
  <2>3. (\A s \in TripIds : TaskInv(s) /\ RowInv(s))'
    BY <1>2, <2>1 DEF BookInsert, dispatcher, task, TaskInv, RowInv, TypeOK, NewTrip,
       Consistent, AsMapThrows, NoEta
  <2>4. (\A q \in Requests : ReqInv(q))'
    BY <1>2, <2>1, Zenon DEF BookInsert, ReqInv, TypeOK, IdleReq, ReqType
  <2> QED BY <1>2, <2>2, <2>3, <2>4, Zenon DEF BookInsert, FlagFollowsRound, dispatcher
<1>3. ASSUME NEW t \in TripIds, NEW s \in ApiStates, UpdateTripRead(r, t, s) PROVE IInv'
  <2>0. trips[t] \in Row /\ Consistent(trips[t])
    BY <1>3, Zenon DEF UpdateTripRead, Inserted, TypeOK, RowInv
  <2>1. TypeOK'
    BY <1>3, <2>0, Zenon DEF UpdateTripRead, TypeOK, ReqType, dispatcher, task
  <2>2. (\A i \in TripIds : TaskInv(i) /\ RowInv(i))'
    BY <1>3, Zenon DEF UpdateTripRead, dispatcher, task, TaskInv, RowInv
  <2>3. (\A q \in Requests : ReqInv(q))'
    BY <1>3, <2>0, Zenon DEF UpdateTripRead, ReqInv, TypeOK
  <2> QED BY <1>3, <2>1, <2>2, <2>3, Zenon DEF UpdateTripRead, FlagFollowsRound, dispatcher
<1>4. ASSUME UpdateTripWrite(r) PROVE IInv'
  <2> DEFINE i == req[r].id
             new == [req[r].row EXCEPT !.rideState = req[r].state]
  <2>0. /\ i \in TripIds
        /\ req[r].row \in Row
        /\ req[r].state \in ApiStates
        /\ Consistent(req[r].row)
        /\ trips[i] \in Row
    BY <1>4, Zenon DEF UpdateTripWrite, TypeOK, ReqType, ReqInv
  <2>1. /\ new \in Row
        /\ Consistent(new)
        /\ AsMapThrows(new) <=> AsMapThrows(req[r].row)
    BY <2>0, Zenon DEF Row, Consistent, AsMapThrows
  <2>2. trips' = trips \/ (~AsMapThrows(new) /\ trips' = [trips EXCEPT ![i] = new])
    BY <1>4, <2>1, Zenon DEF UpdateTripWrite
  <2> HIDE DEF new, i
  <2>3. TypeOK'
    BY <1>4, <2>0, <2>1, <2>2 DEF UpdateTripWrite, TypeOK, ReqType, IdleReq, dispatcher, task
  <2>4. (\A j \in TripIds : TaskInv(j) /\ RowInv(j))'
    BY <1>4, <2>0, <2>1, <2>2 DEF UpdateTripWrite, dispatcher, task, TaskInv, RowInv, TypeOK
  <2>5. (\A q \in Requests : ReqInv(q))'
    BY <1>4, <2>0, <2>1, <2>2, Zenon DEF UpdateTripWrite, ReqInv, TypeOK, IdleReq, ReqType
  <2> QED BY <1>4, <2>3, <2>4, <2>5, Zenon DEF UpdateTripWrite, FlagFollowsRound, dispatcher
<1> QED BY <1>1, <1>2, <1>3, <1>4, Zenon DEF Handler

\* A task that ends leaves the copies of the others alone; the table, if it
\* changed, got a good row for the task's own trip.
LEMMA EndKeepsIInv ==
  ASSUME IInv, NEW t \in TripIds, End(t),
         \/ trips' = trips
         \/ \E x \in Row : /\ trips' = [trips EXCEPT ![t] = x]
                           /\ Consistent(x)
                           /\ AsMapThrows(x) => x.rideState = "VehicleAccepted",
         failed' \in BOOLEAN,
         UNCHANGED <<req, processing, phase, env>>
  PROVE  IInv'
<1> USE DEF IInv
<1>1. TypeOK'
  BY DEF End, TypeOK, TaskPcs
<1>2. (\A i \in TripIds : TaskInv(i) /\ RowInv(i))'
  <2> SUFFICES ASSUME NEW i \in TripIds PROVE TaskInv(i)' /\ RowInv(i)'
    BY Zenon
  <2>1. TaskInv(i)'
    BY Zenon DEF End, TaskInv, TypeOK, SearchPcs
  <2>2. RowInv(i)'
    BY DEF RowInv, TypeOK, AsMapThrows, Consistent
  <2> QED BY <2>1, <2>2, Zenon
<1>3. (\A r \in Requests : ReqInv(r))'
  BY Zenon DEF ReqInv, TypeOK, ReqType
<1>4. FlagFollowsRound'
  BY Zenon DEF FlagFollowsRound
<1> QED BY <1>1, <1>2, <1>3, <1>4, Zenon

(* The tasks of a round.                                                   *)
LEMMA TasksKeepIInv ==
  ASSUME IInv, NEW t \in TripIds, Task(t) \/ Abandon(t) PROVE IInv'
<1> USE DEF IInv
<1>1. CASE TaskRead(t)
  <2>1. trips[t] \in Row /\ Consistent(trips[t])
    BY <1>1, Zenon DEF TaskRead, TaskInv, RowInv, WriteOf
  <2>2. TypeOK'
    BY <1>1, <2>1 DEF TaskRead, TypeOK, TaskPcs, WriteOf
  <2>3. (\A i \in TripIds : TaskInv(i) /\ RowInv(i))'
    BY <1>1, <2>1 DEF TaskRead, TaskInv, RowInv, TypeOK, WriteOf, SearchPcs
  <2> QED BY <1>1, <2>2, <2>3, Zenon DEF TaskRead, FlagFollowsRound, ReqInv
<1>2. CASE TaskWrite(t)
  <2> DEFINE new == [row[t] EXCEPT !.rideState = StateOf[pc[t]]]
  <2>1. row[t] \in Row /\ Consistent(row[t]) /\ ~AsMapThrows(row[t])
    BY <1>2, Zenon DEF TaskWrite, TaskInv, StateOf
  <2>2. StateOf[pc[t]] \in RideStates
    BY <1>2 DEF TaskWrite, StateOf
  <2>3. new \in Row /\ Consistent(new) /\ ~AsMapThrows(new)
    BY <2>1, <2>2, Zenon DEF Row, Consistent, AsMapThrows
  <2>4. trips' = [trips EXCEPT ![t] = new]
    BY <1>2, Zenon DEF TaskWrite
  <2> HIDE DEF new
  <2>5. CASE pc[t] = "mark"
    <3>1. TypeOK'
      BY <1>2, <2>3, <2>4, <2>5 DEF TaskWrite, TypeOK, TaskPcs
    <3>2. (\A i \in TripIds : TaskInv(i) /\ RowInv(i))'
      BY <1>2, <2>3, <2>4, <2>5 DEF TaskWrite, TaskInv, RowInv, TypeOK, SearchPcs
    <3>3. (\A r \in Requests : ReqInv(r))'
      BY <1>2, <2>3, <2>4 DEF TaskWrite, ReqInv, TypeOK
    <3> QED BY <1>2, <3>1, <3>2, <3>3, Zenon DEF TaskWrite, FlagFollowsRound
  <2>6. CASE pc[t] # "mark"
    BY <1>2, <2>3, <2>4, <2>6, EndKeepsIInv, Zenon DEF TaskWrite, TypeOK
  <2> QED BY <2>5, <2>6, Zenon
<1>3. CASE TaskWriteThrows(t)
  BY <1>3, EndKeepsIInv, Zenon DEF TaskWriteThrows, Throw
<1>4. ASSUME NEW active \in SUBSET Vehicles, TaskMeta(t, active) PROVE IInv'
  <2>1. TypeOK'
    BY <1>4, Zenon DEF TaskMeta, TypeOK, TaskPcs
  <2>2. (\A i \in TripIds : TaskInv(i) /\ RowInv(i))'
    BY <1>4 DEF TaskMeta, TaskInv, RowInv, TypeOK, SearchPcs
  <2> QED BY <1>4, <2>1, <2>2, Zenon DEF TaskMeta, FlagFollowsRound, ReqInv
<1>5. CASE TaskMetaThrows(t)
  BY <1>5, EndKeepsIInv, Zenon DEF TaskMetaThrows, Throw
<1>6. ASSUME NEW v \in Vehicles, TaskCheck(t, v) PROVE IInv'
  <2>1. DriverOf[v] \in Drivers
    BY Zenon DEF Drivers
  <2>2. TypeOK'
    BY <1>6, <2>1, Zenon DEF TaskCheck, TypeOK
  <2>3. (\A i \in TripIds : TaskInv(i) /\ RowInv(i))'
    BY <1>6, Zenon DEF TaskCheck, TaskInv, RowInv
  <2> QED BY <1>6, <2>2, <2>3, Zenon DEF TaskCheck, FlagFollowsRound, ReqInv
<1>7. ASSUME NEW v \in Vehicles, TaskAssign(t, v) PROVE IInv'
  <2> DEFINE new == [trip[t] EXCEPT !.driverId = DriverOf[v], !.vehicleId = v,
                                    !.rideState = "VehicleAccepted"]
  <2>1. trip[t] \in Row
    BY <1>7, Zenon DEF TaskAssign, TaskInv, SearchPcs
  <2>2. DriverOf[v] \in Drivers
    BY DEF Drivers
  <2>3. /\ new \in Row
        /\ new.vehicleId = v /\ new.driverId = DriverOf[v]
        /\ new.rideState = "VehicleAccepted"
    BY <2>1, <2>2, Zenon DEF Row, HaveRideStates
  <2>4. trip' = [trip EXCEPT ![t] = new]
    BY <1>7, Zenon DEF TaskAssign
  <2> HIDE DEF new
  <2>5. TypeOK'
    BY <1>7, <2>3, <2>4 DEF TaskAssign, TypeOK, TaskPcs
  <2>6. (\A i \in TripIds : TaskInv(i) /\ RowInv(i))'
    BY <1>7, <2>3, <2>4 DEF TaskAssign, TaskInv, RowInv, TypeOK, SearchPcs
  <2> QED BY <1>7, <2>5, <2>6, Zenon DEF TaskAssign, FlagFollowsRound, ReqInv
<1>8. CASE TaskNobody(t)
  <2>1. TypeOK'
    BY <1>8, Zenon DEF TaskNobody, TypeOK, TaskPcs
  <2>2. (\A i \in TripIds : TaskInv(i) /\ RowInv(i))'
    BY <1>8, Zenon DEF TaskNobody, TaskInv, RowInv, TypeOK, SearchPcs
  <2> QED BY <1>8, <2>1, <2>2, Zenon DEF TaskNobody, FlagFollowsRound, ReqInv
<1>9. CASE TaskSeveral(t)
  BY <1>9, EndKeepsIInv, Zenon DEF TaskSeveral, TypeOK
<1>10. ASSUME NEW d \in EtaDelays, TaskEta(t, d) PROVE IInv'
  <2> DEFINE new == [trip[t] EXCEPT !.eta = now + d]
  <2>1. /\ trip[t] \in Row
        /\ trip[t].vehicleId # 0
        /\ trip[t].driverId = DriverOf[trip[t].vehicleId]
        /\ trip[t].rideState = "VehicleAccepted"
    BY <1>10, Zenon DEF TaskEta, TaskInv
  <2>2. now + d \in Nat
    BY DEF TypeOK, Clock
  <2>3. /\ new \in Row
        /\ new.vehicleId = trip[t].vehicleId /\ new.driverId = trip[t].driverId
        /\ new.rideState = "VehicleAccepted" /\ new.eta # NoEta
    BY <2>1, <2>2 DEF Row, NoEta
  <2>4. trip' = [trip EXCEPT ![t] = new]
    BY <1>10, Zenon DEF TaskEta
  <2> HIDE DEF new
  <2>5. TypeOK'
    BY <1>10, <2>3, <2>4 DEF TaskEta, TypeOK, TaskPcs
  <2>6. (\A i \in TripIds : TaskInv(i) /\ RowInv(i))'
    <3> SUFFICES ASSUME NEW i \in TripIds PROVE TaskInv(i)' /\ RowInv(i)'
      BY Zenon
    <3>1. RowInv(i)'
      BY <1>10, Zenon DEF TaskEta, RowInv
    <3>2. CASE i # t
      BY <1>10, <2>4, <3>1, <3>2, Zenon DEF TaskEta, TaskInv, TypeOK
    <3>3. CASE i = t
      <4>1. trip'[t] = new /\ pc'[t] = "save" /\ trips'[t] = trips[t]
        BY <1>10, <2>4, Zenon DEF TaskEta, TypeOK
      <4>2. trips[t] \in Row
        BY <1>10, Zenon DEF TaskEta, TaskInv
      <4> QED BY <2>1, <2>3, <3>1, <3>3, <4>1, <4>2, Zenon DEF TaskInv, SearchPcs
    <3> QED BY <3>2, <3>3, Zenon
  <2> QED BY <1>10, <2>5, <2>6, Zenon DEF TaskEta, FlagFollowsRound, ReqInv
<1>11. CASE TaskEtaThrows(t)
  BY <1>11, EndKeepsIInv, Zenon DEF TaskEtaThrows, Throw
<1>12. CASE TaskSave(t)
  <2>1. /\ trip[t] \in Row
        /\ Consistent(trip[t])
        /\ trip[t].rideState = "VehicleAccepted"
    <3>1. /\ trip[t] \in Row /\ trip[t].vehicleId # 0 /\ trip[t].eta # NoEta
          /\ trip[t].driverId = DriverOf[trip[t].vehicleId]
          /\ trip[t].rideState = "VehicleAccepted"
      BY <1>12, Zenon DEF TaskSave, TaskInv
    <3>2. trip[t].vehicleId \in Vehicles
      BY <3>1, Zenon DEF Row
    <3> QED BY <3>1, <3>2, Zenon DEF Consistent
  <2>2. failed' \in BOOLEAN
    BY <1>12, Zenon DEF TaskSave, TypeOK
  <2> QED BY <1>12, <2>1, <2>2, EndKeepsIInv, Zenon DEF TaskSave
<1>13. CASE Abandon(t)
  BY <1>13, EndKeepsIInv, Zenon DEF Abandon, TypeOK
<1> QED BY <1>1, <1>2, <1>3, <1>4, <1>5, <1>6, <1>7, <1>8, <1>9, <1>10, <1>11, <1>12, <1>13, Zenon DEF Task

(* Rounds, the clock, restarts and crashes.                               *)
LEMMA RoundsKeepIInv ==
  ASSUME IInv, StartRound \/ StartOverdue \/ EndRound \/ Restart \/ Tick \/ Crash
  PROVE  IInv'
<1> USE DEF IInv
<1>1. CASE StartRound
  <2>1. TypeOK'
    BY <1>1, Zenon DEF StartRound, TypeOK, TaskPcs
  <2>2. (\A i \in TripIds : TaskInv(i) /\ RowInv(i))'
    BY <1>1 DEF StartRound, TaskInv, RowInv, TypeOK, SearchPcs, IsPending, Inserted
  <2> QED BY <1>1, <2>1, <2>2, Zenon DEF StartRound, FlagFollowsRound, ReqInv
<1>2. CASE StartOverdue
  <2>1. TypeOK'
    BY <1>2, Zenon DEF StartOverdue, TypeOK, TaskPcs
  <2>2. (\A i \in TripIds : TaskInv(i) /\ RowInv(i))'
    BY <1>2, Zenon DEF StartOverdue, TaskInv, RowInv, TypeOK, SearchPcs, IsOverdue
  <2> QED BY <1>2, <2>1, <2>2, Zenon DEF StartOverdue, FlagFollowsRound, ReqInv
<1>3. CASE EndRound \/ Restart
  <2>1. TypeOK'
    BY <1>3, Zenon DEF EndRound, Restart, TypeOK, task
  <2>2. (\A i \in TripIds : TaskInv(i) /\ RowInv(i))'
    BY <1>3, Zenon DEF EndRound, Restart, TaskInv, RowInv, task
  <2>3. FlagFollowsRound'
    BY <1>3, Zenon DEF EndRound, Restart, FlagFollowsRound, TypeOK
  <2> QED BY <1>3, <2>1, <2>2, <2>3, Zenon DEF EndRound, Restart, ReqInv
<1>4. CASE Tick
  <2>1. TypeOK'
    BY <1>4 DEF Tick, TypeOK, Clock, dispatcher, task
  <2> QED BY <1>4, <2>1, Zenon DEF Tick, TaskInv, RowInv, ReqInv, FlagFollowsRound, dispatcher, task
<1>5. CASE Crash
  <2>1. TypeOK'
    <3>1. IdleReq \in ReqType
      BY Zenon DEF IdleReq, ReqType
    <3>2. crashes' \in 0 .. MaxCrashes
      BY <1>5 DEF Crash, TypeOK
    <3> QED BY <1>5, <3>1, <3>2, Zenon DEF Crash, TypeOK, TaskPcs
  <2>2. (\A i \in TripIds : TaskInv(i) /\ RowInv(i))'
    BY <1>5, Zenon DEF Crash, TaskInv, RowInv, SearchPcs
  <2>3. (\A r \in Requests : ReqInv(r))'
    BY <1>5, Zenon DEF Crash, ReqInv, IdleReq
  <2> QED BY <1>5, <2>1, <2>2, <2>3, Zenon DEF Crash, FlagFollowsRound
<1> QED BY <1>1, <1>2, <1>3, <1>4, <1>5, Zenon

(* A step of nobody.                                                       *)
LEMMA StutterKeepsIInv == IInv /\ UNCHANGED vars => IInv'
<1> SUFFICES ASSUME IInv, UNCHANGED vars PROVE IInv'
  BY Zenon
<1>1. TypeOK'
  BY Zenon DEF IInv, vars, dispatcher, task, TypeOK
<1>2. (\A i \in TripIds : TaskInv(i) /\ RowInv(i))'
  BY Zenon DEF IInv, vars, dispatcher, task, TaskInv, RowInv
<1>3. (\A r \in Requests : ReqInv(r))'
  BY Zenon DEF IInv, vars, dispatcher, task, ReqInv
<1>4. FlagFollowsRound'
  BY Zenon DEF IInv, vars, dispatcher, task, FlagFollowsRound
<1> QED BY <1>1, <1>2, <1>3, <1>4, Zenon DEF IInv

\* The conjunction the induction is about holds in every reachable state.
THEOREM Invariance == Spec => []IInv
<1>1. IInv /\ [Next]_vars => IInv'
  BY RequestsKeepIInv, TasksKeepIInv, RoundsKeepIInv, StutterKeepsIInv, Zenon DEF Next
<1> QED BY InitIInv, <1>1, PTL DEF Spec

\* Types are preserved by every handler and by every step of the dispatcher.
THEOREM TypeCorrect == Spec => []TypeOK
<1>1. IInv => TypeOK
  BY Zenon DEF IInv
<1> QED BY Invariance, <1>1, PTL

\* Whole-row writes of requests and tasks never mix two assignments in a trip.
THEOREM NoMixedAssignment == Spec => []AssignmentConsistent
<1>1. IInv => AssignmentConsistent
  BY Zenon DEF IInv, RowInv, AssignmentConsistent, Inserted
<1> QED BY Invariance, <1>1, PTL

\* A trip assigned to a driver without a profile never leaves VehicleAccepted.
THEOREM FrozenTrips == Spec => []UnprofiledTripFrozen
<1>1. IInv => UnprofiledTripFrozen
  BY Zenon DEF IInv, RowInv, UnprofiledTripFrozen, Inserted
<1> QED BY Invariance, <1>1, PTL

\* No CheckRideState message is dropped because an earlier round threw.
THEOREM FlagNeverStuck == Spec => []FlagFollowsRound
<1>1. IInv => FlagFollowsRound
  BY Zenon DEF IInv
<1> QED BY Invariance, <1>1, PTL

-----------------------------------------------------------------------------
(* One vehicle per trip                                                     *)

\* Of the row and the copies that will be written back, each has no vehicle or v.
Carry(t, v) ==
  /\ trips[t] # NoRow => trips[t].vehicleId \in {0, v}
  /\ pc[t] \in DOMAIN StateOf => row[t].vehicleId \in {0, v}
  /\ \A r \in Requests :
       req[r].op = "update" /\ req[r].id = t => req[r].row.vehicleId \in {0, v}

\* No task of a pass may come to an assignment while some copy has a vehicle.
Unassigned(t) ==
  \/ trips[t] = NoRow
  \/ trips[t].rideState = "Initial"
  \/ pc[t] \in SearchPcs \cup {"eta", "save"}

OneVehicle(t) ==
  /\ \E v \in Vehicles \cup {0} : Carry(t, v)
  /\ Unassigned(t) => Carry(t, 0)

OneInv == "Initial" \notin ApiStates => \A t \in TripIds : OneVehicle(t)

\* A task goes on with the search without touching what others see.
Goes(s) ==
  /\ UNCHANGED <<trips, req, row>>
  /\ \/ pc' = pc
     \/ /\ pc[s] \in {"meta", "check", "eta"}
        /\ \E p \in {"check", "nobody", "eta", "save"} : pc' = [pc EXCEPT ![s] = p]

(* A step of a task reads, writes, saves, goes on or ends.                 *)
LEMMA TaskKinds ==
  ASSUME NEW s \in TripIds, Task(s) \/ Abandon(s)
  PROVE  TaskRead(s) \/ TaskWrite(s) \/ TaskSave(s) \/ Goes(s) \/ (End(s) /\ UNCHANGED <<trips, req>>)
<1>1. ASSUME NEW v \in Vehicles, TaskCheck(s, v) \/ TaskAssign(s, v) PROVE Goes(s)
  BY <1>1, Zenon DEF TaskCheck, TaskAssign, Goes
<1>2. ASSUME NEW d \in EtaDelays, TaskEta(s, d) PROVE Goes(s)
  BY <1>2, Zenon DEF TaskEta, Goes
<1>3. ASSUME NEW active \in SUBSET Vehicles, TaskMeta(s, active) PROVE Goes(s)
  BY <1>3, Zenon DEF TaskMeta, Goes
<1>4. CASE TaskNobody(s)
  BY <1>4, Zenon DEF TaskNobody, Goes
<1> QED BY <1>1, <1>2, <1>3, <1>4, Zenon DEF Task, Abandon, TaskWriteThrows, TaskMetaThrows, TaskSeveral,
     TaskEtaThrows, Throw

\* All steps but the one that saves an assignment carry on what was there.
LEMMA CarryKept ==
  ASSUME IInv, [Next]_vars, NEW t \in TripIds, NEW v, Carry(t, v), ~TaskSave(t)
  PROVE  Carry(t, v)'
<1> USE DEF IInv
<1>1. ASSUME NEW r \in Requests, NEW u \in Users, NEW b \in Bookings, BookCheck(r, u, b)
      PROVE  Carry(t, v)'
  BY <1>1, Zenon DEF BookCheck, Carry, dispatcher, task, TypeOK
<1>2. ASSUME NEW r \in Requests, NEW s \in TripIds, BookInsert(r, s) PROVE Carry(t, v)'
  BY <1>2, Zenon DEF BookInsert, Carry, dispatcher, task, TypeOK, NewTrip, IdleReq
<1>3. ASSUME NEW r \in Requests, NEW s \in TripIds, NEW a \in ApiStates, UpdateTripRead(r, s, a)
      PROVE  Carry(t, v)'
  BY <1>3, Zenon DEF UpdateTripRead, Carry, dispatcher, task, TypeOK, Inserted
<1>4. ASSUME NEW r \in Requests, UpdateTripWrite(r) PROVE Carry(t, v)'
  <2>1. req[r].row \in Row /\ req[r].id \in TripIds /\ req[r].state \in ApiStates
    BY <1>4, Zenon DEF UpdateTripWrite, TypeOK, ReqType
  <2>2. [req[r].row EXCEPT !.rideState = req[r].state].vehicleId = req[r].row.vehicleId
    BY <2>1, Zenon DEF Row
  <2> QED BY <1>4, <2>1, <2>2, Zenon DEF UpdateTripWrite, Carry, dispatcher, task, TypeOK, IdleReq
<1>5. CASE StartRound \/ StartOverdue
  BY <1>5, Zenon DEF StartRound, StartOverdue, Carry, TypeOK, StateOf
<1>6. CASE EndRound \/ Restart \/ Tick \/ UNCHANGED vars
  BY <1>6, Zenon DEF EndRound, Restart, Tick, Carry, dispatcher, task, vars
<1>7. CASE Crash
  BY <1>7, Zenon DEF Crash, Carry, StateOf, IdleReq
<1>8. ASSUME NEW s \in TripIds, TaskRead(s) PROVE Carry(t, v)'
  <2>1. trips[s] \in Row
    BY <1>8, Zenon DEF TaskRead, TaskInv, WriteOf
  <2> QED BY <1>8, <2>1, Zenon DEF TaskRead, Carry, TypeOK
<1>9. ASSUME NEW s \in TripIds, TaskWrite(s) PROVE Carry(t, v)'
  <2>1. row[s] \in Row
    BY <1>9, Zenon DEF TaskWrite, TaskInv, StateOf
  <2>2. [row[s] EXCEPT !.rideState = StateOf[pc[s]]].vehicleId = row[s].vehicleId
    BY <2>1, Zenon DEF Row
  <2>3. pc'[t] \in DOMAIN StateOf => pc'[t] = pc[t] /\ row'[t] = row[t]
    BY <1>9 DEF TaskWrite, End, TypeOK, StateOf
  <2> QED BY <1>9, <2>1, <2>2, <2>3, Zenon DEF TaskWrite, Carry, TypeOK
<1>10. ASSUME NEW s \in TripIds, End(s), UNCHANGED <<trips, req>> PROVE Carry(t, v)'
  BY <1>10, Zenon DEF End, Carry, TypeOK, StateOf
<1>11. ASSUME NEW s \in TripIds, TaskSave(s) PROVE Carry(t, v)'
  <2>1. s # t
    BY <1>11, Zenon
  <2> QED BY <1>11, <2>1, Zenon DEF TaskSave, End, Carry, TypeOK
<1>12. ASSUME NEW s \in TripIds, Goes(s) PROVE Carry(t, v)'
  <2>1. pc'[t] \in DOMAIN StateOf => pc'[t] = pc[t]
    BY <1>12, Zenon DEF Goes, TypeOK, StateOf
  <2> QED BY <1>12, <2>1, Zenon DEF Goes, Carry
<1>13. ASSUME NEW s \in TripIds, Task(s) \/ Abandon(s) PROVE Carry(t, v)'
  BY <1>8, <1>9, <1>10, <1>11, <1>12, <1>13, TaskKinds, Zenon
<1> QED BY <1>1, <1>2, <1>3, <1>4, <1>5, <1>6, <1>7, <1>13, Zenon DEF Next, Handler

\* Rows are inserted and overwritten, never deleted.
LEMMA RowsStay ==
  ASSUME IInv, [Next]_vars, NEW t \in TripIds, trips[t] # NoRow
  PROVE  trips'[t] # NoRow
<1> USE DEF IInv
<1>1. ASSUME NEW r \in Requests, Handler(r) PROVE trips'[t] # NoRow
  <2>1. ASSUME NEW s \in TripIds, BookInsert(r, s) PROVE trips'[t] # NoRow
    BY <2>1, Zenon DEF BookInsert, TypeOK
  <2>2. CASE UpdateTripWrite(r)
    <3>1. req[r].row \in Row /\ req[r].id \in TripIds /\ req[r].state \in ApiStates
      BY <2>2, Zenon DEF UpdateTripWrite, TypeOK, ReqType
    <3>2. [req[r].row EXCEPT !.rideState = req[r].state] \in Row
      BY <3>1, Zenon DEF Row
    <3> QED BY <2>2, <3>1, <3>2, Zenon DEF UpdateTripWrite, TypeOK
  <2> QED BY <1>1, <2>1, <2>2, Zenon DEF Handler, BookCheck, UpdateTripRead
<1>2. ASSUME NEW s \in TripIds, Task(s) PROVE trips'[t] # NoRow
  <2>1. CASE TaskWrite(s)
    <3>1. row[s] \in Row /\ StateOf[pc[s]] \in RideStates
      BY <2>1 DEF TaskWrite, TaskInv, StateOf
    <3>2. [row[s] EXCEPT !.rideState = StateOf[pc[s]]] \in Row
      BY <3>1, Zenon DEF Row
    <3> QED BY <2>1, <3>2, Zenon DEF TaskWrite, TypeOK
  <2>2. CASE TaskSave(s)
    BY <2>2, Zenon DEF TaskSave, TaskInv, TypeOK
  <2>3. CASE ~TaskWrite(s) /\ ~TaskSave(s)
    BY <1>2, <2>3, TaskKinds, Zenon DEF TaskRead, Goes
  <2> QED BY <2>1, <2>2, <2>3, Zenon
<1> QED BY <1>1, <1>2, Zenon DEF Next, vars, StartRound, Abandon, StartOverdue, EndRound, Restart,
     Tick, Crash

\* When an assignment is saved, nothing else has a vehicle.
LEMMA SaveCarries ==
  ASSUME IInv, NEW t \in TripIds, TaskSave(t), Carry(t, 0), NEW v, v = trip[t].vehicleId
  PROVE  Carry(t, v)' /\ trips[t].vehicleId = 0
<1> USE DEF IInv
<1>1. trips[t] \in Row /\ trip[t] \in Row
  BY Zenon DEF TaskSave, TaskInv
<1>2. trips'[t] = trip[t] /\ pc'[t] = "none" /\ req' = req
  BY Zenon DEF TaskSave, End, TypeOK
<1>3. trips[t] # NoRow
  BY <1>1, Zenon
<1> QED BY <1>1, <1>2, <1>3, Zenon DEF Carry, StateOf

\* A trip comes to be unassigned only by its booking.
LEMMA UnassignedBefore ==
  ASSUME IInv, [Next]_vars, "Initial" \notin ApiStates, NEW t \in TripIds, Unassigned(t)'
  PROVE  Unassigned(t)
<1> USE DEF IInv
<1>1. ASSUME NEW r \in Requests, NEW u \in Users, NEW b \in Bookings, BookCheck(r, u, b)
      PROVE  Unassigned(t)
  BY <1>1, Zenon DEF BookCheck, Unassigned, dispatcher, task
<1>2. ASSUME NEW r \in Requests, NEW s \in TripIds, BookInsert(r, s) PROVE Unassigned(t)
  BY <1>2, Zenon DEF BookInsert, Unassigned, dispatcher, task, TypeOK
<1>3. ASSUME NEW r \in Requests, NEW s \in TripIds, NEW a \in ApiStates, UpdateTripRead(r, s, a)
      PROVE  Unassigned(t)
  BY <1>3, Zenon DEF UpdateTripRead, Unassigned, dispatcher, task
<1>4. ASSUME NEW r \in Requests, UpdateTripWrite(r) PROVE Unassigned(t)
  <2>1. req[r].row \in Row /\ req[r].id \in TripIds /\ req[r].state \in ApiStates
    BY <1>4, Zenon DEF UpdateTripWrite, TypeOK, ReqType
  <2>2. /\ [req[r].row EXCEPT !.rideState = req[r].state].rideState # "Initial"
        /\ [req[r].row EXCEPT !.rideState = req[r].state] \in Row
    BY <2>1, Zenon DEF Row
  <2> QED BY <1>4, <2>1, <2>2, Zenon DEF UpdateTripWrite, Unassigned, dispatcher, task, TypeOK
<1>5. CASE StartRound
  BY <1>5, Zenon DEF StartRound, Unassigned, TypeOK, IsPending, SearchPcs
<1>6. CASE StartOverdue
  BY <1>6, Zenon DEF StartOverdue, Unassigned, TypeOK, SearchPcs
<1>7. CASE EndRound \/ Restart \/ Tick \/ UNCHANGED vars
  BY <1>7, Zenon DEF EndRound, Restart, Tick, Unassigned, dispatcher, task, vars
<1>8. CASE Crash
  BY <1>8, Zenon DEF Crash, Unassigned, SearchPcs
<1>9. ASSUME NEW s \in TripIds, TaskRead(s) PROVE Unassigned(t)
  BY <1>9 DEF TaskRead, Unassigned, TypeOK, WriteOf, SearchPcs
<1>10. ASSUME NEW s \in TripIds, TaskWrite(s) PROVE Unassigned(t)
  <2>1. row[s] \in Row /\ pc[s] \in DOMAIN StateOf
    BY <1>10, Zenon DEF TaskWrite, TaskInv, StateOf
  <2>2. /\ [row[s] EXCEPT !.rideState = StateOf[pc[s]]].rideState # "Initial"
        /\ [row[s] EXCEPT !.rideState = StateOf[pc[s]]] \in Row
    BY <2>1 DEF Row, StateOf
  <2>3. s = t \/ (trips'[t] = trips[t] /\ pc'[t] = pc[t])
    BY <1>10, Zenon DEF TaskWrite, End, TypeOK
  <2>4. CASE s # t
    BY <2>3, <2>4, Zenon DEF Unassigned
  <2>5. CASE s = t
    <3>1. trips'[t] # NoRow /\ trips'[t].rideState # "Initial"
      BY <1>10, <2>2, <2>5, Zenon DEF TaskWrite, TypeOK
    <3>2. pc'[t] \in SearchPcs => pc[t] = "mark"
      BY <1>10, <2>5 DEF TaskWrite, End, TypeOK, SearchPcs
    <3>3. pc'[t] \notin {"eta", "save"}
      BY <1>10, <2>5 DEF TaskWrite, End, TypeOK
    <3> QED BY <3>1, <3>2, <3>3, Zenon DEF Unassigned, SearchPcs
  <2> QED BY <2>4, <2>5, Zenon
<1>11. ASSUME NEW s \in TripIds, End(s), UNCHANGED trips PROVE Unassigned(t)
  BY <1>11, Zenon DEF End, Unassigned, TypeOK, SearchPcs
<1>12. ASSUME NEW s \in TripIds, TaskSave(s) PROVE Unassigned(t)
  BY <1>12, Zenon DEF TaskSave, End, Unassigned, TypeOK, SearchPcs
<1>13. ASSUME NEW s \in TripIds, Goes(s) PROVE Unassigned(t)
  BY <1>13, Zenon DEF Goes, Unassigned, TypeOK, SearchPcs
<1>14. ASSUME NEW s \in TripIds, Task(s) \/ Abandon(s) PROVE Unassigned(t)
  BY <1>9, <1>10, <1>11, <1>12, <1>13, <1>14, TaskKinds, Zenon
<1> QED BY <1>1, <1>2, <1>3, <1>4, <1>5, <1>6, <1>7, <1>8, <1>14, Zenon DEF Next, Handler

\* Unless clients put trips back to Initial, a trip with a vehicle is never given
\* another one, however updates that were read earlier overtake the dispatcher.
THEOREM NoReassignment == Spec => NeverReassigned
<1>1. Init => OneInv
  <2> SUFFICES ASSUME Init, NEW t \in TripIds PROVE Carry(t, 0)
    BY Zenon DEF OneInv, OneVehicle
  <2>1. trips[t] = NoRow /\ pc[t] \notin DOMAIN StateOf
    BY Zenon DEF Init, StateOf
  <2>2. \A r \in Requests : req[r].op # "update"
    BY Zenon DEF Init, IdleReq
  <2> QED BY <2>1, <2>2, Zenon DEF Carry
<1>2. ASSUME IInv, OneInv, [Next]_vars
      PROVE  /\ OneInv'
             /\ "Initial" \notin ApiStates =>
                  \A t \in Inserted : trips[t].vehicleId # 0 =>
                     trips'[t].vehicleId \in {trips[t].vehicleId, 0}
  <2> SUFFICES ASSUME "Initial" \notin ApiStates, NEW t \in TripIds
               PROVE  /\ OneVehicle(t)'
                      /\ trips[t] # NoRow /\ trips[t].vehicleId # 0 =>
                           trips'[t].vehicleId \in {trips[t].vehicleId, 0}
    BY Zenon DEF OneInv, Inserted
  <2>1. OneVehicle(t)
    BY <1>2, Zenon DEF OneInv
  <2>2. CASE TaskSave(t)
    <3>1. PICK v \in Vehicles \cup {0} : v = trip[t].vehicleId
      <4>1. trip[t] \in Row
        BY <1>2, <2>2, Zenon DEF IInv, TaskSave, TaskInv
      <4>2. trip[t].vehicleId \in Vehicles \cup {0}
        BY <4>1, Zenon DEF Row
      <4> QED BY ONLY <4>2, Zenon
    <3>2. Carry(t, 0)
      BY <2>1, <2>2, Zenon DEF OneVehicle, Unassigned, TaskSave
    <3>3. ~Unassigned(t)'
      <4>1. /\ trip[t] \in Row /\ trip[t].rideState = "VehicleAccepted"
            /\ trips'[t] = trip[t] /\ pc'[t] = "none"
        BY <1>2, <2>2, Zenon DEF IInv, TaskSave, End, TaskInv, TypeOK
      <4> QED BY <4>1, Zenon DEF Unassigned, SearchPcs
    <3>4. Carry(t, v)' /\ trips[t].vehicleId = 0
      BY <1>2, <2>2, <3>1, <3>2, SaveCarries, Zenon
    <3>5. OneVehicle(t)'
      BY <3>1, <3>3, <3>4, Zenon DEF OneVehicle
    <3> QED BY <3>4, <3>5, Zenon
  <2>3. CASE ~TaskSave(t)
    <3>1. PICK v \in Vehicles \cup {0} : Carry(t, v)
      BY <2>1, Zenon DEF OneVehicle
    <3>2. Carry(t, v)'
      BY <1>2, <2>3, <3>1, CarryKept, Zenon
    <3>3. Unassigned(t)' => Carry(t, 0)'
      BY <1>2, <2>1, <2>3, CarryKept, UnassignedBefore, Zenon DEF OneVehicle
    <3>4. trips[t] # NoRow => trips'[t] # NoRow
      BY <1>2, RowsStay, Zenon
    <3> QED BY <3>1, <3>2, <3>3, <3>4, Zenon DEF OneVehicle, Carry
  <2> QED BY <2>2, <2>3, Zenon
<1> QED BY <1>1, <1>2, Invariance, PTL DEF Spec, NeverReassigned
=============================================================================
