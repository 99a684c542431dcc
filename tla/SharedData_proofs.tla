------------------------- MODULE SharedData_proofs -------------------------
(***************************************************************************)
(* Type correctness, the exclusion between swap and reload, and the bound  *)
(* on number_of_queries, for any number of servers, threads and stores.    *)
(* In a behaviour where every run of osrm-datastore is started in turn and *)
(* none is cut short, also that the published regions are whole and that   *)
(* queries start on them.                                                  *)
(***************************************************************************)
EXTENDS SharedData, FiniteSetTheorems, TLAPS

\* query_mutex is held by whoever reloads or publishes.
Locked ==
  /\ \A t \in Threads : pc[t] \in Reloading => query = t
  /\ \A d \in Stores : spc[d] = "publish" => query = d

IInv == TypeOK /\ Locked /\ CountCoversQueries

USE SharedDataAssumption

\* The busy threads of a server are a finite set.
LEMMA BusyFinite ==
  ASSUME NEW s \in Servers
  PROVE  IsFiniteSet(Busy(s)) /\ Cardinality(Busy(s)) \in Nat
<1>1. Busy(s) \subseteq Threads
  BY Zenon DEF Busy
<1>2. IsFiniteSet(Busy(s))
  BY <1>1, FS_Subset, Zenon
<1> QED
  BY <1>2, FS_CardinalityType, Zenon

\* The counter still covers the queries after a step that leaves it alone and
\* in which no thread becomes busy.
LEMMA CountKept ==
  ASSUME CountCoversQueries, TypeOK, number_of_queries' = number_of_queries,
         \A t \in Threads : pc'[t] \in Reloading \cup {"running"} =>
                              pc[t] \in Reloading \cup {"running"}
  PROVE  CountCoversQueries'
<1> SUFFICES ASSUME NEW s \in Servers
             PROVE  number_of_queries[s] >= Cardinality(Busy(s)')
  BY Zenon DEF CountCoversQueries
<1>1. Busy(s)' \subseteq Busy(s)
  BY Zenon DEF Busy
<1>2. Cardinality(Busy(s)') \in Nat /\ Cardinality(Busy(s)') <= Cardinality(Busy(s))
  BY <1>1, BusyFinite, FS_Subset, FS_CardinalityType, Zenon
<1> QED
  BY <1>2, BusyFinite DEF CountCoversQueries, TypeOK

\* Initially no process is up and no mutex is taken.
LEMMA InitIInv == Init => IInv
<1> SUFFICES ASSUME Init PROVE IInv
  BY Zenon
<1>1. TypeOK
  BY DEF Init, TypeOK, Nothing, Unset, None, CurrentRecord, Generations, Regions
<1>2. Locked
  BY Zenon DEF Init, Locked, Reloading
<1>3. CountCoversQueries
  <2> SUFFICES ASSUME NEW s \in Servers
               PROVE  number_of_queries[s] >= Cardinality(Busy(s))
    BY Zenon DEF CountCoversQueries
  <2>1. Busy(s) = {}
    BY Zenon DEF Init, Busy, Reloading
  <2> QED
    BY <2>1, FS_EmptySet DEF Init
<1> QED
  BY <1>1, <1>2, <1>3, Zenon DEF IInv

\* The steps of osrm-datastore.
LEMMA StoresKeepIInv ==
  ASSUME IInv, NEW d \in Stores, Store(d) \/ StoreFails(d)
  PROVE  IInv'
<1> USE DEF IInv
<1>1. UNCHANGED server
  BY Zenon DEF Store, StoreStart, StoreLayout, StoreData, StoreFill, StoreLock, StorePublish,
         StoreFails
<1>2. CountCoversQueries'
  BY <1>1, CountKept, Zenon DEF server
<1>3. CASE StoreStart(d)
  <2>1. TypeOK'
    BY <1>3 DEF StoreStart, TypeOK, memory, locks, server, Generations, Regions, CurrentRecord
  <2> QED
    BY <1>2, <1>3, <2>1 DEF StoreStart, Locked, TypeOK, memory, locks, server
<1>4. CASE StoreLayout(d)
  <2>1. TypeOK'
    BY <1>4, Zenon DEF StoreLayout, TypeOK, locks, server, CurrentRecord
  <2> QED
    BY <1>2, <1>4, <2>1, Zenon DEF StoreLayout, Locked, TypeOK, locks, server
<1>5. CASE StoreData(d)
  <2>1. TypeOK'
    BY <1>5, Zenon DEF StoreData, TypeOK, locks, server, CurrentRecord
  <2> QED
    BY <1>2, <1>5, <2>1, Zenon DEF StoreData, Locked, TypeOK, locks, server
<1>6. CASE StoreFill(d)
  <2>1. TypeOK'
    BY <1>6 DEF StoreFill, TypeOK, locks, server, CurrentRecord
  <2> QED
    BY <1>2, <1>6, <2>1, Zenon DEF StoreFill, Locked, TypeOK, locks, server
<1>7. CASE StoreLock(d)
  <2>1. TypeOK'
    BY <1>7, Zenon DEF StoreLock, TypeOK, memory, server, CurrentRecord
  <2>2. Locked'
    BY <1>7, Zenon DEF StoreLock, Locked, TypeOK, server
  <2> QED
    BY <1>2, <2>1, <2>2, Zenon
<1>8. CASE StorePublish(d)
  <2>1. current' \in CurrentRecord
    BY <1>8 DEF StorePublish, Publication, TypeOK, CurrentRecord, Regions
  <2>2. TypeOK'
    <3>1. Other(target[d]) \in Regions /\ 0 \in Generations
      BY DEF Other, TypeOK, Regions, Generations
    <3>2. layout' \in [Regions -> Generations] /\ data' \in [Regions -> Generations]
      BY <1>8, <3>1, Zenon DEF StorePublish, TypeOK
    <3> QED BY <1>8, <2>1, <3>2, Zenon DEF StorePublish, TypeOK, server
  <2>3. Locked'
    BY <1>8 DEF StorePublish, Locked, TypeOK, server
  <2> QED
    BY <1>2, <2>2, <2>3
<1>9. CASE StoreFails(d)
  <2>1. TypeOK'
    BY <1>9 DEF StoreFails, TypeOK, memory, locks, server, CurrentRecord
  <2> QED
    BY <1>2, <1>9, <2>1, Zenon DEF StoreFails, Locked, TypeOK, memory, locks, server
<1> QED
  BY <1>3, <1>4, <1>5, <1>6, <1>7, <1>8, <1>9, Zenon DEF Store

\* What Ready and ReloadThrows do to the parts of the invariant they touch.
LEMMA LeaveReload ==
  ASSUME IInv, NEW a \in Threads \cup Servers, pc[a] \in Reloading,
         NEW v \in Generations, Ready(a, v) \/ ReloadThrows(a),
         spc' = spc, number_of_queries' = number_of_queries
  PROVE  /\ pc' \in [Threads \cup Servers ->
                       {"idle", "pending", "running", "down", "up"} \cup Reloading]
         /\ used' \in [Threads -> Generations]
         /\ query' \in Threads \cup Stores \cup {NoOne}
         /\ Locked'
         /\ CountCoversQueries'
<1> USE DEF IInv
<1>1. CASE a \in Threads
  <2>1. query = a
    BY <1>1, Zenon DEF Locked
  <2>2. \A d \in Stores : spc[d] # "publish"
    BY <1>1, <2>1, Zenon DEF Locked
  <2>3. \A t \in Threads : t # a => pc'[t] = pc[t] /\ pc[t] \notin Reloading
    BY <1>1, <2>1, Zenon DEF Ready, ReloadThrows, TypeOK, Locked
  <2>4. pc'[a] \in {"running", "idle"}
    BY <1>1, Zenon DEF Ready, ReloadThrows, TypeOK
  <2>5. CountCoversQueries'
    BY <2>3, <2>4, CountKept, Zenon
  <2>6. Locked'
    BY <2>2, <2>3, <2>4, Zenon DEF Locked, Reloading
  <2>7. pc' \in [Threads \cup Servers ->
                   {"idle", "pending", "running", "down", "up"} \cup Reloading]
    BY <1>1, Zenon DEF Ready, ReloadThrows, TypeOK
  <2>8. used' \in [Threads -> Generations]
    BY <1>1 DEF Ready, ReloadThrows, TypeOK
  <2>9. query' = NoOne
    BY <1>1, Zenon DEF Ready, ReloadThrows
  <2> QED
    BY <2>5, <2>6, <2>7, <2>8, <2>9, Zenon
<1>2. CASE a \in Servers
  <2>0. a \notin Threads
    BY <1>2, Zenon
  <2>1. \A t \in Threads : pc'[t] = pc[t]
    BY <2>0, Zenon DEF Ready, ReloadThrows, TypeOK
  <2>2. query' = query /\ used' = used
    BY <2>0, Zenon DEF Ready, ReloadThrows
  <2>3. CountCoversQueries'
    BY <2>1, CountKept, Zenon
  <2>4. Locked'
    BY <2>1, <2>2, Zenon DEF Locked
  <2> QED
    BY <2>0, <2>2, <2>3, <2>4, Zenon DEF Ready, ReloadThrows, TypeOK
<1> QED
  BY <1>1, <1>2, Zenon

\* CheckAndReloadFacade.
LEMMA ReloadKeepsIInv ==
  ASSUME IInv, NEW a \in Threads \cup Servers, Reload(a)
  PROVE  IInv'
<1> USE DEF IInv
<1>1. Of(a) \in Servers
  BY Zenon DEF Of
<1>2. CASE UpToDate(a)
  <2>1. view[Of(a)] \in Generations /\ pc[a] \in Reloading
    BY <1>1, <1>2, Zenon DEF TypeOK, UpToDate, Reloading
  <2>2. Locked' /\ CountCoversQueries'
    BY <1>2, <2>1, LeaveReload, Zenon DEF UpToDate, store
  <2>3. TypeOK'
    BY <1>2, <2>1, LeaveReload, Zenon DEF UpToDate, store, memory, TypeOK, CurrentRecord
  <2> QED
    BY <2>2, <2>3, Zenon
<1>3. CASE ReleasePrevious(a)
  <2>1. PICK c \in Seen(a) : facade' = [facade EXCEPT ![Of(a)] = c]
    BY <1>3, Zenon DEF ReleasePrevious
  <2>2. \A d \in Stores : Publication(d) \in CurrentRecord
    BY DEF Publication, TypeOK, CurrentRecord, Regions
  <2>3. c \in CurrentRecord
    <3>1. CASE a \in Threads
      BY <2>1, <3>1 DEF Seen, TypeOK
    <3>2. CASE a \notin Threads
      BY <2>1, <2>2, <3>2 DEF Seen, TypeOK, CurrentRecord
    <3> QED
      BY <3>1, <3>2, Zenon
  <2>4. layout' \in [Regions -> Generations] /\ data' \in [Regions -> Generations]
    BY <1>3 DEF ReleasePrevious, Remove, TypeOK, Generations
  <2>5. TypeOK'
    BY <1>1, <1>3, <2>1, <2>3, <2>4, Zenon
       DEF ReleasePrevious, TypeOK, locks, store, CurrentRecord, Reloading
  <2>6. Locked'
    BY <1>3, Zenon DEF ReleasePrevious, Locked, TypeOK, locks, store, Reloading
  <2>7. CountCoversQueries'
    BY <1>3, CountKept, Zenon DEF ReleasePrevious, TypeOK, Reloading
  <2> QED
    BY <2>5, <2>6, <2>7, Zenon
<1>4. CASE AttachLayout(a)
  <2>1. pc[a] \in Reloading /\ 0 \in Generations
    BY <1>4 DEF AttachLayout, Reloading, Generations
  <2>2. CASE ReloadThrows(a) /\ UNCHANGED mapped
    <3>1. Locked' /\ CountCoversQueries'
      BY <1>4, <2>1, <2>2, LeaveReload, Zenon DEF AttachLayout, store
    <3>2. TypeOK'
      BY <1>4, <2>1, <2>2, LeaveReload, Zenon DEF AttachLayout, store, memory, TypeOK, CurrentRecord
    <3> QED
      BY <3>1, <3>2
  <2>3. CASE /\ Exists(layout, facade[Of(a)].layout)
             /\ mapped' = [mapped EXCEPT ![Of(a)].layout = layout[facade[Of(a)].layout]]
             /\ pc' = [pc EXCEPT ![a] = "data"]
             /\ UNCHANGED <<query, used>>
    <3>1. layout[facade[Of(a)].layout] \in Generations
      BY <2>3, Zenon DEF Exists, TypeOK
    <3>2. mapped' \in [Servers -> [layout : Generations, data : Generations]]
      BY <1>1, <2>3, <3>1 DEF TypeOK
    <3>3. pc' = [pc EXCEPT ![a] = "data"] /\ UNCHANGED <<query, used>>
      BY <2>3, Zenon
    <3>4. TypeOK'
      BY <1>4, <3>2, <3>3, Zenon DEF AttachLayout, store, memory, TypeOK, CurrentRecord, Reloading
    <3>5. Locked'
      BY <1>4, <2>1, <3>3, Zenon DEF AttachLayout, Locked, TypeOK, store, Reloading
    <3>6. CountCoversQueries'
      BY <1>4, <2>1, <3>3, CountKept, Zenon DEF AttachLayout, TypeOK, Reloading
    <3> QED
      BY <3>4, <3>5, <3>6, Zenon
  <2> QED
    BY <1>4, <2>2, <2>3, Zenon DEF AttachLayout
<1>5. CASE AttachData(a)
  <2>1. pc[a] \in Reloading /\ 0 \in Generations
    BY <1>5 DEF AttachData, Reloading, Generations
  <2>2. CASE ReloadThrows(a) /\ UNCHANGED <<mapped, view>>
    <3>1. Locked' /\ CountCoversQueries'
      BY <1>5, <2>1, <2>2, LeaveReload, Zenon DEF AttachData, store
    <3>2. TypeOK'
      BY <1>5, <2>1, <2>2, LeaveReload, Zenon DEF AttachData, store, memory, TypeOK, CurrentRecord
    <3> QED
      BY <3>1, <3>2
  <2>3. CASE ~(ReloadThrows(a) /\ UNCHANGED <<mapped, view>>)
    <3> DEFINE k == facade[Of(a)].data
               v == IF data[k] = mapped[Of(a)].layout /\ data[k] \in loaded
                      THEN data[k] ELSE 0
    <3>1. /\ Exists(data, k)
          /\ mapped' = [mapped EXCEPT ![Of(a)].data = data[k]]
          /\ view' = [view EXCEPT ![Of(a)] = v]
          /\ Ready(a, v) \/ ReloadThrows(a)
      BY <1>5, <2>3, Zenon DEF AttachData
    <3>2. data[k] \in Generations /\ v \in Generations
      BY <2>1, <3>1, Zenon DEF Exists, TypeOK
    <3> HIDE DEF v
    <3>4. mapped' \in [Servers -> [layout : Generations, data : Generations]]
      BY <1>1, <3>1, <3>2 DEF TypeOK
    <3>5. view' \in [Servers -> Generations]
      BY <1>1, <3>1, <3>2, Zenon DEF TypeOK
    <3>6. Locked' /\ CountCoversQueries'
      BY <1>5, <2>1, <3>1, <3>2, LeaveReload, Zenon DEF AttachData, store
    <3>7. TypeOK'
      BY <1>5, <2>1, <3>1, <3>2, <3>4, <3>5, LeaveReload, Zenon
         DEF AttachData, store, memory, TypeOK, CurrentRecord
    <3> QED
      BY <3>6, <3>7
  <2> QED
    BY <2>2, <2>3, Zenon
<1> QED
  BY <1>2, <1>3, <1>4, <1>5, Zenon DEF Reload

\* A server starts; queries arrive, are counted and end.
LEMMA QueriesKeepIInv ==
  ASSUME IInv,
         \/ \E s \in Servers : ServerStart(s)
         \/ \E t \in Threads : QueryArrives(t) \/ Increase(t) \/ Decrease(t) \/ QueryThrows(t)
  PROVE  IInv'
<1> USE DEF IInv
<1>1. ASSUME NEW s \in Servers, ServerStart(s) PROVE IInv'
  <2>1. \A t \in Threads : pc'[t] = pc[t]
    BY <1>1, Zenon DEF ServerStart, TypeOK
  <2>2. Nothing(None) \in CurrentRecord /\ 0 \in Generations
    BY DEF Nothing, None, CurrentRecord, Generations
  <2>3. TypeOK'
    BY <1>1, <2>2, Zenon DEF ServerStart, TypeOK, memory, locks, store, Reloading
  <2>4. CountCoversQueries'
    BY <1>1, <2>1, CountKept, Zenon DEF ServerStart
  <2>5. Locked'
    BY <1>1, <2>1, Zenon DEF ServerStart, Locked, locks, store
  <2> QED
    BY <2>3, <2>4, <2>5, Zenon
<1>2. ASSUME NEW t \in Threads, QueryArrives(t) PROVE IInv'
  <2>1. TypeOK'
    BY <1>2 DEF QueryArrives, TypeOK, memory, store, CurrentRecord
  <2>2. CountCoversQueries'
    BY <1>2, CountKept, Zenon DEF QueryArrives, TypeOK, Reloading
  <2>3. Locked'
    BY <1>2, Zenon DEF QueryArrives, TypeOK, Locked, store, Reloading
  <2> QED
    BY <2>1, <2>2, <2>3, Zenon
<1>3. ASSUME NEW t \in Threads, Increase(t) PROVE IInv'
  <2> DEFINE s == ServerOf[t]
  <2>0. s \in Servers
    BY Zenon
  <2>1. TypeOK'
    BY <1>3 DEF Increase, TypeOK, memory, store, CurrentRecord, Reloading
  <2>2. Locked'
    BY <1>3, Zenon DEF Increase, TypeOK, Locked, store, Reloading
  <2>3. t \notin Busy(s) /\ Busy(s)' = Busy(s) \cup {t}
    BY <1>3 DEF Increase, Busy, TypeOK, Reloading
  <2>4. Cardinality(Busy(s)') = Cardinality(Busy(s)) + 1
    BY <2>0, <2>3, BusyFinite, FS_AddElement, Zenon
  <2>5. \A u \in Servers \ {s} : Busy(u)' = Busy(u)
    BY <1>3, Zenon DEF Increase, Busy, TypeOK, Reloading
  <2>6. number_of_queries'[s] = number_of_queries[s] + 1
    BY <1>3, <2>0, Zenon DEF Increase, TypeOK
  <2>7. \A u \in Servers \ {s} : number_of_queries'[u] = number_of_queries[u]
    BY <1>3, Zenon DEF Increase, TypeOK
  <2>8. CountCoversQueries'
    <3> SUFFICES ASSUME NEW u \in Servers
                 PROVE  number_of_queries'[u] >= Cardinality(Busy(u)')
      BY Zenon DEF CountCoversQueries
    <3> QED
      BY <2>0, <2>4, <2>5, <2>6, <2>7, BusyFinite DEF CountCoversQueries, TypeOK
  <2> QED
    BY <2>1, <2>2, <2>8, Zenon
<1>4. ASSUME NEW t \in Threads, Decrease(t) PROVE IInv'
  <2> DEFINE s == ServerOf[t]
  <2>0. s \in Servers
    OBVIOUS
  <2>1. TypeOK'
    BY <1>4 DEF Decrease, TypeOK, memory, locks, store, CurrentRecord, Generations
  <2>2. Locked'
    BY <1>4, Zenon DEF Decrease, TypeOK, Locked, locks, store, Reloading
  <2>3. t \in Busy(s) /\ Busy(s)' = Busy(s) \ {t}
    BY <1>4, Zenon DEF Decrease, Busy, TypeOK, Reloading
  <2>4. Cardinality(Busy(s)') = Cardinality(Busy(s)) - 1
    <3>1. IsFiniteSet(Busy(s))
      BY <2>0, BusyFinite, Zenon
    <3>2. Cardinality(Busy(s) \ {t}) = Cardinality(Busy(s)) - 1
      BY <2>3, <3>1, FS_RemoveElement, Zenon
    <3> QED
      BY <2>3, <3>2, Zenon
  <2>5. \A u \in Servers \ {s} : Busy(u)' = Busy(u)
    BY <1>4, Zenon DEF Decrease, Busy, TypeOK, Reloading
  <2>6. number_of_queries'[s] = number_of_queries[s] - 1
    BY <1>4, <2>0, Zenon DEF Decrease, TypeOK
  <2>7. \A u \in Servers \ {s} : number_of_queries'[u] = number_of_queries[u]
    BY <1>4, Zenon DEF Decrease, TypeOK
  <2>8. CountCoversQueries'
    <3> SUFFICES ASSUME NEW u \in Servers
                 PROVE  number_of_queries'[u] >= Cardinality(Busy(u)')
      BY DEF CountCoversQueries
    <3> QED
      BY <2>0, <2>4, <2>5, <2>6, <2>7, BusyFinite DEF CountCoversQueries, TypeOK
  <2> QED
    BY <2>1, <2>2, <2>8
<1>5. ASSUME NEW t \in Threads, QueryThrows(t) PROVE IInv'
  <2>1. TypeOK'
    BY <1>5 DEF QueryThrows, TypeOK, memory, locks, store, CurrentRecord, Generations
  <2>2. CountCoversQueries'
    BY <1>5, CountKept, Zenon DEF QueryThrows, TypeOK, Reloading
  <2>3. Locked'
    BY <1>5, Zenon DEF QueryThrows, TypeOK, Locked, locks, store, Reloading
  <2> QED
    BY <2>1, <2>2, <2>3
<1> QED
  BY <1>1, <1>2, <1>3, <1>4, <1>5, Zenon

\* The inductive invariant holds in every reachable state.
THEOREM Invariance == Spec => []IInv
<1>1. IInv /\ UNCHANGED vars => IInv'
  <2> SUFFICES ASSUME IInv, UNCHANGED vars PROVE IInv'
    BY Zenon
  <2>1. TypeOK' /\ Locked'
    BY Zenon DEF IInv, vars, memory, locks, server, store, TypeOK, Locked, CurrentRecord
  <2>2. CountCoversQueries'
    BY CountKept, Zenon DEF IInv, vars, server
  <2> QED
    BY <2>1, <2>2, Zenon DEF IInv
<1>2. IInv /\ Next => IInv'
  BY StoresKeepIInv, ReloadKeepsIInv, QueriesKeepIInv, Zenon DEF Next
<1> QED
  BY <1>1, <1>2, InitIInv, PTL DEF Spec

\* Every variable keeps its type, for any number of processes.
THEOREM TypeCorrect == Spec => []TypeOK
BY Invariance, PTL DEF IInv

\* A query thread never reloads while a store publishes or another query
\* thread reloads.
THEOREM SwapExclusion == Spec => []SwapExcludesReload
<1>1. IInv => SwapExcludesReload
  BY Zenon DEF IInv, Locked, SwapExcludesReload
<1> QED
  BY <1>1, Invariance, PTL

\* number_of_queries never drops below the queries in progress, so the
\* assertion in decrease_concurrent_query_count holds.
THEOREM CountsCover == Spec => []CountCoversQueries
BY Invariance, PTL DEF IInv
-----------------------------------------------------------------------------
(* Runs that are started in turn.  Nothing in the code makes the operator  *)
(* start them so; Orderly says of a step that they did.                     *)

\* A run starts when no other one is under way, no server is starting and every
\* server that is up has attached the current regions; a server starts while no
\* run is under way; a run that fails has not created a region yet.
Orderly ==
  /\ \A d \in Stores : spc[d] = "idle" /\ spc'[d] # "idle" =>
       /\ \A e \in Stores : spc[e] = "idle"
       /\ \A s \in Servers : pc[s] \notin Reloading /\ (pc[s] = "up" => facade[s] = current)
  /\ \A s \in Servers : pc[s] = "down" /\ pc'[s] # "down" => \A d \in Stores : spc[d] = "idle"
  /\ \A d \in Stores : spc[d] \in {"data", "fill", "lock"} => spc'[d] # "idle"

Published == current.timestamp > 0

Resting == \A d \in Stores : spc[d] = "idle"

\* No run has created a region that it has yet to publish.
Untouched == \A d \in Stores : spc[d] \in {"idle", "layout"}

\* One run at a time, and no server that starts or lags behind besides it.
RunsAlone ==
  /\ \A d, e \in Stores : spc[d] # "idle" /\ spc[e] # "idle" => d = e
  /\ ~Resting => \A s \in Servers : /\ pc[s] \notin Reloading
                                    /\ pc[s] = "up" => facade[s] = current

\* The published pair is complete, and the other one is empty until a run fills
\* it.
RegionsSound ==
  /\ Published => /\ current.layout \in Regions /\ current.data = current.layout
                  /\ layout[current.layout] = data[current.layout]
                  /\ layout[current.layout] \in loaded \ {0}
                  /\ Untouched => layout[Other(current.layout)] = 0
  /\ ~Published => /\ current = Nothing(Unset)
                   /\ Untouched => layout = [k \in Regions |-> 0]

\* How far a run is with the pair that is not the published one.
RunSound(d) ==
  /\ spc[d] # "idle" => gen[d] # 0
  /\ spc[d] # "idle" /\ Published => target[d] = Other(current.layout)
  /\ spc[d] \in {"data", "fill", "lock", "publish"} => layout[target[d]] = gen[d]
  /\ spc[d] \in {"fill", "lock", "publish"} => data[target[d]] = gen[d]
  /\ spc[d] \in {"lock", "publish"} => gen[d] \in loaded

\* A facade is never more than one publication behind.
FacadeSound(s) ==
  /\ pc[s] = "check" => facade[s] = Nothing(None)
  /\ pc[s] \in {"layout", "data"} => facade[s] = current
  /\ pc[s] = "data" => Published /\ mapped[s].layout = layout[current.layout]
  /\ pc[s] = "up" =>
       /\ Published
       /\ \/ facade[s] = current
          \/ /\ facade[s].layout = Other(current.layout)
             /\ facade[s].data = Other(current.layout)

\* A thread reloads for a server that is up; where nobody is about to load, the
\* pointers of a facade that is up to date point into the published region.
ThreadSound(t) ==
  /\ pc[t] # "idle" => pc[ServerOf[t]] = "up"
  /\ pc[t] \in {"layout", "data"} => facade[ServerOf[t]] = current
  /\ pc[t] = "data" => mapped[ServerOf[t]].layout = layout[current.layout]

ViewSound(s) ==
  /\ pc[s] = "up" /\ facade[s] = current
  /\ \A t \in Threads : ServerOf[t] = s => pc[t] \notin {"layout", "data"}
  => view[s] = data[current.data]

\* What runs in turn keep, besides IInv.
Sound ==
  /\ RunsAlone /\ RegionsSound
  /\ \A d \in Stores : RunSound(d)
  /\ \A s \in Servers : FacadeSound(s) /\ ViewSound(s)
  /\ \A t \in Threads : ThreadSound(t) /\ pc[t] # "down" /\ pc[t] # "up"

\* A run starts when every server is at rest: it gets the pair that is not
\* published.
LEMMA StartKeepsSound ==
  ASSUME Orderly, IInv, Sound, NEW d \in Stores, StoreStart(d)
  PROVE  Sound'
<1> USE DEF IInv
<1>1. Resting /\ UNCHANGED <<memory, locks, server, failures>>
  BY Zenon DEF StoreStart, Orderly, Resting, IInv, TypeOK
<1>2. spc' = [spc EXCEPT ![d] = "layout"] /\ gen' = [gen EXCEPT ![d] = runs + 1]
  BY Zenon DEF StoreStart
<1>3. RunsAlone'
  BY <1>1, <1>2 DEF StoreStart, Orderly, RunsAlone, Resting, server, memory, TypeOK
<1>4. RegionsSound'
  BY <1>1, Zenon DEF Sound, RegionsSound, Untouched, Resting, Published, memory, TypeOK, Regions, Other
<1>5. ASSUME NEW e \in Stores PROVE RunSound(e)'
  <2>1. CASE e = d
    <3>1. spc'[d] = "layout" /\ gen'[d] = runs + 1 /\ runs + 1 # 0
      BY <1>2 DEF TypeOK, Generations
    <3>2. target'[d] = IF layout[2] # 0 THEN 1 ELSE 2
      BY Zenon DEF StoreStart, TypeOK
    <3>3. Published' => target'[d] = Other(current.layout)
      BY <1>1, <3>2 DEF Sound, RegionsSound, Untouched, Resting, Published, Regions, Other, memory
    <3> QED BY <1>1, <2>1, <3>1, <3>3, Zenon DEF RunSound, memory
  <2>2. CASE e # d
    BY <1>1, <1>2, <2>2, Zenon DEF Resting, RunSound, TypeOK
  <2> QED BY <2>1, <2>2, Zenon
<1>6. ASSUME NEW s \in Servers PROVE (FacadeSound(s) /\ ViewSound(s))'
  BY <1>1, Zenon DEF Sound, FacadeSound, ViewSound, Published, memory, server
<1>7. ASSUME NEW t \in Threads PROVE (ThreadSound(t) /\ pc[t] # "down" /\ pc[t] # "up")'
  BY <1>1, Zenon DEF Sound, ThreadSound, Published, memory, server
<1> QED BY <1>3, <1>4, <1>5, <1>6, <1>7, Zenon DEF Sound

\* A run fills the pair that nobody looks at.
LEMMA FillKeepsSound ==
  ASSUME IInv, Sound, NEW d \in Stores,
         StoreLayout(d) \/ StoreData(d) \/ StoreFill(d) \/ StoreLock(d)
  PROVE  Sound'
<1> USE DEF IInv
<1>1. spc[d] # "idle" /\ spc'[d] # "idle" /\ \A e \in Stores \ {d} : spc[e] = "idle" /\ spc'[e] = "idle"
  BY DEF Sound, RunsAlone, StoreLayout, StoreData, StoreFill, StoreLock, TypeOK
<1>2. /\ UNCHANGED <<current, pc, used, facade, mapped, view, target, gen>>
      /\ loaded \subseteq loaded'
  BY Zenon DEF StoreLayout, StoreData, StoreFill, StoreLock, memory, server
<1>3. /\ target[d] \in Regions /\ gen[d] # 0
      /\ Published => /\ current.layout \in Regions /\ current.layout # target[d]
                      /\ current.data = current.layout
  BY <1>1 DEF Sound, RunSound, RegionsSound, Untouched, TypeOK, Regions, Other
<1>4. Published => /\ layout'[current.layout] = layout[current.layout]
                   /\ data'[current.layout] = data[current.layout]
  BY <1>3, Zenon DEF StoreLayout, StoreData, StoreFill, StoreLock, TypeOK, memory
<1>5. RunsAlone'
  BY <1>1, <1>2, Zenon DEF Sound, RunsAlone, Resting
<1>6. RegionsSound'
  <2>1. ~Untouched'
    BY <1>1 DEF StoreLayout, StoreData, StoreFill, StoreLock, TypeOK, Untouched
  <2> QED BY <1>2, <1>3, <1>4, <2>1, Zenon DEF Sound, RegionsSound, Published
<1>7. ASSUME NEW e \in Stores PROVE RunSound(e)'
  <2>1. CASE e = d
    <3>1. RunSound(d)
      BY Zenon DEF Sound
    <3>2. /\ spc'[d] \in {"data", "fill", "lock", "publish"} => layout'[target[d]] = gen[d]
          /\ spc'[d] \in {"fill", "lock", "publish"} => data'[target[d]] = gen[d]
          /\ spc'[d] \in {"lock", "publish"} => gen[d] \in loaded'
      BY <1>3, <3>1 DEF RunSound, StoreLayout, StoreData, StoreFill, StoreLock, TypeOK, memory
    <3> QED BY <1>1, <1>2, <2>1, <3>1, <3>2, Zenon DEF RunSound, Published
  <2>2. CASE e # d
    BY <1>1, <2>2 DEF RunSound
  <2> QED BY <2>1, <2>2, Zenon
<1>8. ASSUME NEW s \in Servers PROVE (FacadeSound(s) /\ ViewSound(s))'
  <2>1. FacadeSound(s) /\ ViewSound(s)
    BY Zenon DEF Sound
  <2>2. FacadeSound(s)'
    BY <1>2, <1>4, <2>1, Zenon DEF FacadeSound, Published
  <2>3. ViewSound(s)'
    BY <1>2, <1>3, <1>4, <2>1, Zenon DEF ViewSound, FacadeSound, Published
  <2> QED BY <2>2, <2>3, Zenon
<1>9. ASSUME NEW t \in Threads PROVE (ThreadSound(t) /\ pc[t] # "down" /\ pc[t] # "up")'
  <2>1. ThreadSound(t) /\ FacadeSound(ServerOf[t])
    BY Zenon DEF Sound
  <2>2. pc[t] = "data" => Published
    BY <2>1, Zenon DEF ThreadSound, FacadeSound
  <2> QED BY <1>2, <1>4, <2>1, <2>2, Zenon DEF Sound, ThreadSound
<1> QED BY <1>5, <1>6, <1>7, <1>8, <1>9, Zenon DEF Sound

\* The run publishes its pair and deletes the other one, which every server
\* that is up has attached.
LEMMA PublishKeepsSound ==
  ASSUME IInv, Sound, NEW d \in Stores, StorePublish(d)
  PROVE  Sound'
<1> USE DEF IInv
<1> DEFINE k == target[d]
<1>1. /\ spc[d] = "publish" /\ spc' = [spc EXCEPT ![d] = "idle"]
      /\ UNCHANGED <<loaded, number_of_queries, pc, used, facade, mapped, view, target, gen>>
      /\ layout' = [layout EXCEPT ![Other(k)] = 0]
      /\ current' = Publication(d)
  BY Zenon DEF StorePublish, server
<1>2. Resting'
  BY <1>1, Zenon DEF Sound, RunsAlone, Resting, TypeOK
<1>3. RunSound(d)
  BY Zenon DEF Sound
<1>4. /\ k \in Regions /\ Other(k) \in Regions /\ Other(k) # k /\ Other(Other(k)) = k
      /\ Published => current.layout = Other(k) /\ current.data = Other(k)
  BY <1>1, <1>3 DEF Sound, RunSound, RegionsSound, Untouched, TypeOK, Regions, Other
<1>5. /\ current'.layout = k /\ current'.data = k
      /\ current'.timestamp = current.timestamp + 1
      /\ current.timestamp \in Nat /\ Published'
  BY <1>1 DEF Publication, Published, TypeOK, CurrentRecord
<1>6. layout'[k] = gen[d] /\ data'[k] = gen[d] /\ gen[d] \in loaded \ {0} /\ layout'[Other(k)] = 0
  BY <1>1, <1>3, <1>4, Zenon DEF RunSound, StorePublish, TypeOK
<1>7. \A s \in Servers : pc[s] \notin Reloading /\ (pc[s] = "up" => facade[s] = current)
  BY <1>1, Zenon DEF Sound, RunsAlone, Resting
<1>8. \A t \in Threads : pc[t] \notin Reloading
  BY <1>1, Zenon DEF Locked
<1>9. RunsAlone'
  BY <1>2, Zenon DEF RunsAlone, Resting
<1>10. RegionsSound'
  BY <1>1, <1>4, <1>5, <1>6, Zenon DEF RegionsSound, Untouched
<1>11. ASSUME NEW e \in Stores PROVE RunSound(e)'
  BY <1>2, Zenon DEF RunSound, Resting
<1>12. ASSUME NEW s \in Servers PROVE (FacadeSound(s) /\ ViewSound(s))'
  <2>1. FacadeSound(s)
    BY Zenon DEF Sound
  <2>2. pc[s] = "up" => Published /\ facade[s] = current
    BY <1>7, <2>1, Zenon DEF FacadeSound
  <2>3. FacadeSound(s)'
    BY <1>1, <1>4, <1>5, <1>7, <2>2, Zenon DEF FacadeSound, Reloading
  <2>4. pc[s] = "up" => facade[s] # current'
    BY <1>5, <2>2
  <2>5. ViewSound(s)'
    BY <1>1, <2>4, Zenon DEF ViewSound
  <2> QED BY <2>3, <2>5, Zenon
<1>13. ASSUME NEW t \in Threads PROVE (ThreadSound(t) /\ pc[t] # "down" /\ pc[t] # "up")'
  BY <1>1, <1>8, Zenon DEF Sound, ThreadSound, Reloading
<1> QED BY <1>9, <1>10, <1>11, <1>12, <1>13, Zenon DEF Sound

\* No store writes CURRENT_REGIONS while the constructor reads it.
LEMMA SeenCurrent ==
  ASSUME IInv, Sound, NEW a \in Threads \cup Servers, pc[a] = "check"
  PROVE  Seen(a) = {current}
<1>1. CASE a \in Threads
  BY <1>1 DEF Seen
<1>2. CASE a \notin Threads
  <2>1. Resting
    BY <1>2, Zenon DEF Sound, RunsAlone, Reloading
  <2>2. {e \in Stores : spc[e] = "publish"} = {}
    BY <2>1, Zenon DEF Resting
  <2>3. Seen(a) = {[layout |-> p.layout, data |-> q.data, timestamp |-> r.timestamp] :
                     p \in {current}, q \in {current}, r \in {current}}
    BY <1>2, <2>2 DEF Seen
  <2>4. [layout |-> current.layout, data |-> current.data, timestamp |-> current.timestamp]
          = current
    BY Zenon DEF IInv, TypeOK, CurrentRecord
  <2> QED BY <2>3, <2>4
<1> QED BY <1>1, <1>2, Zenon

\* Who checks finds the facade up to date only as a thread, and its view is the
\* published region.
LEMMA UpToDateFresh ==
  ASSUME IInv, Sound, NEW a \in Threads \cup Servers, UpToDate(a)
  PROVE  /\ a \in Threads
         /\ facade[ServerOf[a]] = current
         /\ pc' = [pc EXCEPT ![a] = "running"]
         /\ used' = [used EXCEPT ![a] = data[current.data]]
         /\ UNCHANGED <<memory, facade, mapped, view, store>>
<1> USE DEF IInv
<1>1. pc[a] = "check" /\ facade[Of(a)] = current
  BY SeenCurrent, Zenon DEF UpToDate
<1>2. a \in Threads
  <2> SUFFICES ASSUME a \notin Threads PROVE FALSE
    BY Zenon
  <2>1. a \in Servers /\ Of(a) = a
    BY Zenon DEF Of
  <2>2. facade[a] = Nothing(None)
    BY <1>1, <2>1, Zenon DEF Sound, FacadeSound
  <2>3. current.layout # 3
    BY DEF Sound, RegionsSound, Untouched, Regions, Nothing, Unset
  <2> QED BY <1>1, <2>1, <2>2, <2>3 DEF Nothing, None
<1>3. ServerOf[a] \in Servers /\ Of(a) = ServerOf[a] /\ facade[ServerOf[a]] = current
  BY <1>1, <1>2, Zenon DEF Of
<1>4. pc[ServerOf[a]] = "up"
  BY <1>1, <1>2, Zenon DEF Sound, ThreadSound
<1>5. \A t \in Threads : pc[t] \notin {"layout", "data"}
  <2> TAKE t \in Threads
  <2>1. query = a
    BY <1>1, <1>2, Zenon DEF Locked, Reloading
  <2>2. pc[t] \in {"layout", "data"} => query = t
    BY Zenon DEF Locked, Reloading
  <2> QED BY <1>1, <2>1, <2>2, Zenon
<1>6. view[ServerOf[a]] = data[current.data]
  BY <1>3, <1>4, <1>5, Zenon DEF Sound, ViewSound
<1> QED BY <1>2, <1>3, <1>6, Zenon DEF UpToDate, Ready

\* The regions of the published pair stay, and so does every view of them.
LEMMA UpToDateKeepsSound ==
  ASSUME IInv, Sound, NEW a \in Threads \cup Servers, UpToDate(a)
  PROVE  Sound'
<1> USE DEF IInv
<1>1. /\ a \in Threads /\ pc' = [pc EXCEPT ![a] = "running"]
      /\ UNCHANGED <<memory, facade, mapped, view, store>>
  BY UpToDateFresh, Zenon
<1>2. \A s \in Servers : pc'[s] = pc[s]
  BY <1>1, Zenon DEF TypeOK
<1>3. /\ pc[a] = "check" /\ pc'[a] = "running"
      /\ \A t \in Threads \ {a} : pc'[t] = pc[t]
  BY <1>1, Zenon DEF UpToDate, TypeOK
<1>4. RunsAlone' /\ RegionsSound' /\ \A d \in Stores : RunSound(d)'
  BY <1>1, <1>2, Zenon DEF Sound, RunsAlone, RegionsSound, Untouched, RunSound, Resting, Published, memory, store
<1>5. ASSUME NEW s \in Servers PROVE (FacadeSound(s) /\ ViewSound(s))'
  <2>1. FacadeSound(s) /\ ViewSound(s)
    BY Zenon DEF Sound
  <2>2. FacadeSound(s)'
    BY <1>1, <1>2, <2>1, Zenon DEF FacadeSound, Published, memory
  <2>3. ViewSound(s)'
    BY <1>1, <1>2, <1>3, <2>1, Zenon DEF ViewSound, memory
  <2> QED BY <2>2, <2>3, Zenon
<1>6. ASSUME NEW t \in Threads PROVE (ThreadSound(t) /\ pc[t] # "down" /\ pc[t] # "up")'
  BY <1>1, <1>2, <1>3 DEF Sound, ThreadSound, memory
<1> QED BY <1>4, <1>5, <1>6, Zenon DEF Sound

\* What a reload removes is not the published pair.
LEMMA ReleaseKeepsSound ==
  ASSUME IInv, Sound, NEW a \in Threads \cup Servers, ReleasePrevious(a)
  PROVE  Sound'
<1> USE DEF IInv
<1> DEFINE s == Of(a)
<1>1. /\ pc[a] = "check" /\ facade[s] # current
      /\ facade' = [facade EXCEPT ![s] = current]
      /\ pc' = [pc EXCEPT ![a] = "layout"]
      /\ layout' = Remove(layout, facade[s].layout)
      /\ data' = Remove(data, facade[s].data)
      /\ UNCHANGED <<loaded, current, mapped, view, store>>
  BY SeenCurrent, Zenon DEF ReleasePrevious
<1>2. /\ s \in Servers
      /\ a \in Threads => pc[s] = "up" /\ s = ServerOf[a]
      /\ a \notin Threads => s = a
  BY <1>1, Zenon DEF Of, Sound, ThreadSound
<1>3. Resting
  BY <1>1, <1>2, Zenon DEF Sound, RunsAlone, Reloading
<1>4. FacadeSound(s)
  BY <1>2, Zenon DEF Sound
<1>5. /\ Published => current.layout \in Regions /\ current.data = current.layout
      /\ facade[s].layout = facade[s].data
      /\ \/ facade[s].layout = 3
         \/ Published /\ facade[s].layout = Other(current.layout)
  <2>1. Published => current.layout \in Regions /\ current.data = current.layout
    BY Zenon DEF Sound, RegionsSound, Untouched
  <2>2. CASE a \in Threads
    BY <1>1, <1>2, <1>4, <2>1, <2>2, Zenon DEF FacadeSound
  <2>3. CASE a \notin Threads
    <3>1. facade[s] = Nothing(None)
      BY <1>1, <1>2, <1>4, <2>3, Zenon DEF FacadeSound
    <3>2. facade[s].layout = 3 /\ facade[s].data = 3
      BY <3>1 DEF Nothing, None
    <3> QED BY <2>1, <3>2, Zenon
  <2> QED BY <2>2, <2>3, Zenon
<1>6. Published => /\ layout'[current.layout] = layout[current.layout]
                   /\ data'[current.layout] = data[current.layout]
                   /\ layout[Other(current.layout)] = 0 => layout'[Other(current.layout)] = 0
  BY <1>1, <1>5 DEF Remove, TypeOK, Regions, Other
<1>7. /\ \A r \in Servers : pc'[r] = IF r = a THEN "layout" ELSE pc[r]
      /\ \A t \in Threads : pc'[t] = IF t = a THEN "layout" ELSE pc[t]
      /\ \A r \in Servers : facade'[r] = IF r = s THEN current ELSE facade[r]
  BY <1>1, <1>2, Zenon DEF TypeOK
<1>8. Resting'
  BY <1>1, <1>3, Zenon DEF Resting, store
<1>9. RunsAlone'
  BY <1>8, Zenon DEF RunsAlone, Resting
<1>10. RegionsSound'
  <2>1. CASE Published
    BY <1>1, <1>6, <2>1, Zenon DEF Sound, RegionsSound, Untouched, Published, Resting, store
  <2>2. CASE ~Published
    <3>1. layout' = layout
      BY <1>1, <1>5, <2>2 DEF Remove, TypeOK, Regions
    <3> QED BY <1>1, <2>2, <3>1, Zenon DEF Sound, RegionsSound, Untouched, Published, Resting, store
  <2> QED BY <2>1, <2>2, Zenon
<1>11. ASSUME NEW d \in Stores PROVE RunSound(d)'
  BY <1>8, Zenon DEF Resting, RunSound
<1>12. ASSUME NEW r \in Servers PROVE (FacadeSound(r) /\ ViewSound(r))'
  <2>1. FacadeSound(r) /\ ViewSound(r)
    BY DEF Sound
  <2>2. FacadeSound(r)'
    <3>1. UNCHANGED <<current, mapped>>
      BY <1>1, Zenon
    <3>2. CASE r = s
      BY <1>2, <1>7, <2>1, <3>1, <3>2, Zenon DEF FacadeSound, Published
    <3>3. CASE r # s
      <4>1. pc'[r] = pc[r] /\ facade'[r] = facade[r]
        BY <1>1, <1>2, <1>7, <3>3, Zenon
      <4> QED BY <1>6, <2>1, <3>1, <4>1, Zenon DEF FacadeSound, Published
    <3> QED BY <3>2, <3>3, Zenon
  <2>3. ViewSound(r)'
    <3>1. CASE r = s
      BY <1>2, <1>7, <3>1, Zenon DEF ViewSound
    <3>2. CASE r # s
      <4>1. pc'[r] = pc[r] /\ facade'[r] = facade[r]
        BY <1>2, <1>7, <3>2, Zenon
      <4>2. \A t \in Threads : ServerOf[t] = r => pc'[t] = pc[t]
        BY <1>2, <1>7, <3>2, Zenon
      <4>3. pc[r] = "up" => Published
        BY <2>1, Zenon DEF FacadeSound
      <4> QED BY <1>1, <1>5, <1>6, <2>1, <4>1, <4>2, <4>3, Zenon DEF ViewSound
    <3> QED BY <3>1, <3>2
  <2> QED BY <2>2, <2>3
<1>13. ASSUME NEW t \in Threads PROVE (ThreadSound(t) /\ pc[t] # "down" /\ pc[t] # "up")'
  <2>1. ThreadSound(t) /\ pc[t] # "down" /\ pc[t] # "up" /\ FacadeSound(ServerOf[t])
    BY Zenon DEF Sound
  <2>2. pc[t] = "data" => Published
    BY <2>1, Zenon DEF ThreadSound, FacadeSound
  <2>3. pc'[ServerOf[t]] = pc[ServerOf[t]] \/ pc[t] = "idle"
    BY <1>1, <1>2, <1>7, <2>1, Zenon DEF ThreadSound
  <2>4. pc'[t] # "idle" => pc'[ServerOf[t]] = "up"
    BY <1>1, <1>2, <1>7, <2>1, <2>3, Zenon DEF ThreadSound
  <2> QED BY <1>1, <1>2, <1>6, <1>7, <2>1, <2>2, <2>4 DEF ThreadSound
<1> QED BY <1>9, <1>10, <1>11, <1>12, <1>13, Zenon DEF Sound

\* The layout of the published pair is there; only a server that starts before
\* the first publication does not find one.
LEMMA AttachLayoutKeepsSound ==
  ASSUME IInv, Sound, NEW a \in Threads \cup Servers, AttachLayout(a)
  PROVE  /\ Sound'
         /\ a \in Threads => pc'[a] = "data"
<1> USE DEF IInv
<1> DEFINE s == Of(a)
<1>1. /\ pc[a] = "layout"
      /\ UNCHANGED <<memory, facade, view, store>>
  BY Zenon DEF AttachLayout
<1>2. /\ s \in Servers
      /\ a \in Threads => pc[s] = "up" /\ s = ServerOf[a]
      /\ a \notin Threads => s = a
      /\ facade[s] = current
  BY <1>1, Zenon DEF Of, Sound, ThreadSound, FacadeSound
<1>3. FacadeSound(s)
  BY <1>2, Zenon DEF Sound
<1>4. a \in Threads => Published
  BY <1>2, <1>3, Zenon DEF FacadeSound
<1>5. Published => Exists(layout, current.layout)
  BY Zenon DEF Sound, RegionsSound, Untouched, Exists
<1>6. CASE Published
  <2>1. /\ mapped' = [mapped EXCEPT ![s].layout = layout[current.layout]]
        /\ pc' = [pc EXCEPT ![a] = "data"]
    BY <1>2, <1>5, <1>6, Zenon DEF AttachLayout
  <2>2. /\ \A r \in Servers : pc'[r] = IF r = a THEN "data" ELSE pc[r]
        /\ \A t \in Threads : pc'[t] = IF t = a THEN "data" ELSE pc[t]
        /\ \A r \in Servers \ {s} : mapped'[r] = mapped[r]
        /\ mapped'[s].layout = layout[current.layout]
    BY <1>2, <2>1 DEF TypeOK
  <2>3. RunsAlone'
    BY <1>1, <1>2, <2>2, Zenon DEF Sound, RunsAlone, Resting, store, memory, Reloading
  <2>4. RegionsSound' /\ \A d \in Stores : RunSound(d)'
    BY <1>1, Zenon DEF Sound, RegionsSound, Untouched, RunSound, Published, Resting, store, memory
  <2>5. ASSUME NEW r \in Servers PROVE (FacadeSound(r) /\ ViewSound(r))'
    <3>1. FacadeSound(r) /\ ViewSound(r)
      BY DEF Sound
    <3>2. FacadeSound(r)'
      BY <1>1, <1>2, <1>6, <2>2, <3>1, Zenon DEF FacadeSound, Published, memory
    <3>3. ViewSound(r)'
      BY <1>1, <1>2, <2>2, <3>1, Zenon DEF ViewSound, memory
    <3> QED BY <3>2, <3>3
  <2>6. ASSUME NEW t \in Threads PROVE (ThreadSound(t) /\ pc[t] # "down" /\ pc[t] # "up")'
    <3>1. ThreadSound(t) /\ pc[t] # "down" /\ pc[t] # "up"
      BY Zenon DEF Sound
    <3>2. pc'[t] # "idle" => pc[t] # "idle" /\ pc'[ServerOf[t]] = "up"
      BY <1>1, <1>2, <2>2, <3>1, Zenon DEF ThreadSound
    <3>3. pc'[t] = "data" => mapped'[ServerOf[t]].layout = layout[current.layout]
      BY <1>1, <1>2, <2>2, <3>1, Zenon DEF ThreadSound
    <3> QED BY <1>1, <1>2, <2>2, <3>1, <3>2, <3>3, Zenon DEF ThreadSound, memory
  <2> QED BY <2>2, <2>3, <2>4, <2>5, <2>6, Zenon DEF Sound
<1>7. CASE ~Published
  <2>1. a \in Servers /\ a \notin Threads /\ s = a /\ ~Exists(layout, current.layout)
    BY <1>2, <1>4, <1>7 DEF Exists, Sound, RegionsSound, Untouched, Nothing, Unset, Regions
  <2>2. mapped' = mapped /\ pc' = [pc EXCEPT ![a] = "down"]
    BY <1>2, <2>1, Zenon DEF AttachLayout, ReloadThrows
  <2>3. /\ \A r \in Servers : pc'[r] = IF r = a THEN "down" ELSE pc[r]
        /\ \A t \in Threads : pc'[t] = pc[t]
    BY <2>1, <2>2, Zenon DEF TypeOK
  <2>4. RunsAlone'
    BY <1>1, <2>3, Zenon DEF Sound, RunsAlone, Resting, store, memory, Reloading
  <2>5. RegionsSound' /\ \A d \in Stores : RunSound(d)'
    BY <1>1 DEF Sound, RegionsSound, Untouched, RunSound, Published, Resting, store, memory
  <2>6. ASSUME NEW r \in Servers PROVE (FacadeSound(r) /\ ViewSound(r))'
    BY <1>1, <2>2, <2>3 DEF Sound, FacadeSound, ViewSound, Published, memory
  <2>7. ASSUME NEW t \in Threads PROVE (ThreadSound(t) /\ pc[t] # "down" /\ pc[t] # "up")'
    <3>1. ThreadSound(t) /\ pc[t] # "down" /\ pc[t] # "up"
      BY DEF Sound
    <3>2. pc'[ServerOf[t]] = pc[ServerOf[t]] \/ pc[t] = "idle"
      BY <1>1, <2>3, <3>1, Zenon DEF ThreadSound
    <3> QED BY <1>1, <2>2, <2>3, <3>1, <3>2, Zenon DEF ThreadSound, memory
  <2> QED BY <2>1, <2>4, <2>5, <2>6, <2>7, Zenon DEF Sound
<1> QED BY <1>6, <1>7, Zenon

\* The data of the published pair fit its layout: the reload always succeeds.
LEMMA AttachDataKeepsSound ==
  ASSUME IInv, Sound, NEW a \in Threads \cup Servers, AttachData(a)
  PROVE  /\ Sound'
         /\ a \in Threads => pc'[a] = "running" /\ used'[a] = data[current.data]
<1> USE DEF IInv
<1> DEFINE s == Of(a)
           v == data[current.data]
           end == IF a \in Threads THEN "running" ELSE "up"
<1>1. /\ pc[a] = "data"
      /\ UNCHANGED <<memory, facade, store>>
  BY Zenon DEF AttachData
<1>2. /\ s \in Servers
      /\ a \in Threads => pc[s] = "up" /\ s = ServerOf[a]
      /\ a \notin Threads => s = a
      /\ facade[s] = current
      /\ mapped[s].layout = layout[current.layout]
  BY <1>1, Zenon DEF Of, Sound, ThreadSound, FacadeSound
<1>3. Published
  <2>1. FacadeSound(s)
    BY <1>2, Zenon DEF Sound
  <2> QED BY <1>1, <1>2, <2>1, Zenon DEF FacadeSound
<1>4. Exists(data, current.data) /\ v = mapped[s].layout /\ v \in loaded
  BY <1>2, <1>3, Zenon DEF Sound, RegionsSound, Untouched, Exists
<1>5. /\ mapped' = [mapped EXCEPT ![s].data = v]
      /\ view' = [view EXCEPT ![s] = v]
      /\ Ready(a, v)
  BY <1>2, <1>4, Zenon DEF AttachData
<1>6. /\ pc' = [pc EXCEPT ![a] = end]
      /\ a \in Threads => used' = [used EXCEPT ![a] = v]
  BY <1>5, Zenon DEF Ready
<1>7. /\ \A r \in Servers : pc'[r] = IF r = a THEN "up" ELSE pc[r]
      /\ \A t \in Threads : pc'[t] = IF t = a THEN "running" ELSE pc[t]
      /\ \A r \in Servers : mapped'[r].layout = mapped[r].layout
      /\ \A r \in Servers : view'[r] = IF r = s THEN v ELSE view[r]
  BY <1>2, <1>5, <1>6 DEF TypeOK
<1>8. RunsAlone'
  BY <1>1, <1>2, <1>7 DEF Sound, RunsAlone, Resting, store, memory, Reloading
<1>9. RegionsSound' /\ \A d \in Stores : RunSound(d)'
  BY <1>1, Zenon DEF Sound, RegionsSound, Untouched, RunSound, Published, Resting, store, memory
<1>10. ASSUME NEW r \in Servers PROVE (FacadeSound(r) /\ ViewSound(r))'
  <2>1. FacadeSound(r) /\ ViewSound(r)
    BY DEF Sound
  <2>2. FacadeSound(r)'
    BY <1>1, <1>2, <1>3, <1>7, <2>1, Zenon DEF FacadeSound, Published, memory
  <2>3. ViewSound(r)'
    <3>1. CASE r = s
      BY <1>1, <1>2, <1>7, <3>1, Zenon DEF ViewSound, memory
    <3>2. CASE r # s
      <4>1. pc'[r] = pc[r] /\ \A t \in Threads : ServerOf[t] = r => pc'[t] = pc[t]
        BY <1>2, <1>7, <3>2, Zenon
      <4> QED BY <1>1, <1>7, <2>1, <3>2, <4>1, Zenon DEF ViewSound, memory
    <3> QED BY <3>1, <3>2
  <2> QED BY <2>2, <2>3
<1>11. ASSUME NEW t \in Threads PROVE (ThreadSound(t) /\ pc[t] # "down" /\ pc[t] # "up")'
  <2>1. ThreadSound(t) /\ pc[t] # "down" /\ pc[t] # "up"
    BY DEF Sound
  <2>2. pc'[t] # "idle" => pc'[ServerOf[t]] = "up"
    BY <1>1, <1>2, <1>7, <2>1, Zenon DEF ThreadSound
  <2> QED BY <1>1, <1>7, <2>1, <2>2, Zenon DEF ThreadSound, memory
<1>12. a \in Threads => pc'[a] = "running" /\ used'[a] = v
  BY <1>6, <1>7 DEF TypeOK
<1> QED BY <1>8, <1>9, <1>10, <1>11, <1>12, Zenon DEF Sound

\* A server starts only between runs, with nothing attached.
LEMMA ServerStartKeepsSound ==
  ASSUME Orderly, IInv, Sound, NEW s \in Servers, ServerStart(s)
  PROVE  Sound'
<1> USE DEF IInv
<1>1. /\ pc[s] = "down" /\ pc' = [pc EXCEPT ![s] = "check"]
      /\ facade' = [facade EXCEPT ![s] = Nothing(None)]
      /\ mapped' = [mapped EXCEPT ![s] = [layout |-> 0, data |-> 0]]
      /\ view' = [view EXCEPT ![s] = 0]
      /\ UNCHANGED <<memory, store>>
      /\ Resting
  BY Zenon DEF ServerStart, Orderly, Resting, TypeOK
<1>2. /\ pc'[s] = "check" /\ facade'[s] = Nothing(None)
      /\ \A r \in Servers \ {s} : /\ pc'[r] = pc[r] /\ facade'[r] = facade[r]
                                  /\ mapped'[r] = mapped[r] /\ view'[r] = view[r]
      /\ \A t \in Threads : pc'[t] = pc[t]
  BY <1>1 DEF TypeOK
<1>3. RunsAlone' /\ RegionsSound' /\ \A d \in Stores : RunSound(d)'
  BY <1>1, Zenon DEF Sound, RunsAlone, RegionsSound, Untouched, RunSound, Resting, Published, memory, store
<1>4. ASSUME NEW r \in Servers PROVE (FacadeSound(r) /\ ViewSound(r))'
  <2>1. FacadeSound(r) /\ ViewSound(r)
    BY Zenon DEF Sound
  <2> QED BY <1>1, <1>2, <2>1, Zenon DEF FacadeSound, ViewSound, Published, memory
<1>5. ASSUME NEW t \in Threads PROVE (ThreadSound(t) /\ pc[t] # "down" /\ pc[t] # "up")'
  <2>1. ThreadSound(t) /\ pc[t] # "down" /\ pc[t] # "up"
    BY Zenon DEF Sound
  <2>2. pc[t] # "idle" => ServerOf[t] \in Servers \ {s}
    BY <1>1, <2>1, Zenon DEF ThreadSound
  <2> QED BY <1>1, <1>2, <2>1, <2>2, Zenon DEF ThreadSound, memory
<1> QED BY <1>3, <1>4, <1>5, Zenon DEF Sound

\* Queries come and go without touching facades or regions.
LEMMA QueriesKeepSound ==
  ASSUME IInv, Sound, NEW t \in Threads,
         QueryArrives(t) \/ Increase(t) \/ Decrease(t) \/ QueryThrows(t)
  PROVE  Sound'
<1> USE DEF IInv
<1>1. /\ pc[t] \in {"idle", "pending", "running"}
      /\ pc[t] = "idle" => pc[ServerOf[t]] = "up"
      /\ \E to \in {"pending", "check", "idle"} : pc' = [pc EXCEPT ![t] = to]
      /\ UNCHANGED <<memory, facade, mapped, view, store>>
  BY Zenon DEF QueryArrives, Increase, Decrease, QueryThrows
<1>2. /\ pc'[t] \in {"pending", "check", "idle"}
      /\ \A u \in Threads \ {t} : pc'[u] = pc[u]
      /\ \A s \in Servers : pc'[s] = pc[s]
  BY <1>1 DEF TypeOK
<1>3. RunsAlone' /\ RegionsSound' /\ \A d \in Stores : RunSound(d)'
  BY <1>1, <1>2 DEF Sound, RunsAlone, RegionsSound, Untouched, RunSound, Resting, Published, memory, store
<1>4. ASSUME NEW r \in Servers PROVE (FacadeSound(r) /\ ViewSound(r))'
  <2>1. FacadeSound(r) /\ ViewSound(r)
    BY Zenon DEF Sound
  <2>2. FacadeSound(r)'
    BY <1>1, <1>2, <2>1, Zenon DEF FacadeSound, Published, memory
  <2>3. (\A u \in Threads : ServerOf[u] = r => pc'[u] \notin {"layout", "data"})
          => \A u \in Threads : ServerOf[u] = r => pc[u] \notin {"layout", "data"}
    BY <1>1, <1>2, Zenon
  <2>4. ViewSound(r)'
    BY <1>1, <1>2, <2>1, <2>3, Zenon DEF ViewSound, memory
  <2> QED BY <2>2, <2>4, Zenon
<1>5. ASSUME NEW u \in Threads PROVE (ThreadSound(u) /\ pc[u] # "down" /\ pc[u] # "up")'
  <2>1. ThreadSound(u) /\ pc[u] # "down" /\ pc[u] # "up"
    BY Zenon DEF Sound
  <2> QED BY <1>1, <1>2, <2>1, Zenon DEF ThreadSound, memory
<1> QED BY <1>3, <1>4, <1>5, Zenon DEF Sound

(* Nothing is published at first.                                          *)
LEMMA InitSound == Init => Sound
<1> SUFFICES ASSUME Init PROVE Sound
  BY Zenon
<1>1. Resting /\ ~Published /\ current = Nothing(Unset)
  BY DEF Init, Resting, Published, Nothing
<1>2. /\ \A s \in Servers : pc[s] = "down"
      /\ \A t \in Threads : pc[t] = "idle"
  BY Zenon DEF Init
<1>3. RunsAlone /\ RegionsSound /\ \A d \in Stores : RunSound(d)
  BY <1>1, Zenon DEF Init, RunsAlone, RegionsSound, Untouched, RunSound, Resting
<1>4. \A s \in Servers : FacadeSound(s) /\ ViewSound(s)
  BY <1>2, Zenon DEF FacadeSound, ViewSound
<1>5. \A t \in Threads : ThreadSound(t) /\ pc[t] # "down" /\ pc[t] # "up"
  BY <1>2, Zenon DEF ThreadSound
<1> QED BY <1>3, <1>4, <1>5, Zenon DEF Sound

\* A step that changes nothing.
LEMMA UnchangedKeepsSound ==
  ASSUME Sound, UNCHANGED vars
  PROVE  Sound'
<1>1. UNCHANGED <<memory, pc, facade, mapped, view, spc, target, gen>>
  BY Zenon DEF vars, server, store
<1>2. RunsAlone' /\ RegionsSound' /\ \A d \in Stores : RunSound(d)'
  BY <1>1, Zenon DEF Sound, RunsAlone, RegionsSound, Untouched, RunSound, Resting, Published, memory
<1>3. \A s \in Servers : (FacadeSound(s) /\ ViewSound(s))'
  BY <1>1, Zenon DEF Sound, FacadeSound, ViewSound, Published, memory
<1>4. \A t \in Threads : (ThreadSound(t) /\ pc[t] # "down" /\ pc[t] # "up")'
  BY <1>1, Zenon DEF Sound, ThreadSound, memory
<1> QED BY <1>2, <1>3, <1>4, Zenon DEF Sound

\* A run ends before it has created anything.
LEMMA FailKeepsSound ==
  ASSUME Orderly, IInv, Sound, NEW d \in Stores, StoreFails(d)
  PROVE  Sound'
<1> USE DEF IInv
<1>1. spc[d] = "layout" /\ spc' = [spc EXCEPT ![d] = "idle"] /\ UNCHANGED <<memory, server, target, gen>>
  <2>1. /\ spc[d] \in {"layout", "data", "fill", "lock"} /\ spc' = [spc EXCEPT ![d] = "idle"]
        /\ UNCHANGED <<memory, server, target, gen>>
    BY Zenon DEF StoreFails
  <2>2. spc'[d] = "idle"
    BY <2>1, Zenon DEF TypeOK
  <2> QED BY <2>1, <2>2, Zenon DEF Orderly
<1>2. spc'[d] = "idle" /\ \A e \in Stores : e # d => spc'[e] = spc[e]
  BY <1>1, Zenon DEF TypeOK
<1>4. Untouched' => Untouched
  BY <1>1, <1>2, Zenon DEF Untouched
<1>5. RunsAlone'
  <2>1. ~Resting
    BY <1>1 DEF Resting
  <2> QED BY <1>1, <1>2, <2>1, Zenon DEF Sound, RunsAlone, memory, server
<1>6. RegionsSound'
  BY <1>1, <1>4, Zenon DEF Sound, RegionsSound, Untouched, Published, memory
<1>7. ASSUME NEW e \in Stores PROVE RunSound(e)'
  BY <1>1, <1>2 DEF Sound, RunSound, Published, memory
<1>8. ASSUME NEW s \in Servers PROVE (FacadeSound(s) /\ ViewSound(s))'
  BY <1>1, Zenon DEF Sound, FacadeSound, ViewSound, Published, memory, server
<1>9. ASSUME NEW t \in Threads PROVE (ThreadSound(t) /\ pc[t] # "down" /\ pc[t] # "up")'
  BY <1>1, Zenon DEF Sound, ThreadSound, Published, memory, server
<1> QED BY <1>5, <1>6, <1>7, <1>8, <1>9, Zenon DEF Sound

(* No step of a server, a store or the operator spoils the published       *)
(* regions.                                                                *)
LEMMA StepKeepsSound ==
  ASSUME Orderly, IInv, Sound, Next
  PROVE  Sound'
<1>1. ASSUME NEW d \in Stores, Store(d) \/ StoreFails(d) PROVE Sound'
  BY <1>1, FailKeepsSound, StartKeepsSound, FillKeepsSound, PublishKeepsSound, Zenon DEF Store
<1>2. ASSUME NEW a \in Threads \cup Servers, Reload(a) PROVE Sound'
  BY <1>2, UpToDateKeepsSound, ReleaseKeepsSound, AttachLayoutKeepsSound, AttachDataKeepsSound, Zenon
     DEF Reload
<1> QED BY <1>1, <1>2, ServerStartKeepsSound, QueriesKeepSound, Zenon DEF Next

\* While the runs are started in turn, IInv and Sound hold together.
LEMMA OrderlyInvariance == Spec /\ [][Orderly]_vars => [](IInv /\ Sound)
<1>1. Sound /\ IInv /\ [Next]_vars /\ [Orderly]_vars => Sound'
  <2>1. CASE UNCHANGED vars
    BY <2>1, UnchangedKeepsSound, Zenon
  <2>2. CASE Next /\ Orderly
    BY <2>2, StepKeepsSound, Zenon
  <2> QED BY <2>1, <2>2, Zenon
<1> QED BY <1>1, InitSound, Invariance, PTL DEF Spec

\* Started in turn and never cut short once they have created a region, the runs
\* of osrm-datastore leave in CURRENT_REGIONS a pair that is complete and of one
\* run, for any number of servers, threads, stores and runs.
THEOREM PublishedIsSound == Spec /\ [][Orderly]_vars => []CurrentIsSound
<1>1. Sound => CurrentIsSound
  BY Zenon DEF Sound, RegionsSound, Untouched, Published, CurrentIsSound
<1> QED BY <1>1, OrderlyInvariance, PTL

\* Every query that leaves CheckAndReloadFacade runs on the generation that is
\* published at that moment, and no reload throws, when the runs of
\* osrm-datastore are started in turn and not cut short.
THEOREM StartFresh == Spec /\ [][Orderly]_vars => QueriesStartFresh
<1> DEFINE Fresh == \A t \in Threads : pc[t] \in Reloading /\ pc'[t] \notin Reloading =>
                      pc'[t] = "running" /\ used'[t] = data[current.data]
<1>1. ASSUME IInv, Sound, Next, NEW t \in Threads,
             pc[t] \in Reloading, pc'[t] \notin Reloading
      PROVE  pc'[t] = "running" /\ used'[t] = data[current.data]
  <2> USE DEF IInv
  <2>1. ASSUME NEW d \in Stores, Store(d) \/ StoreFails(d) PROVE FALSE
    BY <1>1, <2>1, Zenon DEF Store, StoreStart, StoreLayout, StoreData, StoreFill, StoreLock,
                      StorePublish, StoreFails, server
  <2>2. ASSUME NEW s \in Servers, ServerStart(s) PROVE FALSE
    BY <1>1, <2>2 DEF ServerStart, TypeOK
  <2>3. ASSUME NEW u \in Threads,
               QueryArrives(u) \/ Increase(u) \/ Decrease(u) \/ QueryThrows(u)
        PROVE  FALSE
    BY <1>1, <2>3, Zenon DEF QueryArrives, Increase, Decrease, QueryThrows, TypeOK, Reloading
  <2>4. ASSUME NEW a \in Threads \cup Servers, Reload(a)
        PROVE  pc'[t] = "running" /\ used'[t] = data[current.data]
    <3>1. a = t
      BY <1>1, <2>4, Zenon DEF Reload, UpToDate, ReleasePrevious, AttachLayout, AttachData, Ready,
                        ReloadThrows, TypeOK
    <3>2. CASE UpToDate(t)
      BY <1>1, <3>2, UpToDateFresh DEF TypeOK
    <3>3. ~ReleasePrevious(t)
      BY <1>1, Zenon DEF ReleasePrevious, TypeOK, Reloading
    <3>4. ~AttachLayout(t)
      BY <1>1, AttachLayoutKeepsSound, Zenon DEF Reloading
    <3>5. CASE AttachData(t)
      BY <1>1, <3>5, AttachDataKeepsSound, Zenon
    <3> QED BY <2>4, <3>1, <3>2, <3>3, <3>4, <3>5, Zenon DEF Reload
  <2> QED BY <1>1, <2>1, <2>2, <2>3, <2>4, Zenon DEF Next
<1>2. IInv /\ Sound /\ [Next]_vars => [Fresh]_vars
  BY <1>1, Zenon
<1> QED BY <1>2, OrderlyInvariance, PTL DEF Spec, QueriesStartFresh
=============================================================================
