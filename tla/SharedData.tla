----------------------------- MODULE SharedData -----------------------------
(***************************************************************************)
(* Swapping the routing data under running OSRM servers: osrm-datastore    *)
(* (datastore.cpp) fills one of two pairs of shared memory regions and     *)
(* publishes it in CURRENT_REGIONS; every query thread of osrm-routed      *)
(* (OSRM_impl::RunQuery) compares CURRENT_REGIONS with what its process'   *)
(* SharedDataFacade has attached and reloads the facade when they differ.  *)
(*                                                                         *)
(* The named mutexes of SharedBarriers are shared by all processes; its    *)
(* number_of_queries is a plain member, so each process has its own.       *)
(*                                                                         *)
(* A run of osrm-datastore is identified by its number, the "generation"   *)
(* of the regions it fills; generation 0 stands for "no region".           *)
(***************************************************************************)
EXTENDS Integers, FiniteSets

CONSTANTS
  Servers,        \* osrm-routed processes
  Threads,        \* their query threads
  ServerOf,
  Stores,         \* osrm-datastore processes that may run side by side
  MaxRuns,        \* bound on the runs of osrm-datastore
  MaxQueries,     \* bound on the queries
  MaxFailures,    \* bound on the runs that end before they publish
  WaitForReload,  \* TRUE: a run starts only once every server has reloaded
  QuietStart,     \* TRUE: no server starts while osrm-datastore runs
  NoOne

\* Region pairs (LAYOUT_1, DATA_1) and (LAYOUT_2, DATA_2); Unset is what a
\* fresh CURRENT_REGIONS holds, None stands for LAYOUT_NONE and DATA_NONE.
Regions == {1, 2}
Unset == 0
None == 3

Generations == 0 .. MaxRuns

ASSUME SharedDataAssumption ==
  /\ ServerOf \in [Threads -> Servers]
  /\ IsFiniteSet(Threads)
  /\ Threads \cap Servers = {} /\ Threads \cap Stores = {}
  /\ NoOne \notin Threads \cup Stores
  /\ MaxRuns \in Nat /\ MaxQueries \in Nat /\ MaxFailures \in Nat
  /\ WaitForReload \in BOOLEAN /\ QuietStart \in BOOLEAN

VARIABLES
  layout,    \* region number -> generation of the LAYOUT region of that key
  data,      \* region number -> generation of the DATA region of that key
  loaded,    \* generations whose DATA region is filled
  current,   \* CURRENT_REGIONS
  pending,   \* owner of pending_update_mutex
  query,     \* owner of query_mutex
  number_of_queries,  \* per server process
  pc,        \* thread or server -> where it is
  used,      \* thread -> generation its running query started on
  facade,    \* server -> CURRENT_LAYOUT, CURRENT_DATA, CURRENT_TIMESTAMP
  mapped,    \* server -> generations m_layout_memory and m_large_memory map
  view,      \* server -> generation the graph and the lists point into, 0
             \* when they point into unmapped or mixed memory
  spc,       \* store -> where it is
  target,    \* store -> region pair it fills
  gen,       \* store -> number of its run
  runs, queries, failures

memory == <<layout, data, loaded, current>>
locks == <<pending, query>>
server == <<number_of_queries, pc, used, facade, mapped, view, queries>>
store == <<spc, target, gen, runs, failures>>
vars == <<memory, locks, server, store>>

Nothing(k) == [layout |-> k, data |-> k, timestamp |-> 0]

Init ==
  /\ layout = [k \in Regions |-> 0]
  /\ data = [k \in Regions |-> 0]
  /\ loaded = {}
  /\ current = Nothing(Unset)
  /\ pending = NoOne
  /\ query = NoOne
  /\ number_of_queries = [s \in Servers |-> 0]
  /\ pc = [a \in Threads \cup Servers |-> IF a \in Threads THEN "idle" ELSE "down"]
  /\ used = [t \in Threads |-> 0]
  /\ facade = [s \in Servers |-> Nothing(None)]
  /\ mapped = [s \in Servers |-> [layout |-> 0, data |-> 0]]
  /\ view = [s \in Servers |-> 0]
  /\ spc = [d \in Stores |-> "idle"]
  /\ target = [d \in Stores |-> 1]
  /\ gen = [d \in Stores |-> 0]
  /\ runs = 0 /\ queries = 0 /\ failures = 0

Reloading == {"check", "layout", "data"}

-----------------------------------------------------------------------------
(* osrm-datastore                                                           *)

Other(k) == 3 - k

\* pending_update_mutex is taken and released at once; the pair to fill is the
\* first one exactly when the second one's layout exists.
StoreStart(d) ==
  /\ spc[d] = "idle"
  /\ runs < MaxRuns
  /\ pending = NoOne
  /\ QuietStart => \A s \in Servers : pc[s] \notin Reloading
  /\ WaitForReload => /\ \A e \in Stores : spc[e] = "idle"
                      /\ \A s \in Servers : pc[s] = "up" => facade[s] = current
  /\ runs' = runs + 1
  /\ gen' = [gen EXCEPT ![d] = runs + 1]
  /\ target' = [target EXCEPT ![d] = IF layout[2] # 0 THEN 1 ELSE 2]
  /\ spc' = [spc EXCEPT ![d] = "layout"]
  /\ UNCHANGED <<memory, locks, server, failures>>

\* A region left under the key is removed, then a new one is created.  The
\* sizes of all blocks are written to it.
StoreLayout(d) ==
  /\ spc[d] = "layout"
  /\ layout' = [layout EXCEPT ![target[d]] = gen[d]]
  /\ spc' = [spc EXCEPT ![d] = "data"]
  /\ UNCHANGED <<data, loaded, current, locks, server, target, gen, runs, failures>>

StoreData(d) ==
  /\ spc[d] = "data"
  /\ data' = [data EXCEPT ![target[d]] = gen[d]]
  /\ spc' = [spc EXCEPT ![d] = "fill"]
  /\ UNCHANGED <<layout, loaded, current, locks, server, target, gen, runs, failures>>

StoreFill(d) ==
  /\ spc[d] = "fill"
  /\ loaded' = loaded \cup {gen[d]}
  /\ spc' = [spc EXCEPT ![d] = "lock"]
  /\ UNCHANGED <<layout, data, current, locks, server, target, gen, runs, failures>>

\* The counter that is tested is the store's own, which nobody increments:
\* the wait on no_running_queries_condition is never entered.
StoreLock(d) ==
  /\ spc[d] = "lock"
  /\ query = NoOne
  /\ query' = d
  /\ spc' = [spc EXCEPT ![d] = "publish"]
  /\ UNCHANGED <<memory, pending, server, target, gen, runs, failures>>

\* What d is about to write to CURRENT_REGIONS.
Publication(d) ==
  [layout |-> target[d], data |-> target[d], timestamp |-> current.timestamp + 1]

\* Mutant: the regions of the new generation are deleted instead.
StorePublishDeletesNew(d) ==
  /\ spc[d] = "publish"
  /\ current' = Publication(d)
  /\ layout' = [layout EXCEPT ![target[d]] = 0]
  /\ data' = [data EXCEPT ![target[d]] = 0]
  /\ query' = NoOne
  /\ spc' = [spc EXCEPT ![d] = "idle"]
  /\ UNCHANGED <<loaded, pending, server, target, gen, runs, failures>>

\* Mutant: the query mutex is not released on the way out.
StorePublishKeepsLock(d) ==
  /\ spc[d] = "publish"
  /\ current' = Publication(d)
  /\ layout' = [layout EXCEPT ![Other(target[d])] = 0]
  /\ data' = [data EXCEPT ![Other(target[d])] = 0]
  /\ spc' = [spc EXCEPT ![d] = "idle"]
  /\ UNCHANGED <<loaded, locks, server, target, gen, runs, failures>>

\* Publish, delete the regions of the other pair, release the mutex.
StorePublish(d) ==
  /\ spc[d] = "publish"
  /\ current' = Publication(d)
  /\ layout' = [layout EXCEPT ![Other(target[d])] = 0]
  /\ data' = [data EXCEPT ![Other(target[d])] = 0]
  /\ query' = NoOne
  /\ spc' = [spc EXCEPT ![d] = "idle"]
  /\ UNCHANGED <<loaded, pending, server, target, gen, runs, failures>>

\* A missing input file, no memory or a kill while loading: the process ends
\* and what it has created stays.
StoreFails(d) ==
  /\ spc[d] \in {"layout", "data", "fill", "lock"}
  /\ failures < MaxFailures
  /\ failures' = failures + 1
  /\ spc' = [spc EXCEPT ![d] = "idle"]
  /\ UNCHANGED <<memory, locks, server, target, gen, runs>>

-----------------------------------------------------------------------------
(* SharedDataFacade::CheckAndReloadFacade, run by a query thread that holds *)
(* query_mutex, or without it by the constructor when a server starts.      *)

Of(a) == IF a \in Threads THEN ServerOf[a] ELSE a

\* A query thread reads CURRENT_REGIONS under the mutex.  The constructor may
\* read it while a store writes the three fields one after the other.
Seen(a) ==
  IF a \in Threads THEN {current}
  ELSE LET now == {current} \cup {Publication(d) : d \in {e \in Stores : spc[e] = "publish"}}
       IN  {[layout |-> p.layout, data |-> q.data, timestamp |-> r.timestamp] :
              p \in now, q \in now, r \in now}

\* The facade is ready: the query runs, or the server is up.
Ready(a, v) ==
  /\ pc' = [pc EXCEPT ![a] = IF a \in Threads THEN "running" ELSE "up"]
  /\ used' = IF a \in Threads THEN [used EXCEPT ![a] = v] ELSE used
  /\ query' = IF a \in Threads THEN NoOne ELSE query

\* An exception: the scoped lock is released and the request is answered with
\* 500, but number_of_queries is not decremented; a starting server exits.
ReloadThrows(a) ==
  /\ pc' = [pc EXCEPT ![a] = IF a \in Threads THEN "idle" ELSE "down"]
  /\ query' = IF a \in Threads THEN NoOne ELSE query
  /\ UNCHANGED used

\* Mutant: a query may skip the comparison with CURRENT_REGIONS.
UpToDateUnchecked(a) ==
  /\ pc[a] = "check"
  /\ a \in Threads
  /\ Ready(a, view[Of(a)])
  /\ UNCHANGED <<memory, pending, number_of_queries, facade, mapped, view, queries, store>>

UpToDate(a) ==
  /\ pc[a] = "check"
  /\ facade[Of(a)] \in Seen(a)
  /\ Ready(a, view[Of(a)])
  /\ UNCHANGED <<memory, pending, number_of_queries, facade, mapped, view, queries, store>>

\* SharedMemory::Remove: the key is freed, whatever region it names by now.
Remove(regions, k) == [i \in Regions |-> IF i = k THEN 0 ELSE regions[i]]

ReleasePrevious(a) ==
  /\ pc[a] = "check"
  /\ \E c \in Seen(a) :
       /\ c # facade[Of(a)]
       /\ facade' = [facade EXCEPT ![Of(a)] = c]
  /\ layout' = Remove(layout, facade[Of(a)].layout)
  /\ data' = Remove(data, facade[Of(a)].data)
  /\ pc' = [pc EXCEPT ![a] = "layout"]
  /\ UNCHANGED <<loaded, current, locks, number_of_queries, used, mapped, view, queries, store>>

\* SharedMemoryFactory::Get of a key that names no region throws.
Exists(regions, k) == k \in Regions /\ regions[k] # 0

AttachLayout(a) ==
  LET s == Of(a)
      k == facade[s].layout
  IN  /\ pc[a] = "layout"
      /\ \/ /\ Exists(layout, k)
            /\ mapped' = [mapped EXCEPT ![s].layout = layout[k]]
            /\ pc' = [pc EXCEPT ![a] = "data"]
            /\ UNCHANGED <<query, used>>
         \/ /\ ~Exists(layout, k)
            /\ ReloadThrows(a)
            /\ UNCHANGED mapped
      /\ UNCHANGED <<memory, pending, number_of_queries, facade, view, queries, store>>

\* The Load functions leave pointers into the new region.  When the region is
\* not filled, or the layout is of another generation, the canaries or the
\* check of the leaf file may or may not notice.
AttachData(a) ==
  LET s == Of(a)
      k == facade[s].data
  IN  /\ pc[a] = "data"
      /\ \/ /\ ~Exists(data, k)
            /\ ReloadThrows(a)
            /\ UNCHANGED <<mapped, view>>
         \/ /\ Exists(data, k)
            /\ mapped' = [mapped EXCEPT ![s].data = data[k]]
            /\ LET sound == data[k] = mapped[s].layout /\ data[k] \in loaded
                   v == IF sound THEN data[k] ELSE 0
               IN  /\ view' = [view EXCEPT ![s] = v]
                   /\ Ready(a, v) \/ (~sound /\ ReloadThrows(a))
      /\ UNCHANGED <<memory, pending, number_of_queries, facade, queries, store>>

-----------------------------------------------------------------------------
(* osrm-routed                                                              *)

\* The constructor of SharedDataFacade, on a process that has nothing attached.
ServerStart(s) ==
  /\ pc[s] = "down"
  /\ QuietStart => \A d \in Stores : spc[d] = "idle"
  /\ pc' = [pc EXCEPT ![s] = "check"]
  /\ facade' = [facade EXCEPT ![s] = Nothing(None)]
  /\ mapped' = [mapped EXCEPT ![s] = [layout |-> 0, data |-> 0]]
  /\ view' = [view EXCEPT ![s] = 0]
  /\ UNCHANGED <<memory, locks, number_of_queries, used, queries, store>>

QueryArrives(t) ==
  /\ pc[t] = "idle"
  /\ pc[ServerOf[t]] = "up"
  /\ queries < MaxQueries
  /\ pending = NoOne
  /\ pending' = t
  /\ queries' = queries + 1
  /\ pc' = [pc EXCEPT ![t] = "pending"]
  /\ UNCHANGED <<memory, query, number_of_queries, used, facade, mapped, view, store>>

\* Mutant: counted only once the facade is known to be out of date.
IncreaseLate(t) ==
  /\ pc[t] = "pending"
  /\ query = NoOne
  /\ query' = t
  /\ pending' = NoOne
  /\ number_of_queries' =
       IF facade[ServerOf[t]] = current THEN number_of_queries
       ELSE [number_of_queries EXCEPT ![ServerOf[t]] = @ + 1]
  /\ pc' = [pc EXCEPT ![t] = "check"]
  /\ UNCHANGED <<memory, used, facade, mapped, view, queries, store>>

\* Mutant: query_mutex is not taken.
IncreaseUnlocked(t) ==
  /\ pc[t] = "pending"
  /\ pending' = NoOne
  /\ number_of_queries' = [number_of_queries EXCEPT ![ServerOf[t]] = @ + 1]
  /\ pc' = [pc EXCEPT ![t] = "check"]
  /\ UNCHANGED <<memory, query, used, facade, mapped, view, queries, store>>

\* increase_concurrent_query_count: query_mutex is taken before
\* pending_update_mutex is given up.
Increase(t) ==
  /\ pc[t] = "pending"
  /\ query = NoOne
  /\ query' = t
  /\ pending' = NoOne
  /\ number_of_queries' = [number_of_queries EXCEPT ![ServerOf[t]] = @ + 1]
  /\ pc' = [pc EXCEPT ![t] = "check"]
  /\ UNCHANGED <<memory, used, facade, mapped, view, queries, store>>

\* decrease_concurrent_query_count, after HandleRequest has returned.
Decrease(t) ==
  /\ pc[t] = "running"
  /\ query = NoOne
  /\ number_of_queries' = [number_of_queries EXCEPT ![ServerOf[t]] = @ - 1]
  /\ pc' = [pc EXCEPT ![t] = "idle"]
  /\ used' = [used EXCEPT ![t] = 0]
  /\ UNCHANGED <<memory, locks, facade, mapped, view, queries, store>>

\* HandleRequest throws: the handler answers 500 and the count stays.
QueryThrows(t) ==
  /\ pc[t] = "running"
  /\ pc' = [pc EXCEPT ![t] = "idle"]
  /\ used' = [used EXCEPT ![t] = 0]
  /\ UNCHANGED <<memory, locks, number_of_queries, facade, mapped, view, queries, store>>

-----------------------------------------------------------------------------
Store(d) ==
  \/ StoreStart(d)
  \/ StoreLayout(d)
  \/ StoreData(d)
  \/ StoreFill(d)
  \/ StoreLock(d)
  \/ StorePublish(d)

Reload(a) == UpToDate(a) \/ ReleasePrevious(a) \/ AttachLayout(a) \/ AttachData(a)

Next ==
  \/ \E d \in Stores : Store(d) \/ StoreFails(d)
  \/ \E s \in Servers : ServerStart(s)
  \/ \E a \in Threads \cup Servers : Reload(a)
  \/ \E t \in Threads : QueryArrives(t) \/ Increase(t) \/ Decrease(t) \/ QueryThrows(t)

Spec == Init /\ [][Next]_vars

\* Processes keep running once they have started a run or a query; a thread
\* that waits for a mutex gets it if it is free again and again.
Fairness ==
  /\ \A d \in Stores :
       /\ WF_vars(StoreLayout(d) \/ StoreData(d) \/ StoreFill(d) \/ StorePublish(d))
       /\ SF_vars(StoreLock(d))
  /\ \A a \in Threads \cup Servers : WF_vars(Reload(a))
  /\ \A t \in Threads : SF_vars(Increase(t)) /\ SF_vars(Decrease(t))

FairSpec == Spec /\ Fairness

-----------------------------------------------------------------------------
CurrentRecord ==
  [layout : 0 .. 3, data : 0 .. 3, timestamp : Nat]

TypeOK ==
  /\ layout \in [Regions -> Generations]
  /\ data \in [Regions -> Generations]
  /\ loaded \subseteq Generations
  /\ current \in CurrentRecord
  /\ pending \in Threads \cup {NoOne}
  /\ query \in Threads \cup Stores \cup {NoOne}
  /\ number_of_queries \in [Servers -> Int]
  /\ pc \in [Threads \cup Servers ->
               {"idle", "pending", "running", "down", "up"} \cup Reloading]
  /\ used \in [Threads -> Generations]
  /\ facade \in [Servers -> CurrentRecord]
  /\ mapped \in [Servers -> [layout : Generations, data : Generations]]
  /\ view \in [Servers -> Generations]
  /\ spc \in [Stores -> {"idle", "layout", "data", "fill", "lock", "publish"}]
  /\ target \in [Stores -> Regions]
  /\ gen \in [Stores -> Generations]
  /\ runs \in Generations
  /\ queries \in 0 .. MaxQueries
  /\ failures \in 0 .. MaxFailures

Busy(s) == {t \in Threads : ServerOf[t] = s /\ pc[t] \in Reloading \cup {"running"}}

\* BOOST_ASSERT_MSG(0 <= barrier->number_of_queries, ...) in
\* decrease_concurrent_query_count: the counter of a process never drops below
\* the queries that are reloading or running in it, although queries that end
\* with an exception never give their count back.
CountCoversQueries == \A s \in Servers : number_of_queries[s] >= Cardinality(Busy(s))

\* While a store writes CURRENT_REGIONS and deletes the regions of the other
\* pair no query thread is between its comparison with CURRENT_REGIONS and the
\* end of its reload, in any process; and two query threads never reload at
\* the same time, so the Load functions see one swap as a whole.
SwapExcludesReload ==
  \A t \in Threads : pc[t] \in Reloading =>
    /\ \A d \in Stores : spc[d] # "publish"
    /\ \A u \in Threads : pc[u] \in Reloading => u = t

\* What CURRENT_REGIONS names is there and filled by one single run: a server
\* that starts, or a query that reloads, between two swaps attaches sound data.
\* Checked for an operator who waits for all servers to reload before the next
\* run and starts no server during one, with runs that do not fail: without the
\* wait a reload removes by a key that names the published regions by then, and
\* after a run that failed the next one may fill the published pair.
CurrentIsSound ==
  current.timestamp > 0 =>
    LET k == current.layout
    IN  current.data = k /\ layout[k] = data[k] /\ layout[k] \in loaded \ {0}

\* A query that reloads the facade, or finds it up to date, runs on the
\* generation that is published at that moment (CheckAndReloadFacade has no
\* third outcome), for the same operator and runs.
QueriesStartFresh ==
  [][\A t \in Threads : pc[t] \in Reloading /\ pc'[t] \notin Reloading =>
       pc'[t] = "running" /\ used'[t] = data[current.data]]_vars

\* Every query that a thread has begun leaves the mutexes and ends
\* (OSRM_impl::RunQuery), and every run of osrm-datastore that does not fail
\* publishes: they take pending_update and the query mutex in different
\* combinations.
CallsEnd ==
  /\ \A t \in Threads : pc[t] # "idle" ~> pc[t] = "idle"
  /\ \A d \in Stores : spc[d] # "idle" ~> spc[d] = "idle"

\* shared_barriers.hpp:51 "Condition that no update is running" and the test
\* of number_of_queries before the swap: the data a query works on is not
\* replaced while it runs.
DataStableUnderQuery ==
  \A t \in Threads : pc[t] = "running" => view[ServerOf[t]] = used[t]

=============================================================================
