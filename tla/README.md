# Maiden: models, model checking and proofs

Maiden books and dispatches rides on circular shuttle routes. The application
(`src/src/main/scala`) is a Xitrum HTTP server with one Akka dispatch actor over a
Postgres database. Routes and travel times come from the OSRM routing engine
(`src/osrm-backend`): `osrm-extract` turns map data into an edge-based graph,
`osrm-prepare` builds a contraction hierarchy on it, `osrm-datastore` loads it into shared
memory and `osrm-routed` answers queries on it.

This directory holds TLA+ specifications of both, the TLC instances that check them, and
proofs checked by TLAPS. `PROJECT.json` maps every definition to the lines it models,
lists the components with what is left out of each, and the hazards with the
properties that would notice.

## 1. The system

### The application

| Component | State | Operations | Module |
|---|---|---|---|
| Booking and dispatch (`models/Trip`, `action/Trip`, `actors/Dispatch`) | trips table, flag of the actor, local `Trip` objects of tasks and requests | book, update a ride state, one round of the actor, restart | `TripDispatch`, `TripStops` |
| Accounts (`models/User`, `SocialAccount`, `FriendlyId`, `Profile`, `action/User`) | four tables | register, log in, reset codes and passwords, profile update, Facebook login | `Accounts` |

Handlers run on a thread pool beside the actor, and nothing but the database connects them.
`withTransaction` (`Schema.scala`) opens a session of its own each time, also when it is
nested, so a handler is a sequence of separately committed reads and whole-row writes. That
is where the difficult behaviour comes from: check-then-act, stale rows written back, a
throwing task that aborts its siblings, a crash between two commits.

### The routing engine

Data flow through the engine from left to right; each arrow is a file or a shared region.

    extraction -> contraction -> data swap -> server -> plugins -> searches -> description

| Component | State | Operations | Module |
|---|---|---|---|
| Extraction, first half (`extractor*.cpp`, `extraction_containers.cpp`, `restriction_parser.cpp`) | lists of nodes, edges, ways, restrictions | callbacks of the parallel parsers, sorts and merge joins, files | `Extraction` |
| Extraction, second half (`graph_compressor`, `compressed_edge_container`, `restriction_map`, `edge_based_graph_factory`) | node-based graph, geometry buckets, restriction map, edge-based graph | compression, renumbering, expansion | `EdgeExpansion` |
| Components (`tarjan_scc.hpp`, `extractor.cpp`) | stacks, labels | Tarjan's algorithm without recursion | `Components` |
| Contractor (`contractor.hpp`) | graph, priorities, levels, renumbering, new shortcuts | rounds of parallel loops, flush, core marking, export | `Contractor` |
| Dynamic graph (`dynamic_graph.hpp`) | blocks of one edge array | insert, delete, delete in parallel, find | `DynamicGraph` |
| Heap (`binary_heap.hpp`) and its storage (`xor_fast_hash_storage.hpp`) | arrays, index, time stamps | insert, decrease, delete the least, clear; access by probing | `BinaryHeap`, `PriorityQueue`, `HashStorage` |
| Queries (`routing_base.hpp`, `direct_shortest_path.hpp`) | four heaps, bound, meeting node, stack | search with and without core, path retrieval, unpacking | `ChQuery` |
| Via routes, tables, alternatives (`shortest_path.hpp`, `many_to_many.hpp`, `alternative_path.hpp`) | the above, legs, buckets, candidates | legs one after the other, two sweeps, selection of a via node | `ViaRoute`, `ManyToMany`, `AlternativePath` |
| Map matching (`match.hpp`, `hidden_markov_model.hpp`, `map_matching.hpp`) | Viterbi columns, split points | advance, break, split, reconstruct | `Matching` |
| Round trips (`trip.hpp`, `trip_brute_force.hpp`, `trip_farthest_insertion.hpp`) | groups, permutation, tour | split, permute, insert, route | `Tours` |
| Spatial index (`static_rtree.hpp`, `rectangle.hpp`, `geospatial_query.hpp`) | leaves, levels, search queue | pack, search with filters | `RTree` |
| Plugins (`plugin_base.hpp`, `viaroute.hpp`, `distance_table.hpp`, `trip.hpp`, `nearest.hpp`) | matches of a request | check, match, snap, choose the search | `Plugins` |
| Server (`server/`, `route_parameters.cpp`) | connections, parser, parameters | accept, read, parse, handle, write | `Server`, `RouteParameters` |
| Data swap (`datastore.cpp`, `shared_datafacade`, `shared_barriers`, `osrm_impl`) | regions, `CURRENT_REGIONS`, mutexes, counters, facades | a run of the store, a start of a server, a query with its reload | `SharedData` |
| Description (`description_factory.cpp`, `json_descriptor.hpp`, `douglas_peucker.cpp`) | pieces of the way | append, drop empty ends, generalise, index | `RouteDescription` |
| Street names (`range_table.hpp`) | blocks of offsets and lengths | build, write, read, look up | `RangeTable` |

## 2. Modules

A module's head comment says what it abstracts. Operators introduced as "a mutation of ..."
are variants of the definition after them with a plausible mistake; the properties are known
to notice them.

### Application

`TripStops` is the arithmetic on a circular route (`getInBetweenStops`, the occupancy
table). `TripDispatch` has the trips table, the HTTP handlers and the actor; a database
access is a step. A task of the actor's parallel collection has a program counter `pc[t]`,
the object `trip[t]` it got from `getPending` and the object `row[t]` its `updateState`
read; `TaskRead`/`TaskWrite` are `updateState`, `TaskMeta` and `TaskCheck` build the
`TripMeta`, `TaskAssign`, `TaskEta` and `TaskSave` are `getBestVehicle`,
`getInitialTripEtaAndRoute` and `saveTrip`; those that can throw have a variant that does.
`Abandon` is what a throwing task does to the ones not started, `Restart` is Akka's restart
of the actor, `Crash` ends the process.

`Accounts` has registration, login, reset, profile update and Facebook login over `users`,
`social_account`, `friendly_id` and `profile`. Each worker holds one request with its local
rows; each read and each commit is a step; writes store whole rows; a call may fail
(`Fails`). `credential`, `everSet`, `used` and `overlapped` are history: what the client was told,
and whether two requests were ever under way at once.

### Building the data

`Extraction` starts from parsed entities in buffers; the callbacks of one buffer come in any
order. The lists are sets until a sort makes them sequences, and equal edges leave a sort in
any order. `PrepareNodes`, `BuildIdMap`, `SetStartCoords`, `ComputeWeights`,
`RemoveMultiEdges`, `FixStarts`, `FixEnds` are the loops of `PrepareData`, one iteration per
step. `EdgeExpansion` continues with the files: `CompressNode` treats one node as
`GraphCompressor::Compress` does, with the fix-ups of the restriction map and the
concatenation of geometry buckets with their free list; then come renumbering, the
edge-based nodes with the offsets of their pieces, and the turns. `Components` is the
iterative Tarjan search with its two stacks. The three modules are one pipeline
(`ExtractorSpec`), so a turn is compared with the restrictions as the file has them.

`Contractor` follows `Contractor::Run`: while enough nodes are left, flush once, select the
independent nodes, contract them, delete the edges to them, insert the sorted shortcuts,
re-evaluate neighbours. Each parallel loop treats its nodes in any order. An edge is kept
at both its ends, as in the code, and both copies change on their own. Priorities are any
numbers, redrawn where the code re-evaluates them, so the results do not depend on the
heuristic, and a level cache is just one more source of numbers. The shortest paths of
`Dijkstra` are sets of labels.

`DynamicGraph` is the array below it: a node's block grows behind, in front, or moves to the
end with a tenth of extra room; `StartDelete`, `DeleteLoop` and `EndDelete` are one call of
`DeleteEdgesTo` as the contractor's threads run it. `edgesOf` is history: what each node's
edges should be. `HashStorage` has the cells of `XORFastHashStorage`, a search as one step per
cell, and `Clear` by raising the time.

`BinaryHeap` has the two arrays of `binary_heap.hpp`, with `Upheap` and `Downheap` one
iteration at a time and a storage that, as `ArrayStorage`, forgets nothing on `Clear`.
`PriorityQueue` is what its users rely on: nodes with weights, of which a least one leaves.
`QueueSpec` in `BinaryHeap` is the refinement.

### Answering queries

`ChQuery` continues from what `GetEdges` returned. Its heaps are abstract priority queues,
which the refinement of `BinaryHeap` justifies; ties leave in any order. `MinKey` of an empty
heap, which the loop over the core can ask for, is any number. `ViaRoute` adds the dynamic
programme over the legs (`SearchWithUTurn`, `Search`, `SearchLoop`), `ManyToMany` the
buckets, `AlternativePath` the relaxed search and the choice of the via node, one candidate per step. Together they
compose contractor, heap and every query that uses them: `RoutesSpec` in `MCRoutes` contracts a
graph and then asks one query of any kind.

`Server` accepts connections, reads pieces of any length, parses word by word, and hands the
uri to `RouteParameters`, which is the grammar of `api_grammar.hpp`: a parsing expression
grammar, where an alternative that has matched is not given up and the effect of a setter is not
undone. The engine is any answer. `Plugins` takes over behind the grammar: it checks
a request, matches its places and snaps them. A road is known by its component. `RTree` is the
index the matches come from, on a grid where distances are exact. `Matching` and `Tours` are
the two plugins with an algorithm of their own. `RouteDescription` turns an unpacked
route into geometry, instructions and via indices. `RangeTable` stores the names.

`SharedData` has one store process after another (or two at a time) that fills one of two
region pairs and publishes it; query threads compare `CURRENT_REGIONS` with what their process
has attached and reload. The mutexes are owners (`pending`, `query`); `number_of_queries` is per
process, because in the code it is an ordinary member. A generation number identifies the run
that filled a region, so "which data does this pointer see" is a number.

### Instances

`MCTripDispatch`, `MCSharedData`, `MCAccounts`, `MCContractor` and `MCRoutes` define the
constants of their modules. `MCLibrary` puts eleven components of the engine that share no
state side by side, each with its own instance (`MCExtraction`, `MCServer`, `MCTours`, ...): its
variable `part` says which of them a behaviour is about.

## 3. Runs

| Run | Instance | What it shows |
|---|---|---|
| `dispatch` | 2 trips, 2 vehicles (one driver without profile), 1 concurrent request, 1 crash, `FairSpec` | assignments are never mixed and never handed on; booked trips are picked whatever throws; overdue ones are flagged, unless some overdue trip has a driver without profile |
| `one_ride_per_user` | 2 trips of one user, 1 vehicle | *violated*: two bookings before the first is accepted both become rides |
| `accounts` | 2 requests at a time, up to 4, without failures; or one at a time, up to 5, with 2 Facebook identities and 1 failure | a login is by a password its owner chose, whatever overlaps; one at a time, the newest password opens and a code is good once |
| `accounts_identity` | two registrations of one name | *violated*: the second takes over the identity account of the first |
| `swap_barriers` | 1 server with 2 threads, 2 stores, 3 runs, 3 queries, 1 failing run | counters cover queries; publishing excludes reloading |
| `swap_quiet` | 2 servers, 3 threads, 1 store, `FairSpec`, an operator who waits for all servers to reload | published data is sound, queries start on it, everything ends |
| `swap_under_query` | 1 server, 1 store | *violated*: data is replaced under a running query |
| `contraction` | 6 nodes, 12 jobs | the hierarchy has the distances of the input at every stage, unpacks, and its levels ascend |
| `routes` | 5 nodes, 8 jobs (two graphs at core factors 1, 2/5, 1/5, and two with near-equal ways) | direct routes, via routes, tables and alternatives are the best ways of the input (the alternative: a different one at most 15% longer), and the unpacked paths drive them |
| `minimal_edges` | files with parallel ways | *violated*: of two ways between the same nodes the slower one may be kept |
| `trip_shortest` | round trips | *violated*: the brute force may return a longer tour |
| `library` | eleven components, see below | one or more properties of each |

The properties of `library`, by component:

| Component | Properties |
|---|---|
| extraction | `EdgesFaithful`: the file has exactly the moves the ways allow, each once and as one of the ways has it (not always the fastest, see `minimal_edges`), whatever order callbacks and sorts leave. `RestrictionsFaithful`: a restriction is written once, by the nodes beside its via node. `TurnsExact`: compression and expansion lose no legal turn and add none, with the right weights. `GeometryMirrored`: the two directions of a road have the same geometry, in slots of their own. `ComponentsExact`: same component exactly when mutually reachable |
| server | `RequestAsSent`: what is handled is what was sent, however it is cut into reads; only a POST also takes in what else came with the read that ends it. `ReplyHonest`: length, encoding, status and callback of a reply are true of it. `OptionsBelong`: each hint, time stamp and U-turn flag sits at the index of its place; bearings, which are only appended, do when there are as many as places, and the plugins use them only then |
| round trips | `ToursVisitAll`: each location of a group once, every leg drivable, and back |
| plugins | `PlacesMatched`: an entry per coordinate, in order, soundly snapped |
| spatial index | `NearestExact`: the search, led by distances to rectangles, finds what inspecting the distances to all segments would |
| map matching | `MatchingOptimal`: the matchings are disjoint pieces of the trace, and no other choice of candidates is likelier |
| dynamic graph | `BlocksKept`: a block holds its node's edges, wherever it has moved and whatever other threads, or the two deletions of the compressor, remove |
| names | `RangesExact`: each name's characters are found, before and after the file |
| hash storage | `StorageFaithful`: clearing by a time stamp forgets what it should and nothing else, until the largest time, at which no search ends |
| heap | `QueueSpec`: the heap implements the priority queue |
| description | `DescriptionFaithful`: indices still name the right points after generalisation, lengths add up |

### Bounds

* Dispatch: two trips show every race between two tasks, or a task and a request; any
  of the vehicles may be active in a pass. There are finitely many bookings, so passes over pending
  trips throw finitely often; overdue trips of a driver without profile throw for ever. The clock runs to 2 because a vehicle is overdue ten minutes, one unit, after its eta.
* Swap: three runs, because the removal by a remembered key needs a pair of regions to be
  reused; two threads of one process for the counter, two processes for the mutexes.
* Accounts: two rows and two passwords tell whose login it is; four requests are a
  registration, a reset and two that overlap it. `MCAccounts` takes overlaps without failures,
  of Facebook logins only between two requests, and failures without overlaps: together they are
  out of reach. The proofs have no such limits.
* Contraction: independent nodes are three hops apart, so a ring of six has rounds with two
  of them; the flush needs more than 65% of the nodes contracted and some left. Jobs stop the
  witness search after 1, 2 and 5 nodes (2000 in the code), so superfluous shortcuts,
  parallel shortcuts and the overwriting of longer ones all happen.
* Routes: five nodes give hierarchies with shortcuts over shortcuts, cores of several
  nodes, and queries whose best way goes through, into, or past the core; via routes have
  three stops, with and without U-turns.
* Extraction: files with junctions to compress through, chains, parallel ways, one-ways, loops,
  barriers, signals and restrictions, relations in a later buffer than their ways.
* Server: two connections, reads of up to four words, all orders of up to three options after
  a place, options set to true and to false, a GET and a POST with more words behind them. With a second connection open, both serve requests with
  headers and the second asks for no compression, to keep the product small.
* Round trips: every transitive table of three locations over three lengths and "unreachable",
  and lines of four and five, so that both algorithms run (`BF_MAX_FEASABLE` is 4 here);
  one table of four in which a detour is shorter than the direct way.
* Spatial index: five segments in every order, leaves of two and two children per node give
  three levels with incomplete nodes. The grid is a plane: `GetMinDist` is the distance to the
  border of a rectangle and `SegmentDistance` the one to the nearest point of a segment, computed
  apart, as in the code; rounding on the sphere is left out.
* Matching: traces of up to five points over two unconnected roads, breaks long enough to split;
  times are taken modulo `TimeWidth`, since the code subtracts unsigned numbers.
* Dynamic graph: three nodes, two threads, two insertions; the inductive invariant of the
  proof was also checked with three.
* Ranges: up to seven lengths and blocks of two, so the last block is empty, partial or
  full. Hash: three cells for three nodes, so the table fills up; the clock stops at 2. Heap: four
  nodes make three levels, with a last element that has no sibling.

Integers keep their width where it matters: time stamps of the hash storage and of traces,
byte-wide lengths of the range table, the length of a path over a via node. Node ids, other
weights and distances stay far below their types and are plain integers.

`CHECK_DEADLOCK FALSE` is set where an instance ends by its bounds (`Accounts`, `SharedData`,
`MCLibrary`, `ToursShortest`). `Contractor` and the queries end in an explicit stutter, so a
state in which the program could not go on, an edge that cannot be unpacked for instance, is
reported.

### Fairness

`TripDispatch`: weak fairness of the round, its tasks and the clock, since Akka's scheduler
keeps sending `CheckRideState` and the thread pool runs every task; nothing is assumed of
clients. `SharedData`: weak fairness of steps that only compute, strong fairness of taking a
mutex, since a waiting thread of a boost interprocess mutex gets it if it is free again and
again; nothing is assumed of new queries or runs. The other modules are checked without
fairness; that `Contractor::Run` ends is the invariant `RoundContracts`: a round with nodes left
contracts at least one.

### Disagreements between code and text

Shown by a run:

* `OneRidePerUser` (`Trip.scala:189`): "Already have ride" is only noticed once a vehicle has
  been accepted.
* `DataStableUnderQuery` (`datastore.cpp:575`): the store waits for "no running queries" on a
  counter of its own process, which is always zero.
* `CreatesIdentity` (`FriendlyId.scala:58`): "Create an identity account" takes over the account
  of a namesake.
* `MinimalKept` (`extraction_containers.cpp:430`): "find minimal edge in both directions" (line 426); the
  minima are never written, so the last edge of a group is kept.
* `ShortestSelected` (`trip_brute_force.hpp:96`): "selecting the shortest"; a permutation whose
  partial length reaches the best so far is cut off, and then accepted as equally good.

Met while modelling and kept in the models, as the code has them:

* `Trip.scala`, `Vehicle.scala:45`: an overdue trip whose driver has no profile throws and rolls back in
  every pass, stays overdue, and may keep the other overdue trips of each pass from being flagged
  (`Stuck`); `LateIsFlagged` is qualified by it.
* `extraction_containers.cpp:427`: the inner loop over a group has no test for the end of the list;
  behind a last group that is valid it reads on (`ReadPastEnd`, an end of the process).
* `connection.cpp:77`: `remote_endpoint()` throws when the peer has gone, out of the handler
  (`EndpointThrows`).
* `request_parser.cpp:108`: what is read together with the end of a POST body is taken for more of it.
* `route_parameters.cpp:119`: `addBearing` appends, where the other setters write at the index of
  the last place; with fewer bearings than places they belong to other ones.
* `many_to_many.hpp:91`: the two nodes of one phantom are inserted one after the other, and the same
  phantom may come twice. `BinaryHeap` leaves out a second `Insert` of a node; the tables insert
  each node once, with its least weight.
* `graph_compressor.cpp:144`: the ids of both edges of a node are read before the first is deleted,
  which moves the last edge into the gap, so the second call may be given an id behind the
  block (`DeleteBoth`). Both edges are gone all the same, and a copy of one is left behind the
  block, where no insertion takes the cell for free.
* `trip.hpp:322`: a group of one location `x` becomes a trip of `x` zeros, where the comment
  above says the location is added. `ToursVisitAll` is about groups of several.
* `api_grammar.hpp:46`: the comment promises all combinations of four options; some alternatives
  are never reached, since a shorter one has matched before.
* `match.hpp:303`: the limit on locations is compared the other way round than in the
  other plugins, so the instance's traces are longer than it.
* `description_factory.cpp:85`: mode changes are compared with the first piece of the way.
* `range_table.hpp:195`: the assertion fails for an empty name at the very end; release builds go
  on, as the model does.
* `xor_fast_hash_storage.hpp`: at the largest time stamp all new cells look taken and every
  search goes round for ever; `StorageFaithful` says so of that one value.
* `map_matching.hpp`: with `beta` below 1 a pruned candidate may have been the better one, which
  `MatchingOptimal` leaves out; equal time stamps make every transition too long.
* `trip_farthest_insertion.hpp`: when all distances are zero the search starts from location 0
  twice or from location -1; when every insertion shortens the tour (the assertion says
  "previous trip was not minimal", but two stops between which one may not turn round can be
  far apart) the next location is -1. Both lead to the state `undefined` of `Tours`.
* `alternative_path.hpp:841`: the T-test should "compare if distances equal", but accepts any path
  that is not shorter than the distance, so it only rejects paths that do not exist. Their
  length has overflowed (`alternative_path.hpp:416`), and they are ranked first.
* `graph_compressor.cpp:147`: a restriction against turning round is lost where its road is
  compressed. `EdgeExpansion` has the fix-ups as they are; no file of the instance has such a
  restriction, so `TurnsExact` says nothing about it.
* `server.hpp:100`: an error while accepting ends accepting for good (`AcceptFails`); no
  property asks for more.

Noted, and not in a model: `is_core_node` is a `vector<bool>` written from a parallel loop
(`contractor.hpp:628`); node depths are not renumbered at the flush (`contractor.hpp:386`), which
only blurs priorities; a Stripe customer is created before its row (`Stripe.scala:32`); `rawQuery`
closes its connection only on success (`Schema.scala:197`); times of the week are matched modulo a
day (`Schedule.scala:185`); `json_descriptor.hpp:203` describes the end of the alternative with a
flag of its start.

## 4. Proofs

TLAPS checks these for every value of the constants that satisfies the named assumptions.

**`TripDispatch_proofs`** (`TripDispatchAssumption`): `TypeOK`, `AssignmentConsistent`,
`UnprofiledTripFrozen`, `FlagFollowsRound`. The stored rows alone are not inductive, because
tasks and requests write back what they read earlier. `IInv` adds what those local copies hold
at each program counter (`TaskInv`, `ReqInv`): a copy that will be written is consistent, and
one past `TaskAssign` has the driver of its vehicle and, before `TaskSave`, an eta.
`NoReassignment` is the action property `NeverReassigned`. It needs more: all copies of a trip,
stored or held by its task or by requests, name one vehicle or none (`OneVehicle`), and none
of them names one as long as the task may still choose (`Unassigned`). `Carry(t, v)` says that nothing but
`v` is on its way into the row of `t`; only `TaskSave` changes `v`.

**`SharedData_proofs`** (`SharedDataAssumption`): `TypeOK`, `SwapExcludesReload`,
`CountCoversQueries`. The strengthening `Locked` ties program counters to mutex owners: a
reloading thread or a publishing store owns `query_mutex`. For the counter, `Busy` is shown to
change by at most the thread that moves.
`PublishedIsSound` and `StartFresh` are `Spec /\ [][Orderly]_vars` implying `CurrentIsSound` and
`QueriesStartFresh`. `Orderly` is a condition on steps: a run of the store starts only when no other
run is under way, no server is starting and every server that is up has attached the current
regions; a server starts only while no run is under way; and a run that fails has not created a
region yet. No code enforces this: it is what an operator has to see to, and the theorems say that
it is enough. That something of the kind is needed shows in `swap_under_query`, and
the hazards at `datastore.cpp` describe what a run started too early or cut short can destroy. The run
`swap_quiet` has the constants for it (`WaitForReload`, `QuietStart`, no failing run).
`Sound` says how far a run is with the pair that is not
published (`RunSound`), that a facade is at most one publication behind (`FacadeSound`) and that its
pointers see the region it names (`ViewSound`).

**`Accounts_proofs`** (`NamesAssumption`, `FacebookAssumption`, `PasswordAssumption`,
`BoundAssumption`): `LoginIsOwn`, `CodeWorksOnce` and `LatestCredentialOpens`, with failures between
any two commits. `Typed` has the rows and, for each stage of a request, which rows its local ids name;
tables only grow (`Grown`). `Owned` says that an identity account carries the address of its user
and a secret that user chose, that a user has one such account, and that the rows a request will
write back are of that kind too. It needs `DistinctNames`, since a namesake's registration
takes over the account (`accounts_identity`). `LatestCredentialOpens` needs it as well; `CodeWorksOnce`
does not. The last two are about requests that do not overlap, as the properties say
(`~overlapped`): `CodesOnce` says that a code kept in a row is one user's and unused, `InForce` that
the identity account holds the secret the client was told last.

**`BinaryHeap_proofs`** (`WeightAssumption`, `NoNodeAssumption`, `CapacityAssumption`,
`StorageAssumption`): `TypeOK`, `HeapOrder`, `Addressable`, `MinIsLeast`, and `Spec => QueueSpec`,
the refinement. During `Upheap` and `Downheap` there is a hole in the order; `Up` and `Down` say
that the order holds across it, `Indexed` that the two arrays agree everywhere else. That the root
is least is a least-counterexample argument on positions (`Least`, `RootIsLeast`), in
place of induction.

**`HashStorage_proofs`** (`HashAssumption`): `StorageKeeps`, that is `HashSpec => []StorageFaithful`: at every
time but the largest a node put since `Clear` is found with its latest key and a search ends; at
the largest time every cell looks taken to every node, so that none does. `HInv` says that no cell is ahead of the clock (`Times`), that a node put
since `Clear` is in the first cell of its search not taken by another (`Found`), that cells in use
belong to different nodes (`InUse`), and that a search under way has only passed such cells
(`Searching`). That a search ends while there are more cells than nodes put is the pigeonhole
principle on `InUse`.

**`DynamicGraph_proofs`** (`GraphAssumption`): `EdgesStay`, that is `GraphSpec => []BlocksKept`, for any
graph, threads and insertions. `GInv` says that the blocks lie in the array and do not overlap
(`Blocks`), that no two threads are at one node (`Calls`), that what is left of a
block has no gap and no edge twice (`Filled`) and holds the node's edges (`Contents`).
`DeleteEdgesTo` moves edges from the end of the block to the front long before it writes the new
length, so the last two are about `Live(n)`, the part of the block the running call has not given
up, without the `Doomed` edges it still has to remove. The two deletions of the compressor are one step
(`DeleteBothStep`). An insertion is treated by what it
does to all blocks at once (`Relaid`), whether it stays, moves forward, or moves to the end.

**`Contractor_proofs`** (`SizeAssumption`, `JobAssumption`, `OrderAssumption`): `RoundContracts`,
`NoSharedNeighbour` and `LevelsAscend`, for every graph and any priorities. `CInv` says that the edges
kept at the nodes left know each other (`Mutual`), up to what the loop of the round has still to
delete or to insert (`Gone`, `Pending`), that the nodes of a round stay apart (`Apart`) and that a
waiting shortcut joins two neighbours of one of them (`Bridging`). The node that is least by
priority, hash and id is selected, so a round is not empty. `LInv` adds that `orig` still
names every node after the flush (`Named`) and that contracted nodes have levels below the
current one (`Ranked`, `Upward`).

**`Hierarchy_proofs`** (same assumptions): `DistancesKept`, that is `Spec => []RemainingDistances`, and
`HierarchyIsSound`, that is `Spec => []HierarchySound`: whatever the priorities, the limit of the witness
searches, the core factor, the flush and the order of the loops, the nodes left have the distances of
the input in both directions, a search up from the source and one from the target meet at the
distance of the input, and a shortcut is as long as the halves it is unpacked into.

* *Distances.* `From` iterates over the nodes; induction on what it computes is not available. `Walks(A, s)`
  is instead the least set of ends and lengths that has the start and follows the arcs, and `FromExact`
  shows that `From` has a label of least length for each of its ends: after k rounds k + 1 nodes
  have their distance, or all that can be reached have (`Least` and `Counting`, in place of
  induction). As in the code, a length of `IntMax` or more counts as none.
* *The hierarchy.* `HInv(G, E, L, K, T)` is about a set `E` of records of edges, of which the nodes `L`
  are left, `K` are in the round and `T` have their shortcuts. Records are walks of the input
  (`Real`), are kept at both ends (`Twins`), a way over a node of `T` is as short without it (`Bridged`),
  and every walk of the input goes up over contracted nodes, along arcs between nodes left, and down
  (`Covered`). `OneWay` and `Unpacks` are for unpacking: the halves of a shortcut are
  kept at its middle node only, and two halves are never shorter than the best edge beside it.
* *Witness searches.* A label of `Dijkstra` is a walk that avoids the middle node, even if the search
  stopped early (`Witnessed`), and a search with a larger limit finds no less (`LongerSearch`). So
  a missing shortcut was not needed, and a superfluous one does no harm.
* *Removing a round at once.* `Bypass`: if each of several nodes that neither are nor have common neighbours can be
  replaced while the others are there, all of them can. It is why the loops may contract the nodes of a round from one
  copy of the graph.
* *Steps.* `DInv` is `HInv` of the edges of a state under their original ids (`Records`), with `Housed` for
  what `Translated` needs. One lemma per action shows that it is kept: deleting the edges to a
  contracted node and replacing an edge by a shorter parallel one are `HTrimmed` and `HImproved`,
  the flush does not change the records at all.

The lemmas on walks, hierarchies and witness searches are the second half of `Contractor_proofs`.
Both modules say `USE Zenon`: leaves that name no prover are found by it.

Only model-checked: liveness (outside this prover, as is `ENABLED`); the queries, extraction,
server, round trips, plugins, spatial index, matching, ranges and description. Most of their
properties compare with what recursive functions or folds over sequences compute (reachability, sums,
parsing, best tours), which would need induction over data. For the queries, what they
rely on is proved: the hierarchy, the heap and its storage.

## 5. Not modelled

* Floating-point arithmetic: priorities of the contractor, geometry on the sphere, the probabilities
  of map matching and its classifier. Where an algorithm depends on them, exact numbers on a grid or a
  line stand in, or any number.
* File formats, shared memory layout, options, logging, formatting and wording of answers: input and
  output without a state of their own. Lua profiles and SQL migrations are data.
* A store killed inside its critical section (`datastore.cpp:571`) and the Windows branches. The
  read of `CURRENT_REGIONS` outside the lock (`shared_datafacade.hpp:251`) is in the model.
* Payments, notifications, settings: one check-then-act on one row each, and calls of external
  services; nothing in the repository relies on there being only one row. Schedules are pure functions of
  the clock. Listings, web sockets, activity stream, friends, tags and reservations keep no state that
  another part uses.
* Code without callers: nearest-neighbour and tabu-search round trips, the LRU cache, `XORMiniHash`,
  `DynamicGraph::InsertNode`, `User.remove`, `linkAccount`, the k-d tree, `bfs_components.hpp`.
