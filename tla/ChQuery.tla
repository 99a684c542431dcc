------------------------------ MODULE ChQuery ------------------------------
(***************************************************************************)
(* A route query of osrm-routed on the hierarchy osrm-prepare has built:   *)
(* RoutingStep, Search, SearchWithCore, RetrievePackedPathFromHeap and     *)
(* UnpackEdge of routing_algorithms/routing_base.hpp, with the heaps set   *)
(* up as in direct_shortest_path.hpp.  The module continues Contractor, so *)
(* that a query meets the edges and the core some contraction has left.    *)
(*                                                                         *)
(* The heaps are used as abstract priority queues (PriorityQueue.tla shows *)
(* that BinaryHeap is one): nodes of equal weight leave in any order.  A   *)
(* phantom node is the one or two nodes a coordinate was snapped to, with  *)
(* the weight from the start of each of them to the coordinate.            *)
(***************************************************************************)
EXTENDS Contractor

CONSTANT Queries    \* the pairs of phantom nodes that may be asked for

Level == {"hierarchy", "core"}

Side == {"forward", "reverse"}

\* A phantom node: the weight to the coordinate for each of its nodes.
IsPhantom(p) == /\ DOMAIN p \subseteq Node
                /\ Cardinality(DOMAIN p) \in {1, 2}
                /\ \A n \in DOMAIN p : p[n] \in Nat

ASSUME QueryAssumption ==
    \A q \in Queries : IsPhantom(q.source) /\ IsPhantom(q.target)

VARIABLES
    task,       \* what is asked for: a direct, via or alternative route, a table
    query,      \* phantom_node_pair
    heaps,      \* forward_heap, reverse_heap, and the same for the core
    entry,      \* forward_entry_points, reverse_entry_points
    middle,     \* middle, or NumNodes for SPECIAL_NODEID
    distance,   \* the upper bound, the result in the end
    offset,     \* min_edge_offset, min_core_edge_offset
    turn,       \* whose RoutingStep comes next
    packed,     \* the packed paths still to unpack
    stack,      \* recursion_stack
    unpacked,   \* the nodes unpacked of the path at hand
    driven,     \* unpacked_path_segments
    at          \* where the query is

searchVars == <<heaps, entry, middle, distance, offset, turn>>

pathVars == <<packed, stack, unpacked, driven>>

queryVars == <<task, query, searchVars, pathVars, at>>

allVars == <<vars, queryVars>>

Opposite(side) == IF side = "forward" THEN "reverse" ELSE "forward"

-----------------------------------------------------------------------------
(* Heaps: the nodes ever inserted with key and parent, and those waiting. *)

EmptyHeap == [key |-> <<>>, parent |-> <<>>, waiting |-> {}]

\* Nodes inserted with their keys, each its own parent.
Filled(keys) == [key |-> keys, parent |-> [n \in DOMAIN keys |-> n],
                 waiting |-> DOMAIN keys]

Mins(heap) == {n \in heap.waiting : \A o \in heap.waiting :
                                       heap.key[n] <= heap.key[o]}

\* What MinKey may return.  Of an empty heap it reads past the end: any
\* number, for which a very small and a very large one stand.
MinKey(heap) == IF heap.waiting = {} THEN {-2 * IntMax, 2 * IntMax}
                ELSE {heap.key[n] : n \in Mins(heap)}

\* The edges kept at a node that a search of this side goes along.
Along(side, node) ==
    {s.edge : s \in {s \in edges : /\ s.source = node
                                   /\ IF side = "forward" THEN s.edge.forward
                                                          ELSE s.edge.backward}}
-----------------------------------------------------------------------------
(* RoutingStep. *)

\* The length of the path that meets at node, if the other search knows it.
Meeting(own, other, node, upper) ==
    {d \in {own.key[node] + other.key[n] : n \in {node} \cap DOMAIN other.key} :
       d < upper /\ d >= 0}

\* Some node already reached offers a shorter way to this one.
Stalled(own, side, node) ==
    \E e \in Along(Opposite(side), node) :
       /\ e.target \in DOMAIN own.key
       /\ own.key[e.target] + e.distance < own.key[node]

\* A mutation of Relaxed: the key of a known node is always overwritten.
RelaxedAlways(own, side, node) ==
    LET edgesOf == Along(side, node)
        shorter == {e.target : e \in edgesOf}
        Reached(v) == own.key[node] + Min({e.distance : e \in
                                      {e \in edgesOf : e.target = v}})
    IN  [key |-> [v \in DOMAIN own.key \cup shorter |->
                    IF v \in shorter THEN Reached(v) ELSE own.key[v]],
         parent |-> [v \in DOMAIN own.key \cup shorter |->
                       IF v \in shorter THEN node ELSE own.parent[v]],
         waiting |-> own.waiting \cup (shorter \ DOMAIN own.key)]

\* New nodes are inserted, known ones lowered when the way over node is
\* shorter; a node that has left the heap does not come back.
Relaxed(own, side, node) ==
    LET edgesOf == Along(side, node)
        shorter == {e.target : e \in
                      {e \in edgesOf : \/ e.target \notin DOMAIN own.key
                                       \/ own.key[node] + e.distance
                                            < own.key[e.target]}}
        Reached(v) == own.key[node] + Min({e.distance : e \in
                                      {e \in edgesOf : e.target = v}})
    IN  [key |-> [v \in DOMAIN own.key \cup shorter |->
                    IF v \in shorter THEN Reached(v) ELSE own.key[v]],
         parent |-> [v \in DOMAIN own.key \cup shorter |->
                       IF v \in shorter THEN node ELSE own.parent[v]],
         waiting |-> own.waiting \cup (shorter \ DOMAIN own.key)]

\* No path through the nodes still waiting can be shorter.
Ends(key, least, upper) == key + least > upper

\* What a step of one side makes of its heap, the middle node and the upper
\* bound.
Stepped(own0, other, side, node, stalling, bound, least) ==
    LET own   == [own0 EXCEPT !.waiting = @ \ {node}]
        met   == Meeting(own, other, node, bound.distance)
        upper == Min({bound.distance} \cup met)
    IN  [bound |-> [middle |-> IF met = {} THEN bound.middle ELSE node,
                    distance |-> upper],
         heap |-> IF Ends(own.key[node], least, upper)
                  THEN [own EXCEPT !.waiting = {}]
                  ELSE IF stalling /\ Stalled(own, side, node)
                  THEN own ELSE Relaxed(own, side, node)]

RoutingStep(l, side, node, stalling) ==
    LET step == Stepped(heaps[l][side], heaps[l][Opposite(side)], side, node,
                        stalling, [middle |-> middle, distance |-> distance],
                        offset)
    IN  /\ middle' = step.bound.middle
        /\ distance' = step.bound.distance
        /\ heaps' = [heaps EXCEPT ![l][side] = step.heap]

-----------------------------------------------------------------------------
(* The query. *)

QueryInit ==
    /\ Init
    /\ task = "none"
    /\ query = <<>>
    /\ heaps = [l \in Level |-> [s \in Side |-> EmptyHeap]]
    /\ entry = [s \in Side |-> <<>>]
    /\ middle = NumNodes
    /\ distance = IntMax
    /\ offset = 0
    /\ turn = "forward"
    /\ packed = <<>> /\ stack = <<>> /\ unpacked = <<>> /\ driven = <<>>
    /\ at = "prepare"

\* osrm-prepare has written the hierarchy and the core marker and is gone;
\* osrm-routed has loaded them.
Load ==
    /\ at = "prepare" /\ pc = "done"
    /\ at' = "idle"
    /\ graph' = <<>> /\ remaining' = <<>> /\ priority' = <<>>
    /\ levels' = <<>> /\ orig' = <<>> /\ external' = {} /\ flushed' = FALSE
    /\ contracted' = 0 /\ level' = 0
    /\ UNCHANGED <<job, independent, todo, inserted, core, edges, pc,
                   task, query, searchVars, pathVars>>

\* The nodes a search does not expand: Search knows of none, SearchWithCore
\* halts at the core.
Halts == IF task = "direct" THEN core ELSE {}

\* The operator () of DirectShortestPathRouting fills the heaps and chooses
\* Search or SearchWithCore, which take the least key as offset.
Ask(q) ==
    /\ at = "idle"
    /\ task' = "direct" /\ query' = q
    /\ LET from == [n \in DOMAIN q.source |-> -q.source[n]]
       IN  /\ heaps' = [heaps EXCEPT !["hierarchy"] =
                          [forward |-> Filled(from), reverse |-> Filled(q.target)]]
           /\ offset' = Min({0} \cup {from[n] : n \in DOMAIN from})
    /\ at' = "hierarchy"
    /\ UNCHANGED <<vars, entry, middle, distance, turn, pathVars>>

Exhausted(l) == \A s \in Side : heaps[l][s].waiting = {}

\* A heap that is empty is passed over.
Pass ==
    /\ at \in Level /\ ~Exhausted(at)
    /\ heaps[at][turn].waiting = {}
    /\ turn' = Opposite(turn)
    /\ UNCHANGED <<vars, task, query, heaps, entry, middle, distance, offset,
                   pathVars, at>>

\* One turn of the loop of Search, and of the first loop of SearchWithCore
\* at a node that is not in the core.
SearchStep(node) ==
    /\ at = "hierarchy" /\ task # "alternative"
    /\ node \in Mins(heaps[at][turn]) \ Halts
    /\ RoutingStep(at, turn, node, TRUE)
    /\ turn' = Opposite(turn)
    /\ UNCHANGED <<vars, task, query, entry, offset, pathVars, at>>

\* SearchWithCore: a core node is not expanded but noted as an entry point.
EnterCore(node) ==
    /\ at = "hierarchy"
    /\ node \in Mins(heaps[at][turn]) \cap Halts
    /\ heaps' = [heaps EXCEPT ![at][turn].waiting = @ \ {node}]
    /\ entry' = [entry EXCEPT ![turn] =
                   [n \in DOMAIN @ \cup {node} |->
                      IF n = node THEN heaps[at][turn].key[node] ELSE @[n]]]
    /\ turn' = Opposite(turn)
    /\ UNCHANGED <<vars, task, query, middle, distance, offset, pathVars, at>>

\* SearchWithCore: the second pair of heaps starts from the entry points.
StartCore ==
    /\ at = "hierarchy" /\ Exhausted(at) /\ Halts # {}
    /\ heaps' = [heaps EXCEPT !["core"] = [s \in Side |-> Filled(entry[s])]]
    /\ offset' = Min({0} \cup UNION {{entry[s][n] : n \in DOMAIN entry[s]} :
                                     s \in Side})
    /\ turn' = "forward"
    /\ at' = "core"
    /\ UNCHANGED <<vars, task, query, entry, middle, distance, pathVars>>

\* The second part of the condition of the loop over the core, read before
\* the forward search takes its turn.
MayGoOn == \E f \in MinKey(heaps["core"]["forward"]),
              r \in MinKey(heaps["core"]["reverse"]) : distance > f + r

\* A mutation of MayStop: the search of the core stops where it first meets.
MayStopMet == distance < IntMax

MayStop == \E f \in MinKey(heaps["core"]["forward"]),
              r \in MinKey(heaps["core"]["reverse"]) : distance <= f + r

CoreStep(node) ==
    /\ at = "core"
    /\ turn = "forward" => MayGoOn
    /\ node \in Mins(heaps[at][turn])
    /\ RoutingStep(at, turn, node, FALSE)
    /\ turn' = Opposite(turn)
    /\ UNCHANGED <<vars, task, query, entry, offset, pathVars, at>>

\* The nodes from node up to where its search started.
Ancestors(heap, node) ==
    LET up[k \in 0 .. NumNodes] ==
          IF k = 0 THEN <<node>>
          ELSE LET path == up[k - 1]
                   last == path[Len(path)]
               IN  IF heap.parent[last] = last THEN path
                   ELSE Append(path, heap.parent[last])
    IN  up[NumNodes]

Turned(path) == [i \in DOMAIN path |-> path[Len(path) + 1 - i]]

\* RetrievePackedPathFromHeap.
Joined(forward, reverse, node) ==
    Turned(Ancestors(forward, node)) \o Tail(Ancestors(reverse, node))

\* The packed path; one that meets in the core is continued on both sides
\* in the heaps of the first search.
PackedPath ==
    LET first == heaps["hierarchy"]
        inner == heaps["core"]
    IN  IF middle \notin Halts
        THEN Joined(first["forward"], first["reverse"], middle)
        ELSE LET leg == Joined(inner["forward"], inner["reverse"], middle)
             IN  Turned(Tail(Ancestors(first["forward"], leg[1]))) \o leg
                   \o Tail(Ancestors(first["reverse"], leg[Len(leg)]))

SearchEnds ==
    \/ at = "hierarchy" /\ Exhausted(at) /\ Halts = {}
    \/ at = "core" /\ Exhausted(at)
    \/ at = "core" /\ turn = "forward" /\ MayStop

NoPath ==
    /\ task = "direct" /\ SearchEnds /\ middle = NumNodes
    /\ at' = "answered"
    /\ UNCHANGED <<vars, task, query, searchVars, pathVars>>

Retrieve ==
    /\ task = "direct" /\ SearchEnds /\ middle # NumNodes
    /\ packed' = <<PackedPath>>
    /\ at' = "legs"
    /\ UNCHANGED <<vars, task, query, searchVars, stack, unpacked, driven>>

\* UnpackPath: the edges of a packed path are pushed, the first one on top.
UnpackLeg ==
    /\ at = "legs" /\ packed # <<>>
    /\ LET path == Head(packed)
       IN  /\ stack' = [i \in 1 .. Len(path) - 1 |-> <<path[i], path[i + 1]>>]
           /\ unpacked' = <<path[1]>>
    /\ packed' = Tail(packed)
    /\ at' = "unpack"
    /\ UNCHANGED <<vars, task, query, searchVars, driven>>

\* A mutation of UnpackStep: the halves of a shortcut are pushed in the
\* order in which they are driven.
UnpackTurned ==
    /\ at = "unpack" /\ stack # <<>>
    /\ LET edge == Head(stack)
       IN  \E e \in Unpacked(edge[1], edge[2]) :
             IF e.shortcut
             THEN /\ stack' = <<<<e.id, edge[2]>>, <<edge[1], e.id>>>> \o Tail(stack)
                  /\ UNCHANGED unpacked
             ELSE /\ stack' = Tail(stack)
                  /\ unpacked' = Append(unpacked, edge[2])
    /\ UNCHANGED <<vars, task, query, searchVars, packed, driven, at>>

\* One turn of the loop of UnpackPath and UnpackEdge.
UnpackStep ==
    /\ at = "unpack" /\ stack # <<>>
    /\ LET edge == Head(stack)
       IN  \E e \in Unpacked(edge[1], edge[2]) :
             IF e.shortcut
             THEN /\ stack' = <<<<edge[1], e.id>>, <<e.id, edge[2]>>>> \o Tail(stack)
                  /\ UNCHANGED unpacked
             ELSE /\ stack' = Tail(stack)
                  /\ unpacked' = Append(unpacked, edge[2])
    /\ UNCHANGED <<vars, task, query, searchVars, packed, driven, at>>

UnpackDone ==
    /\ at = "unpack" /\ stack = <<>>
    /\ driven' = Append(driven, unpacked)
    /\ unpacked' = <<>>
    /\ at' = "legs"
    /\ UNCHANGED <<vars, task, query, searchVars, packed, stack>>

LegsDone ==
    /\ at = "legs" /\ packed = <<>>
    /\ at' = "answered"
    /\ UNCHANGED <<vars, task, query, searchVars, pathVars>>

Answered == at = "answered" /\ UNCHANGED allVars

QueryNext ==
    \/ Step /\ UNCHANGED queryVars
    \/ Load
    \/ at = "idle" /\ \E q \in Queries : Ask(q)
    \/ Pass
    \/ \E node \in Node : SearchStep(node) \/ EnterCore(node) \/ CoreStep(node)
    \/ StartCore
    \/ NoPath
    \/ Retrieve
    \/ UnpackLeg
    \/ UnpackStep
    \/ UnpackDone
    \/ LegsDone
    \/ Answered

QuerySpec == QueryInit /\ [][QueryNext]_allVars
-----------------------------------------------------------------------------
(* Properties. *)

\* The source lies behind the target on one node: the way there leaves the
\* node and comes back.
Behind(source, target) ==
    \E n \in DOMAIN source \cap DOMAIN target : source[n] > target[n]

\* The weight of the best way from source to target in the input graph.
Best(source, target) ==
    LET given == InputArcs
    IN  Min({IntMax} \cup
            UNION {LET d == From(given, n) IN
                   {l[2] - source[n] + target[l[1]] : l \in
                      {l \in d : l[1] \in DOMAIN target}} :
                   n \in DOMAIN source})

\* The weight of a drive over edges of the input, IntMax or more if some
\* step of it is none.
Driven(path) ==
    FoldSet(LAMBDA i, sum : sum + Shortest(job.list, path[i], path[i + 1]), 0,
            1 .. Len(path) - 1)

\* Search and SearchWithCore find the best way: neither the bound they stop
\* at, nor stalling, nor the halt at the core loses it, though keys start
\* below zero.  So does the search of AlternativeRouting, for the first of
\* its routes.
DistanceExact ==
    at = "answered" /\ task \in {"direct", "alternative"}
      /\ ~Behind(query.source, query.target)
      => distance = Best(query.source, query.target)

\* What UnpackPath returns is a drive: from a node of the source to a node
\* of the target over edges of the input, as long as the answer says, and
\* never of a negative length.
PathIsDrive ==
    at = "answered" /\ task \in {"direct", "alternative"} /\ middle # NumNodes =>
      LET path == driven[1]
      IN  /\ path[1] \in DOMAIN query.source
          /\ path[Len(path)] \in DOMAIN query.target
          /\ distance = Driven(path) - query.source[path[1]]
                           + query.target[path[Len(path)]]
          /\ distance >= 0

\* A node that has left a heap of RoutingStep is final: DecreaseKey and
\* Insert, which assume a waiting and a new node, are never called for it.
SettledFinal ==
    [][\A l \in Level, s \in Side :
         \A n \in DOMAIN heaps[l][s].key \ heaps[l][s].waiting :
            \/ at \notin Level
            \/ heaps'[l][s].key[n] = heaps[l][s].key[n]]_allVars
=============================================================================
