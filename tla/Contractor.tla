----------------------------- MODULE Contractor -----------------------------
(***************************************************************************)
(* The contraction of osrm-prepare (osrm-backend/contractor/contractor.hpp *)
(* on top of data_structures/dynamic_graph.hpp).  The nodes of the routing *)
(* graph are removed round by round.  A round picks an independent set of  *)
(* nodes, computes in parallel the shortcuts that replace each of them,    *)
(* deletes in parallel the edges that lead to them, inserts the shortcuts  *)
(* and re-evaluates the priorities of their neighbours.  Once in a run the *)
(* graph is flushed: the edges of the contracted nodes are moved to        *)
(* external_edge_list and the remaining nodes get new, dense ids.          *)
(*                                                                         *)
(* The graph keeps an edge at both its ends, so that graph[u] holds what   *)
(* leaves u (forward) and what enters u (backward).  It is a set per node: *)
(* nothing but FindEdge depends on the order of the array behind it, and   *)
(* FindEdge is given any of the edges it could meet first.                 *)
(* The priority of a node is a heuristic that decides nothing but the      *)
(* order, and with a level cache it is whatever the file says: it is any   *)
(* number of a small set here, drawn again when the code re-evaluates it.  *)
(***************************************************************************)
EXTENDS Integers, Sequences, FiniteSets, FiniteSetsExt

CONSTANTS
    NumNodes,       \* number_of_nodes
    Jobs,           \* what the contractor may be given: an edge list, the value
                    \* of --core as a fraction, whether priorities come from a
                    \* level cache, and how many nodes a witness search settles
                    \* at most (2000 in the code)
    Priorities,     \* the values a priority can take
    Hash,           \* XORFastHash, the tie breaker, as a function of the id
    IntMax          \* INT_MAX, larger than any distance of the instance

Node == 0 .. NumNodes - 1

InputEdge == [source : Node, target : Node, weight : Nat,
              forward : BOOLEAN, backward : BOOLEAN]

ASSUME SizeAssumption == /\ NumNodes \in Nat \ {0}
                         /\ IntMax \in Nat \ {0}

ASSUME JobAssumption ==
    \A j \in Jobs : /\ j.list \subseteq InputEdge
                     /\ j.core_factor \in Nat \X (Nat \ {0})
                     /\ j.core_factor[1] <= j.core_factor[2]
                     /\ j.cached \in BOOLEAN
                     /\ j.max_settled \in Nat

ASSUME OrderAssumption == /\ Priorities \subseteq Nat
                          /\ Hash \in [Node -> Nat]

VARIABLES
    job,            \* input_edge_list, kept to compare with, and core_factor
    graph,          \* contractor_graph: the edges kept at each node
    remaining,      \* remaining_nodes
    priority,       \* node_priorities
    levels,         \* node_levels, by original id
    orig,           \* orig_node_id_from_new_node_id_map
    external,       \* external_edge_list
    flushed,        \* flushed_contractor
    contracted,     \* number_of_contracted_nodes
    level,          \* current_level
    independent,    \* the nodes this round contracts
    todo,           \* those the current parallel loop has still to treat
    inserted,       \* inserted_edges of all threads
    core,           \* is_core_node, as the set of marked nodes
    edges,          \* the edges GetEdges hands to the query graph
    pc              \* where Run is

graphVars == <<graph, orig, external, flushed>>

roundVars == <<remaining, contracted, level, independent>>

vars == <<job, graph, remaining, priority, levels, orig,
          external, flushed, contracted, level, independent, todo, inserted,
          core, edges, pc>>

-----------------------------------------------------------------------------
(* Edges and the constructor. *)

\* An edge as it is kept at one of its ends.
Kept(target, distance, id, shortcut, forward, backward) ==
    [target |-> target, distance |-> distance, id |-> id,
     shortcut |-> shortcut, forward |-> forward, backward |-> backward,
     is_original_via_node_ID |-> FALSE]

Larger(a, b) == IF a < b THEN b ELSE a

\* The shortest of the list's edges from u to v; weights below 1 count as 1.
Shortest(list, u, v) ==
    Min({IntMax} \cup
        {Larger(e.weight, 1) : e \in
            {e \in list : \/ e.source = u /\ e.target = v /\ e.forward
                          \/ e.source = v /\ e.target = u /\ e.backward}})

\* Parallel edges are merged, an edge of the same length in both directions
\* becomes one bidirectional edge, eigenloops are dropped.
Merged(list, u, v) ==
    LET there == Shortest(list, u, v)
        back  == Shortest(list, v, u)
    IN  IF u = v THEN {}
        ELSE IF there = back
             THEN {Kept(v, d, 0, FALSE, TRUE, TRUE) : d \in {there} \ {IntMax}}
             ELSE {Kept(v, d, 0, FALSE, TRUE, FALSE) : d \in {there} \ {IntMax}}
                  \cup
                  {Kept(v, d, 0, FALSE, FALSE, TRUE) : d \in {back} \ {IntMax}}

InitialGraph(list) == [u \in Node |-> UNION {Merged(list, u, v) : v \in Node}]

-----------------------------------------------------------------------------
(* The witness search and the shortcuts of a node. *)

Neighbours(g, n) == {e.target : e \in g[n]} \ {n}

\* The nodes in a heap are given by labels <<node, key>>; lowering a key adds
\* a label, the key is the lowest.
Key(labels, v) == Min({IntMax} \cup {l[2] : l \in {l \in labels : l[1] = v}})

\* One relaxation of Dijkstra: the edges that leave n, none to middleNode.
Relax(g, n, middleNode, labels) ==
    labels \cup {<<e.target, Key(labels, n) + e.distance>> : e \in
                   {e \in g[n] : e.forward /\ e.target # middleNode}}

\* Dijkstra: the labels after at most max_settled nodes were settled, a node
\* beyond max_distance was met, or all targets were settled.
Dijkstra(g, source, targets, max_distance, middleNode) ==
    LET Settle(s, n) ==
            LET settled == s.settled \cup {n}
            IN  IF Key(s.labels, n) > max_distance
                THEN [s EXCEPT !.stopped = TRUE]
                ELSE IF n \in targets /\ targets \subseteq settled
                THEN [s EXCEPT !.settled = settled, !.stopped = TRUE]
                ELSE [s EXCEPT !.settled = settled,
                               !.labels = Relax(g, n, middleNode, @)]
        run[k \in 0 .. job.max_settled] ==
            IF k = 0
            THEN [labels |-> {<<source, 0>>}, settled |-> {}, stopped |-> FALSE]
            ELSE LET s == run[k - 1]
                     open == {l \in s.labels : l[1] \notin s.settled}
                 IN  IF s.stopped \/ open = {} THEN s
                     ELSE Settle(s, (CHOOSE l \in open : \A m \in open :
                                        l[2] <= m[2])[1])
    IN  run[job.max_settled].labels

\* The pairs (in_edge, out_edge) of a node that no witness path replaces.
Replaced(g, node) ==
    LET out == {e \in g[node] : e.forward}
        Labels(in) == Dijkstra(g, in.target,
                             {e.target : e \in out} \ {in.target},
                             Max({0} \cup {in.distance + e.distance : e \in out}),
                             node)
    IN  UNION {LET labels == Labels(in) IN
               {<<in, e>> : e \in
                  {e \in out : in.distance + e.distance < Key(labels, e.target)}} :
               in \in {e \in g[node] : e.backward}}

\* A mutation of Shortcuts: recorded where it starts only.
ShortcutsAtSource(g, node) ==
    {[source |-> p[1].target,
      edge |-> Kept(p[2].target, p[1].distance + p[2].distance, node, TRUE,
                    TRUE, FALSE)] :
     p \in Replaced(g, node)}

\* A shortcut is recorded at both its ends; the records of one node that
\* agree on ends and distance are merged into one.
Shortcuts(g, node) ==
    LET ends == {[source |-> p[1].target, target |-> p[2].target,
                  distance |-> p[1].distance + p[2].distance] :
                 p \in Replaced(g, node)}
        turned(s) == [source |-> s.target, target |-> s.source,
                      distance |-> s.distance]
    IN  {[source |-> s.source,
          edge |-> Kept(s.target, s.distance, node, TRUE,
                        s \in ends, turned(s) \in ends)] :
         s \in ends \cup {turned(s) : s \in ends}}

-----------------------------------------------------------------------------
(* The independent set. *)

\* A mutation of bias: no order between equal hashes.
BiasBoth(a, b) == Hash[a] <= Hash[b]

bias(a, b) == \/ Hash[a] < Hash[b]
              \/ Hash[a] = Hash[b] /\ a < b

\* a has to wait for b.
Yields(a, b) == \/ priority[a] > priority[b]
                \/ priority[a] = priority[b] /\ bias(a, b)

\* A mutation of IsNodeIndependent: direct neighbours only.
IndependentOneHop(node) ==
    \A u \in Neighbours(graph, node) : ~Yields(node, u)

\* No node at most two hops away comes first.
IsNodeIndependent(node) ==
    LET near == Neighbours(graph, node)
        far  == (UNION {Neighbours(graph, u) : u \in near}) \ {node}
    IN  \A u \in near \cup far : ~Yields(node, u)

Remaining == {remaining[i] : i \in DOMAIN remaining}

\* The original id of a node of the current graph.
OriginalId(n) == IF flushed THEN orig[n] ELSE n

Limit == (NumNodes * job.core_factor[1]) \div job.core_factor[2]

FlushLimit == (NumNodes * 65 * job.core_factor[1]) \div (100 * job.core_factor[2])

LoopCondition == NumNodes > 2 /\ contracted < Limit

FlushCondition == ~flushed /\ contracted > FlushLimit

-----------------------------------------------------------------------------
(* The run. *)

Init ==
    /\ job \in Jobs
    /\ graph = InitialGraph(job.list)
    /\ remaining = [i \in 1 .. NumNodes |-> i - 1]
    /\ priority \in [Node -> Priorities]
    /\ levels = [n \in Node |-> 0]
    /\ orig = <<>>
    /\ external = {}
    /\ flushed = FALSE
    /\ contracted = 0
    /\ level = 0
    /\ independent = {}
    /\ todo = {}
    /\ inserted = {}
    /\ core = {}
    /\ edges = {}
    /\ pc = "loop"

\* The position of a node in remaining_nodes, its new id.
NewId(n) == (CHOOSE i \in DOMAIN remaining : remaining[i] = n) - 1

\* The edges of the contracted nodes leave the graph; the others get the
\* new ids of their ends, and are marked: their via node has its old id.
Flush ==
    /\ pc = "loop" /\ LoopCondition /\ FlushCondition
    /\ LET last == Len(remaining) - 1
       IN /\ orig' = [n \in 0 .. last |-> remaining[n + 1]]
          /\ priority' = [n \in 0 .. last |-> priority[remaining[n + 1]]]
          /\ graph' = [n \in 0 .. last |->
                         {[e EXCEPT !.target = NewId(e.target),
                                    !.is_original_via_node_ID = TRUE] :
                          e \in graph[remaining[n + 1]]}]
          /\ remaining' = [i \in 1 .. Len(remaining) |-> i - 1]
    /\ external' = UNION {{[source |-> n, edge |-> e] : e \in graph[n]} :
                          n \in Node \ Remaining}
    /\ flushed' = TRUE
    /\ UNCHANGED <<job, levels, contracted, level, independent,
                   todo, inserted, core, edges, pc>>

LevelsAfter(chosen) ==
    [n \in Node |-> IF ~job.cached /\ \E x \in chosen : OriginalId(x) = n
                    THEN level ELSE levels[n]]

\* The independent nodes move to the end of remaining_nodes and, without a
\* level cache, get their level.
SelectIndependent ==
    /\ pc = "loop" /\ LoopCondition /\ ~FlushCondition
    /\ independent' = {n \in Remaining : IsNodeIndependent(n)}
    /\ todo' = independent'
    /\ levels' = LevelsAfter(independent')
    /\ pc' = "contract"
    /\ UNCHANGED <<job, graphVars, remaining, priority,
                   contracted, level, inserted, core, edges>>

\* The end of one parallel loop is the start of the next.
NextTask(x, here, next) ==
    /\ todo' = IF todo = {x} THEN independent ELSE todo \ {x}
    /\ pc' = IF todo = {x} THEN next ELSE here

\* ContractNode<false>: reads the graph only.
ContractNode(x) ==
    /\ pc = "contract" /\ x \in todo
    /\ inserted' = inserted \cup Shortcuts(graph, x)
    /\ NextTask(x, "contract", "delete")
    /\ UNCHANGED <<job, graphVars, roundVars, priority, levels,
                   core, edges>>

\* DeleteEdgesTo for every neighbour of x.
DeleteIncomingEdges(x) ==
    /\ pc = "delete" /\ x \in todo
    /\ graph' = [u \in DOMAIN graph |->
                   IF u \in Neighbours(graph, x)
                   THEN {e \in graph[u] : e.target # x} ELSE graph[u]]
    /\ NextTask(x, "delete", "insert")
    /\ UNCHANGED <<job, roundVars, priority, levels, orig,
                   external, flushed, inserted, core, edges>>

\* FindEdge stops at the first edge to the target, current; a shortcut that
\* is longer and has the same directions is overwritten.
Improves(new, current) ==
    /\ current.shortcut
    /\ new.forward = current.forward
    /\ new.backward = current.backward
    /\ new.distance < current.distance

\* The edges FindEdge may meet first.
Found(s) == {e \in graph[s.source] : e.target = s.edge.target}

\* The shortcuts of each thread are sorted by their ends; those with the same
\* ends come in any order.  Two of them come from one node (NoSharedNeighbour)
\* and so from one thread; those with different ends touch different edges, so
\* that one order of the threads stands for all.
First(s) == \A t \in inserted :
               \/ s.source < t.source
               \/ s.source = t.source /\ s.edge.target <= t.edge.target

InsertShortcut(s) ==
    /\ pc = "insert" /\ s \in inserted /\ First(s)
    /\ \/ /\ Found(s) = {}
          /\ graph' = [graph EXCEPT ![s.source] = @ \cup {s.edge}]
       \/ \E current \in Found(s) :
            graph' = [graph EXCEPT ![s.source] =
                        IF Improves(s.edge, current)
                        THEN (@ \ {current}) \cup {s.edge}
                        ELSE @ \cup {s.edge}]
    /\ inserted' = inserted \ {s}
    /\ UNCHANGED <<job, roundVars, priority, levels, orig,
                   external, flushed, todo, core, edges, pc>>

InsertDone ==
    /\ pc = "insert" /\ inserted = {}
    /\ todo' = IF job.cached THEN {} ELSE independent
    /\ pc' = "update"
    /\ UNCHANGED <<job, graphVars, roundVars, priority, levels, inserted, core,
                   edges>>

\* Every neighbour of a contracted node is evaluated again.
UpdateNodeNeighbours(x) ==
    /\ pc = "update" /\ x \in todo
    /\ \E p \in [Neighbours(graph, x) -> Priorities] :
          priority' = [n \in DOMAIN priority |->
                         IF n \in DOMAIN p THEN p[n] ELSE priority[n]]
    /\ todo' = todo \ {x}
    /\ UNCHANGED <<job, graphVars, roundVars, levels, inserted,
                   core, edges, pc>>

\* The nodes of a list that are not in gone, in the order of the list.
Without(list, gone) ==
    LET staying == {i \in DOMAIN list : list[i] \notin gone}
        place(i) == Cardinality({j \in staying : j <= i})
    IN  [k \in 1 .. Cardinality(staying) |-> list[CHOOSE i \in staying : place(i) = k]]

EndRound ==
    /\ pc = "update" /\ todo = {}
    /\ contracted' = contracted + Cardinality(independent)
    /\ remaining' = Without(remaining, independent)
    /\ level' = level + 1
    /\ independent' = {}
    /\ pc' = "loop"
    /\ UNCHANGED <<job, graphVars, priority, levels, todo,
                   inserted, core, edges>>

\* A mutation of Translated: via nodes keep the ids of the flushed graph.
TranslatedEndsOnly(n, e) ==
    [source |-> OriginalId(n),
     edge |-> [e EXCEPT !.target = OriginalId(e.target),
                        !.is_original_via_node_ID = TRUE]]

\* GetEdges: back to the original ids, the via nodes that have new ids too.
Translated(n, e) ==
    [source |-> OriginalId(n),
     edge |-> [e EXCEPT !.target = OriginalId(e.target),
                        !.id = IF e.is_original_via_node_ID
                               THEN e.id ELSE OriginalId(e.id),
                        !.is_original_via_node_ID = TRUE]]

GetEdges ==
    (UNION {{Translated(n, e) : e \in graph[n]} : n \in DOMAIN graph})
    \cup {[s EXCEPT !.edge.is_original_via_node_ID = TRUE] : s \in external}

\* The end of Run, GetEdges and GetCoreMarker.  Two nodes or less that are
\* left make no core.
Finish ==
    /\ pc = "loop" /\ ~LoopCondition
    /\ core' = IF Len(remaining) > 2
               THEN {OriginalId(n) : n \in Remaining} ELSE {}
    /\ edges' = GetEdges
    /\ pc' = "done"
    /\ UNCHANGED <<job, graphVars, roundVars, priority, levels,
                   todo, inserted>>

Step ==
    \/ Flush
    \/ SelectIndependent
    \/ \E x \in todo : \/ ContractNode(x)
                       \/ DeleteIncomingEdges(x)
                       \/ UpdateNodeNeighbours(x)
    \/ \E s \in inserted : InsertShortcut(s)
    \/ InsertDone
    \/ EndRound
    \/ Finish

\* The program ends.
Done == pc = "done" /\ UNCHANGED vars

Next == Step \/ Done

Spec == Init /\ [][Next]_vars

-----------------------------------------------------------------------------
(* Properties. *)

\* The distances from s over a set of arcs <<u, v, length>>, as labels.
From(arcs, s) ==
    LET Best(labels) == {l \in labels : \A m \in labels :
                            m[1] = l[1] => l[2] <= m[2]}
        reached[k \in 0 .. NumNodes] ==
          IF k = 0 THEN {<<s, 0>>}
          ELSE LET labels == reached[k - 1]
               IN  Best(labels \cup
                     UNION {{<<a[2], l[2] + a[3]>> : a \in
                               {a \in arcs : a[1] = l[1]}} : l \in labels})
    IN  reached[NumNodes]

InputArcs ==
    {a \in {<<u, v, Shortest(job.list, u, v)>> : u, v \in Node} : a[3] < IntMax}

\* The edges kept at their start, and those kept at their end.
ForwardArcs ==
    UNION {{<<u, e.target, e.distance>> : e \in {e \in graph[u] : e.forward}} :
           u \in Remaining}

BackwardArcs ==
    UNION {{<<e.target, v, e.distance>> : e \in {e \in graph[v] : e.backward}} :
           v \in Remaining}

\* Between two rounds the graph of the remaining nodes has the distances of
\* the input: the shortcuts of a whole independent set, each computed while
\* the others were still in the graph, make up for the nodes that are gone.
\* It has them over the edges kept at their start as over those kept at their
\* end, although the two are updated apart (InsertEdge, the overwriting of
\* longer shortcuts, DeleteEdgesTo).
RemainingDistances ==
    pc = "loop" =>
      LET given == InputArcs
          outward == ForwardArcs
          inward == BackwardArcs
      IN  \A u \in Remaining :
            LET before == From(given, OriginalId(u))
                after  == From(outward, u)
                back   == From(inward, u)
            IN  \A v \in Remaining :
                  /\ Key(after, v) = Key(before, OriginalId(v))
                  /\ Key(back, v) = Key(before, OriginalId(v))

\* The loops over independent nodes run in parallel and write to the
\* neighbours of their nodes (edges in DeleteIncomingEdges, priorities in
\* UpdateNodeNeighbours): no two of them have a neighbour in common.
NoSharedNeighbour ==
    \A x, y \in independent :
       x # y => ({x} \cup Neighbours(graph, x))
                   \cap ({y} \cup Neighbours(graph, y)) = {}

\* The edges of the query graph a forward search goes along, and those a
\* backward search goes along, turned round.
UpArcs == {<<s.source, s.edge.target, s.edge.distance>> : s \in
             {s \in edges : s.edge.forward}}

DownArcs == {<<s.source, s.edge.target, s.edge.distance>> : s \in
               {s \in edges : s.edge.backward}}

\* What the query relies on: a forward search over the edges kept at their
\* start and a backward search over those kept at their end meet on a path
\* of exactly the input's distance, whatever was contracted, flushed or left
\* in the core.
HierarchyExact ==
    pc = "done" =>
      LET given == InputArcs
          up    == [n \in Node |-> From(UpArcs, n)]
          down  == [n \in Node |-> From(DownArcs, n)]
      IN  \A s \in Node :
            LET dist == From(given, s)
            IN  \A t \in Node :
                  Key(dist, t) =
                    Min({IntMax} \cup {Key(up[s], m) + Key(down[t], m) : m \in Node})

KeptAt(u, v) == {s.edge : s \in {s \in edges : s.source = u /\ s.edge.target = v}}

\* The edges UnpackPath may take for the step from u to v.
Unpacked(u, v) ==
    LET there == {e \in KeptAt(u, v) : e.forward}
        back  == {e \in KeptAt(v, u) : e.backward}
        from  == IF there # {} THEN there ELSE back
    IN  {e \in from : \A f \in from : e.distance <= f.distance}

\* A shortcut that UnpackPath can take names a via node, under its original
\* id, whose two halves exist and add up to the shortcut.
ShortcutsUnpack ==
    pc = "done" =>
      \A u, v \in Node : \A e \in Unpacked(u, v) :
         e.shortcut =>
            /\ Unpacked(u, e.id) # {} /\ Unpacked(e.id, v) # {}
            /\ \A a \in Unpacked(u, e.id), b \in Unpacked(e.id, v) :
                  e.distance = a.distance + b.distance

\* The levels written for a later run are an order of contraction: an edge
\* kept at a contracted node leads to one of a higher level or to one that
\* was not contracted.
LevelsAscend ==
    pc = "done" /\ ~job.cached =>
      LET left == {OriginalId(n) : n \in Remaining}
      IN  \A s \in edges : \/ s.source \in left
                           \/ s.edge.target \in left
                           \/ levels[s.source] < levels[s.edge.target]

\* The hierarchy that is written: it answers distances exactly, its shortcuts
\* can be unpacked, and the levels kept for a later run fit it.
HierarchySound == HierarchyExact /\ ShortcutsUnpack /\ LevelsAscend

\* Run ends: every round contracts some node.
RoundContracts == pc \in {"contract", "delete", "insert", "update"} => independent # {}
=============================================================================
