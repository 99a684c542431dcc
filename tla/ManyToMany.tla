----------------------------- MODULE ManyToMany -----------------------------
(***************************************************************************)
(* The distance table: ManyToManyRouting of                                *)
(* routing_algorithms/many_to_many.hpp as DistanceTablePlugin and          *)
(* RoundTripPlugin call it.  A backward search from every target leaves at *)
(* each node it settles a bucket entry with the distance from there; then  *)
(* a forward search from every source combines its keys with the buckets.  *)
(* Neither search has a bound to stop at.                                  *)
(*                                                                         *)
(* A source or target is the nodes of both phantoms of its pair with their *)
(* weights.  The pair usually holds one phantom twice, and each of its     *)
(* nodes is then inserted twice, with the same key; it counts once here.   *)
(***************************************************************************)
EXTENDS ChQuery

CONSTANT TableQueries   \* the sources and the targets of a table

VARIABLES
    request,    \* phantom_sources_array, phantom_targets_array
    row,        \* target_id, then source_id
    buckets,    \* search_space_with_buckets
    table       \* result_table

tableVars == <<request, row, buckets, table>>

TableInit == /\ request = <<>> /\ row = 0
             /\ buckets = [n \in Node |-> {}] /\ table = <<>>

\* The one heap both kinds of search use.
QueryHeap == heaps["hierarchy"]["forward"]

AskTable(q) ==
    /\ at = "idle"
    /\ task' = "table" /\ request' = q
    /\ row' = 1
    /\ table' = [s \in DOMAIN q.sources, t \in DOMAIN q.targets |-> IntMax]
    /\ heaps' = [heaps EXCEPT !["hierarchy"]["forward"] = Filled(q.targets[1])]
    /\ at' = "targets"
    /\ UNCHANGED <<vars, query, entry, middle, distance, offset, turn, pathVars,
                   buckets>>

\* StallAtNode and RelaxOutgoingEdges.
Expanded(side, node) ==
    LET own == [QueryHeap EXCEPT !.waiting = @ \ {node}]
    IN  IF Stalled(own, side, node) THEN own ELSE Relaxed(own, side, node)

BackwardRoutingStep(node) ==
    /\ at = "targets" /\ node \in Mins(QueryHeap)
    /\ buckets' = [buckets EXCEPT ![node] =
                     @ \cup {[target |-> row, distance |-> QueryHeap.key[node]]}]
    /\ heaps' = [heaps EXCEPT !["hierarchy"]["forward"] = Expanded("reverse", node)]
    /\ UNCHANGED <<vars, task, query, entry, middle, distance, offset, turn,
                   pathVars, at, request, row, table>>

\* The row of the table once the buckets of a node have been looked at.
Lowered(node) ==
    [p \in DOMAIN table |->
       Min({table[p]} \cup
           (IF p[1] # row THEN {}
            ELSE {d \in {QueryHeap.key[node] + b.distance :
                           b \in {b \in buckets[node] : b.target = p[2]}} :
                  d >= 0}))]

ForwardRoutingStep(node) ==
    /\ at = "sources" /\ node \in Mins(QueryHeap)
    /\ table' = Lowered(node)
    /\ heaps' = [heaps EXCEPT !["hierarchy"]["forward"] = Expanded("forward", node)]
    /\ UNCHANGED <<vars, task, query, entry, middle, distance, offset, turn,
                   pathVars, at, request, row, buckets>>

\* A mutation of Ahead: the weight before a source is added.
AheadAdded(source) == Filled(source)

\* What the heap is filled with for a source.
Ahead(source) == Filled([n \in DOMAIN source |-> -source[n]])

\* The next target, or the first source after the last target.
NextTarget ==
    /\ at = "targets" /\ QueryHeap.waiting = {}
    /\ LET last == row = Len(request.targets)
       IN  /\ row' = IF last THEN 1 ELSE row + 1
           /\ at' = IF last THEN "sources" ELSE at
           /\ heaps' = [heaps EXCEPT !["hierarchy"]["forward"] =
                          IF last THEN Ahead(request.sources[1])
                          ELSE Filled(request.targets[row + 1])]
    /\ UNCHANGED <<vars, task, query, entry, middle, distance, offset, turn,
                   pathVars, request, buckets, table>>

NextSource ==
    /\ at = "sources" /\ QueryHeap.waiting = {}
    /\ row < Len(request.sources)
    /\ row' = row + 1
    /\ heaps' = [heaps EXCEPT !["hierarchy"]["forward"] =
                   Ahead(request.sources[row + 1])]
    /\ UNCHANGED <<vars, task, query, entry, middle, distance, offset, turn,
                   pathVars, at, request, buckets, table>>

TableDone ==
    /\ at = "sources" /\ QueryHeap.waiting = {}
    /\ row = Len(request.sources)
    /\ at' = "answered"
    /\ UNCHANGED <<vars, task, query, searchVars, pathVars, tableVars>>

TableStep == \/ at = "idle" /\ \E q \in TableQueries : AskTable(q)
             \/ \E node \in Node : BackwardRoutingStep(node)
             \/ \E node \in Node : ForwardRoutingStep(node)
             \/ NextTarget
             \/ NextSource
             \/ TableDone
-----------------------------------------------------------------------------
(* Properties. *)

\* Every entry of the table is the distance of its pair: a target finds all
\* sources though each search has run alone and none looked for the other,
\* and nothing of one row or column is left over in the next.
TableExact ==
    at = "answered" /\ task = "table" =>
      \A p \in DOMAIN table :
         LET s == request.sources[p[1]]
             t == request.targets[p[2]]
         IN  ~Behind(s, t) => table[p] = Best(s, t)
=============================================================================
