---------------------------- MODULE DynamicGraph ----------------------------
(***************************************************************************)
(* The graph that contraction and compression change while they work       *)
(* (data_structures/dynamic_graph.hpp): every node has a block of one edge *)
(* array, which grows into a gap at its end or at its front, or moves to   *)
(* the end of the array; removing an edge leaves a gap.  Contraction       *)
(* removes edges of different nodes in several threads at once.            *)
(*                                                                         *)
(* Positions start at 1.  number_of_edges, of which only messages are      *)
(* made, is left out, and so is SetTarget, by which the compressor changes *)
(* the target of an edge in its place.                                     *)
(***************************************************************************)
EXTENDS Integers, Sequences, FiniteSets, FiniteSetsExt

CONSTANTS GraphNodes,     \* the nodes, 1 .. n
          InputGraphs,    \* the graphs to start from: sequences of <<source, target>>
          GraphThreads,
          MaxInserts      \* the bound on insertions

ASSUME GraphAssumption ==
    /\ IsFiniteSet(GraphNodes) /\ GraphNodes = 1 .. Cardinality(GraphNodes)
    /\ \A g \in InputGraphs :
         /\ g \in Seq(GraphNodes \X GraphNodes)
         /\ \A i, j \in DOMAIN g : i < j => g[i][1] <= g[j][1]

VARIABLES node_array,  \* of each node: its first edge and the number of its edges
          edge_list,   \* targets with their data
          deleting,    \* of each thread: the call of DeleteEdgesTo it is in
          inserts,     \* the number of insertions, also the data of the next edge
          edgesOf      \* what each node's edges should be, with different data

graphVars == <<node_array, edge_list, deleting, inserts, edgesOf>>

NoTarget == 0
IdleThread == [source |-> 0]

Edge(target, data) == [target |-> target, data |-> data]

\* The constructor, from edges sorted by their source; the data of an edge is
\* its negated position, so that all edges differ.
GraphFrom(g) ==
    LET before(n) == Cardinality({i \in DOMAIN g : g[i][1] < n})
        own(n) == {i \in DOMAIN g : g[i][1] = n}
    IN  /\ node_array = [n \in GraphNodes |->
                           [first_edge |-> before(n) + 1, edges |-> Cardinality(own(n))]]
        /\ edge_list = [i \in DOMAIN g |-> Edge(g[i][2], 0 - i)]
        /\ edgesOf = [n \in GraphNodes |-> {Edge(g[i][2], 0 - i) : i \in own(n)}]
        /\ deleting = [th \in GraphThreads |-> IdleThread]
        /\ inserts = 0

GraphInit == \E g \in InputGraphs : GraphFrom(g)

\* The data left in a gap is never read.
Gap == Edge(NoTarget, 0)
isDummy(e) == edge_list[e] = Gap
makeDummy(list, e) == [list EXCEPT ![e] = Gap]

BeginEdges(n) == node_array[n].first_edge
EndEdges(n) == node_array[n].first_edge + node_array[n].edges
EdgeRange(n) == BeginEdges(n) .. EndEdges(n) - 1

Quiet == \A th \in GraphThreads : deleting[th] = IdleThread

\* A mutation of RoomInFront: the gap is taken to be there.
RoomInFrontAlways(n) == BeginEdges(n) # 1

\* A gap before the block, of whatever node it was.
RoomInFront(n) == BeginEdges(n) # 1 /\ isDummy(BeginEdges(n) - 1)

RoomBehind(n) == EndEdges(n) <= Len(edge_list) /\ isDummy(EndEdges(n))

\* The block at the end of the array, with a tenth and two more for growth.
Moved(n) ==
    LET k == node_array[n].edges
        first == BeginEdges(n)
        newSize == (k * 11) \div 10 + 2
        old == [e \in DOMAIN edge_list |->
                  IF e \in EdgeRange(n) THEN Gap ELSE edge_list[e]]
    IN  old \o [i \in 1 .. newSize |-> IF i <= k THEN edge_list[first + i - 1] ELSE Gap]

InsertEdge(from, to) ==
    /\ Quiet /\ inserts < MaxInserts
    /\ LET k == node_array[from].edges
           first == IF RoomBehind(from) THEN BeginEdges(from)
                    ELSE IF RoomInFront(from) THEN BeginEdges(from) - 1
                    ELSE Len(edge_list) + 1
           list == IF RoomBehind(from) THEN edge_list
                   ELSE IF RoomInFront(from) THEN [edge_list EXCEPT ![first] = edge_list[first + k]]
                   ELSE Moved(from)
       IN  /\ edge_list' = [list EXCEPT ![first + k] = Edge(to, inserts + 1)]
           /\ node_array' = [node_array EXCEPT ![from] = [first_edge |-> first, edges |-> k + 1]]
    /\ inserts' = inserts + 1
    /\ edgesOf' = [edgesOf EXCEPT ![from] = @ \cup {Edge(to, inserts + 1)}]
    /\ UNCHANGED deleting

\* The last edge of a block takes the place of the edge at e.
FilledFrom(list, e, last) == makeDummy([list EXCEPT ![e] = list[last]], last)

\* One edge of the block.
DeleteEdge(source, e) ==
    /\ Quiet /\ e \in EdgeRange(source)
    /\ edge_list' = FilledFrom(edge_list, e, EndEdges(source) - 1)
    /\ node_array' = [node_array EXCEPT ![source].edges = @ - 1]
    /\ edgesOf' = [edgesOf EXCEPT ![source] = @ \ {edge_list[e]}]
    /\ UNCHANGED <<deleting, inserts>>

\* The compressor takes a node with two edges out: it has read the positions of
\* both before the two calls of DeleteEdge.  When the one it deletes first is the
\* first of the block, the other has moved, and the second call writes behind the
\* block: a copy of the edge stays there, in no block and not a gap.
DeleteBoth(source, e) ==
    /\ Quiet /\ node_array[source].edges = 2 /\ e \in EdgeRange(source)
    /\ LET first == BeginEdges(source)
           other == IF e = first THEN first + 1 ELSE first
       IN  edge_list' = FilledFrom(FilledFrom(edge_list, e, first + 1), other, first)
    /\ node_array' = [node_array EXCEPT ![source].edges = 0]
    /\ edgesOf' = [edgesOf EXCEPT ![source] = {}]
    /\ UNCHANGED <<deleting, inserts>>

\* DeleteEdgesTo, in a thread that has the node to itself; there is an edge to
\* the target.
StartDelete(th, source, target) ==
    /\ deleting[th] = IdleThread
    /\ \E e \in edgesOf[source] : e.target = target
    /\ \A other \in GraphThreads : deleting[other].source # source
    /\ deleting' = [deleting EXCEPT ![th] =
         [source |-> source, target |-> target, i |-> BeginEdges(source), iend |-> EndEdges(source),
          deleted |-> 0]]
    /\ edgesOf' = [edgesOf EXCEPT ![source] = {e \in @ : e.target # target}]
    /\ UNCHANGED <<node_array, edge_list, inserts>>

\* Either loop goes on with the edge at i: the outer one with its condition, the
\* inner one after a deletion.
DeleteLoop(th) ==
    /\ deleting[th] # IdleThread
    /\ LET d == deleting[th]
           last == d.iend - d.deleted - 1
       IN  /\ d.i < d.iend - d.deleted
           /\ \/ /\ edge_list[d.i].target = d.target
                 /\ edge_list' = FilledFrom(edge_list, d.i, last)
                 /\ deleting' = [deleting EXCEPT ![th].deleted = @ + 1]
              \/ /\ edge_list[d.i].target # d.target
                 /\ deleting' = [deleting EXCEPT ![th].i = @ + 1]
                 /\ UNCHANGED edge_list
    /\ UNCHANGED <<node_array, inserts, edgesOf>>

EndDelete(th) ==
    /\ deleting[th] # IdleThread
    /\ LET d == deleting[th]
       IN  /\ d.i >= d.iend - d.deleted
           /\ node_array' = [node_array EXCEPT ![d.source].edges = @ - d.deleted]
    /\ deleting' = [deleting EXCEPT ![th] = IdleThread]
    /\ UNCHANGED <<edge_list, inserts, edgesOf>>

\* FindEdge and FindSmallestEdge, with the data for the weight.
FirstEdgeTo(from, to) == {e \in EdgeRange(from) : /\ edge_list[e].target = to
                                               /\ \A d \in EdgeRange(from) : d < e => edge_list[d].target # to}
SmallestEdgeTo(from, to) ==
    {e \in EdgeRange(from) : /\ edge_list[e].target = to
                             /\ \A d \in EdgeRange(from) :
                                  edge_list[d].target = to => edge_list[e].data <= edge_list[d].data}

GraphStep ==
    \/ \E n, k \in GraphNodes : InsertEdge(n, k)
    \/ \E n \in GraphNodes : \E e \in EdgeRange(n) : DeleteEdge(n, e) \/ DeleteBoth(n, e)
    \/ \E th \in GraphThreads :
         \/ \E n, k \in GraphNodes : StartDelete(th, n, k)
         \/ DeleteLoop(th)
         \/ EndDelete(th)

GraphSpec == GraphInit /\ [][GraphStep]_graphVars

\* Wherever the blocks have moved, and with other threads removing edges of
\* other nodes, the block of a node that no thread is at holds the edges that
\* were put in and not removed, each once, and the searches find them
\* (DynamicGraph).
BlocksKept ==
    \A n \in GraphNodes : (\A th \in GraphThreads : deleting[th].source # n) =>
      /\ {edge_list[e] : e \in EdgeRange(n)} = edgesOf[n]
      /\ node_array[n].edges = Cardinality(edgesOf[n])
      /\ \A k \in GraphNodes :
           LET weights == {e.data : e \in {e \in edgesOf[n] : e.target = k}}
           IN  /\ (FirstEdgeTo(n, k) = {}) = (weights = {})
               /\ \A e \in SmallestEdgeTo(n, k) : edge_list[e].data = Min(weights)
=============================================================================
