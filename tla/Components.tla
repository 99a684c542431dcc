----------------------------- MODULE Components -----------------------------
(***************************************************************************)
(* extractor::FindComponents with the iterative form of Tarjan's algorithm *)
(* it uses (algorithms/tarjan_scc.hpp), one iteration of a loop per step.  *)
(* recursion_stack holds frames of a node and its parent; a node is met    *)
(* once before and once after its successors, told apart by before.        *)
(***************************************************************************)
EXTENDS EdgeExpansion

CONSTANT SmallComponentSize       \* config.small_component_size

VARIABLES recursion_stack, tarjan_stack, index, low_link, before, component_of, component_sizes

tarjanVars == <<recursion_stack, tarjan_stack, index, low_link, before,
                component_of, component_sizes>>

EdgeBasedIds == 0 .. Cardinality(Forward(graph)) - 1

(* Edge-based edges, and the two directions of each road joined.           *)
ComponentEdges ==
  {<<e.source, e.target>> : e \in Range(expanded.edges)}
    \cup UNION {{<<p.forward_id, p.reverse_id>>, <<p.reverse_id, p.forward_id>>} :
                  p \in {q \in expanded.nodes : q.reverse_id # Special}}
Successor(v) == InOrder({e[2] : e \in {d \in ComponentEdges : d[1] = v}}, <)

ComponentsInit ==
  /\ recursion_stack = <<>> /\ tarjan_stack = <<>> /\ component_sizes = <<>>
  /\ index = <<>> /\ low_link = <<>> /\ before = <<>> /\ component_of = <<>>

BaseUnchanged == UNCHANGED <<input, buffer, todo, string_map, lists, jt, file, graph, rmap,
                             geometry>>

FindComponents ==
  /\ stage = "expanded"
  /\ stage' = "components" /\ it' = 0
  /\ index' = [v \in EdgeBasedIds |-> Special]
  /\ low_link' = [v \in EdgeBasedIds |-> Special]
  /\ before' = [v \in EdgeBasedIds |-> TRUE]
  /\ component_of' = [v \in EdgeBasedIds |-> Special]
  /\ BaseUnchanged /\ UNCHANGED <<expanded, recursion_stack, tarjan_stack, component_sizes>>

(* The next node of the outer loop.                                        *)
StartSearch ==
  /\ stage = "components" /\ recursion_stack = <<>> /\ it \in EdgeBasedIds
  /\ recursion_stack' = IF component_of[it] = Special THEN <<[v |-> it, parent |-> it]>> ELSE <<>>
  /\ it' = it + 1
  /\ BaseUnchanged
  /\ UNCHANGED <<stage, expanded, tarjan_stack, index, low_link, before, component_of,
                 component_sizes>>

Searching(phase) ==
  /\ stage = "components" /\ recursion_stack # <<>>
  /\ before[Last(recursion_stack).v] = phase
  /\ BaseUnchanged /\ UNCHANGED <<stage, it, expanded>>

(* A node that was reached another way since it was put on the stack.      *)
SkipVisited ==
  /\ Searching(TRUE) /\ index[Last(recursion_stack).v] # Special
  /\ recursion_stack' = Front(recursion_stack)
  /\ UNCHANGED <<tarjan_stack, index, low_link, before, component_of, component_sizes>>

EnterNode ==
  /\ Searching(TRUE) /\ index[Last(recursion_stack).v] = Special
  /\ LET v == Last(recursion_stack).v
         now == Cardinality({u \in EdgeBasedIds : index[u] # Special})
         fresh == SelectSeq(Successor(v), LAMBDA x : index[x] = Special /\ x # v)
         reached == {index[x] : x \in Range(Successor(v)) \cap Range(tarjan_stack)}
     IN /\ index' = [index EXCEPT ![v] = now]
        /\ low_link' = [low_link EXCEPT ![v] = Min({now} \cup reached)]
        /\ before' = [before EXCEPT ![v] = FALSE]
        /\ tarjan_stack' = Append(tarjan_stack, v)
        /\ recursion_stack' =
             recursion_stack \o [k \in DOMAIN fresh |-> [v |-> fresh[k], parent |-> v]]
  /\ UNCHANGED <<component_of, component_sizes>>

\* The parent does not hear of it.
LeaveNodeSilently ==
  /\ Searching(FALSE)
  /\ LET v == Last(recursion_stack).v
         root == low_link[v] = index[v]
         from == SelectInSeq(tarjan_stack, LAMBDA x : x = v)
         popped == {tarjan_stack[k] : k \in from .. Len(tarjan_stack)}
     IN /\ recursion_stack' = Front(recursion_stack)
        /\ before' = [before EXCEPT ![v] = TRUE]
        /\ IF root
           THEN /\ tarjan_stack' = SubSeq(tarjan_stack, 1, from - 1)
                /\ component_of' = [x \in EdgeBasedIds |->
                                      IF x \in popped THEN Len(component_sizes) ELSE component_of[x]]
                /\ component_sizes' = Append(component_sizes, Cardinality(popped))
           ELSE UNCHANGED <<tarjan_stack, component_of, component_sizes>>
  /\ UNCHANGED <<index, low_link>>

LeaveNode ==
  /\ Searching(FALSE)
  /\ LET v == Last(recursion_stack).v
         u == Last(recursion_stack).parent
         root == low_link[v] = index[v]
         from == SelectInSeq(tarjan_stack, LAMBDA x : x = v)
         popped == {tarjan_stack[k] : k \in from .. Len(tarjan_stack)}
     IN /\ recursion_stack' = Front(recursion_stack)
        /\ before' = [before EXCEPT ![v] = TRUE]
        /\ low_link' = [low_link EXCEPT ![u] = Min({@, low_link[v]})]
        /\ IF root
           THEN /\ tarjan_stack' = SubSeq(tarjan_stack, 1, from - 1)
                /\ component_of' = [x \in EdgeBasedIds |->
                                      IF x \in popped THEN Len(component_sizes) ELSE component_of[x]]
                /\ component_sizes' = Append(component_sizes, Cardinality(popped))
           ELSE UNCHANGED <<tarjan_stack, component_of, component_sizes>>
  /\ UNCHANGED index

(* The pieces learn their component; BuildRTree, WriteNodeMapping and      *)
(* WriteEdgeBasedGraph follow.                                             *)
ComponentsFound ==
  /\ stage = "components" /\ recursion_stack = <<>> /\ it \notin EdgeBasedIds
  /\ expanded' = [expanded EXCEPT !.nodes =
       {[tiny |-> component_sizes[component_of[p.forward_id] + 1] < SmallComponentSize,
         component |-> 1 + component_of[p.forward_id]] @@ p : p \in @}]
  /\ stage' = "done"
  /\ BaseUnchanged /\ UNCHANGED <<it, tarjanVars>>

-----------------------------------------------------------------------------
(* The whole program.                                                      *)

Stops == stage \in {"done", "empty", "crashed"} /\ UNCHANGED <<extractionVars, expansionVars, tarjanVars>>

ExtractorInit == ExtractionInit /\ ExpansionInit /\ ComponentsInit
ExtractorNext ==
  \/ Extract /\ UNCHANGED <<expansionVars, tarjanVars>>
  \/ Expand /\ UNCHANGED tarjanVars
  \/ FindComponents \/ StartSearch \/ SkipVisited \/ EnterNode \/ LeaveNode \/ ComponentsFound
  \/ Stops
ExtractorVars == <<extractionVars, expansionVars, tarjanVars>>
ExtractorSpec == ExtractorInit /\ [][ExtractorNext]_ExtractorVars

(* Two edge-based nodes get the same component exactly when each can be    *)
(* reached from the other over turns and changes of direction, and a       *)
(* component is tiny by the number of its nodes, although a node may wait  *)
(* on the recursion stack several times (TarjanSCC::run, FindComponents).  *)
ComponentsExact == stage = "done" =>
  LET Reach[k \in 0 .. Cardinality(EdgeBasedIds)] ==
        IF k = 0 THEN ComponentEdges \cup {<<a, a>> : a \in EdgeBasedIds}
        ELSE Reach[k - 1] \cup
               {<<a, b>> \in EdgeBasedIds \X EdgeBasedIds :
                  <<a, k - 1>> \in Reach[k - 1] /\ <<k - 1, b>> \in Reach[k - 1]}
      reach == Reach[Cardinality(EdgeBasedIds)]
      Together(a) == {b \in EdgeBasedIds : <<a, b>> \in reach /\ <<b, a>> \in reach}
  IN /\ \A a \in EdgeBasedIds : {b \in EdgeBasedIds : component_of[b] = component_of[a]} = Together(a)
     /\ \A p \in expanded.nodes :
          /\ p.tiny = (Cardinality(Together(p.forward_id)) < SmallComponentSize)
          /\ p.component = 1 + component_of[p.forward_id]

=============================================================================
