-------------------------- MODULE Hierarchy_proofs --------------------------
(***************************************************************************)
(* The hierarchy of the contractor is exact, for every graph, whatever the *)
(* priorities, the limit of the witness searches, the share of nodes left  *)
(* uncontracted and the order of the loops: the constructor begins with    *)
(* the distances of the input, the contraction of a node replaces the ways *)
(* through it, and so the nodes left keep their distances, and a query on  *)
(* what GetEdges returns meets at every distance of the input.             *)
(***************************************************************************)
EXTENDS Contractor_proofs

USE Zenon

-----------------------------------------------------------------------------
(* The constructor.                                                        *)

(* A length of the input is positive, and IntMax stands for none.          *)
LEMMA ShortestIs ==
  ASSUME NEW list \in SUBSET InputEdge, NEW u, NEW v
  PROVE  /\ Shortest(list, u, v) \in Length /\ Shortest(list, u, v) <= IntMax
         /\ Shortest(list, u, v) # IntMax => Shortest(list, u, v) < IntMax
<1> DEFINE E == {e \in list : \/ e.source = u /\ e.target = v /\ e.forward
                              \/ e.source = v /\ e.target = u /\ e.backward}
           S == {IntMax} \cup {Larger(e.weight, 1) : e \in E}
<1>1. \A e \in E : Larger(e.weight, 1) \in Length
  <2> TAKE e \in E
  <2>1. e.weight \in Nat
    BY DEF InputEdge
  <2> QED BY ONLY <2>1, SMT DEF Larger, Length
<1>2. IntMax \in Length /\ S # {}
  BY SizeAssumption DEF Length
<1>3. S \in SUBSET Length /\ S \in SUBSET Nat
  <2>1. Length \subseteq Nat
    BY DEF Length
  <2> QED BY <1>1, <1>2, <2>1
<1>4. Shortest(list, u, v) = Min(S)
  BY DEF Shortest
<1>5. Min(S) \in S /\ \A y \in S : Min(S) <= y
  BY <1>2, <1>3, MinIsLeast
<1>6. Min(S) \in Length /\ Min(S) <= IntMax
  BY <1>3, <1>5
<1> HIDE DEF S
<1>7. Min(S) # IntMax => Min(S) < IntMax
  BY ONLY <1>2, <1>6, SMT DEF Length
<1> QED BY <1>4, <1>6, <1>7

\* An edge of the input as it is kept at one end.
Given(list, u, e) ==
  /\ e \in EdgeType /\ e.distance \in Length /\ e.distance < IntMax /\ e.target # u
  /\ e.shortcut = FALSE /\ e.id = 0 /\ e.is_original_via_node_ID = FALSE
  /\ e.forward => e.distance = Shortest(list, u, e.target)
  /\ e.backward => e.distance = Shortest(list, e.target, u)

Offers(g, u, v, d) == \E e \in g[u] : e.target = v /\ e.forward /\ e.distance = d

Takes(g, u, v, d) == \E e \in g[u] : e.target = v /\ e.backward /\ e.distance = d

(* The edges the constructor makes are the shortest of the list, at both   *)
(* their ends.                                                             *)
LEMMA InitialArcs ==
  ASSUME NEW list \in SUBSET InputEdge, NEW g, g = InitialGraph(list)
  PROVE  /\ \A u \in Node : \A e \in g[u] : Given(list, u, e)
         /\ \A u, v \in Node : u # v /\ Shortest(list, u, v) # IntMax =>
               Offers(g, u, v, Shortest(list, u, v)) /\ Takes(g, v, u, Shortest(list, u, v))
<1> DEFINE S(u, v) == Shortest(list, u, v)
<1>1. 0 \in Node
  BY SizeAssumption, SMT DEF Node
<1>2. \A u, v : S(u, v) \in Length /\ (S(u, v) # IntMax => S(u, v) < IntMax)
  BY ShortestIs
<1>3. \A v \in Node, d \in Length : \A f, h \in BOOLEAN :
         LET e == Kept(v, d, 0, FALSE, f, h)
         IN  /\ e \in EdgeType /\ e.target = v /\ e.distance = d /\ e.shortcut = FALSE /\ e.id = 0
             /\ e.is_original_via_node_ID = FALSE /\ e.forward = f /\ e.backward = h
  <2>1. \A d \in Length : d \in Nat
    BY DEF Length
  <2> TAKE v \in Node, d \in Length
  <2> TAKE f, h \in BOOLEAN
  <2> DEFINE e == Kept(v, d, 0, FALSE, f, h)
  <2>2. e = [target |-> v, distance |-> d, id |-> 0, shortcut |-> FALSE, forward |-> f, backward |-> h,
             is_original_via_node_ID |-> FALSE]
    BY DEF Kept
  <2> HIDE DEF e
  <2>3. e \in EdgeType
    BY <1>1, <2>1, <2>2 DEF EdgeType
  <2>4. e.target = v /\ e.distance = d /\ e.shortcut = FALSE /\ e.id = 0
        /\ e.is_original_via_node_ID = FALSE /\ e.forward = f /\ e.backward = h
    BY ONLY <2>2, SMT
  <2> QED BY <2>3, <2>4 DEF e
<1> HIDE DEF S
<1>4. \A u \in Node : g[u] = UNION {Merged(list, u, v) : v \in Node}
  BY DEF InitialGraph
<1> DEFINE both(u, v) == {Kept(v, d, 0, FALSE, TRUE, TRUE) : d \in {S(u, v)} \ {IntMax}}
           there(u, v) == {Kept(v, d, 0, FALSE, TRUE, FALSE) : d \in {S(u, v)} \ {IntMax}}
           back(u, v) == {Kept(v, d, 0, FALSE, FALSE, TRUE) : d \in {S(v, u)} \ {IntMax}}
<1>5. \A u, v \in Node : Merged(list, u, v) =
         IF u = v THEN {} ELSE IF S(u, v) = S(v, u) THEN both(u, v) ELSE there(u, v) \cup back(u, v)
  BY DEF Merged, S
<1>6. ASSUME NEW u \in Node, NEW e \in g[u] PROVE Given(list, u, e)
  <2>0. e \in UNION {Merged(list, u, v) : v \in Node}
    BY <1>4, <1>6
  <2>1. PICK v \in Node : e \in Merged(list, u, v)
    BY <2>0
  <2>2. u # v /\ (e \in there(u, v) \/ e \in back(u, v) \/ (e \in both(u, v) /\ S(u, v) = S(v, u)))
    BY <1>5, <2>1
  <2>3. TRUE \in BOOLEAN /\ FALSE \in BOOLEAN
    OBVIOUS
  <2>4. ASSUME e \in there(u, v) PROVE Given(list, u, e)
    <3>1. e = Kept(v, S(u, v), 0, FALSE, TRUE, FALSE) /\ S(u, v) # IntMax
      BY <2>4
    <3>2. S(u, v) \in Length /\ S(u, v) < IntMax
      BY <1>2, <3>1
    <3>3. /\ e \in EdgeType /\ e.target = v /\ e.distance = S(u, v) /\ e.shortcut = FALSE /\ e.id = 0
          /\ e.is_original_via_node_ID = FALSE /\ e.forward = TRUE /\ e.backward = FALSE
      BY <1>3, <2>3, <3>1, <3>2
    <3> QED BY <2>2, <3>2, <3>3 DEF Given, S
  <2>5. ASSUME e \in back(u, v) PROVE Given(list, u, e)
    <3>1. e = Kept(v, S(v, u), 0, FALSE, FALSE, TRUE) /\ S(v, u) # IntMax
      BY <2>5
    <3>2. S(v, u) \in Length /\ S(v, u) < IntMax
      BY <1>2, <3>1
    <3>3. /\ e \in EdgeType /\ e.target = v /\ e.distance = S(v, u) /\ e.shortcut = FALSE /\ e.id = 0
          /\ e.is_original_via_node_ID = FALSE /\ e.forward = FALSE /\ e.backward = TRUE
      BY <1>3, <2>3, <3>1, <3>2
    <3> QED BY <2>2, <3>2, <3>3 DEF Given, S
  <2>6. ASSUME e \in both(u, v), S(u, v) = S(v, u) PROVE Given(list, u, e)
    <3>1. e = Kept(v, S(u, v), 0, FALSE, TRUE, TRUE) /\ S(u, v) # IntMax
      BY <2>6
    <3>2. S(u, v) \in Length /\ S(u, v) < IntMax
      BY <1>2, <3>1
    <3>3. /\ e \in EdgeType /\ e.target = v /\ e.distance = S(u, v) /\ e.shortcut = FALSE /\ e.id = 0
          /\ e.is_original_via_node_ID = FALSE /\ e.forward = TRUE /\ e.backward = TRUE
      BY <1>3, <2>3, <3>1, <3>2
    <3> QED BY <2>2, <2>6, <3>2, <3>3 DEF Given, S
  <2> QED BY <2>2, <2>4, <2>5, <2>6
<1>7. ASSUME NEW u \in Node, NEW v \in Node, NEW e \in Merged(list, u, v) PROVE e \in g[u]
  BY <1>4, <1>7
<1>8. ASSUME NEW u \in Node, NEW v \in Node, u # v, S(u, v) # IntMax
      PROVE  Offers(g, u, v, S(u, v)) /\ Takes(g, v, u, S(u, v))
  <2> DEFINE d == S(u, v)
  <2>1. d \in Length
    BY <1>2
  <2>2. CASE S(u, v) = S(v, u)
    <3>1. Kept(v, d, 0, FALSE, TRUE, TRUE) \in Merged(list, u, v)
      BY <1>5, <1>8, <2>2
    <3>2. Kept(u, d, 0, FALSE, TRUE, TRUE) \in Merged(list, v, u)
      BY <1>5, <1>8, <2>2
    <3> QED BY <1>3, <1>7, <2>1, <3>1, <3>2 DEF Offers, Takes
  <2>3. CASE S(u, v) # S(v, u)
    <3>0. Merged(list, u, v) = there(u, v) \cup back(u, v) /\ Merged(list, v, u) = there(v, u) \cup back(v, u)
      BY <1>5, <1>8, <2>3
    <3>1. Kept(v, d, 0, FALSE, TRUE, FALSE) \in there(u, v)
      BY <1>8
    <3>2. Kept(u, d, 0, FALSE, FALSE, TRUE) \in back(v, u)
      BY <1>8
    <3>3. /\ Kept(v, d, 0, FALSE, TRUE, FALSE) \in Merged(list, u, v)
          /\ Kept(u, d, 0, FALSE, FALSE, TRUE) \in Merged(list, v, u)
      BY <3>0, <3>1, <3>2
    <3> QED BY <1>3, <1>7, <2>1, <3>3 DEF Offers, Takes
  <2> QED BY <2>2, <2>3
<1> QED BY <1>6, <1>8 DEF S

(* The arcs of the input.                                                  *)
LEMMA InputArcsAre ==
  ASSUME job \in Jobs
  PROVE  /\ InputArcs \in SUBSET ArcSet
         /\ \A u, v \in Node : \A w : <<u, v, w>> \in InputArcs <=> w = Shortest(job.list, u, v) /\ w < IntMax
<1> DEFINE S(u, v) == Shortest(job.list, u, v)
<1>1. \A u, v : S(u, v) \in Length
  BY JobAssumption, ShortestIs
<1> HIDE DEF S
<1> DEFINE T == {<<u, v, S(u, v)>> : u, v \in Node}
<1>7. InputArcs = {a \in T : a[3] < IntMax}
  BY SMT DEF InputArcs, S
<1>5. ASSUME NEW a \in T PROVE \E u, v \in Node : a = <<u, v, S(u, v)>>
  BY SMT
<1>6. \A u, v \in Node : <<u, v, S(u, v)>> \in T
  BY SMT
<1> HIDE DEF T
<1>2. \A a : a \in InputArcs <=> a \in T /\ a[3] < IntMax
  BY ONLY <1>7, Zenon
<1>3. ASSUME NEW a \in InputArcs PROVE a \in ArcSet
  <2>1. PICK u \in Node, v \in Node : a = <<u, v, S(u, v)>>
    BY <1>2, <1>5
  <2> QED BY <1>1, <2>1, SMT DEF ArcSet
<1>4. ASSUME NEW u \in Node, NEW v \in Node, NEW w
      PROVE  <<u, v, w>> \in InputArcs <=> w = S(u, v) /\ w < IntMax
  <2>1. <<u, v, w>>[3] = w
    OBVIOUS
  <2>2. ASSUME <<u, v, w>> \in InputArcs PROVE w = S(u, v) /\ w < IntMax
    <3>1. PICK x \in Node, y \in Node : <<u, v, w>> = <<x, y, S(x, y)>>
      BY <1>2, <1>5, <2>2
    <3>2. u = x /\ v = y /\ w = S(x, y)
      BY <3>1, TripleIs
    <3> QED BY <1>2, <2>1, <2>2, <3>2
  <2>3. ASSUME w = S(u, v), w < IntMax PROVE <<u, v, w>> \in InputArcs
    BY <1>2, <1>6, <2>1, <2>3
  <2> QED BY <2>2, <2>3
<1> QED BY <1>3, <1>4 DEF S

\* The record of an edge of the input.
Fresh(list, r) ==
  /\ r \in Record /\ r.edge.distance \in Length /\ r.edge.distance < IntMax
  /\ r.source # r.edge.target /\ r.edge.shortcut = FALSE
  /\ r.edge.forward => r.edge.distance = Shortest(list, r.source, r.edge.target)
  /\ r.edge.backward => r.edge.distance = Shortest(list, r.edge.target, r.source)

\* A record of each arc, at both its ends.
Starts(E, u, v, w) ==
  \E r \in E : r.source = u /\ r.edge.target = v /\ r.edge.forward /\ r.edge.distance = w

Stops(E, u, v, w) ==
  \E r \in E : r.source = v /\ r.edge.target = u /\ r.edge.backward /\ r.edge.distance = w

\* The arcs G of the list, and the records E of its edges.
Unchanged(G, list, E) ==
  /\ \A r \in E : Fresh(list, r)
  /\ \A u, v \in Node : \A w : <<u, v, w>> \in G <=> w = Shortest(list, u, v) /\ w < IntMax
  /\ \A u, v \in Node : \A w : u # v /\ <<u, v, w>> \in G => Starts(E, u, v, w) /\ Stops(E, u, v, w)

(* A hierarchy of the input's own edges, with every node left.             *)
LEMMA HInitial ==
  ASSUME NEW G, NEW list, NEW E, Unchanged(G, list, E)
  PROVE  HInv(G, E, Node, {}, {})
<1>0. /\ \A r \in E : Fresh(list, r)
      /\ \A u, v \in Node : \A w : <<u, v, w>> \in G <=> w = Shortest(list, u, v) /\ w < IntMax
      /\ \A u, v \in Node : \A w : u # v /\ <<u, v, w>> \in G => Starts(E, u, v, w) /\ Stops(E, u, v, w)
  BY DEF Unchanged
<1>1. E \subseteq Record
  BY <1>0 DEF Fresh
<1>2. ASSUME NEW r \in E
      PROVE  /\ r.source \in Node /\ r.edge.target \in Node /\ r.edge.distance \in Length
             /\ r.edge.forward => <<r.source, r.edge.target, r.edge.distance>> \in G
             /\ r.edge.backward => <<r.edge.target, r.source, r.edge.distance>> \in G
  <2>1. r.source \in Node /\ r.edge.target \in Node /\ Fresh(list, r)
    BY <1>0, <1>1 DEF Record, EdgeType
  <2> QED BY <1>0, <2>1 DEF Fresh
<1>3. Real(G, E)
  BY <1>2, WithinArc DEF Real
<1>4. Inside(E, Node) /\ OneWay(E, Node)
  BY <1>2 DEF Inside, OneWay
<1>5. \A w \in Length : w <= w
  BY SMT DEF Length
<1>6. Twins(E, Node \ {})
  <2> SUFFICES ASSUME NEW r \in E
               PROVE  /\ r.edge.forward => \E q \in E : /\ q.source = r.edge.target /\ q.edge.target = r.source
                                                        /\ q.edge.backward /\ q.edge.distance <= r.edge.distance
                      /\ r.edge.backward => \E q \in E : /\ q.source = r.edge.target /\ q.edge.target = r.source
                                                         /\ q.edge.forward /\ q.edge.distance <= r.edge.distance
    BY DEF Twins
  <2>1. r.source # r.edge.target /\ r.edge.distance <= r.edge.distance
    BY <1>0, <1>2, <1>5 DEF Fresh
  <2>2. r.edge.forward => Stops(E, r.source, r.edge.target, r.edge.distance)
    BY <1>0, <1>2, <2>1
  <2>3. r.edge.backward => Starts(E, r.edge.target, r.source, r.edge.distance)
    BY <1>0, <1>2, <2>1
  <2> QED BY <2>1, <2>2, <2>3 DEF Starts, Stops
<1>7. Bridged(E, Arcs(E, Node), {})
  BY DEF Bridged
<1>8. Unpacks(E, (Node \ Node) \cup {})
  BY <1>0 DEF Unpacks, Fresh
<1>9. Matched(G, Arcs(E, Node))
  <2> SUFFICES ASSUME NEW u \in Node, NEW v \in Node, NEW w \in Length, <<u, v, w>> \in G
               PROVE  Within(Arcs(E, Node), u, v, w)
    BY DEF Matched
  <2>1. w \in Nat
    BY DEF Length
  <2>2. CASE u = v
    BY <2>1, <2>2, WithinArc
  <2>3. CASE u # v
    <3>0. Starts(E, u, v, w)
      BY <1>0, <2>3
    <3>1. PICK r \in E : r.source = u /\ r.edge.target = v /\ r.edge.forward /\ r.edge.distance = w
      BY <3>0 DEF Starts
    <3>2. <<r.source, r.edge.target, r.edge.distance>> \in Outs(E, Node)
      BY <1>1, <1>2, <3>1, RecordArcs
    <3>3. <<u, v, w>> \in Arcs(E, Node)
      BY <3>1, <3>2 DEF Arcs
    <3> QED BY <3>3, WithinArc
  <2> QED BY <2>2, <2>3
<1>10. Covered(G, Ups(E, Node), Downs(E, Node), Arcs(E, Node))
  <2> SUFFICES ASSUME NEW s \in Node, NEW t \in Node, NEW d \in Nat, Within(G, s, t, d)
               PROVE  Met(Ups(E, Node), Downs(E, Node), Arcs(E, Node), s, t, d)
    BY DEF Covered
  <2>1. Within(Arcs(E, Node), s, t, d)
    BY <1>9, WalksDominated DEF Matched
  <2>2. 0 \in Nat /\ 0 + 0 + d <= d
    BY SMT
  <2>3. Within(Ups(E, Node), s, s, 0) /\ Within(Downs(E, Node), t, t, 0)
    BY <2>2, WithinArc
  <2> QED BY <2>1, <2>2, <2>3 DEF Met
<1> QED BY <1>1, <1>3, <1>4, <1>6, <1>7, <1>8, <1>10 DEF HInv

(* The constructor makes the hierarchy of the input.                       *)
LEMMA InitDInv ==
  ASSUME Init
  PROVE  DInv
<1> DEFINE list == job.list
<1>1. /\ DOMAIN graph = Node /\ ~flushed /\ external = {} /\ independent = {} /\ inserted = {} /\ pc = "loop"
      /\ job \in Jobs /\ list \in SUBSET InputEdge /\ graph = InitialGraph(list)
      /\ remaining = [i \in 1 .. NumNodes |-> i - 1]
  BY JobAssumption DEF Init, InitialGraph
<1>2. CInv
  BY InitCInv
<1> HIDE DEF list
<1>3. \A n : OriginalId(n) = n
  BY <1>1 DEF OriginalId
<1>4. Left = Node
  <2>1. NumNodes \in Nat
    BY SizeAssumption, SMT
  <2>2. Members(remaining) = 0 .. NumNodes - 1 /\ Len(remaining) = NumNodes
    BY ONLY <1>1, <2>1, FirstIds, Zenon
  <2>3. Remaining = Node
    BY <1>2, <2>2, RemainingNodes DEF CInv, Node
  <2> QED BY <1>3, <2>3, SMT DEF Left
<1>5. Round = {} /\ Treated = {}
  BY <1>1 DEF Round, Treated
<1>6. /\ \A u \in Node : \A e \in graph[u] : Given(list, u, e)
      /\ \A u, v \in Node : u # v /\ Shortest(list, u, v) # IntMax =>
            Offers(graph, u, v, Shortest(list, u, v)) /\ Takes(graph, v, u, Shortest(list, u, v))
  BY <1>1, InitialArcs
<1>7. 0 \in Node
  BY SizeAssumption, SMT DEF Node
<1>8. Housed
  <2>1. \A u \in Node : \A e \in graph[u] : e.target \in Node /\ e.id \in Node /\ e.distance < IntMax
    BY <1>6 DEF Given, EdgeType
  <2>2. Named
    BY <1>1, <1>3, SMT DEF Named
  <2> QED BY <1>1, <2>1, <2>2 DEF Housed
<1>9. ASSUME NEW n \in Node, NEW e \in graph[n]
      PROVE  /\ Translated(n, e) \in Records /\ Translated(n, e) \in Record
             /\ Translated(n, e).source = n /\ Translated(n, e).edge.target = e.target
             /\ Translated(n, e).edge.distance = e.distance
             /\ Translated(n, e).edge.shortcut = e.shortcut
             /\ Translated(n, e).edge.forward = e.forward /\ Translated(n, e).edge.backward = e.backward
  <2>1. At(n, e)
    BY <1>1, <1>2, <1>8, RecordsAre
  <2>2. Translated(n, e) \in Records /\ Translated(n, e) \in Record
    BY <1>2, <1>8, <2>1, RecordsAre
  <2>3. e \in EdgeType
    BY <2>1 DEF At
  <2> QED BY <1>3, <2>2, <2>3, TranslatedIs
<1>10. ASSUME NEW r \in Records PROVE Fresh(list, r)
  <2>1. Moved = {}
    BY <1>1 DEF Moved
  <2>2. \E n \in Node : \E e \in graph[n] : r = Translated(n, e)
    <3>1. \A q : q \in Moved \/ (\E s \in inserted : q = Translated(s.source, s.edge)) <=> FALSE
      BY <1>1, <2>1
    <3> QED BY <1>1, <3>1, RecordsMember DEF Spelled
  <2>3. PICK n \in Node : \E e \in graph[n] : r = Translated(n, e)
    BY <2>2
  <2>4. PICK e \in graph[n] : r = Translated(n, e)
    BY <2>3
  <2>5. Given(list, n, e)
    BY <1>6
  <2>6. /\ r \in Record /\ r.source = n /\ r.edge.target = e.target /\ r.edge.distance = e.distance
        /\ r.edge.shortcut = e.shortcut /\ r.edge.forward = e.forward /\ r.edge.backward = e.backward
    BY <1>9, <2>4
  <2> QED BY <2>5, <2>6 DEF Given, Fresh
<1>11. /\ InputArcs \in SUBSET ArcSet
       /\ \A u, v \in Node : \A w : <<u, v, w>> \in InputArcs <=> w = Shortest(list, u, v) /\ w < IntMax
  BY <1>1, InputArcsAre DEF list
<1>12. ASSUME NEW u \in Node, NEW v \in Node, NEW w, u # v, <<u, v, w>> \in InputArcs
       PROVE  Starts(Records, u, v, w) /\ Stops(Records, u, v, w)
  <2>1. w = Shortest(list, u, v) /\ w < IntMax
    BY <1>11, <1>12
  <2>2. IntMax \in Nat
    BY SizeAssumption
  <2>3. w # IntMax
    BY ONLY <2>1, <2>2, SMT
  <2>4. Offers(graph, u, v, w) /\ Takes(graph, v, u, w)
    BY <1>6, <1>12, <2>1, <2>3
  <2>5. PICK e \in graph[u] : e.target = v /\ e.forward /\ e.distance = w
    BY <2>4 DEF Offers
  <2>6. PICK d \in graph[v] : d.target = u /\ d.backward /\ d.distance = w
    BY <2>4 DEF Takes
  <2>7. Starts(Records, u, v, w)
    BY <1>9, <2>5 DEF Starts
  <2>8. Stops(Records, u, v, w)
    BY <1>9, <2>6 DEF Stops
  <2> QED BY <2>7, <2>8
<1>13. HInv(InputArcs, Records, Node, {}, {})
  <2>1. Unchanged(InputArcs, list, Records)
    BY <1>10, <1>11, <1>12 DEF Unchanged
  <2> QED BY <2>1, HInitial
<1> QED BY <1>1, <1>4, <1>5, <1>8, <1>13 DEF DInv

-----------------------------------------------------------------------------
(* ContractNode.                                                           *)

HasRecord(x, r) == \E e \in graph[x] : r = Translated(x, e)

\* The record of e at x.
Tells(x, e, r) ==
  /\ r = Translated(x, e) /\ r \in Records /\ r \in Record /\ r.edge.distance \in Length
  /\ r.source = OriginalId(x) /\ r.edge.target = OriginalId(e.target) /\ r.edge.distance = e.distance
  /\ r.edge.forward = e.forward /\ r.edge.backward = e.backward

(* The records at a node of the round are its edges: nothing waits there.  *)
LEMMA RoundRecords ==
  ASSUME CInv, DInv, NEW x \in independent
  PROVE  /\ \A e \in graph[x] : At(x, e) /\ Tells(x, e, Translated(x, e))
         /\ \A r \in Records : r.source = OriginalId(x) => HasRecord(x, r)
<1>1. Housed /\ x \in DOMAIN graph /\ Real(InputArcs, Records)
  BY LeftAre DEF DInv, HInv
<1>2. ASSUME NEW e \in graph[x] PROVE At(x, e) /\ Tells(x, e, Translated(x, e))
  <2>1. At(x, e)
    BY <1>1, RecordsAre
  <2>2. Translated(x, e) \in Records /\ Translated(x, e) \in Record
    BY <1>1, <2>1, RecordsAre
  <2>3. e \in EdgeType
    BY <2>1 DEF At
  <2>4. Translated(x, e).edge.distance \in Length
    BY <1>1, <2>2 DEF Real
  <2> QED BY <2>1, <2>2, <2>3, <2>4, TranslatedIs DEF Tells
<1>3. ASSUME NEW r \in Records, r.source = OriginalId(x) PROVE HasRecord(x, r)
  <2>1. KeptAs(x, r)
    BY <1>1, <1>3, RecordsAre
  <2>2. PICK e : At(x, e) /\ r = Translated(x, e)
    BY <2>1 DEF KeptAs
  <2>3. [source |-> x, edge |-> e] \notin inserted
    <3>1. [source |-> x, edge |-> e].source = x
      OBVIOUS
    <3> QED BY <3>1, WaitingStay
  <2> QED BY <2>2, <2>3 DEF At, HasRecord
<1> QED BY <1>2, <1>3

\* A pair of edges that gets a shortcut from u to v of length d.
Through(x, u, v, d) ==
  \E a, b : /\ <<a, b>> \in Replaced(graph, x) /\ a \in graph[x] /\ b \in graph[x] /\ a.backward /\ b.forward
            /\ a.target = u /\ b.target = v /\ a.distance + b.distance = d

(* A shortcut joins nodes that stay, is as long as a walk of the input and *)
(* shorter than IntMax.                                                    *)
LEMMA ShortcutWalks ==
  ASSUME CInv, DInv, NEW x \in independent, NEW u, NEW v, NEW d, End(u, v, d) \in Ends(graph, x)
  PROVE  /\ Through(x, u, v, d) /\ u \in Remaining \ independent /\ v \in Remaining \ independent /\ u # v
         /\ d \in Length /\ d < IntMax /\ Within(InputArcs, OriginalId(u), OriginalId(v), d)
<1>1. /\ Housed /\ Real(InputArcs, Records) /\ x \in Remaining /\ job \in Jobs /\ Remaining \subseteq DOMAIN graph
  BY LeftAre DEF DInv, HInv, CInv, Sized
<1>2. Closed(graph, Remaining)
  BY RemainingNodes DEF CInv, Mutual, Closed
<1>0. Joins(graph, x, u, v, d)
  BY EndsAre
<1>3. PICK a, b : <<a, b>> \in Replaced(graph, x) /\ a.target = u /\ b.target = v /\ a.distance + b.distance = d
  BY <1>0 DEF Joins
<1>4. /\ a \in graph[x] /\ a.backward /\ b \in graph[x] /\ b.forward
      /\ a.distance + b.distance < Key(Seen(graph, x, a), b.target)
  BY <1>3, ReplacedIs
<1>5. Targets(graph, x) \subseteq Remaining \ independent
  BY <1>1 DEF CInv, Mutual, Apart
<1>6. u \in Remaining \ independent /\ v \in Remaining \ independent
  BY <1>3, <1>4, <1>5 DEF Targets
<1>7. u # v
  <2>1. <<a, b>>[1] = a /\ <<a, b>>[2] = b
    OBVIOUS
  <2>2. <<a, b>>[1].target # <<a, b>>[2].target
    BY <1>1, <1>2, <1>3, ReplacedPairs
  <2> QED BY <1>3, <2>1, <2>2
<1>8. Tells(x, a, Translated(x, a)) /\ Tells(x, b, Translated(x, b))
  BY <1>4, RoundRecords
<1>9. a.distance \in Length /\ b.distance \in Length
  BY <1>8 DEF Tells
<1>10. Key(Seen(graph, x, a), b.target) \in Nat /\ Key(Seen(graph, x, a), b.target) <= IntMax
  BY <1>1, <1>2, <1>3, <1>6, SeenKey
<1>11. d \in Length /\ d < IntMax /\ a.distance \in Nat /\ b.distance \in Nat
  <2>1. IntMax \in Nat
    BY SizeAssumption
  <2> QED BY ONLY <1>3, <1>4, <1>9, <1>10, <2>1, SMT DEF Length
<1>12. OriginalId(u) \in Node /\ OriginalId(v) \in Node /\ OriginalId(x) \in Node
  BY <1>1, <1>6 DEF Housed, Named
<1>13. Within(InputArcs, OriginalId(u), OriginalId(x), a.distance)
  BY <1>1, <1>3, <1>4, <1>8 DEF Real, Tells
<1>14. Within(InputArcs, OriginalId(x), OriginalId(v), b.distance)
  BY <1>1, <1>3, <1>4, <1>8 DEF Real, Tells
<1>15. Within(InputArcs, OriginalId(u), OriginalId(v), a.distance + b.distance)
  BY <1>11, <1>12, <1>13, <1>14, WithinJoin
<1> QED BY <1>3, <1>4, <1>6, <1>7, <1>11, <1>15 DEF Through

\* The record of a shortcut at u.
Short(x, u, v, d) == Translated(u, Cut(graph, x, u, v, d).edge)

ShortHas(x, u, v, d, r, e) ==
  /\ r \in Record /\ r.source = OriginalId(u) /\ r.edge.target = OriginalId(v) /\ r.edge.distance = d
  /\ r.edge.id = OriginalId(x)
  /\ r.edge.forward <=> End(u, v, d) \in Ends(graph, x)
  /\ r.edge.backward <=> End(v, u, d) \in Ends(graph, x)
  /\ u \in Remaining \ independent /\ v \in Remaining \ independent /\ u # v
  /\ d \in Length /\ d < IntMax
  /\ Cut(graph, x, u, v, d).source = u /\ e.target = v /\ e.id = x /\ e.distance = d

(* The fields of such a record, and of the edge at its end.                *)
LEMMA ShortIs ==
  ASSUME CInv, DInv, NEW x \in independent, NEW u, NEW v, NEW d,
         End(u, v, d) \in Ends(graph, x) \/ End(v, u, d) \in Ends(graph, x)
  PROVE  ShortHas(x, u, v, d, Short(x, u, v, d), Cut(graph, x, u, v, d).edge)
<1> DEFINE r == Short(x, u, v, d)
           e == Cut(graph, x, u, v, d).edge
           there == End(u, v, d) \in Ends(graph, x)
           back == End(v, u, d) \in Ends(graph, x)
<1>1. u \in Remaining \ independent /\ v \in Remaining \ independent /\ u # v /\ d \in Length /\ d < IntMax
  <2>1. CASE End(u, v, d) \in Ends(graph, x)
    BY <2>1, ShortcutWalks
  <2>2. CASE End(v, u, d) \in Ends(graph, x)
    BY <2>2, ShortcutWalks
  <2> QED BY <2>1, <2>2
<1>2. Remaining \subseteq DOMAIN graph /\ Remaining \subseteq Node /\ x \in Remaining /\ Housed
  BY LeftAre, RemainingNodes DEF DInv, CInv
<1>3. e = [target |-> v, distance |-> d, id |-> x, shortcut |-> TRUE, forward |-> there, backward |-> back,
           is_original_via_node_ID |-> FALSE]
      /\ Cut(graph, x, u, v, d).source = u
  BY DEF Cut, Kept
<1>4. there \in BOOLEAN /\ back \in BOOLEAN /\ d \in Nat /\ TRUE \in BOOLEAN /\ FALSE \in BOOLEAN
  <2>1. d \in Nat
    BY <1>1 DEF Length
  <2>2. there \in BOOLEAN /\ back \in BOOLEAN
    BY SMT
  <2> QED BY <2>1, <2>2
<1> HIDE DEF e, there, back
<1>5. e \in EdgeType
  BY <1>1, <1>2, <1>3, <1>4 DEF EdgeType
<1>6. /\ e.target = v /\ e.distance = d /\ e.id = x /\ e.forward = there /\ e.backward = back
      /\ e.is_original_via_node_ID = FALSE
  BY ONLY <1>3, SMT
<1>7. OriginalId(u) \in Node /\ OriginalId(v) \in Node /\ OriginalId(x) \in Node
  BY <1>1, <1>2 DEF Housed, Named
<1>8. r = Translated(u, e)
  BY DEF Short, e
<1> HIDE DEF r
<1>9. /\ r.source = OriginalId(u) /\ r.edge.target = OriginalId(v) /\ r.edge.distance = d
      /\ r.edge.id = OriginalId(x) /\ r.edge.forward = there /\ r.edge.backward = back
  BY <1>5, <1>6, <1>8, TranslatedIs
<1>10. r \in Record
  BY <1>5, <1>6, <1>7, <1>8, <1>9, TranslatedIs
<1> QED BY <1>1, <1>3, <1>6, <1>9, <1>10 DEF r, e, there, back, ShortHas

\* The records ContractNode adds.
Added(x) == {Translated(s.source, s.edge) : s \in Shortcuts(graph, x)}

IsShort(x, r) ==
  \E u, v, d : /\ r = Short(x, u, v, d)
               /\ End(u, v, d) \in Ends(graph, x) \/ End(v, u, d) \in Ends(graph, x)

(* They are the records of the shortcuts, at both ends.                    *)
LEMMA AddedAre ==
  ASSUME CInv, DInv, NEW x \in independent
  PROVE  /\ \A r \in Added(x) : IsShort(x, r)
         /\ \A u, v, d : End(u, v, d) \in Ends(graph, x) =>
               Short(x, u, v, d) \in Added(x) /\ Short(x, v, u, d) \in Added(x)
<1>1. ASSUME NEW r \in Added(x) PROVE IsShort(x, r)
  <2>1. PICK s \in Shortcuts(graph, x) : r = Translated(s.source, s.edge)
    BY <1>1 DEF Added
  <2>2. PICK u, v, d : /\ s = Cut(graph, x, u, v, d)
                       /\ End(u, v, d) \in Ends(graph, x) \/ End(v, u, d) \in Ends(graph, x)
    BY ShortcutsAre
  <2>3. s.source = u
    <3>1. ShortHas(x, u, v, d, Short(x, u, v, d), Cut(graph, x, u, v, d).edge)
      BY <2>2, ShortIs
    <3> QED BY <2>2, <3>1 DEF ShortHas
  <2> QED BY <2>1, <2>2, <2>3 DEF Short, IsShort
<1>2. ASSUME NEW u, NEW v, NEW d, End(u, v, d) \in Ends(graph, x)
      PROVE  Short(x, u, v, d) \in Added(x) /\ Short(x, v, u, d) \in Added(x)
  <2>1. Cut(graph, x, u, v, d) \in Shortcuts(graph, x) /\ Cut(graph, x, v, u, d) \in Shortcuts(graph, x)
    BY <1>2, ShortcutsAre
  <2>0. /\ ShortHas(x, u, v, d, Short(x, u, v, d), Cut(graph, x, u, v, d).edge)
        /\ ShortHas(x, v, u, d, Short(x, v, u, d), Cut(graph, x, v, u, d).edge)
    BY <1>2, ShortIs
  <2>2. Cut(graph, x, u, v, d).source = u
    BY <2>0 DEF ShortHas
  <2>3. Cut(graph, x, v, u, d).source = v
    BY <2>0 DEF ShortHas
  <2>4. Short(x, u, v, d) \in Added(x)
    BY <2>1, <2>2 DEF Short, Added
  <2>5. Short(x, v, u, d) \in Added(x)
    BY <2>1, <2>3 DEF Short, Added
  <2> QED BY <2>4, <2>5
<1> QED BY <1>1, <1>2

(* No record is added at the node itself.                                  *)
LEMMA AddedElsewhere ==
  ASSUME CInv, DInv, NEW x \in independent, NEW r \in Records \cup Added(x), r.source = OriginalId(x)
  PROVE  r \in Records /\ HasRecord(x, r)
<1>1. r \notin Added(x)
  <2> SUFFICES ASSUME r \in Added(x) PROVE FALSE
    OBVIOUS
  <2>1. IsShort(x, r)
    BY AddedAre
  <2>2. PICK u, v, d : /\ r = Short(x, u, v, d)
                       /\ End(u, v, d) \in Ends(graph, x) \/ End(v, u, d) \in Ends(graph, x)
    BY <2>1 DEF IsShort
  <2>3. r.source = OriginalId(u) /\ u \in Remaining \ independent
    <3>1. ShortHas(x, u, v, d, Short(x, u, v, d), Cut(graph, x, u, v, d).edge)
      BY <2>2, ShortIs
    <3> QED BY <2>2, <3>1 DEF ShortHas
  <2>4. u \in DOMAIN graph /\ x \in DOMAIN graph /\ Housed
    BY <2>3, LeftAre DEF DInv
  <2>5. u = x
    BY <2>3, <2>4 DEF Housed, Named
  <2> QED BY <2>3, <2>5
<1> QED BY <1>1, RoundRecords

(* The edges that the witness search follows are arcs without the node.    *)
LEMMA GraphShows ==
  ASSUME CInv, DInv, NEW x \in independent
  PROVE  Shows(graph, Remaining, x, [n \in Remaining |-> OriginalId(n)], Away(Arcs(Records, Left), OriginalId(x)))
<1> DEFINE f == [n \in Remaining |-> OriginalId(n)]
           B == Away(Arcs(Records, Left), OriginalId(x))
<1>1. Housed /\ Remaining \subseteq DOMAIN graph /\ x \in Remaining /\ Real(InputArcs, Records)
  BY LeftAre DEF DInv, HInv
<1>2. \A n \in Remaining : f[n] = OriginalId(n) /\ f[n] \in Node
  BY <1>1 DEF Housed, Named
<1>3. ASSUME NEW n \in Remaining \ {x}, NEW e \in graph[n], e.forward, e.target # x
      PROVE  e.distance \in Length /\ <<f[n], f[e.target], e.distance>> \in B
  <2> DEFINE r == Translated(n, e)
             p == <<OriginalId(n), OriginalId(e.target), e.distance>>
  <2>1. At(n, e) /\ e.target \in Remaining
    BY <1>1, RecordsAre DEF CInv, Mutual, Targets
  <2>2. r \in Records /\ r \in Record /\ e \in EdgeType
    BY <1>1, <2>1, RecordsAre DEF At
  <2>3. /\ r.source = OriginalId(n) /\ r.edge.target = OriginalId(e.target) /\ r.edge.distance = e.distance
        /\ r.edge.forward
    BY <1>3, <2>2, TranslatedIs
  <2>4. r.edge.distance \in Length /\ r.source \in Left
    BY <1>1, <2>2, <2>3 DEF Real, Left
  <2> HIDE DEF r
  <2>5. <<r.source, r.edge.target, r.edge.distance>> \in Outs(Records, Left)
    BY <2>2, <2>3, <2>4, RecordArcs
  <2>6. p \in Arcs(Records, Left)
    BY <2>3, <2>5 DEF Arcs
  <2>7. OriginalId(n) # OriginalId(x) /\ OriginalId(e.target) # OriginalId(x)
    BY <1>1, <1>3, <2>1 DEF Housed, Named
  <2>8. p[1] = OriginalId(n) /\ p[2] = OriginalId(e.target)
    OBVIOUS
  <2>9. p \in B
    BY <2>6, <2>7, <2>8 DEF Away
  <2>10. f[n] = OriginalId(n) /\ f[e.target] = OriginalId(e.target)
    BY <1>2, <2>1
  <2>11. e.distance \in Length
    BY <2>3, <2>4
  <2> QED BY <2>9, <2>10, <2>11
<1> HIDE DEF f, B
<1>4. Shows(graph, Remaining, x, f, B)
  BY <1>2, <1>3 DEF Shows
<1> QED BY <1>4 DEF f, B

(* A shortcut, or a way around: what leads through the node is replaced.   *)
LEMMA AddedBridged ==
  ASSUME CInv, DInv, NEW x \in independent, NEW F, F = Records \cup Added(x)
  PROVE  Bridged(F, Arcs(F, Left), {OriginalId(x)})
<1> DEFINE f == [n \in Remaining |-> OriginalId(n)]
           B == Away(Arcs(Records, Left), OriginalId(x))
           C == Away(Arcs(F, Left), OriginalId(x))
<1> SUFFICES ASSUME NEW i \in F, NEW o \in F, i.source = OriginalId(x), o.source = OriginalId(x),
                    i.edge.backward, o.edge.forward,
                    ~(i.edge.distance + o.edge.distance >= IntMax)
             PROVE  Within(C, i.edge.target, o.edge.target, i.edge.distance + o.edge.distance)
  <2>1. ASSUME NEW i \in F, NEW o \in F, i.source \in {OriginalId(x)}, o.source = i.source,
               i.edge.backward, o.edge.forward
        PROVE  i.edge.distance + o.edge.distance >= IntMax
               \/ Within(C, i.edge.target, o.edge.target, i.edge.distance + o.edge.distance)
    BY <2>1
  <2> QED BY <2>1 DEF Bridged
<1>1. HasRecord(x, i) /\ HasRecord(x, o)
  BY AddedElsewhere
<1>2. PICK a \in graph[x] : i = Translated(x, a)
  BY <1>1 DEF HasRecord
<1>3. PICK b \in graph[x] : o = Translated(x, b)
  BY <1>1 DEF HasRecord
<1>4. Tells(x, a, i) /\ Tells(x, b, o)
  BY <1>2, <1>3, RoundRecords
<1>5. /\ a.backward /\ b.forward /\ i.edge.target = OriginalId(a.target) /\ o.edge.target = OriginalId(b.target)
      /\ i.edge.distance = a.distance /\ o.edge.distance = b.distance
      /\ a.distance \in Length /\ b.distance \in Length
  BY <1>4 DEF Tells
<1>6. /\ job \in Jobs /\ x \in Remaining /\ Closed(graph, Remaining) /\ x \notin Targets(graph, x)
      /\ a.target \in Remaining /\ b.target \in Remaining /\ Housed /\ Remaining \subseteq DOMAIN graph
  <2>1. Housed /\ job \in Jobs /\ x \in Remaining /\ Remaining \subseteq DOMAIN graph
    BY LeftAre DEF DInv, CInv, Sized
  <2>2. Closed(graph, Remaining)
    BY RemainingNodes DEF CInv, Mutual, Closed
  <2>3. x \notin Targets(graph, x) /\ Targets(graph, x) \subseteq Remaining
    BY <2>1 DEF CInv, Mutual
  <2> QED BY <2>1, <2>2, <2>3 DEF Targets
<1>7. OriginalId(a.target) \in Node /\ OriginalId(b.target) \in Node
  BY <1>6 DEF Housed, Named
<1>8. Shows(graph, Remaining, x, f, B)
  BY GraphShows
<1>9. f[a.target] = OriginalId(a.target) /\ f[b.target] = OriginalId(b.target)
  BY <1>6
<1> HIDE DEF f, B
<1>10. \/ <<a, b>> \in Replaced(graph, x)
       \/ a.distance + b.distance >= IntMax
       \/ Within(B, f[a.target], f[b.target], a.distance + b.distance)
  BY <1>5, <1>6, <1>8, Witnessed
<1>11. CASE <<a, b>> \in Replaced(graph, x)
  <2> DEFINE u == a.target
             v == b.target
             d == a.distance + b.distance
             r == Short(x, u, v, d)
  <2>1. Joins(graph, x, u, v, d)
    BY <1>11 DEF Joins
  <2> HIDE DEF u, v, d
  <2>2. End(u, v, d) \in Ends(graph, x)
    BY <2>1, EndsAre
  <2>3. /\ r \in Record /\ r.source = OriginalId(u) /\ r.edge.target = OriginalId(v) /\ r.edge.distance = d
        /\ r.edge.forward /\ u \in Remaining \ independent /\ v \in Remaining \ independent /\ d \in Length
    <3>1. ShortHas(x, u, v, d, Short(x, u, v, d), Cut(graph, x, u, v, d).edge)
      BY <2>2, ShortIs
    <3> QED BY <2>2, <3>1 DEF ShortHas
  <2>4. r \in F
    BY <2>2, AddedAre
  <2> HIDE DEF r
  <2>5. r.source \in Left
    BY <2>3 DEF Left
  <2>6. <<r.source, r.edge.target, r.edge.distance>> \in Outs(F, Left)
    BY <2>3, <2>4, <2>5, RecordArcs
  <2> DEFINE p == <<OriginalId(u), OriginalId(v), d>>
  <2>7. p \in Arcs(F, Left) /\ p[1] = OriginalId(u) /\ p[2] = OriginalId(v)
    BY <2>3, <2>6 DEF Arcs
  <2>8. OriginalId(u) # OriginalId(x) /\ OriginalId(v) # OriginalId(x)
    BY <1>6, <2>3 DEF Housed, Named
  <2>9. p \in C
    BY <2>7, <2>8 DEF Away
  <2>10. OriginalId(u) \in Node /\ OriginalId(v) \in Node
    BY <1>7 DEF u, v
  <2>11. Within(C, OriginalId(u), OriginalId(v), d)
    BY <2>3, <2>9, <2>10, WithinArc
  <2> QED BY <1>5, <2>11 DEF u, v, d
<1>12. CASE Within(B, f[a.target], f[b.target], a.distance + b.distance)
  <2>1. Arcs(Records, Left) \subseteq Arcs(F, Left)
    BY DEF Arcs, Outs, Ins
  <2>2. B \subseteq C
    BY <2>1 DEF Away, B
  <2>3. Walks(B, OriginalId(a.target)) \subseteq Walks(C, OriginalId(a.target))
    BY <1>7, <2>2, WalksMore
  <2> HIDE DEF C
  <2> QED BY <1>5, <1>9, <1>12, <2>3 DEF Within
<1> QED BY <1>5, <1>10, <1>11, <1>12

\* A record from, or to, v beside r that is no longer than d.
Beside(F, r, u, v, d) ==
  \E q \in F : /\ q.source = r.source /\ q.edge.target = r.edge.target
               /\ r.source = u => q.edge.forward
               /\ r.source = v => q.edge.backward
               /\ q.edge.distance <= d

(* The halves of a shortcut are edges of the node, and no two such edges   *)
(* are shorter than the shortest shortcut between their ends.              *)
LEMMA AddedSplits ==
  ASSUME CInv, DInv, NEW x \in independent, NEW F, F = Records \cup Added(x),
         NEW u, NEW v, NEW d, End(u, v, d) \in Ends(graph, x),
         NEW r, r.edge.id = OriginalId(x), r.edge.distance = d,
         \/ r.source = OriginalId(u) /\ r.edge.target = OriginalId(v)
         \/ r.source = OriginalId(v) /\ r.edge.target = OriginalId(u)
  PROVE  Splits(F, r, OriginalId(u), OriginalId(v))
<1>1. Through(x, u, v, d) /\ u \in Remaining \ independent /\ v \in Remaining \ independent /\ u # v
  BY ShortcutWalks
<1>2. PICK a, b : /\ <<a, b>> \in Replaced(graph, x) /\ a \in graph[x] /\ b \in graph[x] /\ a.backward /\ b.forward
                  /\ a.target = u /\ b.target = v /\ a.distance + b.distance = d
  BY <1>1 DEF Through
<1>3. \A e \in graph[x] : At(x, e) /\ Tells(x, e, Translated(x, e))
  BY RoundRecords
<1>4. \E i, o \in F : /\ Halves(i, o, r.edge.id, OriginalId(u), OriginalId(v))
                      /\ i.edge.distance + o.edge.distance = r.edge.distance
  <2> DEFINE i == Translated(x, a)
             o == Translated(x, b)
  <2>1. Tells(x, a, i) /\ Tells(x, b, o)
    BY <1>2, <1>3
  <2> HIDE DEF i, o
  <2>2. i \in F /\ o \in F /\ i.edge.distance = a.distance /\ o.edge.distance = b.distance
    BY <2>1 DEF Tells
  <2>3. Halves(i, o, r.edge.id, OriginalId(u), OriginalId(v))
    BY <1>2, <2>1 DEF Tells, Halves
  <2>4. i.edge.distance + o.edge.distance = r.edge.distance
    BY <1>2, <2>2
  <2> QED BY <2>2, <2>3, <2>4
<1>5. /\ Housed /\ job \in Jobs /\ x \in Remaining /\ Remaining \subseteq DOMAIN graph /\ Closed(graph, Remaining)
  BY LeftAre, RemainingNodes DEF DInv, CInv, Sized, Mutual, Closed
<1>6. OriginalId(u) # OriginalId(v)
  BY <1>1, <1>5 DEF Housed, Named
<1>7. Bounded(graph, x)
  BY <1>3 DEF Bounded, At
<1>8. ASSUME NEW i \in F, NEW o \in F, Halves(i, o, r.edge.id, OriginalId(u), OriginalId(v))
      PROVE  Beside(F, r, OriginalId(u), OriginalId(v), i.edge.distance + o.edge.distance)
  <2>1. /\ i.source = OriginalId(x) /\ i.edge.target = OriginalId(u) /\ i.edge.backward
        /\ o.source = OriginalId(x) /\ o.edge.target = OriginalId(v) /\ o.edge.forward
    BY <1>8 DEF Halves
  <2>2. HasRecord(x, i) /\ HasRecord(x, o)
    BY <2>1, AddedElsewhere
  <2>3. PICK i2 \in graph[x] : i = Translated(x, i2)
    BY <2>2 DEF HasRecord
  <2>4. PICK o2 \in graph[x] : o = Translated(x, o2)
    BY <2>2 DEF HasRecord
  <2>5. Tells(x, i2, i) /\ Tells(x, o2, o) /\ At(x, i2) /\ At(x, o2)
    BY <1>3, <2>3, <2>4
  <2>6. /\ i2.backward /\ o2.forward /\ OriginalId(i2.target) = OriginalId(u) /\ OriginalId(o2.target) = OriginalId(v)
        /\ i.edge.distance = i2.distance /\ o.edge.distance = o2.distance
        /\ i2.target \in DOMAIN graph /\ o2.target \in DOMAIN graph
    BY <2>1, <2>5 DEF Tells, At
  <2>7. i2.target = a.target /\ o2.target = b.target
    BY <1>1, <1>2, <1>5, <2>6 DEF Housed, Named
  <2>8. Beaten(graph, x, a.target, b.target, i2.distance + o2.distance)
    BY <1>2, <1>5, <1>7, <2>6, <2>7, ShortestReplaced
  <2>9. PICK c, h : /\ <<c, h>> \in Replaced(graph, x) /\ c.target = a.target /\ h.target = b.target
                    /\ c.distance + h.distance <= i2.distance + o2.distance
    BY <2>8 DEF Beaten
  <2> DEFINE d2 == c.distance + h.distance
  <2>10. Joins(graph, x, u, v, d2)
    BY <1>2, <2>9 DEF Joins
  <2>11. d2 <= i.edge.distance + o.edge.distance
    BY <2>6, <2>9
  <2> HIDE DEF d2
  <2>12. End(u, v, d2) \in Ends(graph, x)
    BY <2>10, EndsAre
  <2>13. Short(x, u, v, d2) \in F /\ Short(x, v, u, d2) \in F
    BY <2>12, AddedAre
  <2>14. CASE r.source = OriginalId(u) /\ r.edge.target = OriginalId(v)
    <3>1. ShortHas(x, u, v, d2, Short(x, u, v, d2), Cut(graph, x, u, v, d2).edge)
      BY <2>12, ShortIs
    <3> QED BY <1>6, <2>11, <2>12, <2>13, <2>14, <3>1 DEF ShortHas, Beside
  <2>15. CASE r.source = OriginalId(v) /\ r.edge.target = OriginalId(u)
    <3>1. ShortHas(x, v, u, d2, Short(x, v, u, d2), Cut(graph, x, v, u, d2).edge)
      BY <2>12, ShortIs
    <3> QED BY <1>6, <2>11, <2>12, <2>13, <2>15, <3>1 DEF ShortHas, Beside
  <2> QED BY <2>14, <2>15
<1> QED BY <1>4, <1>8 DEF Splits, Beside

\* A record that ContractNode adds, for HShortcuts.
Joining(x, F, r) ==
  /\ r \in Record /\ r.edge.distance \in Length
  /\ r.edge.forward => Within(InputArcs, r.source, r.edge.target, r.edge.distance)
  /\ r.edge.backward => Within(InputArcs, r.edge.target, r.source, r.edge.distance)
  /\ r.source \in Left \ Round /\ r.edge.target \in Left \ Round /\ r.source # r.edge.target
  /\ r.edge.id = OriginalId(x)
  /\ r.edge.forward => Splits(F, r, r.source, r.edge.target)
  /\ r.edge.backward => Splits(F, r, r.edge.target, r.source)
  /\ r.edge.forward => \E q \in Added(x) : /\ q.source = r.edge.target /\ q.edge.target = r.source
                                           /\ q.edge.backward /\ q.edge.distance <= r.edge.distance
  /\ r.edge.backward => \E q \in Added(x) : /\ q.source = r.edge.target /\ q.edge.target = r.source
                                            /\ q.edge.forward /\ q.edge.distance <= r.edge.distance

(* What HShortcuts asks of a new record.                                   *)
LEMMA AddedJoining ==
  ASSUME CInv, DInv, NEW x \in independent, NEW F, F = Records \cup Added(x), NEW r \in Added(x)
  PROVE  Joining(x, F, r)
<1>1. IsShort(x, r)
  BY AddedAre
<1>2. PICK u, v, d : /\ r = Short(x, u, v, d)
                     /\ End(u, v, d) \in Ends(graph, x) \/ End(v, u, d) \in Ends(graph, x)
  BY <1>1 DEF IsShort
<1>3. /\ ShortHas(x, u, v, d, r, Cut(graph, x, u, v, d).edge)
      /\ ShortHas(x, v, u, d, Short(x, v, u, d), Cut(graph, x, v, u, d).edge)
  BY <1>2, ShortIs
<1>4. /\ r \in Record /\ r.source = OriginalId(u) /\ r.edge.target = OriginalId(v) /\ r.edge.distance = d
      /\ r.edge.id = OriginalId(x) /\ d \in Length
      /\ r.edge.forward => End(u, v, d) \in Ends(graph, x)
      /\ r.edge.backward => End(v, u, d) \in Ends(graph, x)
      /\ u \in Remaining \ independent /\ v \in Remaining \ independent /\ u # v
  BY <1>3 DEF ShortHas
<1> DEFINE q == Short(x, v, u, d)
<1>5. /\ q.source = OriginalId(v) /\ q.edge.target = OriginalId(u) /\ q.edge.distance = d
      /\ End(v, u, d) \in Ends(graph, x) => q.edge.forward
      /\ End(u, v, d) \in Ends(graph, x) => q.edge.backward
  BY <1>3 DEF ShortHas
<1>6. q \in Added(x)
  BY <1>2, AddedAre
<1>7. /\ OriginalId(u) \in Left \ Round /\ OriginalId(v) \in Left \ Round /\ OriginalId(u) # OriginalId(v)
  <2>1. Housed /\ u \in DOMAIN graph /\ v \in DOMAIN graph
    BY <1>4, LeftAre DEF DInv
  <2> QED BY <1>4, <2>1, LeftAre DEF Housed, Named
<1>8. ASSUME r.edge.forward
      PROVE  /\ Within(InputArcs, r.source, r.edge.target, r.edge.distance)
             /\ Splits(F, r, r.source, r.edge.target)
  <2>1. Within(InputArcs, OriginalId(u), OriginalId(v), d)
    BY <1>4, <1>8, ShortcutWalks
  <2>2. Splits(F, r, OriginalId(u), OriginalId(v))
    BY <1>4, <1>8, AddedSplits
  <2> QED BY <1>4, <2>1, <2>2
<1>9. ASSUME r.edge.backward
      PROVE  /\ Within(InputArcs, r.edge.target, r.source, r.edge.distance)
             /\ Splits(F, r, r.edge.target, r.source)
  <2>1. Within(InputArcs, OriginalId(v), OriginalId(u), d)
    BY <1>4, <1>9, ShortcutWalks
  <2>2. Splits(F, r, OriginalId(v), OriginalId(u))
    BY <1>4, <1>9, AddedSplits
  <2> QED BY <1>4, <2>1, <2>2
<1>10. d <= d
  BY <1>4, SMT DEF Length
<1> HIDE DEF q
<1>11. q.edge.distance <= r.edge.distance
  BY <1>4, <1>5, <1>10
<1>12. r.edge.forward => \E p \in Added(x) : /\ p.source = r.edge.target /\ p.edge.target = r.source
                                             /\ p.edge.backward /\ p.edge.distance <= r.edge.distance
  BY <1>4, <1>5, <1>6, <1>11
<1>13. r.edge.backward => \E p \in Added(x) : /\ p.source = r.edge.target /\ p.edge.target = r.source
                                              /\ p.edge.forward /\ p.edge.distance <= r.edge.distance
  BY <1>4, <1>5, <1>6, <1>11
<1> QED BY <1>4, <1>7, <1>8, <1>9, <1>12, <1>13 DEF Joining

(* The shortcuts of a node of the round are recorded.                      *)
LEMMA ContractDInv ==
  ASSUME CInv, DInv, NEW x \in todo, ContractNode(x)
  PROVE  DInv'
<1> DEFINE F == Records \cup Added(x)
<1>1. /\ UNCHANGED <<job, graph, remaining, orig, external, flushed, independent>>
      /\ pc = "contract" /\ pc' \in {"contract", "delete"} /\ x \in independent
      /\ inserted' = inserted \cup Shortcuts(graph, x)
      /\ todo \subseteq independent
      /\ pc' = "contract" => todo' = todo \ {x}
      /\ pc' = "delete" => todo = {x}
  BY DEF ContractNode, NextTask, graphVars, roundVars, CInv, Rounds
<1>2. \A n : OriginalId(n)' = OriginalId(n)
  BY <1>1 DEF OriginalId
<1>3. Housed /\ HInv(InputArcs, Records, Left, Round, Treated)
  BY DEF DInv
<1>4. Left' = Left /\ Round' = Round /\ InputArcs' = InputArcs
  BY <1>1, <1>2, SameInput DEF Left, Round, Remaining
<1>5. Treated' = Treated \cup {OriginalId(x)}
  <2>1. Treated = {OriginalId(n) : n \in independent \ todo}
    BY <1>1 DEF Treated
  <2>2. CASE pc' = "contract"
    <3>1. Treated' = {OriginalId(n) : n \in independent \ (todo \ {x})}
      BY <1>1, <1>2, <2>2 DEF Treated
    <3> QED BY <1>1, <2>1, <3>1
  <2>3. CASE pc' = "delete"
    <3>1. Treated' = {OriginalId(n) : n \in independent}
      BY <1>1, <1>2, <2>3 DEF Treated
    <3> QED BY <1>1, <2>1, <2>3, <3>1
  <2> QED BY <1>1, <2>2, <2>3
<1>6. \A r \in Added(x) : Joining(x, F, r)
  BY <1>1, AddedJoining
<1>7. Bridged(F, Arcs(F, Left), {OriginalId(x)})
  BY <1>1, AddedBridged
<1>8. Added(x) \in SUBSET Record /\ Real(InputArcs, Added(x)) /\ Twins(Added(x), Left \ Round)
  BY <1>6 DEF Joining, Real, Twins
<1> HIDE DEF F
<1>9. /\ \A r \in Added(x) : r.source \in Left \ Round /\ r.edge.target \in Left \ Round /\ r.source # r.edge.target
      /\ \A r \in Added(x) : /\ r.edge.id = OriginalId(x)
                             /\ r.edge.forward => Splits(F, r, r.source, r.edge.target)
                             /\ r.edge.backward => Splits(F, r, r.edge.target, r.source)
  BY <1>6 DEF Joining
<1>10. OriginalId(x) \in Round /\ F = Records \cup Added(x)
  BY <1>1 DEF Round, F
<1>11. HInv(InputArcs, F, Left, Round, Treated \cup {OriginalId(x)})
  BY <1>3, <1>7, <1>8, <1>9, <1>10, HShortcuts
<1>12. Records' = F
  <2>1. \A n, e : Translated(n, e)' = Translated(n, e)
    BY <1>2 DEF Translated
  <2>2. GetEdges' = GetEdges
    BY <1>1, <2>1, SMT DEF GetEdges
  <2>3. Records' = GetEdges \cup {Translated(s.source, s.edge) : s \in inserted'}
    BY <2>1, <2>2 DEF Records
  <2> QED BY <1>1, <2>3 DEF Records, Added, F
<1>13. Housed'
  <2>1. ASSUME NEW s \in Shortcuts(graph, x)
        PROVE  s.source \in DOMAIN graph /\ s.edge.target \in DOMAIN graph
               /\ s.edge.id \in DOMAIN graph /\ s.edge.distance < IntMax
    <3>1. PICK u, v, d : /\ s = Cut(graph, x, u, v, d)
                         /\ End(u, v, d) \in Ends(graph, x) \/ End(v, u, d) \in Ends(graph, x)
      BY ShortcutsAre
    <3>2. ShortHas(x, u, v, d, Short(x, u, v, d), s.edge)
      BY <1>1, <3>1, ShortIs
    <3>3. s.source = u /\ s.edge.target = v /\ s.edge.id = x /\ s.edge.distance = d /\ d < IntMax
          /\ u \in Remaining /\ v \in Remaining
      BY <3>1, <3>2 DEF ShortHas
    <3>4. Remaining \subseteq DOMAIN graph /\ x \in Remaining
      BY <1>1, <1>3, LeftAre
    <3> QED BY <3>3, <3>4
  <2> QED BY <1>1, <1>2, <1>3, <2>1 DEF Housed, Named
<1> QED BY <1>1, <1>4, <1>5, <1>11, <1>12, <1>13 DEF DInv

-----------------------------------------------------------------------------
(* Results.                                                                *)

(* Every step keeps the hierarchy.                                         *)
LEMMA NextDInv ==
  ASSUME CInv, DInv, [Next]_vars
  PROVE  DInv'
<1>1. CASE Flush
  BY <1>1, FlushDInv
<1>2. CASE SelectIndependent
  BY <1>2, SelectDInv
<1>3. ASSUME NEW x \in todo, ContractNode(x) PROVE DInv'
  BY <1>3, ContractDInv
<1>4. ASSUME NEW x \in todo, DeleteIncomingEdges(x) PROVE DInv'
  BY <1>4, DeleteDInv
<1>5. ASSUME NEW x \in todo, UpdateNodeNeighbours(x) PROVE DInv'
  <2>1. /\ UNCHANGED <<job, graph, remaining, orig, external, flushed, independent, inserted>>
        /\ pc = "update" /\ pc' = "update"
    BY <1>5 DEF UpdateNodeNeighbours, graphVars, roundVars
  <2>2. Treated' = Treated
    BY <2>1 DEF Treated, OriginalId
  <2> QED BY <2>1, <2>2, DKept
<1>6. ASSUME NEW t \in inserted, InsertShortcut(t) PROVE DInv'
  BY <1>6, InsertDInv
<1>7. CASE InsertDone
  <2>1. /\ UNCHANGED <<job, graph, remaining, orig, external, flushed, independent, inserted>>
        /\ pc = "insert" /\ pc' = "update"
    BY <1>7 DEF InsertDone, graphVars, roundVars
  <2>2. Treated' = Treated
    BY <2>1 DEF Treated, OriginalId
  <2> QED BY <2>1, <2>2, DKept
<1>8. CASE EndRound
  BY <1>8, EndRoundDInv
<1>9. CASE Finish
  BY <1>9, FinishDInv
<1>10. CASE UNCHANGED vars
  <2>1. /\ UNCHANGED <<job, graph, remaining, orig, external, flushed, independent, inserted>>
        /\ UNCHANGED <<todo, edges, pc>>
    BY <1>10 DEF vars, graphVars, roundVars
  <2>2. \A n : OriginalId(n)' = OriginalId(n)
    BY <2>1 DEF OriginalId
  <2>3. Records' = Records /\ GetEdges' = GetEdges
    BY <2>1, SameRecords
  <2>4. Left' = Left /\ Round' = Round /\ InputArcs' = InputArcs /\ Treated' = Treated
    BY <2>1, <2>2, SameInput DEF Left, Round, Remaining, Treated
  <2>5. Housed'
    BY <2>1, <2>2 DEF DInv, Housed, Named
  <2> QED BY <2>1, <2>3, <2>4, <2>5 DEF DInv
<1> QED BY <1>1, <1>2, <1>3, <1>4, <1>5, <1>6, <1>7, <1>8, <1>9, <1>10 DEF Next, Step, Done

(* The hierarchy is one of the input at any time.                          *)
LEMMA DInvInvariance == Spec => []DInv
<1>1. ASSUME CInv, DInv, [Next]_vars PROVE DInv'
  BY <1>1, NextDInv
<1>2. Init => DInv
  BY InitDInv
<1> QED BY <1>1, <1>2, CInvInvariance, PTL DEF Spec

-----------------------------------------------------------------------------
(* What a hierarchy is good for.                                           *)

(* Between rounds the arcs kept where they start do as well as all arcs,   *)
(* and so do those kept where they end.                                    *)
LEMMA OneSided ==
  ASSUME NEW G, NEW E, NEW L, NEW T, HInv(G, E, L, {}, T)
  PROVE  Matched(Arcs(E, L), Outs(E, L)) /\ Matched(Arcs(E, L), Ins(E, L))
<1>1. E \in SUBSET Record /\ Real(G, E) /\ Inside(E, L) /\ Twins(E, L)
  <2>1. L \ {} = L
    OBVIOUS
  <2> QED BY <2>1 DEF HInv
<1>2. \A r \in E : r.edge.distance \in Length
  BY <1>1 DEF Real
<1>3. \A w \in Length : w <= w
  BY SMT DEF Length
<1>4. ASSUME NEW u \in Node, NEW v \in Node, NEW w \in Length, <<u, v, w>> \in Ins(E, L)
      PROVE  \E z \in Length : z <= w /\ <<u, v, z>> \in Outs(E, L)
  <2>1. PICK r \in E : r.source \in L /\ r.edge.backward /\ <<u, v, w>> = <<r.edge.target, r.source, r.edge.distance>>
    BY <1>4 DEF Ins
  <2>2. u = r.edge.target /\ v = r.source /\ w = r.edge.distance
    BY <2>1, TripleIs
  <2>3. PICK q \in E : /\ q.source = r.edge.target /\ q.edge.target = r.source
                       /\ q.edge.forward /\ q.edge.distance <= r.edge.distance
    BY <1>1, <2>1 DEF Twins
  <2>4. q.source \in L
    BY <1>1, <2>1, <2>3 DEF Inside
  <2>5. <<q.source, q.edge.target, q.edge.distance>> \in Outs(E, L)
    BY <1>1, <1>2, <2>3, <2>4, RecordArcs
  <2>6. <<u, v, q.edge.distance>> \in Outs(E, L) /\ q.edge.distance <= w
    BY <2>2, <2>3, <2>5
  <2> QED BY <1>2, <2>6
<1>5. ASSUME NEW u \in Node, NEW v \in Node, NEW w \in Length, <<u, v, w>> \in Outs(E, L)
      PROVE  \E z \in Length : z <= w /\ <<u, v, z>> \in Ins(E, L)
  <2>1. PICK r \in E : r.source \in L /\ r.edge.forward /\ <<u, v, w>> = <<r.source, r.edge.target, r.edge.distance>>
    BY <1>5 DEF Outs
  <2>2. v = r.edge.target /\ u = r.source /\ w = r.edge.distance
    BY <2>1, TripleIs
  <2>3. PICK q \in E : /\ q.source = r.edge.target /\ q.edge.target = r.source
                       /\ q.edge.backward /\ q.edge.distance <= r.edge.distance
    BY <1>1, <2>1 DEF Twins
  <2>4. q.source \in L
    BY <1>1, <2>1, <2>3 DEF Inside
  <2>5. <<q.edge.target, q.source, q.edge.distance>> \in Ins(E, L)
    BY <1>1, <1>2, <2>3, <2>4, RecordArcs
  <2>6. <<u, v, q.edge.distance>> \in Ins(E, L) /\ q.edge.distance <= w
    BY <2>2, <2>3, <2>5
  <2> QED BY <1>2, <2>6
<1>6. Answered(Arcs(E, L), Outs(E, L))
  BY <1>3, <1>4 DEF Answered, Arcs
<1>7. Answered(Arcs(E, L), Ins(E, L))
  BY <1>3, <1>5 DEF Answered, Arcs
<1> QED BY <1>6, <1>7, AnsweredMatch

(* Every arc is a walk of the input.                                       *)
LEMMA ArcsReal ==
  ASSUME NEW G, NEW E \in SUBSET Record, NEW L, Real(G, E)
  PROVE  Matched(Outs(E, L), G) /\ Matched(Ins(E, L), G)
<1>1. ASSUME NEW u \in Node, NEW v \in Node, NEW w \in Length, <<u, v, w>> \in Outs(E, L)
      PROVE  Within(G, u, v, w)
  <2>1. PICK r \in E : r.edge.forward /\ <<u, v, w>> = <<r.source, r.edge.target, r.edge.distance>>
    BY <1>1 DEF Outs
  <2>2. v = r.edge.target /\ u = r.source /\ w = r.edge.distance
    BY <2>1, TripleIs
  <2> QED BY <2>1, <2>2 DEF Real
<1>2. ASSUME NEW u \in Node, NEW v \in Node, NEW w \in Length, <<u, v, w>> \in Ins(E, L)
      PROVE  Within(G, u, v, w)
  <2>1. PICK r \in E : r.edge.backward /\ <<u, v, w>> = <<r.edge.target, r.source, r.edge.distance>>
    BY <1>2 DEF Ins
  <2>2. u = r.edge.target /\ v = r.source /\ w = r.edge.distance
    BY <2>1, TripleIs
  <2> QED BY <2>1, <2>2 DEF Real
<1> QED BY <1>1, <1>2 DEF Matched

(* The nodes that are left have their distances among themselves.          *)
LEMMA LeftDistances ==
  ASSUME NEW G, NEW E, NEW L, NEW T, HInv(G, E, L, {}, T), NEW s \in L, NEW t \in L, NEW d \in Nat, d < IntMax
  PROVE  /\ Within(G, s, t, d) <=> Within(Outs(E, L), s, t, d)
         /\ Within(G, s, t, d) <=> Within(Ins(E, L), s, t, d)
<1>1. /\ L \subseteq Node /\ E \in SUBSET Record /\ Real(G, E)
      /\ Covered(G, Ups(E, L), Downs(E, L), Arcs(E, L))
  BY DEF HInv
<1>2. s \in Node /\ t \in Node
  BY <1>1
<1>3. ASSUME NEW A, \A u \in Node, w \in Length : <<s, u, w>> \notin A, NEW m \in Node, NEW a \in Nat, Within(A, s, m, a)
      PROVE  m = s
  <2>1. PICK c \in Nat : <<m, c>> \in Walks(A, s)
    BY <1>3 DEF Within
  <2>2. ~FirstArc(A, s, m, c)
    BY <1>3 DEF FirstArc
  <2> QED BY <1>2, <2>1, <2>2, WalkFirst
<1>4. ASSUME NEW A, \A u \in Node, w \in Length : <<t, u, w>> \notin A, NEW m \in Node, NEW a \in Nat, Within(A, t, m, a)
      PROVE  m = t
  <2>1. PICK c \in Nat : <<m, c>> \in Walks(A, t)
    BY <1>4 DEF Within
  <2>2. ~FirstArc(A, t, m, c)
    BY <1>4 DEF FirstArc
  <2> QED BY <1>2, <2>1, <2>2, WalkFirst
<1>5. \A u, w : <<s, u, w>> \notin Ups(E, L)
  <2> SUFFICES ASSUME NEW u, NEW w, <<s, u, w>> \in Ups(E, L) PROVE FALSE
    OBVIOUS
  <2>1. PICK r \in E : r.source \in Node \ L /\ <<s, u, w>> = <<r.source, r.edge.target, r.edge.distance>>
    BY DEF Ups, Outs
  <2>2. s = r.source
    BY <2>1, TripleIs
  <2> QED BY <2>1, <2>2
<1>6. \A u, w : <<t, u, w>> \notin Downs(E, L)
  <2> SUFFICES ASSUME NEW u, NEW w, <<t, u, w>> \in Downs(E, L) PROVE FALSE
    OBVIOUS
  <2>1. PICK r \in E : r.source \in Node \ L /\ <<t, u, w>> = <<r.source, r.edge.target, r.edge.distance>>
    BY DEF Downs
  <2>2. t = r.source
    BY <2>1, TripleIs
  <2> QED BY <2>1, <2>2
<1>7. ASSUME Within(G, s, t, d) PROVE Within(Arcs(E, L), s, t, d)
  <2>0. Met(Ups(E, L), Downs(E, L), Arcs(E, L), s, t, d)
    BY <1>1, <1>2, <1>7 DEF Covered
  <2>1. PICK m \in Node, n \in Node, a \in Nat, b \in Nat, c \in Nat :
          a + b + c <= d /\ Within(Ups(E, L), s, m, a) /\ Within(Downs(E, L), t, n, b) /\ Within(Arcs(E, L), m, n, c)
    BY <2>0 DEF Met
  <2>2. m = s
    BY <1>3, <1>5, <2>1
  <2>3. n = t
    BY <1>4, <1>6, <2>1
  <2>4. c <= d
    BY <2>1, SMT
  <2>5. Within(Arcs(E, L), s, t, c)
    BY <2>1, <2>2, <2>3
  <2> QED BY <1>2, <2>4, <2>5, WithinLonger
<1>8. Matched(Arcs(E, L), Outs(E, L)) /\ Matched(Arcs(E, L), Ins(E, L))
  BY OneSided
<1>9. Within(G, s, t, d) => Within(Outs(E, L), s, t, d) /\ Within(Ins(E, L), s, t, d)
  BY <1>2, <1>7, <1>8, WalksDominated DEF Matched
<1>10. Matched(Outs(E, L), G) /\ Matched(Ins(E, L), G)
  BY <1>1, ArcsReal
<1>11. Within(Outs(E, L), s, t, d) => Within(G, s, t, d)
  BY <1>2, <1>10, WalksDominated DEF Matched
<1>12. Within(Ins(E, L), s, t, d) => Within(G, s, t, d)
  BY <1>2, <1>10, WalksDominated DEF Matched
<1> QED BY <1>9, <1>11, <1>12

\* An arc of A under another name.
Renamed(A, R, f, p, q, w) == \E u, v \in R : p = f[u] /\ q = f[v] /\ <<u, v, w>> \in A

\* The arcs of A, between nodes of R, are those of B under other names.
Renames(A, B, R, f) ==
  /\ \A n \in R : f[n] \in Node
  /\ \A m, n \in R : f[m] = f[n] => m = n
  /\ \A u, v, w : <<u, v, w>> \in A => u \in R /\ v \in R /\ <<f[u], f[v], w>> \in B
  /\ \A p, q, w : <<p, q, w>> \in B => Renamed(A, R, f, p, q, w)

(* New names keep the distances.                                           *)
LEMMA Renaming ==
  ASSUME NEW A, NEW B, NEW R \in SUBSET Node, NEW f, Renames(A, B, R, f), NEW u \in R, NEW v \in R, NEW d \in Nat
  PROVE  Within(A, u, v, d) <=> Within(B, f[u], f[v], d)
<1> DEFINE h == [n \in Node |-> IF n \in R THEN f[n] ELSE n]
           Back(n) == CHOOSE m \in R : f[m] = n
           k == [n \in Node |-> IF \E m \in R : f[m] = n THEN Back(n) ELSE n]
<1>1. /\ \A n \in R : f[n] \in Node
      /\ \A m, n \in R : f[m] = f[n] => m = n
  BY DEF Renames
<1>2. (\A n \in Node : h[n] \in Node) /\ \A n \in R : h[n] = f[n]
  BY <1>1
<1>3. \A m \in R : Back(f[m]) = m
  BY <1>1
<1>4. ASSUME NEW n \in Node PROVE k[n] \in Node
  <2>1. CASE \E m \in R : f[m] = n
    <3>1. k[n] = Back(n)
      BY <2>1
    <3>2. PICK m \in R : f[m] = n
      BY <2>1
    <3>3. Back(n) = m
      BY <1>3, <3>2
    <3> QED BY <3>1, <3>2, <3>3
  <2>2. CASE ~\E m \in R : f[m] = n
    BY <2>2
  <2> QED BY <2>1, <2>2
<1>5. ASSUME NEW m \in R PROVE k[f[m]] = m
  <2>1. f[m] \in Node /\ \E n \in R : f[n] = f[m]
    BY <1>1
  <2>2. k[f[m]] = Back(f[m])
    BY <2>1
  <2> QED BY <1>3, <2>2
<1> HIDE DEF h, k, Back
<1>6. ASSUME NEW m \in Node, NEW n \in Node, NEW w \in Length, <<m, n, w>> \in A PROVE Within(B, h[m], h[n], w)
  <2>1. m \in R /\ n \in R /\ <<f[m], f[n], w>> \in B
    BY <1>6 DEF Renames
  <2>2. Within(B, f[m], f[n], w)
    BY <1>1, <2>1, WithinArc
  <2> QED BY <1>2, <2>1, <2>2
<1>7. ASSUME NEW p \in Node, NEW q \in Node, NEW w \in Length, <<p, q, w>> \in B PROVE Within(A, k[p], k[q], w)
  <2>0. Renamed(A, R, f, p, q, w)
    BY <1>7 DEF Renames
  <2>1. PICK m \in R, n \in R : p = f[m] /\ q = f[n] /\ <<m, n, w>> \in A
    BY <2>0 DEF Renamed
  <2>2. k[p] = m /\ k[q] = n
    BY <1>5, <2>1
  <2>3. Within(A, m, n, w)
    BY <2>1, WithinArc
  <2> QED BY <2>2, <2>3
<1>8. ASSUME Within(A, u, v, d) PROVE Within(B, f[u], f[v], d)
  <2>1. PICK c \in Nat : c <= d /\ <<v, c>> \in Walks(A, u)
    BY <1>8 DEF Within
  <2>2. Within(B, h[u], h[v], c)
    BY <1>2, <1>6, <2>1, WalksMapped
  <2>3. Within(B, f[u], f[v], c)
    BY <1>2, <2>2
  <2> QED BY <1>1, <2>1, <2>3, WithinLonger
<1>9. ASSUME Within(B, f[u], f[v], d) PROVE Within(A, u, v, d)
  <2>1. PICK c \in Nat : c <= d /\ <<f[v], c>> \in Walks(B, f[u])
    BY <1>9 DEF Within
  <2>0. f[u] \in Node /\ f[v] \in Node
    BY <1>1
  <2>2. Within(A, k[f[u]], k[f[v]], c)
    BY <1>4, <1>7, <2>0, <2>1, WalksMapped
  <2>3. Within(A, u, v, c)
    BY <1>5, <2>2
  <2> QED BY <2>1, <2>3, WithinLonger
<1> QED BY <1>8, <1>9

(* The arcs of the current graph.                                          *)
LEMMA GraphArcs ==
  /\ \A a : a \in ForwardArcs <=>
       \E u \in Remaining : \E e \in graph[u] : e.forward /\ a = <<u, e.target, e.distance>>
  /\ \A a : a \in BackwardArcs <=>
       \E v \in Remaining : \E e \in graph[v] : e.backward /\ a = <<e.target, v, e.distance>>
<1>1. ASSUME NEW a, a \in ForwardArcs
      PROVE  \E u \in Remaining : \E e \in graph[u] : e.forward /\ a = <<u, e.target, e.distance>>
  <2>1. PICK u \in Remaining : a \in {<<u, e.target, e.distance>> : e \in {e \in graph[u] : e.forward}}
    BY <1>1 DEF ForwardArcs
  <2> QED BY <2>1
<1>2. ASSUME NEW u \in Remaining, NEW e \in graph[u], e.forward PROVE <<u, e.target, e.distance>> \in ForwardArcs
  <2>1. <<u, e.target, e.distance>> \in {<<u, d.target, d.distance>> : d \in {d \in graph[u] : d.forward}}
    BY <1>2
  <2> QED BY <2>1 DEF ForwardArcs
<1>3. ASSUME NEW a, a \in BackwardArcs
      PROVE  \E v \in Remaining : \E e \in graph[v] : e.backward /\ a = <<e.target, v, e.distance>>
  <2>1. PICK v \in Remaining : a \in {<<e.target, v, e.distance>> : e \in {e \in graph[v] : e.backward}}
    BY <1>3 DEF BackwardArcs
  <2> QED BY <2>1
<1>4. ASSUME NEW v \in Remaining, NEW e \in graph[v], e.backward PROVE <<e.target, v, e.distance>> \in BackwardArcs
  <2>1. <<e.target, v, e.distance>> \in {<<d.target, v, d.distance>> : d \in {d \in graph[v] : d.backward}}
    BY <1>4
  <2> QED BY <2>1 DEF BackwardArcs
<1> QED BY <1>1, <1>2, <1>3, <1>4

(* Between rounds the arcs of the graph are those of the records at the    *)
(* nodes that are left, under the current ids.                             *)
LEMMA GraphRenames ==
  ASSUME CInv, DInv, pc = "loop", NEW f, f = [n \in Remaining |-> OriginalId(n)]
  PROVE  /\ Renames(ForwardArcs, Outs(Records, Left), Remaining, f)
         /\ Renames(BackwardArcs, Ins(Records, Left), Remaining, f)
         /\ ForwardArcs \in SUBSET ArcSet /\ BackwardArcs \in SUBSET ArcSet
<1>1. /\ Housed /\ inserted = {} /\ Real(InputArcs, Records)
      /\ Remaining \subseteq DOMAIN graph /\ Remaining \subseteq Node
  BY LeftAre, RemainingNodes DEF DInv, CInv, Rounds, HInv
<1>2. /\ \A n \in Remaining : f[n] = OriginalId(n) /\ f[n] \in Node /\ f[n] \in Left
      /\ \A m, n \in Remaining : f[m] = f[n] => m = n
  BY <1>1 DEF Housed, Named, Left
<1>3. ASSUME NEW n \in Remaining, NEW e \in graph[n]
      PROVE  /\ e.target \in Remaining /\ e.distance \in Length
             /\ e.forward => <<f[n], f[e.target], e.distance>> \in Outs(Records, Left)
             /\ e.backward => <<f[e.target], f[n], e.distance>> \in Ins(Records, Left)
  <2> DEFINE r == Translated(n, e)
  <2>1. At(n, e) /\ e.target \in Remaining
    BY <1>1, RecordsAre DEF CInv, Mutual, Targets
  <2>2. r \in Records /\ r \in Record /\ e \in EdgeType
    BY <1>1, <2>1, RecordsAre DEF At
  <2>3. /\ r.source = OriginalId(n) /\ r.edge.target = OriginalId(e.target) /\ r.edge.distance = e.distance
        /\ r.edge.forward = e.forward /\ r.edge.backward = e.backward
    BY <2>2, TranslatedIs
  <2>4. r.edge.distance \in Length /\ r.source \in Left
    BY <1>1, <2>2, <2>3 DEF Real, Left
  <2> HIDE DEF r
  <2>5. /\ r.edge.forward => <<r.source, r.edge.target, r.edge.distance>> \in Outs(Records, Left)
        /\ r.edge.backward => <<r.edge.target, r.source, r.edge.distance>> \in Ins(Records, Left)
    BY <2>2, <2>4, RecordArcs
  <2>6. r.source = f[n] /\ r.edge.target = f[e.target]
    BY <1>2, <2>1, <2>3
  <2> QED BY <2>1, <2>3, <2>4, <2>5, <2>6
<1>4. ASSUME NEW r \in Records, r.source \in Left
      PROVE  \E n \in Remaining : \E e \in graph[n] :
                /\ r.source = f[n] /\ r.edge.target = f[e.target] /\ r.edge.distance = e.distance
                /\ r.edge.forward = e.forward /\ r.edge.backward = e.backward
  <2>1. PICK n \in Remaining : r.source = OriginalId(n)
    BY <1>4 DEF Left
  <2>2. KeptAs(n, r)
    BY <1>1, <2>1, RecordsAre
  <2>3. PICK e : At(n, e) /\ r = Translated(n, e)
    BY <2>2 DEF KeptAs
  <2>4. e \in graph[n] /\ e \in EdgeType
    BY <1>1, <2>3 DEF At
  <2>5. /\ r.edge.target = OriginalId(e.target) /\ r.edge.distance = e.distance
        /\ r.edge.forward = e.forward /\ r.edge.backward = e.backward
    BY <2>3, <2>4, TranslatedIs
  <2>6. r.source = f[n] /\ r.edge.target = f[e.target]
    BY <1>2, <1>3, <2>1, <2>4, <2>5
  <2> QED BY <2>4, <2>5, <2>6
<1>5. ASSUME NEW u, NEW v, NEW w, <<u, v, w>> \in ForwardArcs
      PROVE  u \in Remaining /\ v \in Remaining /\ w \in Length /\ <<f[u], f[v], w>> \in Outs(Records, Left)
  <2>1. PICK n \in Remaining : \E e \in graph[n] : e.forward /\ <<u, v, w>> = <<n, e.target, e.distance>>
    BY <1>5, GraphArcs
  <2>2. PICK e \in graph[n] : e.forward /\ <<u, v, w>> = <<n, e.target, e.distance>>
    BY <2>1
  <2>3. u = n /\ v = e.target /\ w = e.distance
    BY <2>2, TripleIs
  <2> QED BY <1>3, <2>2, <2>3
<1>6. ASSUME NEW u, NEW v, NEW w, <<u, v, w>> \in BackwardArcs
      PROVE  u \in Remaining /\ v \in Remaining /\ w \in Length /\ <<f[u], f[v], w>> \in Ins(Records, Left)
  <2>1. PICK n \in Remaining : \E e \in graph[n] : e.backward /\ <<u, v, w>> = <<e.target, n, e.distance>>
    BY <1>6, GraphArcs
  <2>2. PICK e \in graph[n] : e.backward /\ <<u, v, w>> = <<e.target, n, e.distance>>
    BY <2>1
  <2>3. v = n /\ u = e.target /\ w = e.distance
    BY <2>2, TripleIs
  <2> QED BY <1>3, <2>2, <2>3
<1>7. ASSUME NEW p, NEW q, NEW w, <<p, q, w>> \in Outs(Records, Left)
      PROVE  Renamed(ForwardArcs, Remaining, f, p, q, w)
  <2>1. PICK r \in Records : r.source \in Left /\ r.edge.forward /\ <<p, q, w>> = <<r.source, r.edge.target, r.edge.distance>>
    BY <1>7 DEF Outs
  <2>2. p = r.source /\ q = r.edge.target /\ w = r.edge.distance
    BY <2>1, TripleIs
  <2>3. PICK n \in Remaining : \E e \in graph[n] :
           /\ r.source = f[n] /\ r.edge.target = f[e.target] /\ r.edge.distance = e.distance
           /\ r.edge.forward = e.forward /\ r.edge.backward = e.backward
    BY <1>4, <2>1
  <2>4. PICK e \in graph[n] :
           /\ r.source = f[n] /\ r.edge.target = f[e.target] /\ r.edge.distance = e.distance
           /\ r.edge.forward = e.forward /\ r.edge.backward = e.backward
    BY <2>3
  <2>5. <<n, e.target, e.distance>> \in ForwardArcs
    BY <2>1, <2>4, GraphArcs
  <2> QED BY <1>3, <2>2, <2>4, <2>5 DEF Renamed
<1>8. ASSUME NEW p, NEW q, NEW w, <<p, q, w>> \in Ins(Records, Left)
      PROVE  Renamed(BackwardArcs, Remaining, f, p, q, w)
  <2>1. PICK r \in Records : r.source \in Left /\ r.edge.backward /\ <<p, q, w>> = <<r.edge.target, r.source, r.edge.distance>>
    BY <1>8 DEF Ins
  <2>2. q = r.source /\ p = r.edge.target /\ w = r.edge.distance
    BY <2>1, TripleIs
  <2>3. PICK n \in Remaining : \E e \in graph[n] :
           /\ r.source = f[n] /\ r.edge.target = f[e.target] /\ r.edge.distance = e.distance
           /\ r.edge.forward = e.forward /\ r.edge.backward = e.backward
    BY <1>4, <2>1
  <2>4. PICK e \in graph[n] :
           /\ r.source = f[n] /\ r.edge.target = f[e.target] /\ r.edge.distance = e.distance
           /\ r.edge.forward = e.forward /\ r.edge.backward = e.backward
    BY <2>3
  <2>5. <<e.target, n, e.distance>> \in BackwardArcs
    BY <2>1, <2>4, GraphArcs
  <2> QED BY <1>3, <2>2, <2>4, <2>5 DEF Renamed
<1>9. ASSUME NEW a \in ForwardArcs PROVE a \in ArcSet
  <2>1. PICK n \in Remaining : \E e \in graph[n] : e.forward /\ a = <<n, e.target, e.distance>>
    BY <1>9, GraphArcs
  <2>2. PICK e \in graph[n] : a = <<n, e.target, e.distance>>
    BY <2>1
  <2>3. n \in Node /\ e.target \in Node /\ e.distance \in Length
    BY <1>1, <1>3
  <2> QED BY <2>2, <2>3, SMT DEF ArcSet
<1>10. ASSUME NEW a \in BackwardArcs PROVE a \in ArcSet
  <2>1. PICK n \in Remaining : \E e \in graph[n] : e.backward /\ a = <<e.target, n, e.distance>>
    BY <1>10, GraphArcs
  <2>2. PICK e \in graph[n] : a = <<e.target, n, e.distance>>
    BY <2>1
  <2>3. n \in Node /\ e.target \in Node /\ e.distance \in Length
    BY <1>1, <1>3
  <2> QED BY <2>2, <2>3, SMT DEF ArcSet
<1> QED BY <1>2, <1>5, <1>6, <1>7, <1>8, <1>9, <1>10 DEF Renames

(* Between two rounds the graph of the remaining nodes has the distances   *)
(* of the input, over the edges kept at their start as over those kept at  *)
(* their end, for every graph and all settings (ContractNode, Dijkstra,    *)
(* InsertEdge, DeleteIncomingEdges, Flush).                                *)
THEOREM DistancesKept == Spec => []RemainingDistances
<1>1. CInv /\ DInv => RemainingDistances
  <2> SUFFICES ASSUME CInv, DInv, pc = "loop", NEW u \in Remaining, NEW v \in Remaining
               PROVE  /\ Key(From(ForwardArcs, u), v) = Key(From(InputArcs, OriginalId(u)), OriginalId(v))
                      /\ Key(From(BackwardArcs, u), v) = Key(From(InputArcs, OriginalId(u)), OriginalId(v))
    BY DEF RemainingDistances
  <2> DEFINE f == [n \in Remaining |-> OriginalId(n)]
  <2>1. /\ Housed /\ job \in Jobs /\ HInv(InputArcs, Records, Left, {}, Treated)
        /\ Remaining \subseteq DOMAIN graph /\ Remaining \subseteq Node
    <3>1. Round = {}
      BY DEF CInv, Rounds, Round
    <3> QED BY <3>1, LeftAre, RemainingNodes DEF DInv, CInv, Sized
  <2>2. /\ f[u] = OriginalId(u) /\ f[v] = OriginalId(v) /\ OriginalId(u) \in Node /\ OriginalId(v) \in Node
        /\ OriginalId(u) \in Left /\ OriginalId(v) \in Left
    BY <2>1 DEF Housed, Named, Left
  <2> HIDE DEF f
  <2>3. /\ Renames(ForwardArcs, Outs(Records, Left), Remaining, f)
        /\ Renames(BackwardArcs, Ins(Records, Left), Remaining, f)
        /\ ForwardArcs \in SUBSET ArcSet /\ BackwardArcs \in SUBSET ArcSet
    BY GraphRenames DEF f
  <2>4. InputArcs \in SUBSET ArcSet
    BY <2>1, InputArcsAre
  <2>5. Alike(ForwardArcs, u, v, InputArcs, OriginalId(u), OriginalId(v))
    <3> SUFFICES \A d \in Nat : d < IntMax =>
                   (Within(ForwardArcs, u, v, d) <=> Within(InputArcs, OriginalId(u), OriginalId(v), d))
      BY DEF Alike
    <3> TAKE d \in Nat
    <3> HAVE d < IntMax
    <3>0. Within(ForwardArcs, u, v, d) <=> Within(Outs(Records, Left), f[u], f[v], d)
      BY <2>1, <2>3, Renaming
    <3>1. Within(ForwardArcs, u, v, d) <=> Within(Outs(Records, Left), OriginalId(u), OriginalId(v), d)
      BY <2>2, <3>0
    <3>2. Within(InputArcs, OriginalId(u), OriginalId(v), d)
             <=> Within(Outs(Records, Left), OriginalId(u), OriginalId(v), d)
      BY <2>1, <2>2, LeftDistances
    <3> QED BY <3>1, <3>2
  <2>6. Alike(BackwardArcs, u, v, InputArcs, OriginalId(u), OriginalId(v))
    <3> SUFFICES \A d \in Nat : d < IntMax =>
                   (Within(BackwardArcs, u, v, d) <=> Within(InputArcs, OriginalId(u), OriginalId(v), d))
      BY DEF Alike
    <3> TAKE d \in Nat
    <3> HAVE d < IntMax
    <3>0. Within(BackwardArcs, u, v, d) <=> Within(Ins(Records, Left), f[u], f[v], d)
      BY <2>1, <2>3, Renaming
    <3>1. Within(BackwardArcs, u, v, d) <=> Within(Ins(Records, Left), OriginalId(u), OriginalId(v), d)
      BY <2>2, <3>0
    <3>2. Within(InputArcs, OriginalId(u), OriginalId(v), d)
             <=> Within(Ins(Records, Left), OriginalId(u), OriginalId(v), d)
      BY <2>1, <2>2, LeftDistances
    <3> QED BY <3>1, <3>2
  <2>7. u \in Node /\ v \in Node /\ OriginalId(u) \in Node /\ OriginalId(v) \in Node
    BY <2>1, <2>2
  <2>10. ForwardArcs \in SUBSET ArcSet /\ BackwardArcs \in SUBSET ArcSet
    BY <2>3
  <2>8. Key(From(ForwardArcs, u), v) = Key(From(InputArcs, OriginalId(u)), OriginalId(v))
    BY ONLY <2>4, <2>5, <2>7, <2>10, SameKey, SMT
  <2>9. Key(From(BackwardArcs, u), v) = Key(From(InputArcs, OriginalId(u)), OriginalId(v))
    BY ONLY <2>4, <2>6, <2>7, <2>10, SameKey, SMT
  <2> QED BY <2>8, <2>9
<1> QED BY <1>1, CInvInvariance, DInvInvariance, PTL

-----------------------------------------------------------------------------
(* The hierarchy that is written.                                          *)

(* A forward and a backward search over all records meet on the distances  *)
(* of the input, and on nothing shorter.                                   *)
LEMMA SearchesMeet ==
  ASSUME NEW G, NEW E, NEW L, NEW T, HInv(G, E, L, {}, T), NEW s \in Node, NEW t \in Node
  PROVE  Meets(G, Outs(E, Node), Downs(E, {}), s, t)
<1> DEFINE U == Outs(E, Node)
           D == Downs(E, {})
<1>1. /\ L \subseteq Node /\ E \in SUBSET Record /\ Real(G, E)
      /\ Covered(G, Ups(E, L), Downs(E, L), Arcs(E, L))
  BY DEF HInv
<1>2. /\ Outs(E, L) \subseteq U /\ Ups(E, L) \subseteq U /\ Downs(E, L) \subseteq D /\ D \in SUBSET ArcSet
  BY <1>1 DEF Outs, Ups, Downs
<1>3. Matched(Arcs(E, L), U) /\ Matched(Ups(E, L), U) /\ Matched(Downs(E, L), D)
  <2>1. Matched(Arcs(E, L), Outs(E, L)) /\ Matched(Outs(E, L), U)
    BY <1>2, OneSided, MatchedMore
  <2>2. Matched(Arcs(E, L), U)
    BY <2>1, WalksDominated DEF Matched, Length
  <2> QED BY <1>2, <2>2, MatchedMore
<1> HIDE DEF U, D
<1>4. ASSUME NEW d \in Nat, d < IntMax, Within(G, s, t, d) PROVE Meet(U, D, s, t, d)
  <2>0. Met(Ups(E, L), Downs(E, L), Arcs(E, L), s, t, d)
    BY <1>1, <1>4 DEF Covered
  <2>1. PICK m \in Node, n \in Node, a \in Nat, b \in Nat, c \in Nat :
          a + b + c <= d /\ Within(Ups(E, L), s, m, a) /\ Within(Downs(E, L), t, n, b) /\ Within(Arcs(E, L), m, n, c)
    BY <2>0 DEF Met
  <2>2. Within(U, s, m, a)
    BY <1>3, <2>1, WalksDominated DEF Matched
  <2>3. Within(U, m, n, c)
    BY <1>3, <2>1, WalksDominated DEF Matched
  <2>4. Within(D, t, n, b)
    BY <1>3, <2>1, WalksDominated DEF Matched
  <2>5. Within(U, s, n, a + c)
    BY <2>2, <2>3, WithinJoin
  <2>6. a + c \in Nat /\ (a + c) + b <= d
    BY <2>1, SMT
  <2> QED BY <2>4, <2>5, <2>6 DEF Meet
<1>5. ASSUME NEW m \in Node, NEW a \in Nat, NEW b \in Nat, Within(U, s, m, a), Within(D, t, m, b)
      PROVE  Within(G, s, t, a + b)
  <2>1. Matched(U, G)
    BY <1>1, ArcsReal DEF U
  <2>2. Within(G, s, m, a)
    BY <1>5, <2>1, WalksDominated DEF Matched
  <2>3. Matched(TurnedArcs(D), G)
    <3> SUFFICES ASSUME NEW u \in Node, NEW v \in Node, NEW w \in Length, <<u, v, w>> \in TurnedArcs(D)
                 PROVE  Within(G, u, v, w)
      BY DEF Matched
    <3>1. PICK p \in D : <<u, v, w>> = <<p[2], p[1], p[3]>>
      BY DEF TurnedArcs
    <3>2. PICK r \in E : r.edge.backward /\ p = <<r.source, r.edge.target, r.edge.distance>>
      BY <3>1 DEF D, Downs
    <3>3. p[1] = r.source /\ p[2] = r.edge.target /\ p[3] = r.edge.distance
      BY <3>2
    <3>4. u = r.edge.target /\ v = r.source /\ w = r.edge.distance
      BY <3>1, <3>3, TripleIs
    <3> QED BY <1>1, <3>2, <3>4 DEF Real
  <2>4. PICK c \in Nat : c <= b /\ <<m, c>> \in Walks(D, t)
    BY <1>5 DEF Within
  <2>5. <<t, c>> \in Walks(TurnedArcs(D), m)
    BY <1>2, <2>4, WalkBack
  <2>6. Within(TurnedArcs(D), m, t, b)
    BY <2>4, <2>5 DEF Within
  <2>7. Within(G, m, t, b)
    BY <2>3, <2>6, WalksDominated DEF Matched
  <2> QED BY <2>2, <2>7, WithinJoin
<1> QED BY <1>4, <1>5 DEF U, D, Meets

(* The records that are written, and the arcs the query searches.          *)
LEMMA WrittenArcs ==
  ASSUME CInv, DInv, pc = "done"
  PROVE  /\ HInv(InputArcs, edges, Left, {}, {}) /\ edges \in SUBSET Record /\ Real(InputArcs, edges)
         /\ UpArcs = Outs(edges, Node) /\ DownArcs = Downs(edges, {})
<1>1. inserted = {} /\ independent = {} /\ edges = GetEdges
  BY DEF CInv, Rounds, DInv
<1>2. Records = edges
  <2>1. {Translated(s.source, s.edge) : s \in inserted} = {}
    BY <1>1
  <2> QED BY <1>1, <2>1 DEF Records
<1>3. Round = {} /\ Treated = {}
  BY <1>1 DEF Round, Treated
<1>4. HInv(InputArcs, edges, Left, {}, {}) /\ edges \in SUBSET Record /\ Real(InputArcs, edges)
  BY <1>2, <1>3 DEF DInv, HInv
<1>5. ASSUME NEW r \in edges
      PROVE  r.source \in Node /\ <<r.source, r.edge.target, r.edge.distance>> \in ArcSet
  <2>1. r.source \in Node /\ r.edge.target \in Node /\ r.edge.distance \in Length
    BY <1>4 DEF Record, EdgeType, Real
  <2> QED BY <2>1, SMT DEF ArcSet
<1>6. UpArcs = Outs(edges, Node)
  <2>1. \A a : a \in UpArcs <=> \E r \in edges : r.edge.forward /\ a = <<r.source, r.edge.target, r.edge.distance>>
    BY DEF UpArcs
  <2>2. \A a : a \in Outs(edges, Node) <=> \E r \in edges : r.edge.forward /\ a = <<r.source, r.edge.target, r.edge.distance>>
    BY <1>5 DEF Outs
  <2> QED BY <2>1, <2>2
<1>7. DownArcs = Downs(edges, {})
  <2>1. \A a : a \in DownArcs <=> \E r \in edges : r.edge.backward /\ a = <<r.source, r.edge.target, r.edge.distance>>
    BY DEF DownArcs
  <2>2. \A a : a \in Downs(edges, {}) <=> \E r \in edges : r.edge.backward /\ a = <<r.source, r.edge.target, r.edge.distance>>
    BY <1>5 DEF Downs
  <2> QED BY <2>1, <2>2
<1> QED BY <1>4, <1>6, <1>7

(* The searches of the query have the distances of the input.              *)
LEMMA WrittenExact ==
  ASSUME CInv, DInv
  PROVE  HierarchyExact
<1> DEFINE up == [n \in Node |-> From(UpArcs, n)]
           down == [n \in Node |-> From(DownArcs, n)]
<1> SUFFICES ASSUME pc = "done", NEW s \in Node, NEW t \in Node
             PROVE  Key(From(InputArcs, s), t) = Min({IntMax} \cup {Key(up[s], m) + Key(down[t], m) : m \in Node})
  BY DEF HierarchyExact
<1>1. up[s] = From(UpArcs, s) /\ down[t] = From(DownArcs, t)
  OBVIOUS
<1> HIDE DEF up, down
<1>2. HInv(InputArcs, edges, Left, {}, {}) /\ UpArcs = Outs(edges, Node) /\ DownArcs = Downs(edges, {})
  BY WrittenArcs
<1>3. Meets(InputArcs, UpArcs, DownArcs, s, t)
  BY <1>2, SearchesMeet
<1>4. InputArcs \in SUBSET ArcSet /\ UpArcs \in SUBSET ArcSet /\ DownArcs \in SUBSET ArcSet
  <2>1. InputArcs \in SUBSET ArcSet
    BY InputArcsAre DEF CInv, Sized
  <2> QED BY <1>2, <2>1 DEF Outs, Downs
<1>5. Key(From(InputArcs, s), t) =
        Min({IntMax} \cup {Key(From(UpArcs, s), m) + Key(From(DownArcs, t), m) : m \in Node})
  BY ONLY <1>3, <1>4, s \in Node, t \in Node, MeetingKeys, SMT
<1> QED BY <1>1, <1>5

-----------------------------------------------------------------------------
(* Unpacking.                                                              *)

\* The edges kept at u that lead to v, along and against their direction.
There(u, v) == {e \in KeptAt(u, v) : e.forward}

Back(u, v) == {e \in KeptAt(v, u) : e.backward}

\* The shortest of some edges.
Shortests(S) == {e \in S : \A f \in S : e.distance <= f.distance}

(* The edges a step can take: those kept at its start, or else those kept  *)
(* at its end.                                                             *)
LEMMA UnpackedIs ==
  \A u, v : Unpacked(u, v) = Shortests(IF There(u, v) # {} THEN There(u, v) ELSE Back(u, v))
BY DEF Unpacked, There, Back, Shortests

\* The edge e is that of a record kept at u that leads to v.
Recorded(e, u, v) == \E r \in edges : r.edge = e /\ r.source = u /\ r.edge.target = v

(* Edges are those of the records.                                         *)
LEMMA KeptRecords ==
  /\ \A u, v : \A e \in There(u, v) : Recorded(e, u, v) /\ e.forward
  /\ \A u, v : \A e \in Back(u, v) : Recorded(e, v, u) /\ e.backward
  /\ \A r \in edges : /\ r.edge.forward => r.edge \in There(r.source, r.edge.target)
                      /\ r.edge.backward => r.edge \in Back(r.edge.target, r.source)
<1>1. ASSUME NEW x, NEW y, NEW e \in KeptAt(x, y)
      PROVE  Recorded(e, x, y)
  BY <1>1 DEF KeptAt, Recorded
<1>2. ASSUME NEW r \in edges
      PROVE  r.edge \in KeptAt(r.source, r.edge.target)
  BY <1>2 DEF KeptAt
<1> QED BY <1>1, <1>2 DEF There, Back

(* Some edges have a shortest one.                                         *)
LEMMA ShortestsOf ==
  ASSUME NEW S, S # {}, \A e \in S : e.distance \in Nat
  PROVE  Shortests(S) # {}
<1> DEFINE D == {e.distance : e \in S}
<1>1. D \in SUBSET Nat /\ D # {}
  OBVIOUS
<1>2. PICK x \in D : \A y \in D : x <= y
  <2> HIDE DEF D
  <2> QED BY <1>1, Least
<1>3. PICK e \in S : x = e.distance
  BY <1>2
<1>4. \A f \in S : e.distance <= f.distance
  BY <1>2, <1>3
<1> QED BY <1>4 DEF Shortests

\* The two halves of the step from u to v over x are found, and have length d.
Opens(u, x, v, d) ==
  /\ Unpacked(u, x) # {} /\ Unpacked(x, v) # {}
  /\ \A a \in Unpacked(u, x), b \in Unpacked(x, v) : d = a.distance + b.distance

(* A shortcut that is the shortest record beside itself opens into its     *)
(* halves: they are kept at the via node only, which was contracted before *)
(* both ends.                                                              *)
LEMMA SplitOpens ==
  ASSUME CInv, DInv, pc = "done", NEW r \in edges, r.edge.shortcut, NEW u, NEW v, Splits(edges, r, u, v),
         \A q \in edges : /\ q.source = r.source /\ q.edge.target = r.edge.target
                          /\ r.source = u => q.edge.forward
                          /\ r.source = v => q.edge.backward
                          => r.edge.distance <= q.edge.distance
  PROVE  Opens(u, r.edge.id, v, r.edge.distance)
<1> DEFINE x == r.edge.id
<1>1. /\ edges \in SUBSET Record /\ Real(InputArcs, edges)
      /\ OneWay(edges, Left) /\ Unpacks(edges, (Node \ Left) \cup {})
  BY WrittenArcs DEF HInv
<1>2. x \notin Left
  BY <1>1 DEF Unpacks
<1>3. \A q \in edges : q.edge.distance \in Nat
  BY <1>1 DEF Real, Length
<1>4. PICK i \in edges, o \in edges : Halves(i, o, x, u, v) /\ i.edge.distance + o.edge.distance = r.edge.distance
  BY DEF Splits
<1>5. /\ i.source = x /\ i.edge.target = u /\ i.edge.backward
      /\ o.source = x /\ o.edge.target = v /\ o.edge.forward
  BY <1>4 DEF Halves
<1> HIDE DEF x
<1>6. There(u, x) = {}
  <2> SUFFICES ASSUME NEW e \in There(u, x) PROVE FALSE
    OBVIOUS
  <2>2. Recorded(e, u, x)
    BY KeptRecords
  <2>1. PICK q \in edges : q.edge = e /\ q.source = u /\ q.edge.target = x
    BY <2>2 DEF Recorded
  <2> QED BY <1>1, <1>2, <1>5, <2>1 DEF OneWay
<1>7. i.edge \in Back(u, x) /\ o.edge \in There(x, v)
  BY <1>5, KeptRecords
<1>8. Unpacked(u, x) = Shortests(Back(u, x)) /\ Unpacked(x, v) = Shortests(There(x, v))
  BY <1>6, <1>7, UnpackedIs
<1>9. /\ \A e \in Back(u, x) : Recorded(e, x, u) /\ e.backward
      /\ \A e \in There(x, v) : Recorded(e, x, v) /\ e.forward
  BY KeptRecords
<1>10. /\ \A e \in Back(u, x) : e.distance \in Nat
       /\ \A e \in There(x, v) : e.distance \in Nat
  BY <1>3, <1>9 DEF Recorded
<1>11. Unpacked(u, x) # {} /\ Unpacked(x, v) # {}
  BY <1>7, <1>8, <1>10, ShortestsOf
<1>12. ASSUME NEW a \in Unpacked(u, x), NEW b \in Unpacked(x, v)
       PROVE  r.edge.distance = a.distance + b.distance
  <2>1. a \in Back(u, x) /\ b \in There(x, v) /\ a.distance <= i.edge.distance /\ b.distance <= o.edge.distance
    BY <1>7, <1>8 DEF Shortests
  <2>2. PICK i2 \in edges : i2.edge = a /\ i2.source = x /\ i2.edge.target = u /\ i2.edge.backward
    BY <1>9, <2>1 DEF Recorded
  <2>3. PICK o2 \in edges : o2.edge = b /\ o2.source = x /\ o2.edge.target = v /\ o2.edge.forward
    BY <1>9, <2>1 DEF Recorded
  <2>4. Halves(i2, o2, r.edge.id, u, v)
    BY <2>2, <2>3 DEF Halves, x
  <2>5. Beside(edges, r, u, v, i2.edge.distance + o2.edge.distance)
    BY <2>4 DEF Splits, Beside
  <2>6. PICK q \in edges : /\ q.source = r.source /\ q.edge.target = r.edge.target
                           /\ r.source = u => q.edge.forward
                           /\ r.source = v => q.edge.backward
                           /\ q.edge.distance <= i2.edge.distance + o2.edge.distance
    BY <2>5 DEF Beside
  <2>7. r.edge.distance <= q.edge.distance
    BY <2>6
  <2>8. q.edge.distance <= a.distance + b.distance
    BY <2>2, <2>3, <2>6
  <2>9. /\ q.edge.distance \in Nat /\ r.edge.distance \in Nat /\ a.distance \in Nat /\ b.distance \in Nat
        /\ i.edge.distance \in Nat /\ o.edge.distance \in Nat
    BY <1>3, <1>10, <2>1
  <2> QED BY ONLY <1>4, <2>1, <2>7, <2>8, <2>9, SMT
<1> QED BY <1>11, <1>12 DEF Opens, x

(* Every shortcut that a query can take is unpacked into its halves.       *)
LEMMA WrittenUnpacks ==
  ASSUME CInv, DInv
  PROVE  ShortcutsUnpack
<1> SUFFICES ASSUME pc = "done", NEW u \in Node, NEW v \in Node, NEW e \in Unpacked(u, v), e.shortcut
             PROVE  Opens(u, e.id, v, e.distance)
  BY DEF ShortcutsUnpack, Opens
<1>1. Unpacks(edges, (Node \ Left) \cup {})
  BY WrittenArcs DEF HInv
<1>2. CASE There(u, v) # {}
  <2>1. e \in There(u, v) /\ \A f \in There(u, v) : e.distance <= f.distance
    BY <1>2, UnpackedIs DEF Shortests
  <2>2. PICK r \in edges : r.edge = e /\ r.source = u /\ r.edge.target = v /\ r.edge.forward
    <3>1. Recorded(e, u, v) /\ e.forward
      BY <2>1, KeptRecords
    <3> QED BY <3>1 DEF Recorded
  <2>3. Splits(edges, r, u, v) /\ r.edge.shortcut
    BY <1>1, <2>2 DEF Unpacks
  <2>4. ASSUME NEW q \in edges, q.source = r.source, q.edge.target = r.edge.target,
               r.source = u => q.edge.forward, r.source = v => q.edge.backward
        PROVE  r.edge.distance <= q.edge.distance
    <3>1. q.edge \in There(u, v)
      BY <2>2, <2>4, KeptRecords
    <3> QED BY <2>1, <2>2, <3>1
  <2>5. Opens(u, r.edge.id, v, r.edge.distance)
    BY <2>3, <2>4, SplitOpens
  <2> QED BY <2>2, <2>5
<1>3. CASE There(u, v) = {}
  <2>1. e \in Back(u, v) /\ \A f \in Back(u, v) : e.distance <= f.distance
    BY <1>3, UnpackedIs DEF Shortests
  <2>2. PICK r \in edges : r.edge = e /\ r.source = v /\ r.edge.target = u /\ r.edge.backward
    <3>1. Recorded(e, v, u) /\ e.backward
      BY <2>1, KeptRecords
    <3> QED BY <3>1 DEF Recorded
  <2>3. Splits(edges, r, u, v) /\ r.edge.shortcut
    BY <1>1, <2>2 DEF Unpacks
  <2>4. ASSUME NEW q \in edges, q.source = r.source, q.edge.target = r.edge.target,
               r.source = u => q.edge.forward, r.source = v => q.edge.backward
        PROVE  r.edge.distance <= q.edge.distance
    <3>1. q.edge \in Back(u, v)
      BY <2>2, <2>4, KeptRecords
    <3> QED BY <2>1, <2>2, <3>1
  <2>5. Opens(u, r.edge.id, v, r.edge.distance)
    BY <2>3, <2>4, SplitOpens
  <2> QED BY <2>2, <2>5
<1> QED BY <1>2, <1>3

(* The hierarchy that Run and GetEdges leave answers every distance of the *)
(* input exactly, its shortcuts can be unpacked and the levels fit it, for *)
(* every graph, whatever the limits of the witness search, the share of    *)
(* uncontracted nodes, the flush and the order of the loops.               *)
THEOREM HierarchyIsSound == Spec => []HierarchySound
<1>1. CInv /\ DInv /\ LevelsAscend => HierarchySound
  BY WrittenExact, WrittenUnpacks DEF HierarchySound
<1> QED BY <1>1, CInvInvariance, DInvInvariance, LevelsFit, PTL

=============================================================================
