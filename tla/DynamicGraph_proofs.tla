------------------------ MODULE DynamicGraph_proofs ------------------------
(***************************************************************************)
(* Proofs about DynamicGraph, for every graph, any number of threads and   *)
(* any number of insertions.                                               *)
(***************************************************************************)
EXTENDS DynamicGraph, WellFoundedInduction, FiniteSetTheorems, FunctionTheorems, SequenceTheorems, TLAPS

(* A non-empty set of natural numbers has a least element: where a search  *)
(* of a block from its front comes to an end.                              *)
LEMMA Least ==
  ASSUME NEW S \in SUBSET Nat, S # {}
  PROVE  \E x \in S : \A y \in S : x <= y
<1>1. IsWellFoundedOn(OpToRel(<, Nat), Nat)
  BY NatLessThanWellFounded
<1>2. PICK R : /\ IsWellFoundedOn(R, Nat)
               /\ \A x, y \in Nat : x < y => <<x, y>> \in R
  <2>1. \A x, y \in Nat : x < y => <<x, y>> \in OpToRel(<, Nat)
    BY DEF OpToRel
  <2> QED BY <1>1, <2>1, Zenon
<1>3. \E x \in S : \A y \in S : ~ (<<y, x>> \in R)
  <2>1. S \subseteq Nat
    OBVIOUS
  <2>2. IsWellFoundedOn(R, Nat)
    BY <1>2
  <2>3. S # {}
    OBVIOUS
  <2> QED BY ONLY <2>1, <2>2, <2>3, WFMin
<1>4. PICK x \in S : \A y \in S : ~ (<<y, x>> \in R)
  BY <1>3
<1>5. \A y \in S : ~ (y < x)
  <2> TAKE y \in S
  <2>1. x \in Nat /\ y \in Nat
    OBVIOUS
  <2>2. ~ (<<y, x>> \in R)
    BY <1>4
  <2> QED BY <2>1, <2>2, <1>2, Zenon
<1> QED BY <1>5

-----------------------------------------------------------------------------
EdgeType == [target : GraphNodes, data : Int]

Call == [source : GraphNodes, target : GraphNodes, i : Int, iend : Int, deleted : Int]

Types ==
    /\ node_array \in [GraphNodes -> [first_edge : Nat \ {0}, edges : Nat]]
    /\ edge_list \in Seq(EdgeType \cup {Gap})
    /\ deleting \in [GraphThreads -> Call \cup {IdleThread}]
    /\ inserts \in Nat
    /\ edgesOf \in [GraphNodes -> SUBSET EdgeType]

(***************************************************************************)
(* The inductive invariant.  A call of DeleteEdgesTo shortens the block of *)
(* its node from behind long before node_array says so: Live(n) is what is *)
(* left of the block, and the edges it still has to look at do not count.  *)
(***************************************************************************)
Live(n) == {e \in EdgeRange(n) :
              \A th \in GraphThreads :
                deleting[th].source = n => e < deleting[th].iend - deleting[th].deleted}

Marked(n, t) == \E th \in GraphThreads : deleting[th].source = n /\ deleting[th].target = t

Doomed(n, e) == Marked(n, edge_list[e].target)

\* Blocks lie in the array and do not overlap.
Blocks ==
    /\ \A n \in GraphNodes : EndEdges(n) <= Len(edge_list) + 1
    /\ \A n, m \in GraphNodes : n # m => EdgeRange(n) \cap EdgeRange(m) = {}

\* What is left of a block has no gaps and no edge twice.
Filled(n) ==
    /\ \A e \in Live(n) : edge_list[e] \in EdgeType /\ edge_list[e].data <= inserts
    /\ \A e, f \in Live(n) : edge_list[e] = edge_list[f] => e = f

\* The block holds the edges of the node, and those that are being removed.
Contents(n) ==
    /\ \A e \in Live(n) : ~Doomed(n, e) => edge_list[e] \in edgesOf[n]
    /\ \A x \in edgesOf[n] : \E e \in Live(n) : ~Doomed(n, e) /\ edge_list[e] = x

\* Threads are at different nodes, and none has left an edge behind it.
Calls ==
    \A th \in GraphThreads : deleting[th] # IdleThread =>
      LET d == deleting[th]
      IN  /\ d.iend = EndEdges(d.source)
          /\ BeginEdges(d.source) <= d.i /\ d.i <= d.iend - d.deleted /\ d.deleted >= 0
          /\ \A e \in BeginEdges(d.source) .. d.i - 1 : edge_list[e].target # d.target
          /\ \A other \in GraphThreads : deleting[other].source = d.source => other = th

GInv == Types /\ Blocks /\ Calls /\ \A n \in GraphNodes : Filled(n) /\ Contents(n)

-----------------------------------------------------------------------------
(* The nodes are positive, so neither a gap nor a resting thread names one.  *)
LEMMA Nodes ==
  /\ GraphNodes \subseteq Nat \ {0}
  /\ Gap \notin EdgeType
  /\ \A c \in Call : c # IdleThread /\ c.source # 0
<1>1. Cardinality(GraphNodes) \in Nat
  BY GraphAssumption, FS_CardinalityType, Zenon
<1>2. GraphNodes \subseteq Nat \ {0}
  BY <1>1, GraphAssumption
<1>3. Gap \notin EdgeType
  <2> SUFFICES ASSUME Gap \in EdgeType PROVE FALSE
    BY Zenon
  <2>1. Gap.target \in GraphNodes /\ Gap.target = 0
    BY Zenon DEF EdgeType, Gap, Edge, NoTarget
  <2> QED BY <1>2, <2>1, Zenon
<1>4. ASSUME NEW c \in Call PROVE c # IdleThread /\ c.source # 0
  <2>1. c.source \in GraphNodes
    BY Zenon DEF Call
  <2>2. IdleThread.source = 0
    BY Zenon DEF IdleThread
  <2> QED BY <1>2, <2>1, <2>2, Zenon
<1> QED BY <1>2, <1>3, <1>4, Zenon

(* A thread at a node is in a call.                                          *)
LEMMA AtNode ==
  ASSUME Types, NEW th \in GraphThreads
  PROVE  /\ deleting[th] = IdleThread => deleting[th].source \notin GraphNodes
         /\ deleting[th].source \in GraphNodes => deleting[th] \in Call
         /\ deleting[th] # IdleThread => deleting[th] \in Call /\ deleting[th].source \in GraphNodes
<1>1. deleting[th] \in Call \cup {IdleThread}
  BY Zenon DEF Types
<1>2. IdleThread.source = 0
  BY Zenon DEF IdleThread
<1> QED BY <1>1, <1>2, Nodes, Zenon DEF Call

(* A set of positions that has, with a position, all before it is an interval. *)
LEMMA InitialSegment ==
  ASSUME NEW L \in Nat, NEW S \in SUBSET (1 .. L), \A i \in S : \A j \in 1 .. L : j < i => j \in S
  PROVE  Cardinality(S) \in 0 .. L /\ S = 1 .. Cardinality(S)
<1> DEFINE T == {x \in Nat : x \notin S /\ x >= 1}
<1>1. T \in SUBSET Nat /\ L + 1 \in T
  OBVIOUS
<1>2. PICK x \in T : \A y \in T : x <= y
  <2> HIDE DEF T
  <2> QED BY <1>1, Least, Zenon
<1>3. x \in Nat /\ x >= 1 /\ x <= L + 1 /\ x \notin S
  BY <1>1, <1>2, Zenon
<1>4. S = 1 .. x - 1
  <2>1. ASSUME NEW i \in S PROVE i \in 1 .. x - 1
    BY <1>3
  <2>2. ASSUME NEW i \in 1 .. x - 1 PROVE i \in S
    BY <1>2, <1>3
  <2> QED BY <2>1, <2>2, Zenon
<1>5. Cardinality(1 .. x - 1) = x - 1
  BY <1>3, FS_Interval
<1> QED BY <1>3, <1>4, <1>5

(* The constructor lays the blocks out one behind the other.                 *)
LEMMA InitGInv == GraphInit => GInv
<1> SUFFICES ASSUME NEW g \in InputGraphs, GraphFrom(g) PROVE GInv
  BY Zenon DEF GraphInit
<1> DEFINE B(n) == {i \in DOMAIN g : g[i][1] < n}
           Own(n) == {i \in DOMAIN g : g[i][1] = n}
<1>1. /\ g \in Seq(GraphNodes \X GraphNodes)
      /\ \A i, j \in DOMAIN g : i < j => g[i][1] <= g[j][1]
  BY GraphAssumption, Zenon
<1>2. /\ Len(g) \in Nat /\ DOMAIN g = 1 .. Len(g)
      /\ \A i \in 1 .. Len(g) : g[i][1] \in GraphNodes /\ g[i][2] \in GraphNodes
  BY <1>1, LenProperties
<1>3. \A i \in 1 .. Len(g) : g[i][1] \in Int
  <2>1. GraphNodes \subseteq Int
    BY Nodes
  <2> QED BY <1>2, <2>1, Zenon
<1>4. ASSUME NEW n \in Int
      PROVE  Cardinality(B(n)) \in 0 .. Len(g) /\ B(n) = 1 .. Cardinality(B(n))
  <2>1. B(n) \in SUBSET (1 .. Len(g))
    BY <1>2, Zenon
  <2>2. \A i \in B(n) : \A j \in 1 .. Len(g) : j < i => j \in B(n)
    <3> SUFFICES ASSUME NEW i \in B(n), NEW j \in 1 .. Len(g), j < i PROVE g[j][1] < n
      BY <1>2, Zenon
    <3>1. i \in 1 .. Len(g) /\ g[i][1] < n
      BY <1>2, Zenon
    <3>2. g[j][1] <= g[i][1]
      BY <1>1, <1>2, <3>1, Zenon
    <3> QED BY <1>3, <3>1, <3>2
  <2> HIDE DEF B
  <2> QED BY <1>2, <2>1, <2>2, InitialSegment, Zenon
<1>5. ASSUME NEW n \in GraphNodes
      PROVE  /\ Cardinality(Own(n)) \in Nat
             /\ Own(n) = Cardinality(B(n)) + 1 .. Cardinality(B(n)) + Cardinality(Own(n))
  <2> DEFINE b == Cardinality(B(n))
             c == Cardinality(B(n + 1))
  <2>1. n \in Int
    BY Nodes
  <2>2. b \in 0 .. Len(g) /\ B(n) = 1 .. b
    BY <1>4, <2>1, Zenon
  <2>3. c \in 0 .. Len(g) /\ B(n + 1) = 1 .. c
    <3>1. n + 1 \in Int
      BY <2>1
    <3> QED BY <1>4, <3>1, Zenon
  <2>4. Own(n) = B(n + 1) \ B(n) /\ B(n) \subseteq B(n + 1)
    BY <1>2, <1>3, <2>1
  <2> HIDE DEF b, c, B, Own
  <2>5. b <= c
    BY <2>2, <2>3, <2>4
  <2>6. Own(n) = b + 1 .. c
    BY <2>2, <2>3, <2>4
  <2>7. Cardinality(b + 1 .. c) = c - b
    <3>1. b + 1 \in Int /\ c \in Int
      BY <2>2, <2>3
    <3>2. Cardinality(b + 1 .. c) = IF b + 1 > c THEN 0 ELSE c - (b + 1) + 1
      BY <3>1, FS_Interval, Zenon
    <3> QED BY <2>2, <2>3, <2>5, <3>2
  <2>8. Cardinality(Own(n)) = c - b
    BY <2>6, <2>7, Zenon
  <2>9. b + (c - b) = c /\ c - b \in Nat
    BY <2>2, <2>3, <2>5
  <2>10. Own(n) = b + 1 .. b + Cardinality(Own(n)) /\ Cardinality(Own(n)) \in Nat
    BY <2>6, <2>8, <2>9, Zenon
  <2> QED BY <2>10, Zenon DEF b
<1>6. /\ node_array = [n \in GraphNodes |->
                         [first_edge |-> Cardinality(B(n)) + 1, edges |-> Cardinality(Own(n))]]
      /\ edge_list = [i \in DOMAIN g |-> Edge(g[i][2], 0 - i)]
      /\ edgesOf = [n \in GraphNodes |-> {Edge(g[i][2], 0 - i) : i \in Own(n)}]
      /\ deleting = [th \in GraphThreads |-> IdleThread]
      /\ inserts = 0
  BY Zenon DEF GraphFrom
<1>7. \A n \in GraphNodes : Cardinality(B(n)) \in Nat /\ Own(n) \subseteq 1 .. Len(g)
  BY <1>2, <1>4, Nodes
<1>8. \A i \in 1 .. Len(g) : Edge(g[i][2], 0 - i) \in EdgeType
  BY <1>2 DEF Edge, EdgeType
<1>9. edge_list \in [1 .. Len(g) -> EdgeType \cup {Gap}]
  BY <1>2, <1>6, <1>8, Zenon
<1>10. edge_list \in Seq(EdgeType \cup {Gap}) /\ Len(edge_list) = Len(g)
  BY <1>2, <1>9, SeqDef, LenProperties
<1>11. Types
  <2>1. node_array \in [GraphNodes -> [first_edge : Nat \ {0}, edges : Nat]]
    <3> HIDE DEF B, Own
    <3> QED BY <1>5, <1>6, <1>7
  <2>2. edgesOf \in [GraphNodes -> SUBSET EdgeType]
    BY <1>6, <1>7, <1>8, Zenon
  <2>3. deleting \in [GraphThreads -> Call \cup {IdleThread}] /\ inserts \in Nat
    BY <1>6, Zenon
  <2> QED BY <1>10, <2>1, <2>2, <2>3, Zenon DEF Types
<1>12. ASSUME NEW n \in GraphNodes
       PROVE  /\ BeginEdges(n) = Cardinality(B(n)) + 1 /\ EdgeRange(n) = Own(n)
              /\ EndEdges(n) = Cardinality(B(n)) + 1 + Cardinality(Own(n))
              /\ EndEdges(n) <= Len(g) + 1
  <2> DEFINE b == Cardinality(B(n))
             k == Cardinality(Own(n))
  <2>1. b \in Nat /\ b <= Len(g) /\ k \in Nat /\ Own(n) = b + 1 .. b + k
    <3>1. n \in Int
      BY Nodes
    <3>2. b \in 0 .. Len(g)
      BY <1>4, <3>1, Zenon
    <3> QED BY <1>2, <1>5, <3>2
  <2>2. BeginEdges(n) = b + 1 /\ EndEdges(n) = b + 1 + k
    <3> HIDE DEF B, Own
    <3> QED BY <1>6, Zenon DEF BeginEdges, EndEdges
  <2>3. Own(n) \subseteq 1 .. Len(g)
    BY <1>7, Zenon
  <2> HIDE DEF b, k, Own
  <2>4. b + 1 + k - 1 = b + k
    BY <2>1
  <2>5. EdgeRange(n) = Own(n)
    BY <2>1, <2>2, <2>4 DEF EdgeRange
  <2>6. b + k <= Len(g)
    <3>1. CASE k = 0
      BY <2>1, <3>1, <1>2
    <3>2. CASE k # 0
      <4>1. b + k \in Own(n)
        BY <2>1, <3>2
      <4> QED BY <1>2, <2>3, <4>1
    <3> QED BY <3>1, <3>2, Zenon
  <2>7. b + 1 + k <= Len(g) + 1
    BY <1>2, <2>1, <2>6
  <2> QED BY <2>2, <2>5, <2>7, Zenon DEF b, k
<1>13. Blocks
  <2>1. ASSUME NEW n \in GraphNodes, NEW m \in GraphNodes, n # m
        PROVE  Own(n) \cap Own(m) = {}
    BY <2>1, Zenon
  <2> HIDE DEF B, Own
  <2> QED BY <1>10, <1>12, <2>1, Zenon DEF Blocks
<1>14. \A th \in GraphThreads : deleting[th] = IdleThread /\ deleting[th].source \notin GraphNodes
  BY <1>6, <1>11, AtNode, Zenon
<1>15. Calls
  BY <1>14, Zenon DEF Calls
<1>16. ASSUME NEW n \in GraphNodes PROVE Filled(n) /\ Contents(n)
  <2>1. Live(n) = Own(n) /\ \A e \in Own(n) : ~Doomed(n, e)
    <3> HIDE DEF Own, B
    <3> QED BY <1>12, <1>14, Zenon DEF Live, Doomed, Marked
  <2>2. \A e \in Own(n) : e \in Nat /\ edge_list[e] = Edge(g[e][2], 0 - e) /\ edge_list[e] \in EdgeType
    BY <1>2, <1>6, <1>7, <1>8
  <2>3. \A e \in Own(n) : edge_list[e].data = 0 - e
    <3> SUFFICES ASSUME NEW e \in Own(n) PROVE edge_list[e].data = 0 - e
      BY Zenon
    <3>1. edge_list[e] = [target |-> g[e][2], data |-> 0 - e]
      BY <2>2, Zenon DEF Edge
    <3> QED BY <3>1
  <2>4. edgesOf[n] = {edge_list[e] : e \in Own(n)}
    BY <1>6, <2>2, Zenon
  <2> HIDE DEF Own
  <2>5. \A e \in Own(n) : edge_list[e].data <= inserts
    BY <1>6, <2>2, <2>3
  <2>6. \A e, f \in Own(n) : edge_list[e] = edge_list[f] => e = f
    BY <2>2, <2>3
  <2> QED BY <2>1, <2>2, <2>4, <2>5, <2>6 DEF Filled, Contents
<1> QED BY <1>11, <1>13, <1>15, <1>16, Zenon DEF GInv

-----------------------------------------------------------------------------
(* Where no thread is at work, the whole block is live.                      *)
LEMMA WholeBlock ==
  ASSUME Types, NEW n \in GraphNodes, \A th \in GraphThreads : deleting[th].source # n
  PROVE  Live(n) = EdgeRange(n) /\ \A e : ~Doomed(n, e)
BY Zenon DEF Live, Doomed, Marked

(* While no thread deletes, no thread is at a node.                        *)
LEMMA QuietNodes ==
  ASSUME Types, Quiet
  PROVE  \A n \in GraphNodes, th \in GraphThreads : deleting[th].source # n
BY AtNode, Zenon DEF Quiet

(* Positions and sizes of a block are numbers.                               *)
LEMMA BlockTypes ==
  ASSUME Types, NEW n \in GraphNodes
  PROVE  /\ BeginEdges(n) \in Nat \ {0} /\ node_array[n].edges \in Nat /\ EndEdges(n) \in Nat
         /\ EndEdges(n) = BeginEdges(n) + node_array[n].edges
         /\ \A e \in EdgeRange(n) : e \in Nat /\ e >= BeginEdges(n) /\ e < EndEdges(n)
<1>1. node_array[n] \in [first_edge : Nat \ {0}, edges : Nat]
  BY Zenon DEF Types
<1>2. node_array[n].first_edge \in Nat \ {0} /\ node_array[n].edges \in Nat
  BY <1>1, Zenon
<1> QED BY <1>2 DEF BeginEdges, EndEdges, EdgeRange

\* The block of from is laid out anew at first, with one edge more: s says
\* where each cell comes from, and no other block is touched.
Relaid(from, to, first, k, s) ==
    /\ s \in [first .. first + k - 1 -> EdgeRange(from)]
    /\ \A e, f \in first .. first + k - 1 : s[e] = s[f] => e = f
    /\ \A x \in EdgeRange(from) : \E e \in first .. first + k - 1 : s[e] = x
    /\ edge_list' \in Seq(EdgeType \cup {Gap})
    /\ Len(edge_list') >= Len(edge_list) /\ first + k <= Len(edge_list')
    /\ \A e \in first .. first + k - 1 : edge_list'[e] = edge_list[s[e]]
    /\ edge_list'[first + k] = Edge(to, inserts + 1)
    /\ \A n \in GraphNodes : n # from =>
         \A e \in EdgeRange(n) : e \notin first .. first + k /\ edge_list'[e] = edge_list[e]
    /\ node_array' = [node_array EXCEPT ![from] = [first_edge |-> first, edges |-> k + 1]]
    /\ inserts' = inserts + 1
    /\ edgesOf' = [edgesOf EXCEPT ![from] = @ \cup {Edge(to, inserts + 1)}]
    /\ UNCHANGED deleting

(* A block may be laid out anew, in any order, as long as it gets cells of   *)
(* its own.                                                                  *)
LEMMA InsertKeeps ==
  ASSUME GInv, Quiet, NEW from \in GraphNodes, NEW to \in GraphNodes,
         NEW first \in Nat \ {0}, NEW k \in Nat,
         NEW s, Relaid(from, to, first, k, s)
  PROVE  GInv'
<1> USE DEF Relaid
<1> DEFINE new == Edge(to, inserts + 1)
<1>1. inserts \in Nat /\ new \in EdgeType /\ new.data = inserts + 1
  <2>1. inserts \in Nat
    BY Zenon DEF GInv, Types
  <2> QED BY <2>1 DEF Edge, EdgeType
<1>2. Types'
  BY <1>1 DEF GInv, Types
<1>3. /\ Quiet'
      /\ \A n \in GraphNodes : Live(n) = EdgeRange(n) /\ \A e : ~Doomed(n, e)
      /\ \A n \in GraphNodes : (Live(n) = EdgeRange(n) /\ \A e : ~Doomed(n, e))'
  <2>1. Quiet'
    BY Zenon DEF Quiet
  <2>2. \A n \in GraphNodes, th \in GraphThreads : deleting[th].source # n
    BY QuietNodes, Zenon DEF GInv
  <2>3. \A n \in GraphNodes : Live(n) = EdgeRange(n) /\ \A e : ~Doomed(n, e)
    BY <2>2 DEF Live, Doomed, Marked
  <2>4. \A n \in GraphNodes : (Live(n) = EdgeRange(n) /\ \A e : ~Doomed(n, e))'
    BY <2>2 DEF Live, Doomed, Marked
  <2> QED BY <2>1, <2>3, <2>4, Zenon
<1>4. \A n \in GraphNodes : n # from =>
        /\ EdgeRange(n)' = EdgeRange(n) /\ EndEdges(n)' = EndEdges(n)
        /\ edgesOf'[n] = edgesOf[n]
  BY DEF GInv, Types, EdgeRange, BeginEdges, EndEdges
<1>5. EdgeRange(from)' = first .. first + k /\ EndEdges(from)' = first + k + 1
  <2>1. node_array'[from] = [first_edge |-> first, edges |-> k + 1]
    BY DEF GInv, Types
  <2>2. BeginEdges(from)' = first /\ EndEdges(from)' = first + (k + 1)
    BY ONLY <2>1 DEF BeginEdges, EndEdges
  <2>3. first + (k + 1) - 1 = first + k /\ first + (k + 1) = first + k + 1
    OBVIOUS
  <2> QED BY <2>2, <2>3 DEF EdgeRange
<1>6. edgesOf'[from] = edgesOf[from] \cup {new}
  BY DEF GInv, Types
<1> HIDE DEF new
<1>7. Len(edge_list) \in Nat /\ Len(edge_list') \in Nat
  BY LenProperties, Zenon DEF GInv, Types
<1>8. Blocks'
  <2>1. ASSUME NEW n \in GraphNodes PROVE (EndEdges(n) <= Len(edge_list) + 1)'
    <3>1. CASE n = from
      BY <1>5, <1>7, <3>1
    <3>2. CASE n # from
      <4>1. EndEdges(n) <= Len(edge_list) + 1 /\ EndEdges(n) \in Nat
        BY BlockTypes, Zenon DEF GInv, Blocks
      <4> QED BY <1>4, <1>7, <3>2, <4>1
    <3> QED BY <3>1, <3>2, Zenon
  <2>2. ASSUME NEW n \in GraphNodes, NEW m \in GraphNodes, n # m
        PROVE  (EdgeRange(n) \cap EdgeRange(m) = {})'
    <3>1. EdgeRange(n) \cap EdgeRange(m) = {}
      BY <2>2, Zenon DEF GInv, Blocks
    <3>2. CASE n = from
      <4>1. EdgeRange(n)' = first .. first + k /\ EdgeRange(m)' = EdgeRange(m)
        BY <1>4, <1>5, <2>2, <3>2, Zenon
      <4>2. \A e \in EdgeRange(m) : e \notin first .. first + k
        BY <2>2, <3>2, Zenon
      <4> QED BY ONLY <4>1, <4>2, Zenon
    <3>3. CASE m = from
      <4>1. EdgeRange(m)' = first .. first + k /\ EdgeRange(n)' = EdgeRange(n)
        BY <1>4, <1>5, <2>2, <3>3, Zenon
      <4>2. \A e \in EdgeRange(n) : e \notin first .. first + k
        BY <2>2, <3>3, Zenon
      <4> QED BY ONLY <4>1, <4>2, Zenon
    <3>4. CASE n # from /\ m # from
      <4>1. EdgeRange(m)' = EdgeRange(m) /\ EdgeRange(n)' = EdgeRange(n)
        BY <1>4, <3>4, Zenon
      <4> QED BY ONLY <3>1, <4>1, Zenon
    <3> QED BY <3>2, <3>3, <3>4, Zenon
  <2> QED BY <2>1, <2>2, Zenon DEF Blocks
<1>9. Calls'
  BY <1>3, Zenon DEF Quiet, Calls
<1>10. ASSUME NEW n \in GraphNodes, n # from PROVE (Filled(n) /\ Contents(n))'
  <2>1. Filled(n) /\ Contents(n)
    BY Zenon DEF GInv
  <2>2. \A e \in EdgeRange(n) : edge_list'[e] = edge_list[e]
    BY <1>10, Zenon
  <2>3. \A e \in EdgeRange(n) : edge_list[e].data \in Int
    BY <1>3, <2>1 DEF Filled, EdgeType
  <2>4. Filled(n)'
    BY <1>1, <1>3, <1>4, <1>10, <2>1, <2>2, <2>3 DEF Filled
  <2>5. Contents(n)'
    BY <1>3, <1>4, <1>10, <2>1, <2>2 DEF Contents
  <2> QED BY <2>4, <2>5, Zenon
<1>11. (Filled(from) /\ Contents(from))'
  <2> DEFINE R == first .. first + k - 1
  <2>1. first .. first + k = R \cup {first + k} /\ first + k \notin R
    OBVIOUS
  <2>8. Live(from)' = R \cup {first + k}
    BY <1>3, <1>5, <2>1, Zenon
  <2>2. /\ \A e \in EdgeRange(from) : edge_list[e] \in EdgeType /\ edge_list[e].data <= inserts
        /\ \A e, f \in EdgeRange(from) : edge_list[e] = edge_list[f] => e = f
        /\ \A e \in EdgeRange(from) : edge_list[e] \in edgesOf[from]
        /\ \A x \in edgesOf[from] : \E e \in EdgeRange(from) : edge_list[e] = x
    BY <1>3 DEF GInv, Filled, Contents
  <2> HIDE DEF R
  <2>3. \A e \in R : s[e] \in EdgeRange(from) /\ edge_list'[e] = edge_list[s[e]]
    BY Zenon DEF R
  <2>4. edge_list'[first + k] = new
    BY Zenon DEF new
  <2>5. \A e \in R : edge_list'[e] # new
    <3> TAKE e \in R
    <3>1. edge_list'[e] \in EdgeType /\ edge_list'[e].data <= inserts
      BY <2>2, <2>3
    <3>2. edge_list'[e].data \in Int
      BY <3>1, Zenon DEF EdgeType
    <3> QED BY <1>1, <3>1, <3>2
  <2>6. Filled(from)'
    <3>1. \A e \in R \cup {first + k} : edge_list'[e] \in EdgeType /\ edge_list'[e].data <= inserts + 1
      <4>1. \A e \in R : edge_list'[e] \in EdgeType /\ edge_list'[e].data <= inserts
        BY <2>2, <2>3
      <4>2. \A e \in R : edge_list'[e].data \in Int
        BY <4>1, Zenon DEF EdgeType
      <4>3. new.data <= inserts + 1
        BY <1>1
      <4> QED BY <1>1, <2>4, <4>1, <4>2, <4>3
    <3>2. \A e, f \in R \cup {first + k} : edge_list'[e] = edge_list'[f] => e = f
      <4>1. \A e, f \in R : edge_list'[e] = edge_list'[f] => e = f
        BY <2>2, <2>3 DEF R
      <4> QED BY <4>1, <2>4, <2>5, Zenon
    <3> QED BY <2>8, <3>1, <3>2, Zenon DEF Filled
  <2>7. Contents(from)'
    <3>1. \A e \in R \cup {first + k} : edge_list'[e] \in edgesOf[from] \cup {new}
      BY <2>2, <2>3, <2>4
    <3>2. \A x \in edgesOf[from] \cup {new} : \E e \in R \cup {first + k} : edge_list'[e] = x
      <4>1. ASSUME NEW x \in edgesOf[from] PROVE \E e \in R : edge_list'[e] = x
        <5>1. PICK y \in EdgeRange(from) : edge_list[y] = x
          BY <2>2, Zenon
        <5>2. PICK e \in R : s[e] = y
          BY Zenon DEF R
        <5> QED BY <2>3, <5>1, <5>2, Zenon
      <4> QED BY <2>4, <4>1, Zenon
    <3> QED BY <1>3, <1>6, <2>8, <3>1, <3>2, Zenon DEF Contents
  <2> QED BY <2>6, <2>7, Zenon
<1> QED BY <1>2, <1>8, <1>9, <1>10, <1>11, Zenon DEF GInv


(* Moving a block copies its cells behind the array and leaves the others.   *)
LEMMA MovedList ==
  ASSUME Types, NEW n \in GraphNodes, EndEdges(n) <= Len(edge_list) + 1
  PROVE  LET k == node_array[n].edges
             L == Len(edge_list)
         IN  /\ Moved(n) \in Seq(EdgeType \cup {Gap}) /\ Len(Moved(n)) > L + k
             /\ \A i \in 1 .. L : i \notin EdgeRange(n) => Moved(n)[i] = edge_list[i]
             /\ \A i \in 1 .. k : Moved(n)[L + i] = edge_list[BeginEdges(n) + i - 1]
<1> DEFINE k == node_array[n].edges
           L == Len(edge_list)
           C == EdgeType \cup {Gap}
           newSize == (k * 11) \div 10 + 2
           old == [e \in DOMAIN edge_list |-> IF e \in EdgeRange(n) THEN Gap ELSE edge_list[e]]
           new == [i \in 1 .. newSize |->
                     IF i <= k THEN edge_list[BeginEdges(n) + i - 1] ELSE Gap]
<1>1. Moved(n) = old \o new
  BY Zenon DEF Moved
<1>2. k \in Nat /\ BeginEdges(n) \in Nat \ {0} /\ EndEdges(n) = BeginEdges(n) + k
  BY BlockTypes, Zenon
<1>3. L \in Nat /\ DOMAIN edge_list = 1 .. L /\ \A i \in 1 .. L : edge_list[i] \in C
  BY LenProperties DEF Types
<1>4. newSize \in Nat /\ newSize > k
  <2>1. \A j \in Nat : (j * 11) \div 10 \in Nat /\ (j * 11) \div 10 >= j
    OBVIOUS
  <2> HIDE DEF k
  <2>2. (k * 11) \div 10 \in Nat /\ (k * 11) \div 10 >= k
    BY <1>2, <2>1, Zenon
  <2> QED BY <1>2, <2>2
<1>5. old \in [1 .. L -> C]
  BY <1>3, Zenon
<1>6. old \in Seq(C) /\ Len(old) = L
  <2>1. DOMAIN old = 1 .. L
    BY <1>3, Zenon
  <2> HIDE DEF old, C, L
  <2> QED BY <1>3, <1>5, <2>1
<1> HIDE DEF newSize
<1>7. \A i \in 1 .. k : BeginEdges(n) + i - 1 \in 1 .. L
  BY <1>2, <1>3
<1>8. new \in [1 .. newSize -> C]
  BY <1>2, <1>3, <1>4, <1>7
<1>9. new \in Seq(C) /\ Len(new) = newSize
  BY <1>4, <1>8
<1>10. \A i \in 1 .. L : i \notin EdgeRange(n) => old[i] = edge_list[i]
  BY <1>3, Zenon
<1>11. \A i \in 1 .. k : i \in 1 .. newSize /\ new[i] = edge_list[BeginEdges(n) + i - 1]
  BY <1>2, <1>4
<1> HIDE DEF old, new, L, k, C
<1>12. /\ old \o new \in Seq(C) /\ Len(old \o new) = L + newSize
       /\ \A i \in 1 .. L + newSize : (old \o new)[i] = IF i <= L THEN old[i] ELSE new[i - L]
  BY <1>6, <1>9, ConcatProperties, Zenon
<1>13. \A i \in 1 .. L : i \notin EdgeRange(n) => Moved(n)[i] = edge_list[i]
  <2> TAKE i \in 1 .. L
  <2>1. i \in 1 .. L + newSize /\ i <= L
    BY <1>3, <1>4
  <2>2. (old \o new)[i] = old[i]
    BY <1>12, <2>1, Zenon
  <2> QED BY <1>1, <1>10, <2>2, Zenon
<1>14. \A i \in 1 .. k : Moved(n)[L + i] = edge_list[BeginEdges(n) + i - 1]
  <2> TAKE i \in 1 .. k
  <2> DEFINE j == L + i
  <2>1. j \in 1 .. L + newSize /\ ~(j <= L) /\ j - L = i
    BY <1>2, <1>3, <1>4
  <2> HIDE DEF j
  <2>2. (old \o new)[j] = new[j - L]
    BY <1>12, <2>1, Zenon
  <2>3. Moved(n)[j] = edge_list[BeginEdges(n) + i - 1]
    BY <1>1, <1>11, <2>1, <2>2, Zenon
  <2> QED BY <2>3, Zenon DEF j
<1>15. Moved(n) \in Seq(C) /\ Len(Moved(n)) > L + k
  BY <1>1, <1>2, <1>3, <1>4, <1>12
<1> QED BY <1>13, <1>14, <1>15, Zenon DEF L, k, C


(* InsertEdge, wherever the block goes.                                    *)
LEMMA InsertStep ==
  ASSUME GInv, NEW from \in GraphNodes, NEW to \in GraphNodes, InsertEdge(from, to)
  PROVE  GInv'
<1> DEFINE k == node_array[from].edges
           begin == BeginEdges(from)
           L == Len(edge_list)
           C == EdgeType \cup {Gap}
           new == Edge(to, inserts + 1)
           Laid(first, list) ==
             /\ edge_list' = [list EXCEPT ![first + k] = new]
             /\ node_array' = [node_array EXCEPT ![from] = [first_edge |-> first, edges |-> k + 1]]
<1>1. /\ Types /\ Quiet /\ inserts \in Nat /\ inserts' = inserts + 1 /\ UNCHANGED deleting
      /\ edgesOf' = [edgesOf EXCEPT ![from] = @ \cup {new}]
  BY Zenon DEF GInv, Types, InsertEdge
<1>2. \/ RoomBehind(from) /\ Laid(begin, edge_list)
      \/ RoomInFront(from) /\ Laid(begin - 1, [edge_list EXCEPT ![begin - 1] = edge_list[begin - 1 + k]])
      \/ Laid(L + 1, Moved(from))
  BY Zenon DEF InsertEdge
<1>3. /\ k \in Nat /\ begin \in Nat \ {0} /\ EndEdges(from) = begin + k
      /\ EdgeRange(from) = begin .. begin + k - 1
  BY <1>1, BlockTypes DEF EdgeRange
<1>4. L \in Nat /\ edge_list \in Seq(C) /\ \A i \in 1 .. L : edge_list[i] \in C
  BY <1>1, LenProperties DEF Types
<1>5. begin + k <= L + 1
  BY <1>3, Zenon DEF GInv, Blocks
<1>6. new \in C
  BY <1>1 DEF Edge, EdgeType
<1>7. \A n \in GraphNodes : \A e \in EdgeRange(n) : edge_list[e] # Gap /\ e \in 1 .. L
  <2> TAKE n \in GraphNodes
  <2> TAKE e \in EdgeRange(n)
  <2>1. Live(n) = EdgeRange(n)
    BY <1>1, QuietNodes, WholeBlock, Zenon
  <2>2. edge_list[e] \in EdgeType
    BY <2>1, Zenon DEF GInv, Filled
  <2>3. e \in Nat /\ e >= BeginEdges(n) /\ e < EndEdges(n) /\ EndEdges(n) <= L + 1
        /\ BeginEdges(n) \in Nat \ {0} /\ EndEdges(n) \in Nat
    BY <1>1, BlockTypes, Zenon DEF GInv, Blocks
  <2> QED BY <1>4, <2>2, <2>3, Nodes
<1>8. \A n \in GraphNodes : n # from => \A e \in EdgeRange(n) : e \notin begin .. begin + k - 1
  BY <1>3, Zenon DEF GInv, Blocks
<1> HIDE DEF new, C, k, begin, L
<1>9. CASE RoomBehind(from) /\ Laid(begin, edge_list)
  <2>1. begin + k \in 1 .. L /\ edge_list[begin + k] = Gap
    BY <1>3, <1>4, <1>9 DEF RoomBehind, isDummy, L
  <2>2. /\ edge_list' \in Seq(C) /\ Len(edge_list') = L
        /\ \A j \in 1 .. L : edge_list'[j] = IF j = begin + k THEN new ELSE edge_list[j]
    BY <1>4, <1>6, <1>9, <2>1, ExceptSeq DEF L
  <2> DEFINE s == [e \in begin .. begin + k - 1 |-> e]
  <2>3. s \in [begin .. begin + k - 1 -> EdgeRange(from)]
    BY <1>3, Zenon
  <2>4. \A e \in begin .. begin + k - 1 : s[e] = e /\ e \in 1 .. L /\ e # begin + k
    BY <1>3, <1>4, <2>1
  <2>5. \A n \in GraphNodes : n # from =>
          \A e \in EdgeRange(n) : e \notin begin .. begin + k /\ edge_list'[e] = edge_list[e]
    <3> SUFFICES ASSUME NEW n \in GraphNodes, n # from, NEW e \in EdgeRange(n)
                 PROVE  e \notin begin .. begin + k /\ edge_list'[e] = edge_list[e]
      BY Zenon
    <3>1. e # begin + k /\ e \in 1 .. L /\ e \notin begin .. begin + k - 1
      BY <1>7, <1>8, <2>1, Zenon
    <3> QED BY <1>3, <2>2, <3>1
  <2> HIDE DEF s
  <2>6. \A x \in EdgeRange(from) : \E e \in begin .. begin + k - 1 : s[e] = x
    BY <1>3, <2>4, Zenon
  <2>7. \A e \in begin .. begin + k - 1 : edge_list'[e] = edge_list[s[e]]
    BY <2>2, <2>4, Zenon
  <2>8. Relaid(from, to, begin, k, s)
    BY <1>1, <1>3, <1>9, <2>1, <2>2, <2>3, <2>4, <2>5, <2>6, <2>7
       DEF L, C, new, Relaid
  <2> QED BY <1>1, <1>3, <2>2, <2>1, <2>8, InsertKeeps

<1>10. CASE RoomInFront(from)
            /\ Laid(begin - 1, [edge_list EXCEPT ![begin - 1] = edge_list[begin - 1 + k]])
  <2> DEFINE f == begin - 1
  <2>1. f \in Nat \ {0} /\ begin = f + 1 /\ f \in 1 .. L /\ f + k \in 1 .. L /\ edge_list[f] = Gap
    BY <1>3, <1>4, <1>5, <1>10 DEF RoomInFront, isDummy, begin
  <2> HIDE DEF f
  <2> DEFINE list == [edge_list EXCEPT ![f] = edge_list[f + k]]
  <2>2. /\ list \in Seq(C) /\ Len(list) = L
        /\ \A j \in 1 .. L : list[j] = IF j = f THEN edge_list[f + k] ELSE edge_list[j]
    BY <1>4, <2>1, ExceptSeq DEF L
  <2>3. Laid(f, list)
    BY <1>10, Zenon DEF f
  <2> HIDE DEF list
  <2>4. /\ edge_list' \in Seq(C) /\ Len(edge_list') = L
        /\ \A j \in 1 .. L : edge_list'[j] = IF j = f + k THEN new ELSE list[j]
    BY <1>6, <2>1, <2>2, <2>3, ExceptSeq
  <2> DEFINE s == [e \in f .. f + k - 1 |-> IF e = f THEN f + k ELSE e]
  <2>5. EdgeRange(from) = f + 1 .. f + k
    BY <1>3, <2>1
  <2>6. \A e \in f .. f + k - 1 : /\ s[e] = IF e = f THEN f + k ELSE e
                                 /\ s[e] \in f + 1 .. f + k /\ e \in 1 .. L /\ e # f + k
    BY <1>3, <1>4, <2>1
  <2>7. s \in [f .. f + k - 1 -> EdgeRange(from)]
    BY <2>5, <2>6, Zenon
  <2> HIDE DEF s
  <2>8. \A e, g \in f .. f + k - 1 : s[e] = s[g] => e = g
    BY <1>3, <2>1, <2>6, Zenon
  <2>9. \A x \in EdgeRange(from) : \E e \in f .. f + k - 1 : s[e] = x
    <3> SUFFICES ASSUME NEW x \in f + 1 .. f + k PROVE \E e \in f .. f + k - 1 : s[e] = x
      BY <2>5, Zenon
    <3>1. CASE x = f + k
      <4>1. f \in f .. f + k - 1 /\ s[f] = x
        BY <1>3, <2>1, <2>6, <3>1
      <4> QED BY <4>1, Zenon
    <3>2. CASE x # f + k
      <4>1. x \in f .. f + k - 1 /\ s[x] = x
        BY <1>3, <2>1, <2>6, <3>2
      <4> QED BY <4>1, Zenon
    <3> QED BY <3>1, <3>2, Zenon
  <2>10. \A n \in GraphNodes : n # from =>
          \A e \in EdgeRange(n) : e \notin f .. f + k /\ edge_list'[e] = edge_list[e]
    <3> SUFFICES ASSUME NEW n \in GraphNodes, n # from, NEW e \in EdgeRange(n)
                 PROVE  e \notin f .. f + k /\ edge_list'[e] = edge_list[e]
      OBVIOUS
    <3>1. e # f /\ e \in 1 .. L /\ e \notin f + 1 .. f + k
      BY <1>3, <1>7, <1>8, <2>1, <2>5, Zenon
    <3> QED BY <1>3, <2>1, <2>2, <2>4, <3>1
  <2>11. \A e \in f .. f + k - 1 : edge_list'[e] = edge_list[s[e]]
    BY <2>2, <2>4, <2>6, Zenon
  <2>12. edge_list'[f + k] = new
    BY <2>1, <2>4, Zenon
  <2>13. Relaid(from, to, f, k, s)
    BY <1>1, <1>3, <1>4, <2>1, <2>3, <2>4, <2>7, <2>8, <2>9, <2>10, <2>11, <2>12
       DEF L, C, new, Relaid
  <2> QED BY <1>1, <1>3, <2>2, <2>1, <2>13, InsertKeeps
<1>11. CASE Laid(L + 1, Moved(from))
  <2> DEFINE f == L + 1
             M == Moved(from)
  <2>1. /\ M \in Seq(C) /\ Len(M) > L + k
        /\ \A i \in 1 .. L : i \notin EdgeRange(from) => M[i] = edge_list[i]
        /\ \A i \in 1 .. k : M[L + i] = edge_list[begin + i - 1]
    BY <1>1, MovedList, Zenon DEF GInv, Blocks, L, k, C, begin
  <2> HIDE DEF M
  <2>2. Len(M) \in Nat /\ f + k \in 1 .. Len(M) /\ f \in Nat \ {0}
    BY <1>3, <1>4, <2>1, LenProperties
  <2>3. /\ edge_list' \in Seq(C) /\ Len(edge_list') = Len(M)
        /\ \A j \in 1 .. Len(M) : edge_list'[j] = IF j = f + k THEN new ELSE M[j]
    BY <1>6, <1>11, <2>1, <2>2, ExceptSeq DEF M
  <2> DEFINE s == [e \in f .. f + k - 1 |-> begin + (e - f)]
  <2>4. \A e \in f .. f + k - 1 : /\ s[e] = begin + (e - f) /\ s[e] \in begin .. begin + k - 1
                                 /\ e \in 1 .. Len(M) /\ e # f + k
    BY <1>3, <1>4, <2>2
  <2>5. s \in [f .. f + k - 1 -> EdgeRange(from)]
    BY <1>3, <2>4, Zenon
  <2> HIDE DEF s
  <2>6. \A e, g \in f .. f + k - 1 : s[e] = s[g] => e = g
    BY <1>3, <2>2, <2>4
  <2>7. \A x \in EdgeRange(from) : \E e \in f .. f + k - 1 : s[e] = x
    <3> SUFFICES ASSUME NEW x \in begin .. begin + k - 1 PROVE \E e \in f .. f + k - 1 : s[e] = x
      BY <1>3, Zenon
    <3>1. (x - begin) + f \in f .. f + k - 1 /\ begin + (((x - begin) + f) - f) = x
      BY <1>3, <1>4
    <3> QED BY <2>4, <3>1, Zenon
  <2>8. \A e \in f .. f + k - 1 : edge_list'[e] = edge_list[s[e]]
    <3> TAKE e \in f .. f + k - 1
    <3>1. edge_list'[e] = M[e]
      BY <2>3, <2>4, Zenon
    <3>2. e - L \in 1 .. k /\ L + (e - L) = e /\ begin + (e - L) - 1 = begin + (e - f)
      BY <1>3, <1>4
    <3>3. M[L + (e - L)] = edge_list[begin + (e - L) - 1]
      BY <2>1, <3>2, Zenon
    <3> QED BY <2>4, <3>1, <3>2, <3>3
  <2>9. \A n \in GraphNodes : n # from =>
          \A e \in EdgeRange(n) : e \notin f .. f + k /\ edge_list'[e] = edge_list[e]
    <3> SUFFICES ASSUME NEW n \in GraphNodes, n # from, NEW e \in EdgeRange(n)
                 PROVE  e \notin f .. f + k /\ edge_list'[e] = edge_list[e]
      BY Zenon
    <3>1. e \in 1 .. L /\ e \notin EdgeRange(from)
      BY <1>3, <1>7, <1>8, Zenon
    <3> QED BY <1>3, <1>4, <2>1, <2>2, <2>3, <3>1
  <2>10. edge_list'[f + k] = new
    BY <2>2, <2>3, Zenon
  <2>11. Len(edge_list') >= L /\ f + k <= Len(edge_list')
    BY <1>3, <1>4, <2>1, <2>2, <2>3
  <2>12. Laid(f, M)
    BY <1>11, Zenon DEF M
  <2> HIDE DEF f
  <2>13. Relaid(from, to, f, k, s)
    BY <1>1, <1>3, <2>2, <2>3, <2>5, <2>6, <2>7, <2>8, <2>9, <2>10, <2>11, <2>12
       DEF L, C, new, Relaid
  <2> QED BY <1>1, <1>3, <2>2, <2>1, <2>13, InsertKeeps
<1> QED BY <1>2, <1>9, <1>10, <1>11, Zenon


-----------------------------------------------------------------------------
\* A step that is about node n only: the others keep their blocks, and the
\* threads at other nodes go on as they were.
Elsewhere(n) ==
    /\ inserts' = inserts
    /\ \A m \in GraphNodes \ {n} :
         /\ node_array'[m] = node_array[m] /\ edgesOf'[m] = edgesOf[m]
         /\ \A e \in EdgeRange(m) : edge_list'[e] = edge_list[e]
    /\ \A th \in GraphThreads :
         \/ deleting'[th] = deleting[th]
         \/ deleting[th].source \in {n, 0} /\ deleting'[th].source \in {n, 0}

(* A write to the block of one node leaves the others alone.               *)
LEMMA ElsewhereKept ==
  ASSUME GInv, NEW n \in GraphNodes, Elsewhere(n), NEW m \in GraphNodes, m # n
  PROVE  /\ BeginEdges(m)' = BeginEdges(m) /\ EndEdges(m)' = EndEdges(m)
         /\ EdgeRange(m)' = EdgeRange(m)
         /\ (Filled(m) /\ Contents(m))'
<1>1. /\ BeginEdges(m)' = BeginEdges(m) /\ EndEdges(m)' = EndEdges(m)
      /\ EdgeRange(m)' = EdgeRange(m)
  BY Zenon DEF Elsewhere, BeginEdges, EndEdges, EdgeRange
<1>2. \A th \in GraphThreads : deleting[th].source = m \/ deleting'[th].source = m
        => deleting'[th] = deleting[th]
  BY Nodes, Zenon DEF Elsewhere
<1>3. Live(m)' = Live(m)
  BY <1>1, <1>2, Zenon DEF Live
<1>4. \A t : Marked(m, t)' <=> Marked(m, t)
  BY <1>2, Zenon DEF Marked
<1>5. \A e \in Live(m) : edge_list'[e] = edge_list[e]
  BY Zenon DEF Elsewhere, Live
<1>6. \A e \in Live(m) : Doomed(m, e)' <=> Doomed(m, e)
  BY <1>4, <1>5, Zenon DEF Doomed
<1>7. Filled(m) /\ Contents(m) /\ inserts' = inserts /\ edgesOf'[m] = edgesOf[m]
  BY Zenon DEF GInv, Elsewhere
<1>8. Filled(m)'
  BY <1>3, <1>5, <1>7, Zenon DEF Filled
<1>9. Contents(m)'
  BY <1>3, <1>5, <1>6, <1>7, Zenon DEF Contents
<1> QED BY <1>1, <1>8, <1>9, Zenon

(* Nor does it disturb a thread that is at another node.                     *)
LEMMA ElsewhereCalls ==
  ASSUME GInv, NEW n \in GraphNodes, Elsewhere(n), NEW th \in GraphThreads,
         NEW d \in Call, d = deleting[th], NEW m \in GraphNodes, m = d.source, m # n
  PROVE  /\ deleting'[th] = d
         /\ d.iend = EndEdges(m)'
         /\ BeginEdges(m)' <= d.i /\ d.i <= d.iend - d.deleted /\ d.deleted >= 0
         /\ \A e \in BeginEdges(m)' .. d.i - 1 : edge_list'[e].target # d.target
         /\ \A other \in GraphThreads : deleting'[other].source = m => other = th
<1>1. Types /\ Calls /\ deleting[th] # IdleThread
  BY Nodes, Zenon DEF GInv
<1>2. m # 0 /\ n # 0
  BY Nodes, Zenon
<1>3. deleting'[th] = d
  BY <1>2, Zenon DEF Elsewhere
<1>4. /\ d.iend = EndEdges(m)
      /\ BeginEdges(m) <= d.i /\ d.i <= d.iend - d.deleted /\ d.deleted >= 0
      /\ \A e \in BeginEdges(m) .. d.i - 1 : edge_list[e].target # d.target
      /\ \A other \in GraphThreads : deleting[other].source = m => other = th
  BY <1>1, Zenon DEF Calls
<1>5. d.i \in Int /\ d.iend \in Int /\ d.deleted \in Int
  BY Zenon DEF Call
<1>7. BeginEdges(m)' = BeginEdges(m) /\ EndEdges(m)' = EndEdges(m)
  BY ElsewhereKept, Zenon
<1>8. \A e \in BeginEdges(m) .. d.i - 1 : e \in EdgeRange(m)
  <2>1. BeginEdges(m) \in Nat /\ EndEdges(m) \in Nat
    BY <1>1, BlockTypes, Zenon
  <2>2. d.i <= EndEdges(m)
    BY <1>4, <1>5
  <2> QED BY <1>5, <2>1, <2>2 DEF EdgeRange
<1>9. \A e \in BeginEdges(m) .. d.i - 1 : edge_list'[e] = edge_list[e]
  BY <1>8, Zenon DEF Elsewhere
<1>10. \A other \in GraphThreads : deleting'[other].source = m => deleting[other].source = m
  BY <1>2, Zenon DEF Elsewhere
<1> QED BY <1>3, <1>4, <1>7, <1>9, <1>10, Zenon

\* Thread th is at node n with the call d, alone; the block ends where it has
\* come to, from behind.
AtWork(th, d, n) ==
    /\ Live(n) = BeginEdges(n) .. d.iend - d.deleted - 1
    /\ \A t : Marked(n, t) <=> t = d.target
    /\ \A other \in GraphThreads : deleting[other].source = n <=> other = th
    /\ d.iend = EndEdges(n) /\ BeginEdges(n) <= d.i /\ d.i <= d.iend - d.deleted
    /\ d.i \in Int /\ d.deleted \in Nat /\ d.iend \in Int
    /\ \A e \in BeginEdges(n) .. d.i - 1 : edge_list[e].target # d.target

(* What is known of the node a thread is at.                               *)
LEMMA ThreadAt ==
  ASSUME GInv, NEW th \in GraphThreads, NEW d \in Call, d = deleting[th],
         NEW n \in GraphNodes, n = d.source
  PROVE  AtWork(th, d, n)
<1>1. Types /\ Calls /\ deleting[th] # IdleThread
  BY Nodes, Zenon DEF GInv
<1>2. /\ d.iend = EndEdges(n)
      /\ BeginEdges(n) <= d.i /\ d.i <= d.iend - d.deleted /\ d.deleted >= 0
      /\ \A e \in BeginEdges(n) .. d.i - 1 : edge_list[e].target # d.target
      /\ \A other \in GraphThreads : deleting[other].source = n => other = th
  BY <1>1, Zenon DEF Calls
<1>3. d.i \in Int /\ d.iend \in Int /\ d.deleted \in Nat
  BY <1>2 DEF Call
<1>4. BeginEdges(n) \in Nat /\ EndEdges(n) \in Nat
  BY <1>1, BlockTypes, Zenon
<1>5. \A other \in GraphThreads : deleting[other].source = n <=> other = th
  BY <1>2, Zenon
<1>6. Live(n) = {e \in EdgeRange(n) : e < d.iend - d.deleted}
  BY <1>5, Zenon DEF Live
<1>7. Live(n) = BeginEdges(n) .. d.iend - d.deleted - 1
  BY <1>2, <1>3, <1>4, <1>6 DEF EdgeRange
<1>8. \A t : Marked(n, t) <=> t = d.target
  BY <1>5, Zenon DEF Marked
<1> QED BY <1>2, <1>3, <1>5, <1>7, <1>8, Zenon DEF AtWork

\* In new, the last edge of a block has taken the place of the one at e.
LastFilled(list, new, b, last, e) ==
    /\ Len(new) = Len(list)
    /\ \A j \in b .. last - 1 : new[j] = list[IF j = e THEN last ELSE j]
    /\ \A j \in 1 .. Len(list) : j \notin b .. last => new[j] = list[j]

(* The last edge of a block moves into a gap.                              *)
LEMMA LastFills ==
  ASSUME NEW S, NEW list \in Seq(S), NEW b \in Nat \ {0}, NEW last \in 1 .. Len(list),
         NEW e \in b .. last, NEW gap \in S, NEW new,
         new = [[list EXCEPT ![e] = list[last]] EXCEPT ![last] = gap]
  PROVE  new \in Seq(S) /\ LastFilled(list, new, b, last, e)
<1>1. Len(list) \in Nat /\ e \in 1 .. Len(list) /\ list[last] \in S
  BY LenProperties, ElementOfSeq
<1> DEFINE mid == [list EXCEPT ![e] = list[last]]
<1>2. /\ mid \in Seq(S) /\ Len(mid) = Len(list)
      /\ \A j \in 1 .. Len(list) : mid[j] = IF j = e THEN list[last] ELSE list[j]
  BY <1>1, ExceptSeq
<1> HIDE DEF mid
<1>3. /\ [mid EXCEPT ![last] = gap] \in Seq(S) /\ Len([mid EXCEPT ![last] = gap]) = Len(list)
      /\ \A j \in 1 .. Len(list) : [mid EXCEPT ![last] = gap][j] = IF j = last THEN gap ELSE mid[j]
  BY <1>2, ExceptSeq
<1>4. new = [mid EXCEPT ![last] = gap]
  BY Zenon DEF mid
<1> QED BY <1>1, <1>2, <1>3, <1>4 DEF LastFilled


(* Removing an edge so keeps the others of the block.                        *)
LEMMA Dropped ==
  ASSUME GInv, NEW n \in GraphNodes, NEW b \in Nat, NEW last \in Nat, NEW e \in b .. last,
         Live(n) = b .. last, Live(n)' = b .. last - 1, inserts' = inserts,
         LastFilled(edge_list, edge_list', b, last, e),
         \A t : Marked(n, t)' <=> Marked(n, t),
         \/ Doomed(n, e) /\ edgesOf'[n] = edgesOf[n]
         \/ ~Doomed(n, e) /\ edgesOf'[n] = edgesOf[n] \ {edge_list[e]}
  PROVE  (Filled(n) /\ Contents(n))'
<1> DEFINE s(j) == IF j = e THEN last ELSE j
<1>1. Filled(n) /\ Contents(n)
  BY Zenon DEF GInv
<1>2. \A j \in b .. last - 1 : s(j) \in b .. last /\ s(j) # e /\ edge_list'[j] = edge_list[s(j)]
  BY DEF LastFilled
<1>3. \A i, j \in b .. last - 1 : s(i) = s(j) => i = j
  OBVIOUS
<1>4. \A x \in b .. last : x # e => \E j \in b .. last - 1 : s(j) = x
  <2> SUFFICES ASSUME NEW x \in b .. last, x # e PROVE \E j \in b .. last - 1 : s(j) = x
    BY Zenon
  <2>1. CASE x = last
    <3>1. e \in b .. last - 1 /\ s(e) = x
      BY <2>1
    <3> QED BY <3>1, Zenon
  <2>2. CASE x # last
    <3>1. x \in b .. last - 1 /\ s(x) = x
      BY <2>2
    <3> QED BY <3>1, Zenon
  <2> QED BY <2>1, <2>2, Zenon
<1> HIDE DEF s
<1>5. /\ \A i \in b .. last : edge_list[i] \in EdgeType /\ edge_list[i].data <= inserts
      /\ \A i, j \in b .. last : edge_list[i] = edge_list[j] => i = j
      /\ \A i \in b .. last : ~Doomed(n, i) => edge_list[i] \in edgesOf[n]
      /\ \A x \in edgesOf[n] : \E i \in b .. last : ~Doomed(n, i) /\ edge_list[i] = x
  BY <1>1, Zenon DEF Filled, Contents
<1>6. \A j \in b .. last - 1 : Doomed(n, j)' <=> Doomed(n, s(j))
  BY <1>2, Zenon DEF Doomed
<1>7. Filled(n)'
  BY <1>2, <1>3, <1>5 DEF Filled
<1>8. \A j \in b .. last - 1 : ~Doomed(n, j)' => edge_list'[j] \in edgesOf'[n]
  <2> SUFFICES ASSUME NEW j \in b .. last - 1, ~Doomed(n, j)' PROVE edge_list'[j] \in edgesOf'[n]
    BY Zenon
  <2>1. s(j) \in b .. last /\ ~Doomed(n, s(j)) /\ edge_list'[j] = edge_list[s(j)] /\ s(j) # e
    BY <1>2, <1>6, Zenon
  <2>2. edge_list[s(j)] \in edgesOf[n] /\ edge_list[s(j)] # edge_list[e]
    BY <1>5, <2>1, Zenon
  <2> QED BY <2>1, <2>2, Zenon
<1>9. \A x \in edgesOf'[n] : \E j \in b .. last - 1 : ~Doomed(n, j)' /\ edge_list'[j] = x
  <2> SUFFICES ASSUME NEW x \in edgesOf'[n]
               PROVE  \E j \in b .. last - 1 : ~Doomed(n, j)' /\ edge_list'[j] = x
    BY Zenon
  <2>1. PICK i \in b .. last : ~Doomed(n, i) /\ edge_list[i] = x
    BY <1>5, Zenon
  <2>2. i # e
    BY <2>1, Zenon
  <2>3. PICK j \in b .. last - 1 : s(j) = i
    BY <1>4, <2>2, Zenon
  <2>4. ~Doomed(n, j)' /\ edge_list'[j] = x
    BY <1>2, <1>6, <2>1, <2>3, Zenon
  <2> QED BY <2>4, Zenon
<1>10. Contents(n)'
  BY <1>8, <1>9, Zenon DEF Contents
<1> QED BY <1>7, <1>10, Zenon

(* Blocks that shrink stay apart.                                            *)
LEMMA BlocksShrink ==
  ASSUME GInv, NEW n \in GraphNodes, Elsewhere(n), EdgeRange(n)' \subseteq EdgeRange(n),
         Len(edge_list') = Len(edge_list), EndEdges(n)' <= EndEdges(n), EndEdges(n)' \in Int
  PROVE  Blocks'
<1>1. Len(edge_list) \in Nat
  BY LenProperties, Zenon DEF GInv, Types
<1>2. ASSUME NEW m \in GraphNodes
      PROVE  EndEdges(m)' <= Len(edge_list') + 1 /\ EdgeRange(m)' \subseteq EdgeRange(m)
  <2>1. EndEdges(m) <= Len(edge_list) + 1 /\ EndEdges(m) \in Nat
    BY BlockTypes, Zenon DEF GInv, Blocks
  <2>2. CASE m = n
    BY <1>1, <2>1, <2>2
  <2>3. CASE m # n
    <3>1. EndEdges(m)' = EndEdges(m) /\ EdgeRange(m)' = EdgeRange(m)
      BY <2>3, ElsewhereKept, Zenon
    <3> QED BY <2>1, <3>1, Zenon
  <2> QED BY <2>2, <2>3, Zenon
<1>3. ASSUME NEW l \in GraphNodes, NEW m \in GraphNodes, l # m
      PROVE  EdgeRange(l)' \cap EdgeRange(m)' = {}
  <2>1. EdgeRange(l) \cap EdgeRange(m) = {}
    BY <1>3, Zenon DEF GInv, Blocks
  <2>2. EdgeRange(l)' \subseteq EdgeRange(l) /\ EdgeRange(m)' \subseteq EdgeRange(m)
    BY <1>2, Zenon
  <2> QED BY ONLY <2>1, <2>2, Zenon
<1> QED BY <1>2, <1>3, Zenon DEF Blocks


-----------------------------------------------------------------------------
(* DeleteEdge, called while no thread deletes.                             *)
LEMMA DeleteStep ==
  ASSUME GInv, NEW n \in GraphNodes, NEW e \in EdgeRange(n), DeleteEdge(n, e)
  PROVE  GInv'
<1> DEFINE b == BeginEdges(n)
           k == node_array[n].edges
           last == EndEdges(n) - 1
<1>1. /\ Types /\ Quiet /\ inserts' = inserts /\ deleting' = deleting
      /\ edge_list' = [[edge_list EXCEPT ![e] = edge_list[last]] EXCEPT ![last] = Gap]
      /\ node_array' = [node_array EXCEPT ![n].edges = @ - 1]
      /\ edgesOf' = [edgesOf EXCEPT ![n] = @ \ {edge_list[e]}]
  BY Zenon DEF GInv, DeleteEdge, FilledFrom, makeDummy
<1>2. b \in Nat \ {0} /\ k \in Nat /\ EndEdges(n) = b + k /\ last = b + k - 1
      /\ EdgeRange(n) = b .. last /\ last \in Nat
  BY <1>1, BlockTypes DEF EdgeRange
<1>3. k >= 1 /\ e \in b .. last
  BY <1>2
<1>4. last \in 1 .. Len(edge_list)
  <2>1. EndEdges(n) <= Len(edge_list) + 1
    BY Zenon DEF GInv, Blocks
  <2>2. Len(edge_list) \in Nat
    BY <1>1, LenProperties, Zenon DEF Types
  <2> QED BY <1>2, <1>3, <2>1, <2>2
<1> HIDE DEF b, k, last
<1>5. edge_list' \in Seq(EdgeType \cup {Gap}) /\ LastFilled(edge_list, edge_list', b, last, e)
  <2> DEFINE C == EdgeType \cup {Gap}
  <2>1. edge_list \in Seq(C) /\ Gap \in C
    BY <1>1, Zenon DEF Types
  <2> HIDE DEF C
  <2>2. edge_list' \in Seq(C) /\ LastFilled(edge_list, edge_list', b, last, e)
    <3>1. /\ edge_list' = [[edge_list EXCEPT ![e] = edge_list[last]] EXCEPT ![last] = Gap]
          /\ b \in Nat \ {0} /\ last \in 1 .. Len(edge_list) /\ e \in b .. last
      BY <1>1, <1>2, <1>3, <1>4, Zenon DEF last
    <3> QED BY ONLY <2>1, <3>1, LastFills, Zenon
  <2> QED BY <2>2, Zenon DEF C
<1>6. /\ node_array'[n].first_edge = b /\ node_array'[n].edges = k - 1
      /\ node_array' \in [GraphNodes -> [first_edge : Nat \ {0}, edges : Nat]]
      /\ \A m \in GraphNodes \ {n} : node_array'[m] = node_array[m]
  <2>1. node_array \in [GraphNodes -> [first_edge : Nat \ {0}, edges : Nat]]
    BY <1>1, Zenon DEF Types
  <2>2. k - 1 \in Nat
    BY <1>2, <1>3
  <2> QED BY <1>1, <1>2, <2>1, <2>2, Zenon DEF b, k, BeginEdges
<1>7. /\ edgesOf'[n] = edgesOf[n] \ {edge_list[e]} /\ edgesOf' \in [GraphNodes -> SUBSET EdgeType]
      /\ \A m \in GraphNodes \ {n} : edgesOf'[m] = edgesOf[m]
  BY <1>1, Zenon DEF Types
<1>8. Types'
  BY <1>1, <1>5, <1>6, <1>7, Zenon DEF Types
<1>9. BeginEdges(n)' = b /\ EndEdges(n)' = last /\ EdgeRange(n)' = b .. last - 1
  <2>1. BeginEdges(n)' = b /\ EndEdges(n)' = b + (k - 1)
    BY <1>6, Zenon DEF BeginEdges, EndEdges
  <2>2. b + (k - 1) = last
    BY <1>2, Zenon
  <2> QED BY <2>1, <2>2, Zenon DEF EdgeRange
<1>10. Elsewhere(n)
  <2>1. ASSUME NEW m \in GraphNodes \ {n}, NEW j \in EdgeRange(m) PROVE edge_list'[j] = edge_list[j]
    <3>1. j \notin EdgeRange(n)
      BY Zenon DEF GInv, Blocks
    <3>2. BeginEdges(m) \in Nat \ {0} /\ EndEdges(m) \in Nat /\ j \in Nat
          /\ j >= BeginEdges(m) /\ j < EndEdges(m)
      BY <1>1, BlockTypes, Zenon
    <3>3. EndEdges(m) <= Len(edge_list) + 1 /\ Len(edge_list) \in Nat
      BY LenProperties, Zenon DEF GInv, Blocks, Types
    <3>4. j \in 1 .. Len(edge_list) /\ j \notin b .. last
      BY <1>2, <3>1, <3>2, <3>3
    <3> QED BY <1>5, <3>4, Zenon DEF LastFilled
  <2> QED BY <1>1, <1>6, <1>7, <2>1, Zenon DEF Elsewhere
<1>11. \A m \in GraphNodes, th \in GraphThreads : deleting[th].source # m
  BY <1>1, QuietNodes, Zenon
<1>12. (Filled(n) /\ Contents(n))'
  <2>1. Live(n) = b .. last /\ ~Doomed(n, e) /\ \A t : Marked(n, t)' <=> Marked(n, t)
    BY <1>1, <1>2, <1>11, Zenon DEF Live, Doomed, Marked
  <2>2. Live(n)' = b .. last - 1
    BY <1>1, <1>9, <1>11, Zenon DEF Live
  <2> QED BY <1>1, <1>2, <1>3, <1>5, <1>7, <2>1, <2>2, Dropped, Zenon
<1>13. Blocks'
  <2>1. EdgeRange(n)' \subseteq EdgeRange(n)
    BY <1>2, <1>9
  <2>2. EndEdges(n)' <= EndEdges(n) /\ EndEdges(n)' \in Int
    BY <1>2, <1>9
  <2> QED BY <1>5, <1>10, <2>1, <2>2, BlocksShrink, Zenon DEF LastFilled
<1>14. Calls'
  BY <1>1, Zenon DEF Quiet, Calls
<1>15. ASSUME NEW m \in GraphNodes PROVE (Filled(m) /\ Contents(m))'
  BY <1>10, <1>12, ElsewhereKept, Zenon
<1> QED BY <1>8, <1>13, <1>14, <1>15, Zenon DEF GInv


(* A fill changes no other cell.                                           *)
LEMMA FilledOther ==
  ASSUME NEW S, Gap \in S, NEW list \in Seq(S), NEW x \in 1 .. Len(list), NEW y \in 1 .. Len(list),
         NEW new, new = FilledFrom(list, x, y)
  PROVE  /\ new \in Seq(S) /\ Len(new) = Len(list)
         /\ \A j \in 1 .. Len(list) : j # x /\ j # y => new[j] = list[j]
<1>1. list \in [1 .. Len(list) -> S] /\ Len(list) \in Nat
  BY LenProperties, Zenon
<1>2. new = [[list EXCEPT ![x] = list[y]] EXCEPT ![y] = Gap]
  BY Zenon DEF FilledFrom, makeDummy
<1> DEFINE k == Len(list)
<1> HIDE DEF k
<1>3. new \in [1 .. k -> S] /\ \A j \in 1 .. k : j # x /\ j # y => new[j] = list[j]
  BY <1>1, <1>2, Zenon DEF k
<1>4. new \in Seq(S) /\ Len(new) = k
  BY <1>1, <1>3 DEF k
<1> QED BY <1>3, <1>4, Zenon DEF k

(* DeleteEdge, called for both edges of a node by positions read before.   *)
LEMMA DeleteBothStep ==
  ASSUME GInv, NEW n \in GraphNodes, NEW e \in EdgeRange(n), DeleteBoth(n, e)
  PROVE  GInv'
<1> DEFINE b == BeginEdges(n)
           C == EdgeType \cup {Gap}
           other == IF e = b THEN b + 1 ELSE b
           once == FilledFrom(edge_list, e, b + 1)
<1>1. /\ Types /\ Quiet /\ inserts' = inserts /\ deleting' = deleting /\ node_array[n].edges = 2
      /\ edge_list' = FilledFrom(once, other, b)
      /\ node_array' = [node_array EXCEPT ![n].edges = 0]
      /\ edgesOf' = [edgesOf EXCEPT ![n] = {}]
  BY Zenon DEF GInv, DeleteBoth
<1>2. b \in Nat \ {0} /\ EndEdges(n) = b + 2 /\ EdgeRange(n) = b .. b + 1 /\ Len(edge_list) \in Nat
  BY <1>1, BlockTypes, LenProperties DEF EdgeRange, Types
<1>3. b + 2 <= Len(edge_list) + 1
  BY <1>2, Zenon DEF GInv, Blocks
<1>4. /\ e \in 1 .. Len(edge_list) /\ other \in 1 .. Len(edge_list)
      /\ b \in 1 .. Len(edge_list) /\ b + 1 \in 1 .. Len(edge_list)
      /\ {e, other, b, b + 1} \subseteq b .. b + 1
  BY <1>2, <1>3
<1>5. edge_list \in Seq(C) /\ Gap \in C
  BY <1>1, Zenon DEF Types
<1> HIDE DEF b, C, other, once
<1>6. /\ edge_list' \in Seq(C) /\ Len(edge_list') = Len(edge_list)
      /\ \A j \in 1 .. Len(edge_list) : j \notin b .. b + 1 => edge_list'[j] = edge_list[j]
  <2>1. /\ once \in Seq(C) /\ Len(once) = Len(edge_list)
        /\ \A j \in 1 .. Len(edge_list) : j # e /\ j # b + 1 => once[j] = edge_list[j]
    <3>1. once = FilledFrom(edge_list, e, b + 1)
      BY Zenon DEF once
    <3>2. e \in 1 .. Len(edge_list) /\ b + 1 \in 1 .. Len(edge_list)
      BY <1>4, Zenon
    <3> QED BY ONLY <1>5, <3>1, <3>2, FilledOther
  <2>2. /\ edge_list' \in Seq(C) /\ Len(edge_list') = Len(once)
        /\ \A j \in 1 .. Len(once) : j # other /\ j # b => edge_list'[j] = once[j]
    <3>1. edge_list' = FilledFrom(once, other, b) /\ Gap \in C
      BY <1>1, <1>5, Zenon
    <3>2. other \in 1 .. Len(once) /\ b \in 1 .. Len(once)
      BY <1>4, <2>1, Zenon
    <3> QED BY ONLY <2>1, <3>1, <3>2, FilledOther
  <2> QED BY <1>4, <2>1, <2>2, Zenon
<1>7. /\ node_array'[n].first_edge = b /\ node_array'[n].edges = 0
      /\ node_array' \in [GraphNodes -> [first_edge : Nat \ {0}, edges : Nat]]
      /\ \A m \in GraphNodes \ {n} : node_array'[m] = node_array[m]
  <2>1. node_array \in [GraphNodes -> [first_edge : Nat \ {0}, edges : Nat]] /\ 0 \in Nat
    BY <1>1, SMT DEF Types
  <2> QED BY <1>1, <2>1, Zenon DEF b, BeginEdges
<1>8. /\ edgesOf'[n] = {} /\ edgesOf' \in [GraphNodes -> SUBSET EdgeType]
      /\ \A m \in GraphNodes \ {n} : edgesOf'[m] = edgesOf[m]
  BY <1>1, Zenon DEF Types
<1>9. Types'
  BY <1>1, <1>6, <1>7, <1>8, Zenon DEF Types, C
<1>10. EndEdges(n)' = b /\ EdgeRange(n)' = {}
  <2>1. BeginEdges(n)' = b /\ EndEdges(n)' = b + 0
    BY <1>7, Zenon DEF BeginEdges, EndEdges
  <2>2. b + 0 = b /\ b .. b - 1 = {}
    BY <1>2
  <2> QED BY <2>1, <2>2, Zenon DEF EdgeRange
<1>11. Elsewhere(n)
  <2>1. ASSUME NEW m \in GraphNodes \ {n}, NEW j \in EdgeRange(m) PROVE edge_list'[j] = edge_list[j]
    <3>1. j \notin EdgeRange(n)
      BY Zenon DEF GInv, Blocks
    <3>2. BeginEdges(m) \in Nat \ {0} /\ EndEdges(m) \in Nat /\ j \in Nat
          /\ j >= BeginEdges(m) /\ j < EndEdges(m)
      BY <1>1, BlockTypes, Zenon
    <3>3. EndEdges(m) <= Len(edge_list) + 1
      BY Zenon DEF GInv, Blocks
    <3>4. j \in 1 .. Len(edge_list) /\ j \notin b .. b + 1
      BY <1>2, <3>1, <3>2, <3>3
    <3> QED BY <1>6, <3>4, Zenon
  <2> QED BY <1>1, <1>7, <1>8, <2>1, Zenon DEF Elsewhere
<1>12. Blocks'
  <2>1. EdgeRange(n)' \subseteq EdgeRange(n) /\ EndEdges(n)' <= EndEdges(n) /\ EndEdges(n)' \in Int
    BY <1>2, <1>10
  <2> QED BY <1>6, <1>11, <2>1, BlocksShrink, Zenon
<1>13. (Filled(n) /\ Contents(n))'
  <2>1. \A th \in GraphThreads : deleting'[th].source # n
    BY <1>1, QuietNodes, Zenon
  <2>2. Live(n)' = {}
    BY <1>10, <2>1, Zenon DEF Live
  <2> QED BY <1>8, <2>2, Zenon DEF Filled, Contents
<1>14. Calls'
  BY <1>1, Zenon DEF Quiet, Calls
<1>15. ASSUME NEW m \in GraphNodes PROVE (Filled(m) /\ Contents(m))'
  BY <1>11, <1>13, ElsewhereKept, Zenon
<1> QED BY <1>9, <1>12, <1>14, <1>15, Zenon DEF GInv

(* A thread enters DeleteEdgesTo.                                          *)
LEMMA StartStep ==
  ASSUME GInv, NEW th \in GraphThreads, NEW n \in GraphNodes, NEW t \in GraphNodes,
         StartDelete(th, n, t)
  PROVE  GInv'
<1>1. /\ Types /\ deleting[th] = IdleThread /\ \A other \in GraphThreads : deleting[other].source # n
      /\ node_array' = node_array /\ edge_list' = edge_list /\ inserts' = inserts
      /\ edgesOf' = [edgesOf EXCEPT ![n] = {e \in @ : e.target # t}]
  BY Zenon DEF GInv, StartDelete
<1>2. PICK d : d = [source |-> n, target |-> t, i |-> BeginEdges(n), iend |-> EndEdges(n), deleted |-> 0]
  BY Zenon
<1>3. deleting' = [deleting EXCEPT ![th] = d]
  BY <1>2, Zenon DEF StartDelete
<1>4. BeginEdges(n) \in Nat \ {0} /\ EndEdges(n) \in Nat /\ BeginEdges(n) <= EndEdges(n)
  BY <1>1, BlockTypes
<1>5. /\ d \in Call /\ d.source = n /\ d.target = t /\ d.i = BeginEdges(n) /\ d.iend = EndEdges(n)
      /\ d.deleted = 0
  BY <1>2, <1>4 DEF Call
<1> HIDE <1>2
<1>6. deleting'[th] = d /\ \A other \in GraphThreads : other # th => deleting'[other] = deleting[other]
  BY <1>1, <1>3, Zenon DEF Types
<1>7. Types'
  <2>1. deleting' \in [GraphThreads -> Call \cup {IdleThread}]
    BY <1>1, <1>3, <1>5, Zenon DEF Types
  <2>2. edgesOf' \in [GraphNodes -> SUBSET EdgeType]
    BY <1>1, Zenon DEF Types
  <2> QED BY <1>1, <2>1, <2>2, Zenon DEF Types
<1>8. deleting[th].source = 0
  BY <1>1 DEF IdleThread
<1>9. Elsewhere(n)
  <2>1. \A m \in GraphNodes \ {n} : edgesOf'[m] = edgesOf[m]
    BY <1>1, Zenon DEF Types
  <2> QED BY <1>1, <1>5, <1>6, <1>8, <2>1, Zenon DEF Elsewhere
<1>10. \A m \in GraphNodes : /\ BeginEdges(m)' = BeginEdges(m) /\ EndEdges(m)' = EndEdges(m)
                             /\ EdgeRange(m)' = EdgeRange(m)
  BY <1>1, Zenon DEF BeginEdges, EndEdges, EdgeRange
<1>11. Blocks'
  BY <1>1, <1>10, Zenon DEF GInv, Blocks
<1>12. \A other \in GraphThreads : deleting'[other].source = n <=> other = th
  BY <1>1, <1>5, <1>6, Zenon
<1>13. (Filled(n) /\ Contents(n))'
  <2>1. Live(n) = EdgeRange(n) /\ \A e : ~Doomed(n, e)
    BY <1>1, WholeBlock, Zenon
  <2>2. \A e \in EdgeRange(n) : e < d.iend - d.deleted
    BY <1>1, <1>4, <1>5, BlockTypes
  <2>3. Live(n)' = EdgeRange(n)
    BY <1>6, <1>10, <1>12, <2>2, Zenon DEF Live
  <2>4. \A x : Marked(n, x)' <=> x = t
    BY <1>5, <1>6, <1>12, Zenon DEF Marked
  <2>5. Filled(n) /\ Contents(n)
    BY Zenon DEF GInv
  <2>6. edgesOf'[n] = {e \in edgesOf[n] : e.target # t}
    BY <1>1, Zenon DEF Types
  <2>7. \A e : Doomed(n, e)' <=> edge_list[e].target = t
    BY <1>1, <2>4, Zenon DEF Doomed
  <2>8. Filled(n)'
    BY <1>1, <2>1, <2>3, <2>5, Zenon DEF Filled
  <2>9. Contents(n)'
    BY <1>1, <2>1, <2>3, <2>5, <2>6, <2>7 DEF Contents
  <2> QED BY <2>8, <2>9, Zenon
<1>14. Calls'
  <2> SUFFICES ASSUME NEW o \in GraphThreads, deleting'[o] # IdleThread,
                      NEW c, c = deleting'[o], NEW m, m = c.source
               PROVE  /\ c.iend = EndEdges(m)'
                      /\ BeginEdges(m)' <= c.i /\ c.i <= c.iend - c.deleted /\ c.deleted >= 0
                      /\ \A e \in BeginEdges(m)' .. c.i - 1 : edge_list'[e].target # c.target
                      /\ \A other \in GraphThreads : deleting'[other].source = m => other = o
    BY DEF Calls, BeginEdges, EndEdges
  <2>1. CASE o = th
    <3>1. c = d /\ m = n
      BY <1>5, <1>6, <2>1, Zenon
    <3>2. BeginEdges(n) .. BeginEdges(n) - 1 = {}
      BY <1>4
    <3> QED BY <1>4, <1>5, <1>10, <1>12, <2>1, <3>1, <3>2
  <2>2. CASE o # th
    <3>1. c = deleting[o] /\ c \in Call /\ m \in GraphNodes /\ m # n
      BY <1>1, <1>6, <2>2, AtNode, Zenon
    <3> QED BY <1>9, <3>1, ElsewhereCalls
  <2> QED BY <2>1, <2>2, Zenon
<1>15. ASSUME NEW m \in GraphNodes PROVE (Filled(m) /\ Contents(m))'
  BY <1>9, <1>13, ElsewhereKept, Zenon
<1> QED BY <1>7, <1>11, <1>14, <1>15, Zenon DEF GInv

(* DeleteEdgesTo writes the new length.                                    *)
LEMMA EndStep ==
  ASSUME GInv, NEW th \in GraphThreads, EndDelete(th)
  PROVE  GInv'
<1>1. /\ Types /\ deleting[th] # IdleThread
      /\ edge_list' = edge_list /\ inserts' = inserts /\ edgesOf' = edgesOf
      /\ deleting' = [deleting EXCEPT ![th] = IdleThread]
  BY Zenon DEF GInv, EndDelete
<1>2. deleting[th] \in Call /\ deleting[th].source \in GraphNodes
  BY <1>1, AtNode, Zenon
<1>3. PICK d \in Call : d = deleting[th]
  BY <1>2, Zenon
<1>4. PICK n \in GraphNodes : n = d.source
  BY <1>2, <1>3, Zenon
<1>5. d.i >= d.iend - d.deleted /\ node_array' = [node_array EXCEPT ![n].edges = @ - d.deleted]
  BY <1>3, <1>4, Zenon DEF EndDelete
<1>6. /\ Live(n) = BeginEdges(n) .. d.iend - d.deleted - 1
      /\ \A t : Marked(n, t) <=> t = d.target
      /\ \A other \in GraphThreads : deleting[other].source = n <=> other = th
      /\ d.iend = EndEdges(n) /\ BeginEdges(n) <= d.i /\ d.i <= d.iend - d.deleted
      /\ d.i \in Int /\ d.deleted \in Nat /\ d.iend \in Int
      /\ \A e \in BeginEdges(n) .. d.i - 1 : edge_list[e].target # d.target
  <2>1. AtWork(th, d, n)
    BY <1>3, <1>4, ThreadAt, Zenon
  <2> QED BY <2>1, Zenon DEF AtWork
<1>7. d.i = d.iend - d.deleted
  BY <1>5, <1>6
<1>8. /\ BeginEdges(n) \in Nat \ {0} /\ node_array[n].edges \in Nat
      /\ EndEdges(n) = BeginEdges(n) + node_array[n].edges
  BY <1>1, BlockTypes, Zenon
<1>9. node_array[n].edges - d.deleted \in Nat
  BY <1>6, <1>7, <1>8
<1>10. /\ node_array'[n].first_edge = BeginEdges(n)
       /\ node_array'[n].edges = node_array[n].edges - d.deleted
       /\ node_array' \in [GraphNodes -> [first_edge : Nat \ {0}, edges : Nat]]
       /\ \A m \in GraphNodes \ {n} : node_array'[m] = node_array[m]
  <2>1. node_array \in [GraphNodes -> [first_edge : Nat \ {0}, edges : Nat]]
    BY <1>1, Zenon DEF Types
  <2> QED BY <1>5, <1>9, <2>1, Zenon DEF BeginEdges
<1>11. /\ deleting'[th] = IdleThread
       /\ \A other \in GraphThreads : other # th => deleting'[other] = deleting[other]
  BY <1>1, Zenon DEF Types
<1>12. Types'
  BY <1>1, <1>10, Zenon DEF Types
<1>13. IdleThread.source = 0 /\ n # 0
  BY Nodes, Zenon DEF IdleThread
<1>14. Elsewhere(n)
  BY <1>1, <1>3, <1>4, <1>10, <1>11, <1>13 DEF Elsewhere
<1>15. BeginEdges(n)' = BeginEdges(n) /\ EndEdges(n)' = d.i /\ EdgeRange(n)' = BeginEdges(n) .. d.i - 1
  <2>1. BeginEdges(n)' = BeginEdges(n)
        /\ EndEdges(n)' = BeginEdges(n) + (node_array[n].edges - d.deleted)
    BY <1>10, Zenon DEF BeginEdges, EndEdges
  <2>2. BeginEdges(n) + (node_array[n].edges - d.deleted) = d.i
    BY <1>6, <1>7, <1>8
  <2> QED BY <2>1, <2>2, Zenon DEF EdgeRange
<1>16. Blocks'
  <2>1. d.i <= EndEdges(n) /\ EndEdges(n) \in Int
    BY <1>6, <1>7, <1>8
  <2>2. EdgeRange(n)' \subseteq EdgeRange(n)
    BY <1>6, <1>8, <1>15, <2>1 DEF EdgeRange
  <2> QED BY <1>1, <1>6, <1>14, <1>15, <2>1, <2>2, BlocksShrink
<1>17. \A other \in GraphThreads : deleting'[other].source # n
  BY <1>6, <1>11, <1>13, Zenon
<1>18. (Filled(n) /\ Contents(n))'
  <2>1. Live(n) = BeginEdges(n) .. d.i - 1
    BY <1>6, <1>7, Zenon
  <2>2. Live(n)' = Live(n)
    BY <1>15, <1>17, <2>1, Zenon DEF Live
  <2>3. \A e \in Live(n) : ~Doomed(n, e)
    BY <1>6, <2>1, Zenon DEF Doomed
  <2>4. \A e : ~Doomed(n, e)'
    BY <1>17, Zenon DEF Doomed, Marked
  <2>5. Filled(n) /\ Contents(n)
    BY Zenon DEF GInv
  <2>6. Filled(n)'
    BY <1>1, <2>2, <2>5, Zenon DEF Filled
  <2>7. Contents(n)'
    BY <1>1, <2>2, <2>3, <2>4, <2>5 DEF Contents
  <2> QED BY <2>6, <2>7, Zenon
<1>19. Calls'
  <2> SUFFICES ASSUME NEW o \in GraphThreads, deleting'[o] # IdleThread,
                      NEW c, c = deleting'[o], NEW m, m = c.source
               PROVE  /\ c.iend = EndEdges(m)'
                      /\ BeginEdges(m)' <= c.i /\ c.i <= c.iend - c.deleted /\ c.deleted >= 0
                      /\ \A e \in BeginEdges(m)' .. c.i - 1 : edge_list'[e].target # c.target
                      /\ \A other \in GraphThreads : deleting'[other].source = m => other = o
    BY DEF Calls, BeginEdges, EndEdges
  <2>1. o # th
    BY <1>11, Zenon
  <2>2. c = deleting[o] /\ c \in Call /\ m \in GraphNodes /\ m # n
    BY <1>1, <1>6, <1>11, <2>1, AtNode
  <2> QED BY <1>14, <2>2, ElsewhereCalls
<1>20. ASSUME NEW m \in GraphNodes PROVE (Filled(m) /\ Contents(m))'
  BY <1>14, <1>18, ElsewhereKept, Zenon
<1> QED BY <1>12, <1>16, <1>19, <1>20 DEF GInv


(* One round of the loops of DeleteEdgesTo: the thread looks past an edge,   *)
(* or fills the place of one with the last that is left.                     *)
LEMMA LoopStep ==
  ASSUME GInv, NEW th \in GraphThreads, DeleteLoop(th)
  PROVE  GInv'
<1>1. /\ Types /\ deleting[th] # IdleThread
      /\ node_array' = node_array /\ inserts' = inserts /\ edgesOf' = edgesOf
  BY Zenon DEF GInv, DeleteLoop
<1>2. deleting[th] \in Call /\ deleting[th].source \in GraphNodes
  BY <1>1, AtNode
<1>3. PICK d \in Call : d = deleting[th]
  BY <1>2
<1>4. PICK n \in GraphNodes : n = d.source
  BY <1>2, <1>3
<1>5. AtWork(th, d, n)
  BY <1>3, <1>4, ThreadAt
<1>6. PICK last \in Int : last = d.iend - d.deleted - 1
  BY <1>5 DEF AtWork
<1>7. /\ d.i <= last
      /\ \/ /\ edge_list[d.i].target = d.target
            /\ edge_list' = [[edge_list EXCEPT ![d.i] = edge_list[last]] EXCEPT ![last] = Gap]
            /\ deleting' = [deleting EXCEPT ![th].deleted = @ + 1]
         \/ /\ edge_list[d.i].target # d.target
            /\ deleting' = [deleting EXCEPT ![th].i = @ + 1]
            /\ edge_list' = edge_list
  BY <1>3, <1>5, <1>6 DEF DeleteLoop, FilledFrom, makeDummy, AtWork
<1>8. PICK b \in Nat \ {0} : b = BeginEdges(n)
  BY <1>1, BlockTypes, Zenon
<1>9. \A m \in GraphNodes : /\ BeginEdges(m)' = BeginEdges(m) /\ EndEdges(m)' = EndEdges(m)
                            /\ EdgeRange(m)' = EdgeRange(m)
  BY <1>1, Zenon DEF BeginEdges, EndEdges, EdgeRange
<1>10. /\ Live(n) = b .. last
       /\ \A t : Marked(n, t) <=> t = d.target
       /\ \A other \in GraphThreads : deleting[other].source = n <=> other = th
       /\ d.iend = EndEdges(n) /\ d.iend \in Int
       /\ b <= d.i /\ d.i \in Int /\ d.deleted \in Nat
       /\ \A e \in b .. d.i - 1 : edge_list[e].target # d.target
  BY <1>5, <1>6, <1>8 DEF AtWork
<1>11. /\ last \in 1 .. Len(edge_list) /\ last \in Nat /\ d.i \in b .. last /\ d.i \in 1 .. Len(edge_list)
       /\ EdgeRange(n) = b .. EndEdges(n) - 1 /\ b .. last \subseteq EdgeRange(n)
  <2>1. EndEdges(n) <= Len(edge_list) + 1 /\ EndEdges(n) \in Nat /\ Len(edge_list) \in Nat
    BY BlockTypes, LenProperties, Zenon DEF GInv, Blocks, Types
  <2> QED BY <1>6, <1>7, <1>8, <1>10, <2>1 DEF EdgeRange
\* What both cases share: the call of the thread and the cells after the step.
<1>12. ASSUME NEW c \in Call, c.source = n, c.target = d.target, c.iend = d.iend,
              deleting' = [deleting EXCEPT ![th] = c],
              c.i <= c.iend - c.deleted, c.deleted >= 0, b <= c.i,
              edge_list' \in Seq(EdgeType \cup {Gap}), Len(edge_list') = Len(edge_list),
              \A j \in 1 .. Len(edge_list) : j \notin b .. last => edge_list'[j] = edge_list[j],
              \A e \in b .. c.i - 1 : edge_list'[e].target # d.target,
              Live(n)' = b .. c.iend - c.deleted - 1 =>
                ((\A t : Marked(n, t)' <=> Marked(n, t)) => (Filled(n) /\ Contents(n))')
       PROVE  GInv'
  <2>1. /\ deleting'[th] = c
        /\ \A other \in GraphThreads : other # th => deleting'[other] = deleting[other]
        /\ deleting' \in [GraphThreads -> Call \cup {IdleThread}]
    BY <1>1, <1>12, Zenon DEF Types
  <2>2. Types'
    BY <1>1, <1>12, <2>1 DEF Types
  <2>3. Elsewhere(n)
    <3>1. ASSUME NEW m \in GraphNodes \ {n}, NEW j \in EdgeRange(m) PROVE edge_list'[j] = edge_list[j]
      <4>1. j \notin EdgeRange(n)
        BY Zenon DEF GInv, Blocks
      <4>2. BeginEdges(m) \in Nat \ {0} /\ EndEdges(m) \in Nat /\ j \in Nat
            /\ j >= BeginEdges(m) /\ j < EndEdges(m)
        BY <1>1, BlockTypes, Zenon
      <4>3. EndEdges(m) <= Len(edge_list) + 1 /\ Len(edge_list) \in Nat
        BY LenProperties, Zenon DEF GInv, Blocks, Types
      <4>4. j \in 1 .. Len(edge_list) /\ j \notin b .. last
        BY <1>11, <4>1, <4>2, <4>3
      <4> QED BY <1>12, <4>4, Zenon
    <3> QED BY <1>1, <1>3, <1>4, <1>12, <2>1, <3>1 DEF Elsewhere
  <2>4. Blocks'
    BY <1>1, <1>9, <1>12, Zenon DEF GInv, Blocks
  <2>5. \A other \in GraphThreads : deleting'[other].source = n <=> other = th
    BY <1>10, <1>12, <2>1
  <2>6. c.i \in Int /\ c.iend \in Int /\ c.deleted \in Int
    BY Zenon DEF Call
  <2>7. Live(n)' = b .. c.iend - c.deleted - 1
    <3>1. Live(n)' = {e \in EdgeRange(n) : e < c.iend - c.deleted}
      BY <1>9, <2>1, <2>5, Zenon DEF Live
    <3>2. EndEdges(n) \in Nat
      BY <1>1, BlockTypes, Zenon
    <3> QED BY <1>10, <1>11, <1>12, <2>6, <3>1, <3>2
  <2>8. \A t : Marked(n, t)' <=> Marked(n, t)
    BY <1>10, <1>12, <2>1, <2>5 DEF Marked
  <2>9. Calls'
    <3> SUFFICES ASSUME NEW o \in GraphThreads, deleting'[o] # IdleThread,
                        NEW f, f = deleting'[o], NEW m, m = f.source
                 PROVE  /\ f.iend = EndEdges(m)'
                        /\ BeginEdges(m)' <= f.i /\ f.i <= f.iend - f.deleted /\ f.deleted >= 0
                        /\ \A e \in BeginEdges(m)' .. f.i - 1 : edge_list'[e].target # f.target
                        /\ \A other \in GraphThreads : deleting'[other].source = m => other = o
      BY DEF Calls, BeginEdges, EndEdges
    <3>1. CASE o = th
      <4>1. f = c /\ m = n
        BY <1>12, <2>1, <3>1, Zenon
      <4> QED BY <1>8, <1>9, <1>10, <1>12, <2>5, <3>1, <4>1
    <3>2. CASE o # th
      <4>1. f = deleting[o] /\ f \in Call /\ m \in GraphNodes /\ m # n
        BY <1>1, <1>10, <2>1, <3>2, AtNode, Zenon
      <4> QED BY <2>3, <4>1, ElsewhereCalls
    <3> QED BY <3>1, <3>2, Zenon
  <2>10. ASSUME NEW m \in GraphNodes PROVE (Filled(m) /\ Contents(m))'
    BY <1>12, <2>3, <2>7, <2>8, ElsewhereKept
  <2> QED BY <2>2, <2>4, <2>9, <2>10, Zenon DEF GInv
<1>13. CASE /\ edge_list[d.i].target = d.target
            /\ edge_list' = [[edge_list EXCEPT ![d.i] = edge_list[last]] EXCEPT ![last] = Gap]
            /\ deleting' = [deleting EXCEPT ![th].deleted = @ + 1]
  <2>1. PICK c : c = [d EXCEPT !.deleted = @ + 1]
    BY Zenon
  <2>2. /\ c \in Call /\ c.source = n /\ c.target = d.target /\ c.iend = d.iend /\ c.i = d.i
        /\ c.deleted = d.deleted + 1
    BY <1>4, <1>10, <2>1 DEF Call
  <2>3. deleting' = [deleting EXCEPT ![th] = c]
    BY <1>3, <1>13, <2>1, Zenon
  <2> HIDE <2>1
  <2> DEFINE C == EdgeType \cup {Gap}
  <2>4. edge_list \in Seq(C) /\ Gap \in C
    BY <1>1, Zenon DEF Types
  <2> HIDE DEF C
  <2>5. edge_list' \in Seq(C) /\ LastFilled(edge_list, edge_list', b, last, d.i)
    <3>1. PICK i \in b .. last : i = d.i
      BY <1>11, Zenon
    <3>2. /\ edge_list' = [[edge_list EXCEPT ![i] = edge_list[last]] EXCEPT ![last] = Gap]
          /\ last \in 1 .. Len(edge_list)
      BY <1>11, <1>13, <3>1, Zenon
    <3>3. edge_list' \in Seq(C) /\ LastFilled(edge_list, edge_list', b, last, i)
      BY ONLY <2>4, <3>2, LastFills, i \in b .. last, b \in Nat \ {0}
    <3> QED BY <3>1, <3>3, Zenon
  <2>6. c.iend - c.deleted - 1 = last - 1 /\ c.i <= c.iend - c.deleted /\ c.deleted >= 0 /\ b <= c.i
    BY <1>6, <1>7, <1>10, <2>2
  <2>7. \A e \in b .. c.i - 1 : edge_list'[e].target # d.target
    <3> TAKE e \in b .. c.i - 1
    <3>1. e \in b .. last - 1 /\ e # d.i /\ e \in b .. d.i - 1
      BY <1>7, <1>10, <2>2
    <3>2. edge_list'[e] = edge_list[e]
      BY <2>5, <3>1, Zenon DEF LastFilled
    <3> QED BY <1>10, <3>1, <3>2, Zenon
  <2>8. Doomed(n, d.i)
    BY <1>10, <1>13, Zenon DEF Doomed
  <2>9. ASSUME Live(n)' = b .. last - 1, \A t : Marked(n, t)' <=> Marked(n, t)
        PROVE  (Filled(n) /\ Contents(n))'
    BY <1>1, <1>10, <1>11, <2>5, <2>8, <2>9, Dropped
  <2>10. edge_list' \in Seq(EdgeType \cup {Gap})
    BY <2>5, Zenon DEF C
  <2>11. /\ Len(edge_list') = Len(edge_list)
         /\ \A j \in 1 .. Len(edge_list) : j \notin b .. last => edge_list'[j] = edge_list[j]
    BY <2>5, Zenon DEF LastFilled
  <2>12. Live(n)' = b .. c.iend - c.deleted - 1 =>
           ((\A t : Marked(n, t)' <=> Marked(n, t)) => (Filled(n) /\ Contents(n))')
    BY <2>6, <2>9, Zenon
  <2> QED BY <1>12, <2>2, <2>3, <2>6, <2>7, <2>10, <2>11, <2>12
<1>14. CASE /\ edge_list[d.i].target # d.target
            /\ deleting' = [deleting EXCEPT ![th].i = @ + 1]
            /\ edge_list' = edge_list
  <2>1. PICK c : c = [d EXCEPT !.i = @ + 1]
    BY Zenon
  <2>2. /\ c \in Call /\ c.source = n /\ c.target = d.target /\ c.iend = d.iend /\ c.i = d.i + 1
        /\ c.deleted = d.deleted
    BY <1>4, <1>10, <2>1 DEF Call
  <2>3. deleting' = [deleting EXCEPT ![th] = c]
    BY <1>3, <1>14, <2>1, Zenon
  <2> HIDE <2>1
  <2>4. c.iend - c.deleted - 1 = last /\ c.i <= c.iend - c.deleted /\ c.deleted >= 0 /\ b <= c.i
    BY <1>6, <1>7, <1>10, <2>2
  <2>5. \A e \in b .. c.i - 1 : edge_list'[e].target # d.target
    <3> TAKE e \in b .. c.i - 1
    <3>1. e = d.i \/ e \in b .. d.i - 1
      BY <1>10, <2>2
    <3> QED BY <1>10, <1>14, <3>1, Zenon
  <2>6. ASSUME Live(n)' = b .. last, \A t : Marked(n, t)' <=> Marked(n, t)
        PROVE  (Filled(n) /\ Contents(n))'
    <3>1. Filled(n) /\ Contents(n)
      BY Zenon DEF GInv
    <3>2. Live(n)' = Live(n) /\ \A e : Doomed(n, e)' <=> Doomed(n, e)
      BY <1>10, <1>14, <2>6 DEF Doomed
    <3>3. Filled(n)'
      BY <1>1, <1>14, <3>1, <3>2 DEF Filled
    <3>4. Contents(n)'
      BY <1>1, <1>14, <3>1, <3>2 DEF Contents
    <3> QED BY <3>3, <3>4, Zenon
  <2>7. edge_list' \in Seq(EdgeType \cup {Gap})
    BY <1>1, <1>14, Zenon DEF Types
  <2>8. Live(n)' = b .. c.iend - c.deleted - 1 =>
          ((\A t : Marked(n, t)' <=> Marked(n, t)) => (Filled(n) /\ Contents(n))')
    BY <2>4, <2>6, Zenon
  <2> QED BY <1>12, <1>14, <2>2, <2>3, <2>4, <2>5, <2>7, <2>8
<1> QED BY <1>7, <1>13, <1>14


-----------------------------------------------------------------------------
(* Every step keeps the invariant.                                         *)
LEMMA GStep ==
  ASSUME GInv, [GraphStep]_graphVars
  PROVE  GInv'
<1>1. ASSUME NEW n \in GraphNodes, NEW k \in GraphNodes, InsertEdge(n, k) PROVE GInv'
  BY <1>1, InsertStep, Zenon
<1>2. ASSUME NEW n \in GraphNodes, NEW e \in EdgeRange(n), DeleteEdge(n, e) PROVE GInv'
  BY <1>2, DeleteStep, Zenon
<1>7. ASSUME NEW n \in GraphNodes, NEW e \in EdgeRange(n), DeleteBoth(n, e) PROVE GInv'
  BY <1>7, DeleteBothStep, Zenon
<1>3. ASSUME NEW th \in GraphThreads, NEW n \in GraphNodes, NEW k \in GraphNodes,
             StartDelete(th, n, k)
      PROVE  GInv'
  BY <1>3, StartStep, Zenon
<1>4. ASSUME NEW th \in GraphThreads, DeleteLoop(th) PROVE GInv'
  BY <1>4, LoopStep, Zenon
<1>5. ASSUME NEW th \in GraphThreads, EndDelete(th) PROVE GInv'
  BY <1>5, EndStep, Zenon
<1>6. CASE UNCHANGED graphVars
  <2>1. /\ node_array' = node_array /\ edge_list' = edge_list /\ deleting' = deleting
        /\ inserts' = inserts /\ edgesOf' = edgesOf
    BY <1>6, Zenon DEF graphVars
  <2>2. \A n \in GraphNodes : /\ BeginEdges(n)' = BeginEdges(n) /\ EndEdges(n)' = EndEdges(n)
                              /\ EdgeRange(n)' = EdgeRange(n)
    BY <2>1, Zenon DEF EdgeRange, BeginEdges, EndEdges
  <2>3. Types' /\ Blocks'
    BY <2>1, <2>2, Zenon DEF GInv, Types, Blocks
  <2>4. Calls'
    BY <2>1, Zenon DEF GInv, Calls, BeginEdges, EndEdges
  <2>5. ASSUME NEW n \in GraphNodes PROVE Filled(n)' /\ Contents(n)'
    <3>1. Live(n)' = Live(n)
      BY <2>1, <2>2, Zenon DEF Live
    <3>2. \A e : Doomed(n, e)' <=> Doomed(n, e)
      BY <2>1, Zenon DEF Doomed, Marked
    <3>3. Filled(n)'
      BY <2>1, <3>1, Zenon DEF GInv, Filled
    <3>4. Contents(n)'
      BY <2>1, <3>1, <3>2 DEF GInv, Contents
    <3> QED BY <3>3, <3>4, Zenon
  <2> QED BY <2>3, <2>4, <2>5, Zenon DEF GInv
<1> QED BY <1>1, <1>2, <1>3, <1>4, <1>5, <1>6, <1>7 DEF GraphStep

(* The block of a node no thread is at holds its edges, each once.           *)
LEMMA BlockHolds ==
  ASSUME GInv, NEW n \in GraphNodes, \A th \in GraphThreads : deleting[th].source # n
  PROVE  /\ \A e \in EdgeRange(n) : edge_list[e] \in edgesOf[n] /\ edge_list[e] \in EdgeType
         /\ \A x \in edgesOf[n] : \E e \in EdgeRange(n) : edge_list[e] = x
         /\ node_array[n].edges = Cardinality(edgesOf[n])
<1>1. Types /\ Filled(n) /\ Contents(n)
  BY Zenon DEF GInv
<1>2. Live(n) = EdgeRange(n) /\ \A e : ~Doomed(n, e)
  BY <1>1, WholeBlock, Zenon
<1>3. /\ \A e \in EdgeRange(n) : edge_list[e] \in edgesOf[n] /\ edge_list[e] \in EdgeType
      /\ \A x \in edgesOf[n] : \E e \in EdgeRange(n) : edge_list[e] = x
      /\ \A e, f \in EdgeRange(n) : edge_list[e] = edge_list[f] => e = f
  BY <1>1, <1>2 DEF Filled, Contents
<1>4. ExistsBijection(EdgeRange(n), edgesOf[n])
  <2> DEFINE h == [e \in EdgeRange(n) |-> edge_list[e]]
  <2>1. h \in [EdgeRange(n) -> edgesOf[n]]
    BY <1>3, Zenon
  <2>2. \A e, f \in EdgeRange(n) : h[e] = h[f] => e = f
    BY <1>3, Zenon
  <2>3. \A x \in edgesOf[n] : \E e \in EdgeRange(n) : h[e] = x
    BY <1>3, Zenon
  <2> HIDE DEF h
  <2>4. h \in Injection(EdgeRange(n), edgesOf[n]) /\ h \in Surjection(EdgeRange(n), edgesOf[n])
    BY <2>1, <2>2, <2>3, Zenon DEF Injection, IsInjective, Surjection
  <2> QED BY <2>4, Zenon DEF ExistsBijection, Bijection
<1>5. /\ BeginEdges(n) \in Nat \ {0} /\ node_array[n].edges \in Nat
      /\ EndEdges(n) = BeginEdges(n) + node_array[n].edges
  BY <1>1, BlockTypes, Zenon
<1>6. IsFiniteSet(EdgeRange(n)) /\ Cardinality(EdgeRange(n)) = node_array[n].edges
  <2>1. BeginEdges(n) \in Int /\ EndEdges(n) - 1 \in Int
    BY <1>5
  <2>2. /\ IsFiniteSet(EdgeRange(n))
        /\ Cardinality(EdgeRange(n)) = IF BeginEdges(n) > EndEdges(n) - 1 THEN 0
                                       ELSE EndEdges(n) - 1 - BeginEdges(n) + 1
    BY <2>1, FS_Interval, Zenon DEF EdgeRange
  <2> QED BY <1>5, <2>2
<1>7. Cardinality(edgesOf[n]) = node_array[n].edges
  BY <1>4, <1>6, FS_Bijection, Zenon
<1> QED BY <1>3, <1>7, Zenon

(* The invariant says what BlocksKept does.                                *)
LEMMA BlocksKeptBase ==
  ASSUME GInv
  PROVE  BlocksKept
<1> SUFFICES ASSUME NEW n \in GraphNodes, \A th \in GraphThreads : deleting[th].source # n
             PROVE  /\ {edge_list[e] : e \in EdgeRange(n)} = edgesOf[n]
                    /\ node_array[n].edges = Cardinality(edgesOf[n])
                    /\ \A k \in GraphNodes :
                         LET weights == {e.data : e \in {e \in edgesOf[n] : e.target = k}}
                         IN  /\ (FirstEdgeTo(n, k) = {}) = (weights = {})
                             /\ \A e \in SmallestEdgeTo(n, k) : edge_list[e].data = Min(weights)
  BY Zenon DEF BlocksKept
<1>1. /\ \A e \in EdgeRange(n) : edge_list[e] \in edgesOf[n] /\ edge_list[e] \in EdgeType
      /\ \A x \in edgesOf[n] : \E e \in EdgeRange(n) : edge_list[e] = x
      /\ node_array[n].edges = Cardinality(edgesOf[n])
  BY BlockHolds, Zenon
<1>2. {edge_list[e] : e \in EdgeRange(n)} = edgesOf[n]
  BY <1>1
<1>3. EdgeRange(n) \subseteq Nat
  BY BlockTypes, Zenon DEF GInv
<1>4. ASSUME NEW k \in GraphNodes,
             NEW weights, weights = {e.data : e \in {e \in edgesOf[n] : e.target = k}}
      PROVE  /\ (FirstEdgeTo(n, k) = {}) = (weights = {})
             /\ \A e \in SmallestEdgeTo(n, k) : edge_list[e].data = Min(weights)
  <2> DEFINE to == {e \in EdgeRange(n) : edge_list[e].target = k}
  <2>1. \A w : w \in weights <=> \E e \in to : w = edge_list[e].data
    BY <1>1, <1>4
  <2>2. to = {} <=> weights = {}
    BY <2>1, Zenon
  <2>3. FirstEdgeTo(n, k) = {} => to = {}
    <3> SUFFICES ASSUME to # {} PROVE FirstEdgeTo(n, k) # {}
      BY Zenon
    <3>1. to \in SUBSET Nat
      BY <1>3, Zenon
    <3>2. PICK x \in to : \A y \in to : x <= y
      <4> HIDE DEF to
      <4> QED BY <3>1, Least, Zenon
    <3>3. x \in FirstEdgeTo(n, k)
      <4>1. ASSUME NEW y \in EdgeRange(n), y < x PROVE edge_list[y].target # k
        BY <1>3, <3>2, <4>1
      <4> QED BY <3>2, <4>1, Zenon DEF FirstEdgeTo
    <3> QED BY <3>3, Zenon
  <2>4. to = {} => FirstEdgeTo(n, k) = {}
    BY Zenon DEF FirstEdgeTo
  <2>5. \A w \in weights : w \in Int
    BY <1>1, <2>1 DEF EdgeType
  <2>6. ASSUME NEW e \in SmallestEdgeTo(n, k) PROVE edge_list[e].data = Min(weights)
    <3>1. e \in to /\ \A d \in to : edge_list[e].data <= edge_list[d].data
      BY Zenon DEF SmallestEdgeTo
    <3>2. PICK w : w = edge_list[e].data
      BY Zenon
    <3>3. w \in weights /\ \A v \in weights : w <= v
      BY <2>1, <3>1, <3>2
    <3>4. Min(weights) \in weights /\ \A v \in weights : Min(weights) <= v
      BY <3>3, Zenon DEF Min
    <3> QED BY <2>5, <3>2, <3>3, <3>4
  <2> QED BY <2>2, <2>3, <2>4, <2>6, Zenon
<1> QED BY <1>1, <1>2, <1>4, Zenon

(* For every graph to start from, any threads and any number of insertions:  *)
(* wherever DynamicGraph has moved the blocks of its edge array, the block   *)
(* of a node holds its edges and the searches find them.                     *)
THEOREM EdgesStay == GraphSpec => []BlocksKept
<1>1. GraphInit => GInv
  BY InitGInv, Zenon
<1>2. GInv /\ [GraphStep]_graphVars => GInv'
  BY GStep, Zenon
<1>3. GInv => BlocksKept
  BY BlocksKeptBase, Zenon
<1> QED BY <1>1, <1>2, <1>3, PTL DEF GraphSpec
=============================================================================
