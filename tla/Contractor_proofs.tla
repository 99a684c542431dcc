-------------------------- MODULE Contractor_proofs --------------------------
(***************************************************************************)
(* The rounds of the contractor, for every graph, every order of the nodes *)
(* and any number of nodes: a round has something to contract, no two      *)
(* nodes of it have a neighbour in common, so that the loops over them may *)
(* run in parallel, and the levels are an order of contraction.            *)
(*                                                                         *)
(* The second half prepares Hierarchy_proofs: walks and what From computes *)
(* of them, hierarchies as sets of records, what a witness search shows,   *)
(* and that the steps of a round other than the contraction of a node keep *)
(* the hierarchy DInv.                                                     *)
(***************************************************************************)
EXTENDS Contractor, WellFoundedInduction, FiniteSetTheorems, TLAPS

(* A non-empty set of natural numbers has a least element: the first node  *)
(* by priority, or the first round of a search where something fails.      *)
LEMMA Least ==
  ASSUME NEW S \in SUBSET Nat, S # {}
  PROVE  \E x \in S : \A y \in S : x <= y
<1>1. IsWellFoundedOn(OpToRel(<, Nat), Nat)
  BY NatLessThanWellFounded
<1>2. PICK R : /\ IsWellFoundedOn(R, Nat)
               /\ \A x, y \in Nat : x < y => <<x, y>> \in R
  <2>1. \A x, y \in Nat : x < y => <<x, y>> \in OpToRel(<, Nat)
    BY DEF OpToRel
  <2> QED BY <1>1, <2>1, Zenon
<1>3. \E x \in S : \A y \in S : ~ (<<y, x>> \in R)
  <2>1. S \subseteq Nat
    OBVIOUS
  <2>2. IsWellFoundedOn(R, Nat)
    BY <1>2
  <2>3. S # {}
    OBVIOUS
  <2> QED BY ONLY <2>1, <2>2, <2>3, WFMin
<1>4. PICK x \in S : \A y \in S : ~ (<<y, x>> \in R)
  BY <1>3
<1>5. \A y \in S : ~ (y < x)
  <2> TAKE y \in S
  <2>1. x \in Nat /\ y \in Nat
    OBVIOUS
  <2>2. ~ (<<y, x>> \in R)
    BY <1>4
  <2> QED BY <2>1, <2>2, <1>2, Zenon
<1> QED BY <1>5

(* What holds of 0, and of a number up to n when it holds of the one       *)
(* before, holds of all numbers up to n: loops that count.                 *)
LEMMA Counting ==
  ASSUME NEW n \in Nat, NEW S, 0 \in S, \A k \in 1 .. n : k - 1 \in S => k \in S
  PROVE  \A k \in 0 .. n : k \in S
<1> DEFINE Bad == {k \in 0 .. n : k \notin S}
<1> SUFFICES ASSUME Bad # {} PROVE FALSE
  BY Zenon
<1>1. Bad \in SUBSET Nat
  BY SMT
<1>2. PICK k \in Bad : \A m \in Bad : k <= m
  BY <1>1, Least, Zenon
<1>3. k \in 0 .. n /\ k \notin S /\ k # 0
  BY <1>2, Zenon
<1>4. k \in 1 .. n /\ k - 1 \in 0 .. n /\ ~(k <= k - 1)
  BY <1>3, SMT
<1>5. k - 1 \in S
  BY <1>2, <1>4, Zenon
<1> QED BY <1>3, <1>4, <1>5, Zenon

USE Zenon

EdgeType == [target : Node, distance : Nat, id : Node, shortcut : BOOLEAN,
             forward : BOOLEAN, backward : BOOLEAN, is_original_via_node_ID : BOOLEAN]

Targets(g, u) == {e.target : e \in g[u]}

\* Where the shortcuts of u that wait for insertion lead.
Pending(ins, u) == {s.edge.target : s \in {t \in ins : t.source = u}}

\* The independent nodes no edge leads to any more.
Gone == IF pc = "delete" THEN independent \ todo
        ELSE IF pc \in {"insert", "update"} THEN independent ELSE {}

\* The remaining nodes R know each other from both ends, counting the
\* shortcuts that wait.
Mutual(g, R, gone, ins) ==
  /\ \A u \in R : Targets(g, u) \subseteq R \ (gone \cup {u})
  /\ \A u, v \in R \ gone :
        v \in Targets(g, u) \cup Pending(ins, u) => u \in Targets(g, v) \cup Pending(ins, v)

Apart(g, I) ==
  \A x, y \in I : y \notin Targets(g, x) /\ (x # y => Targets(g, x) \cap Targets(g, y) = {})

\* A waiting shortcut joins two neighbours of a node of this round.
Bridging(g, I, ins) ==
  \A s \in ins : /\ s \in [source : Node, edge : EdgeType] /\ s.source # s.edge.target
                 /\ \E x \in I : s.source \in Targets(g, x) /\ s.edge.target \in Targets(g, x)

\* s lists different elements of D.
Lists(s, D) ==
  /\ Len(s) \in Nat /\ s \in [1 .. Len(s) -> D]
  /\ \A i, j \in 1 .. Len(s) : s[i] = s[j] => i = j

Sized ==
  /\ job \in Jobs /\ DOMAIN graph \subseteq Node
  /\ graph \in [DOMAIN graph -> SUBSET EdgeType] /\ priority \in [DOMAIN graph -> Nat]
  /\ Lists(remaining, DOMAIN graph)
  /\ contracted \in Nat /\ Len(remaining) + contracted = NumNodes

Rounds ==
  /\ pc \in {"loop", "contract", "delete", "insert", "update", "done"}
  /\ independent \subseteq Remaining /\ todo \subseteq independent
  /\ pc \in {"loop", "done"} <=> independent = {}
  /\ pc \in {"loop", "done", "update"} => inserted = {}

CInv ==
  /\ Sized /\ Rounds
  /\ Mutual(graph, Remaining, Gone, inserted)
  /\ Apart(graph, independent)
  /\ Bridging(graph, independent, inserted)

-----------------------------------------------------------------------------
(* The witness search.                                                     *)

(* The smallest of some natural numbers is one of them.                    *)
LEMMA MinIsLeast ==
  ASSUME NEW S \in SUBSET Nat, S # {}
  PROVE  Min(S) \in S /\ \A y \in S : Min(S) <= y
BY Least DEF Min

(* The key of a node is its lowest label, or IntMax.                       *)
LEMMA KeyIsLeast ==
  ASSUME NEW labels, NEW v, \A l \in labels : l[2] \in Nat
  PROVE  /\ Key(labels, v) \in Nat /\ Key(labels, v) <= IntMax
         /\ \A l \in labels : l[1] = v => Key(labels, v) <= l[2]
         /\ Key(labels, v) = IntMax \/ \E l \in labels : l[1] = v /\ Key(labels, v) = l[2]
<1> DEFINE S == {IntMax} \cup {l[2] : l \in {l \in labels : l[1] = v}}
<1>1. S \in SUBSET Nat /\ S # {} /\ IntMax \in Nat
  BY SizeAssumption
<1>2. Min(S) \in S /\ \A y \in S : Min(S) <= y
  BY <1>1, MinIsLeast
<1>3. Key(labels, v) = Min(S)
  BY DEF Key
<1> QED BY <1>1, <1>2, <1>3

\* The nodes R have edges to each other only.
Closed(g, R) == \A u \in R : g[u] \subseteq EdgeType /\ Targets(g, u) \subseteq R

\* The heap before the search, what Dijkstra does to it for the node it takes
\* out, and one pass of its loop.
Opening(source) == [labels |-> {<<source, 0>>}, settled |-> {}, stopped |-> FALSE]

Settling(g, targets, max_distance, middleNode, s, n) ==
  LET settled == s.settled \cup {n}
  IN  IF Key(s.labels, n) > max_distance
      THEN [s EXCEPT !.stopped = TRUE]
      ELSE IF n \in targets /\ targets \subseteq settled
      THEN [s EXCEPT !.settled = settled, !.stopped = TRUE]
      ELSE [s EXCEPT !.settled = settled,
                     !.labels = Relax(g, n, middleNode, @)]

Pass(g, targets, max_distance, middleNode, s) ==
  LET open == {l \in s.labels : l[1] \notin s.settled}
  IN  IF s.stopped \/ open = {} THEN s
      ELSE Settling(g, targets, max_distance, middleNode, s,
                    (CHOOSE l \in open : \A m \in open : l[2] <= m[2])[1])

\* f holds the passes of a search.
Passes(g, source, targets, max_distance, middleNode, f) ==
  /\ f[0] = Opening(source)
  /\ \A k \in 1 .. job.max_settled : f[k] = Pass(g, targets, max_distance, middleNode, f[k - 1])

Searched(g, source, targets, max_distance, middleNode) ==
  \E f : /\ Dijkstra(g, source, targets, max_distance, middleNode) = f[job.max_settled].labels
         /\ Passes(g, source, targets, max_distance, middleNode, f)

(* A search makes its passes one after the other.                          *)
LEMMA SearchPasses ==
  ASSUME NEW g, NEW source, NEW targets, NEW max_distance, NEW middleNode, job.max_settled \in Nat
  PROVE  Searched(g, source, targets, max_distance, middleNode)
<1> DEFINE M == job.max_settled
           First0 == Opening(source)
           Then(s) == Pass(g, targets, max_distance, middleNode, s)
           Runs(f, n) == f = [k \in 0 .. n |-> IF k = 0 THEN First0 ELSE Then(f[k - 1])]
<1>1. Dijkstra(g, source, targets, max_distance, middleNode) = (CHOOSE f : Runs(f, M))[M].labels
  BY DEF Dijkstra, Opening, Pass, Settling
<1> HIDE DEF Then, First0
<1>2. \A n \in Nat : \E f : Runs(f, n)
  <2> DEFINE Bad == {n \in Nat : ~ \E f : Runs(f, n)}
  <2> SUFFICES ASSUME Bad # {} PROVE FALSE
    OBVIOUS
  <2>1. PICK n \in Bad : \A m \in Bad : n <= m
    BY Least
  <2>2. CASE n = 0
    <3>1. Runs([k \in 0 .. 0 |-> First0], 0)
      BY SMT
    <3> QED BY <2>1, <2>2, <3>1
  <2>3. CASE n # 0
    <3>1. n - 1 \in Nat /\ n - 1 \notin Bad
      <4>1. n \in Nat
        BY <2>1
      <4>2. n - 1 \in Nat /\ ~(n <= n - 1)
        BY ONLY <4>1, <2>3, SMT
      <4> QED BY <2>1, <4>2
    <3>2. PICK f : Runs(f, n - 1)
      BY <3>1
    <3>0. n \in Nat
      BY <2>1
    <3> DEFINE h == [k \in 0 .. n |-> IF k = n THEN Then(f[n - 1]) ELSE f[k]]
    <3>3. Runs(h, n)
      <4>1. /\ n \in Nat /\ 0 \in 0 .. n - 1 /\ n - 1 \in 0 .. n
            /\ \A k \in 0 .. n : k # n => k \in 0 .. n - 1 /\ k - 1 # n /\ (k # 0 => k - 1 \in 0 .. n)
        BY ONLY <3>0, <2>3, SMT
      <4>2. \A k \in 0 .. n - 1 : f[k] = IF k = 0 THEN First0 ELSE Then(f[k - 1])
        BY <3>2
      <4>3. \A k \in 0 .. n : h[k] = IF k = n THEN Then(f[n - 1]) ELSE f[k]
        OBVIOUS
      <4>4. n - 1 # n
        BY ONLY <3>0, SMT
      <4>5. \A k \in 0 .. n : h[k] = IF k = 0 THEN First0 ELSE Then(h[k - 1])
        BY <2>3, <4>1, <4>2, <4>3, <4>4
      <4> QED BY <4>5
    <3> QED BY <2>1, <3>3
  <2> QED BY <2>2, <2>3
<1>3. PICK f : f = (CHOOSE h : Runs(h, M)) /\ Runs(f, M)
  BY <1>2
<1>4. f[0] = First0 /\ \A k \in 1 .. M : f[k] = Then(f[k - 1])
  <2>1. 0 \in 0 .. M /\ \A k \in 1 .. M : k \in 0 .. M /\ k # 0
    BY SMT
  <2>2. \A k \in 0 .. M : f[k] = IF k = 0 THEN First0 ELSE Then(f[k - 1])
    BY <1>3
  <2> QED BY <2>1, <2>2
<1> HIDE DEF Runs
<1> QED BY <1>1, <1>3, <1>4 DEF Searched, Passes, Then, First0

\* The labels of a search are in C, that of its start is among them.
LabelsIn(s, source, C) ==
  /\ "labels" \in DOMAIN s /\ "stopped" \in DOMAIN s
  /\ <<source, 0>> \in s.labels /\ s.labels \subseteq C

\* C has, with a label, what comes of it when an edge is relaxed.
Relaxes(g, R, middleNode, C) ==
  \A n \in R : \A k, d \in Nat : \A e \in g[n] :
     /\ <<n, k>> \in C
     /\ d = k \/ (d = IntMax /\ k >= IntMax)
     /\ e.forward /\ e.target # middleNode
     => <<e.target, d + e.distance>> \in C

(* A pass finds labels of C only, and loses none.                          *)
LEMMA PassLabels ==
  ASSUME NEW g, NEW R, Closed(g, R), NEW source, NEW targets, NEW max_distance,
         NEW middleNode, NEW C \in SUBSET (R \X Nat), Relaxes(g, R, middleNode, C),
         NEW s, LabelsIn(s, source, C)
  PROVE  /\ LabelsIn(Pass(g, targets, max_distance, middleNode, s), source, C)
         /\ s.labels \subseteq Pass(g, targets, max_distance, middleNode, s).labels
<1> DEFINE Settle(t, n) == Settling(g, targets, max_distance, middleNode, t, n)
           Then(t) == Pass(g, targets, max_distance, middleNode, t)
<1> HIDE DEF Settle, Then
<1>1. s.labels \subseteq C /\ <<source, 0>> \in s.labels /\ "labels" \in DOMAIN s /\ "stopped" \in DOMAIN s
  BY DEF LabelsIn
<1>2. Then(s) = s \/ \E l \in s.labels : Then(s) = Settle(s, l[1])
  <2> DEFINE open == {l \in s.labels : l[1] \notin s.settled}
             first == CHOOSE l \in open : \A m \in open : l[2] <= m[2]
  <2>1. Then(s) = IF s.stopped \/ open = {} THEN s ELSE Settle(s, first[1])
    BY DEF Then, Pass, Settle
  <2>2. ASSUME open # {} PROVE first \in s.labels
    <3> DEFINE K == {l[2] : l \in open}
    <3>1. K \in SUBSET Nat /\ K # {}
      BY <1>1, <2>2
    <3>2. PICK k \in K : \A m \in K : k <= m
      BY <3>1, Least
    <3>3. \E l \in open : \A m \in open : l[2] <= m[2]
      BY <3>2
    <3> HIDE DEF open
    <3>4. first \in open
      BY <3>3
    <3> QED BY <3>4 DEF open
  <2> HIDE DEF first, open
  <2> QED BY <2>1, <2>2
<1>3. ASSUME NEW l \in s.labels PROVE LabelsIn(Settle(s, l[1]), source, C) /\ s.labels \subseteq Settle(s, l[1]).labels
  <2> DEFINE n == l[1]
             k == l[2]
             d == Key(s.labels, n)
             new == Relax(g, n, middleNode, s.labels)
  <2>1. s.labels \subseteq new
    BY DEF Relax
  <2>2. n \in R /\ k \in Nat /\ <<n, k>> \in C /\ \A m \in s.labels : m = <<m[1], m[2]>> /\ m[2] \in Nat
    BY <1>1, <1>3, SMT
  <2>3. /\ d \in Nat /\ d <= IntMax /\ d <= k /\ IntMax \in Nat
        /\ d = IntMax \/ \E m \in s.labels : m[1] = n /\ d = m[2]
    BY <2>2, KeyIsLeast, SizeAssumption, SMT
  <2>4. PICK h \in Nat : <<n, h>> \in C /\ (d = h \/ (d = IntMax /\ h >= IntMax))
    <3>1. CASE d = IntMax
      BY <2>2, <2>3, <3>1
    <3>2. CASE \E m \in s.labels : m[1] = n /\ d = m[2]
      <4>1. PICK m \in s.labels : m[1] = n /\ d = m[2]
        BY <3>2
      <4>2. m = <<m[1], m[2]>> /\ m \in C
        BY <1>1, <2>2
      <4>3. <<n, d>> \in C
        BY <4>1, <4>2
      <4> QED BY <2>3, <4>3
    <3> QED BY <2>3, <3>1, <3>2
  <2>5. \A e \in g[n] : e.forward /\ e.target # middleNode => <<e.target, d + e.distance>> \in C
    BY <2>2, <2>3, <2>4 DEF Relaxes
  <2>6. new \subseteq C
    BY <1>1, <2>5 DEF Relax
  <2> HIDE DEF new, n, k, d
  <2>7. Settle(s, n).labels \in {s.labels, new} /\ "labels" \in DOMAIN Settle(s, n) /\ "stopped" \in DOMAIN Settle(s, n)
    BY <1>1 DEF Settle, Settling, new
  <2>8. LabelsIn(Settle(s, n), source, C) /\ s.labels \subseteq Settle(s, n).labels
    BY <1>1, <2>1, <2>6, <2>7 DEF LabelsIn
  <2> QED BY <2>8 DEF n
<1>4. LabelsIn(Then(s), source, C) /\ s.labels \subseteq Then(s).labels
  BY <1>2, <1>3
<1> QED BY <1>4 DEF Then

(* What holds of the start of a witness search and of the relaxation of an *)
(* edge holds of all the labels of a search, for however long it runs, and *)
(* the start keeps its label.                                              *)
LEMMA PassesHave ==
  ASSUME NEW g, NEW R, Closed(g, R), NEW source \in R, NEW targets, NEW max_distance,
         NEW middleNode, job.max_settled \in Nat, NEW C \in SUBSET (R \X Nat), <<source, 0>> \in C,
         Relaxes(g, R, middleNode, C), NEW f, Passes(g, source, targets, max_distance, middleNode, f)
  PROVE  \A k \in 0 .. job.max_settled : LabelsIn(f[k], source, C)
<1> DEFINE M == job.max_settled
           S == {k \in 0 .. M : LabelsIn(f[k], source, C)}
<1>1. f[0] = Opening(source) /\ \A k \in 1 .. M : f[k] = Pass(g, targets, max_distance, middleNode, f[k - 1])
  BY DEF Passes
<1>2. LabelsIn(f[0], source, C)
  <2>1. LabelsIn(Opening(source), source, C)
    BY DEF LabelsIn, Opening
  <2> QED BY <1>1, <2>1
<1>3. 0 \in 0 .. M /\ \A k \in 1 .. M : k \in 0 .. M
  BY SMT
<1>4. ASSUME NEW k \in 1 .. M, k - 1 \in S PROVE k \in S
  <2>1. LabelsIn(f[k - 1], source, C)
    BY <1>4
  <2>2. LabelsIn(Pass(g, targets, max_distance, middleNode, f[k - 1]), source, C)
    BY <2>1, PassLabels
  <2> QED BY <1>1, <1>3, <2>2
<1>5. 0 \in S
  BY <1>2, <1>3
<1>6. \A k \in 0 .. M : k \in S
  BY <1>4, <1>5, Counting
<1> QED BY <1>6

(* The labels of a search, as far as its caller sees them.                 *)
LEMMA SearchLabels ==
  ASSUME NEW g, NEW R, Closed(g, R), NEW source \in R, NEW targets, NEW max_distance,
         NEW middleNode, job.max_settled \in Nat, NEW C \in SUBSET (R \X Nat), <<source, 0>> \in C,
         Relaxes(g, R, middleNode, C)
  PROVE  LET labels == Dijkstra(g, source, targets, max_distance, middleNode)
         IN  <<source, 0>> \in labels /\ labels \subseteq C
<1> DEFINE M == job.max_settled
<1>1. Searched(g, source, targets, max_distance, middleNode)
  BY SearchPasses
<1>2. PICK f : /\ Dijkstra(g, source, targets, max_distance, middleNode) = f[M].labels
               /\ Passes(g, source, targets, max_distance, middleNode, f)
  BY <1>1 DEF Searched
<1>3. \A k \in 0 .. M : LabelsIn(f[k], source, C)
  BY <1>2, PassesHave
<1>4. M \in 0 .. M
  BY SMT
<1> QED BY <1>2, <1>3, <1>4 DEF LabelsIn

(* A shortcut is needed only between different neighbours: the search from *)
(* a node reaches that node at once.                                       *)
LEMMA ReplacedPairs ==
  ASSUME job \in Jobs, NEW g, NEW R, Closed(g, R), NEW node \in R, NEW p \in Replaced(g, node)
  PROVE  /\ p = <<p[1], p[2]>> /\ p[1] \in g[node] /\ p[2] \in g[node]
         /\ p[1].backward /\ p[2].forward /\ p[1].target # p[2].target
<1> DEFINE out == {e \in g[node] : e.forward}
           ins == {e \in g[node] : e.backward}
           far(in) == Max({0} \cup {in.distance + e.distance : e \in out})
           labels(in) == Dijkstra(g, in.target, {e.target : e \in out} \ {in.target}, far(in), node)
           pairs(in) == {<<in, e>> : e \in {e \in out : in.distance + e.distance < Key(labels(in), e.target)}}
<1>1. Replaced(g, node) = UNION {pairs(in) : in \in ins}
  BY DEF Replaced
<1> HIDE DEF labels
<1>2. PICK in \in ins : p \in pairs(in)
  BY <1>1
<1>3. PICK e \in out : p = <<in, e>> /\ in.distance + e.distance < Key(labels(in), e.target)
  BY <1>2
<1>4. in \in EdgeType /\ e \in EdgeType /\ in.target \in R
  BY DEF Closed, Targets
<1>5. in.distance \in Nat /\ e.distance \in Nat
  BY <1>4 DEF EdgeType
<1>6. <<in.target, 0>> \in labels(in) /\ labels(in) \subseteq R \X Nat
  <2> DEFINE C == R \X Nat
  <2>1. job.max_settled \in Nat /\ IntMax \in Nat
    BY JobAssumption, SizeAssumption
  <2>2. Relaxes(g, R, node, C)
    BY <2>1, SMT DEF Closed, Targets, EdgeType, Relaxes
  <2>3. C \in SUBSET (R \X Nat) /\ <<in.target, 0>> \in C
    BY <1>4
  <2> HIDE DEF C
  <2>4. <<in.target, 0>> \in labels(in) /\ labels(in) \subseteq C
    BY <1>4, <2>1, <2>2, <2>3, SearchLabels, SMT DEF labels
  <2> QED BY <2>4 DEF C
<1>7. in.target # e.target
  <2>1. \A l \in labels(in) : l[2] \in Nat
    BY <1>6
  <2>2. Key(labels(in), in.target) \in Nat
        /\ \A l \in labels(in) : l[1] = in.target => Key(labels(in), in.target) <= l[2]
    BY <2>1, KeyIsLeast
  <2>3. Key(labels(in), in.target) <= 0
    BY <1>6, <2>2
  <2> QED BY <1>3, <1>5, <2>2, <2>3, SMT
<1> QED BY <1>3, <1>7

(* A shortcut joins two different neighbours of the node it replaces, and  *)
(* is recorded at both.                                                    *)
LEMMA ShortcutEnds ==
  ASSUME job \in Jobs, NEW g, NEW R, Closed(g, R), NEW node \in R, node \in Node,
         NEW s \in Shortcuts(g, node)
  PROVE  /\ s \in [source : Node, edge : EdgeType] /\ s.source # s.edge.target
         /\ s.source \in Targets(g, node) /\ s.edge.target \in Targets(g, node)
         /\ \E t \in Shortcuts(g, node) : t.source = s.edge.target /\ t.edge.target = s.source
<1> DEFINE ends == {[source |-> p[1].target, target |-> p[2].target,
                     distance |-> p[1].distance + p[2].distance] : p \in Replaced(g, node)}
           turned(x) == [source |-> x.target, target |-> x.source, distance |-> x.distance]
           record(x) == [source |-> x.source,
                         edge |-> Kept(x.target, x.distance, node, TRUE, x \in ends, turned(x) \in ends)]
           both == ends \cup {turned(x) : x \in ends}
<1>1. Shortcuts(g, node) = {record(x) : x \in both}
  BY DEF Shortcuts
<1> DEFINE Fits(x) == /\ x = [source |-> x.source, target |-> x.target, distance |-> x.distance]
                      /\ x.source \in Targets(g, node) /\ x.target \in Targets(g, node)
                      /\ x.source # x.target /\ x.distance \in Nat
<1>2. \A x \in ends : Fits(x)
  <2> TAKE x \in ends
  <2>1. PICK p \in Replaced(g, node) :
           x = [source |-> p[1].target, target |-> p[2].target, distance |-> p[1].distance + p[2].distance]
    OBVIOUS
  <2>2. p[1] \in g[node] /\ p[2] \in g[node] /\ p[1].target # p[2].target
    BY ReplacedPairs
  <2>3. p[1].distance \in Nat /\ p[2].distance \in Nat
    BY <2>2 DEF Closed, EdgeType
  <2>4. p[1].target \in Targets(g, node) /\ p[2].target \in Targets(g, node)
    BY <2>2 DEF Targets
  <2> QED BY <2>1, <2>2, <2>3, <2>4, SMT
<1> HIDE DEF ends
<1>3. \A x \in both : Fits(x)
  BY <1>2, SMT
<1>4. \A x \in both : turned(x) \in both
  <2> TAKE x \in both
  <2>1. CASE x \in ends
    BY <2>1
  <2>2. ASSUME NEW y \in ends, x = turned(y) PROVE turned(x) \in both
    <3>1. turned(x) = y
      BY <1>2, <2>2
    <3> QED BY <3>1
  <2> QED BY <2>1, <2>2
<1> HIDE DEF both
<1>5. PICK x \in both : s = record(x)
  BY <1>1
<1>6. Fits(x) /\ turned(x) \in both
  BY <1>3, <1>4
<1>7. Targets(g, node) \subseteq Node
  BY DEF Closed, Targets, EdgeType
<1>8. s.source = x.source /\ s.edge.target = x.target
  BY <1>5 DEF Kept
<1>9. s \in [source : Node, edge : EdgeType]
  <2>1. x.source \in Node /\ x.target \in Node /\ x.distance \in Nat
    BY <1>6, <1>7
  <2> QED BY <1>5, <2>1, SMT DEF Kept, EdgeType
<1>10. record(turned(x)).source = x.target /\ record(turned(x)).edge.target = x.source
  BY DEF Kept
<1> QED BY <1>1, <1>6, <1>8, <1>9, <1>10

-----------------------------------------------------------------------------
(* The order of contraction.                                               *)

(* The nodes are finitely many.                                            *)
LEMMA NodesFinite == IsFiniteSet(Node) /\ Cardinality(Node) = NumNodes
<1>1. NumNodes \in Nat /\ NumNodes >= 1 /\ NumNodes - 1 \in Int
  BY SizeAssumption, SMT
<1> QED BY <1>1, FS_Interval, SMT DEF Node

(* Of any nodes there is one that has to wait for none of the others: the  *)
(* one that waits for the fewest, since waiting is transitive.             *)
LEMMA SomeoneFirst ==
  ASSUME NEW R \in SUBSET Node, R # {}, \A u \in R : priority[u] \in Nat
  PROVE  \E n \in R : \A u \in R : ~Yields(n, u)
<1> DEFINE After(n) == {u \in R : Yields(n, u)}
           K == {Cardinality(After(n)) : n \in R}
<1>0. \A u \in R : u \in Int /\ priority[u] \in Nat /\ Hash[u] \in Nat
  BY SizeAssumption, OrderAssumption, SMT DEF Node
<1>1. \A u, v, w \in R : Yields(u, v) /\ Yields(v, w) => Yields(u, w)
  BY <1>0, SMT DEF Yields, bias
<1>2. \A u \in R : ~Yields(u, u)
  BY <1>0, SMT DEF Yields, bias
<1>3. \A n \in R : IsFiniteSet(After(n)) /\ Cardinality(After(n)) \in Nat
  <2> TAKE n \in R
  <2>1. After(n) \in SUBSET Node
    OBVIOUS
  <2>2. IsFiniteSet(After(n))
    BY <2>1, NodesFinite, FS_Subset
  <2> QED BY <2>2, FS_CardinalityType
<1>4. PICK k \in K : \A m \in K : k <= m
  <2>1. K \in SUBSET Nat /\ K # {}
    BY <1>3
  <2> QED BY <2>1, Least
<1>5. PICK n \in R : \A u \in R : Cardinality(After(n)) <= Cardinality(After(u))
  BY <1>4
<1>6. ASSUME NEW u \in R, Yields(n, u) PROVE FALSE
  <2>1. After(u) \in SUBSET After(n) /\ u \in After(n) /\ u \notin After(u)
    BY <1>1, <1>2, <1>6
  <2>2. Cardinality(After(u)) <= Cardinality(After(n)) /\ Cardinality(After(u)) # Cardinality(After(n))
    <3> HIDE DEF After
    <3> QED BY <1>3, <2>1, FS_Subset
  <2> HIDE DEF After
  <2> QED BY <1>3, <1>5, <2>2, SMT
<1> QED BY <1>6

(* Two different nodes are ordered, so that one has to wait.               *)
LEMMA OneWaits ==
  ASSUME NEW u \in Node, NEW v \in Node, u # v, priority[u] \in Nat, priority[v] \in Nat
  PROVE  Yields(u, v) \/ Yields(v, u)
<1>1. u \in Int /\ v \in Int /\ Hash[u] \in Nat /\ Hash[v] \in Nat
  BY SizeAssumption, OrderAssumption, SMT DEF Node
<1> QED BY <1>1, SMT DEF Yields, bias

(* What is to be contracted is at most the whole graph.                    *)
LEMMA LimitBound ==
  ASSUME job \in Jobs
  PROVE  Limit \in Nat /\ Limit <= NumNodes
<1>1. PICK a \in Nat, c \in Nat \ {0} : a = job.core_factor[1] /\ c = job.core_factor[2] /\ a <= c
  BY JobAssumption
<1>2. NumNodes \in Nat /\ NumNodes * a \in Nat /\ NumNodes * a <= NumNodes * c
  BY <1>1, SizeAssumption, SMT
<1>3. PICK q : q = (NumNodes * a) \div c
  OBVIOUS
<1>4. q \in Nat /\ q * c <= NumNodes * a
  BY <1>1, <1>2, <1>3, SMT
<1>5. q <= NumNodes
  <2> SUFFICES ASSUME ~(q <= NumNodes) PROVE FALSE
    OBVIOUS
  <2>1. PICK d \in Nat : q = NumNodes + d + 1
    <3>1. q - NumNodes - 1 \in Nat /\ q = NumNodes + (q - NumNodes - 1) + 1
      BY <1>2, <1>4, SMT
    <3> QED BY <3>1
  <2>2. d * c \in Nat /\ q * c = NumNodes * c + d * c + c
    BY <1>1, <1>2, <2>1, SMT
  <2> QED BY <1>1, <1>2, <1>4, <2>2, SMT
<1> QED BY <1>1, <1>3, <1>4, <1>5 DEF Limit

-----------------------------------------------------------------------------
(* The list of the remaining nodes.                                        *)

(* There are n numbers up to n.                                            *)
LEMMA UpTo ==
  ASSUME NEW n \in Nat
  PROVE  IsFiniteSet(1 .. n) /\ Cardinality(1 .. n) = n
<1>1. IsFiniteSet(1 .. n) /\ Cardinality(1 .. n) = IF 1 > n THEN 0 ELSE n - 1 + 1
  BY FS_Interval, SMT
<1> QED BY <1>1, SMT

(* A function on the numbers up to n is a sequence of length n.            *)
LEMMA SeqOf ==
  ASSUME NEW n \in Nat, NEW D, NEW t \in [1 .. n -> D]
  PROVE  t \in Seq(D) /\ Len(t) = n
<1>1. t \in Seq(D)
  BY SMT
<1> QED BY <1>1, SMT

Members(s) == {s[i] : i \in 1 .. Len(s)}

(* A list has as many positions as members.                                *)
LEMMA MembersCounted ==
  ASSUME NEW D, NEW s, Lists(s, D)
  PROVE  IsFiniteSet(Members(s)) /\ Cardinality(Members(s)) = Len(s) /\ Members(s) \subseteq D
<1> DEFINE f == [i \in 1 .. Len(s) |-> s[i]]
<1>1. Len(s) \in Nat /\ IsFiniteSet(1 .. Len(s)) /\ Cardinality(1 .. Len(s)) = Len(s)
  <2>1. Len(s) \in Nat
    BY DEF Lists
  <2> QED BY <2>1, UpTo
<1>2. f \in Surjection(1 .. Len(s), Members(s)) /\ f \in Injection(1 .. Len(s), Members(s))
  BY DEF Members, Lists, Surjection, Injection, IsInjective
<1>3. IsFiniteSet(Members(s)) /\ Cardinality(Members(s)) = Cardinality(1 .. Len(s))
  BY <1>1, <1>2, FS_Surjection, SMT
<1> QED BY <1>1, <1>3 DEF Members, Lists

(* std::stable_partition keeps the others, in a list that is shorter by as *)
(* many as have gone.                                                      *)
LEMMA Partitioned ==
  ASSUME NEW D, NEW s, Lists(s, D), NEW I \in SUBSET Members(s), NEW t,
         t = Without(s, I)
  PROVE  /\ Lists(t, D) /\ Members(t) = Members(s) \ I
         /\ Cardinality(I) \in Nat /\ Len(t) + Cardinality(I) = Len(s)
<1> DEFINE staying == {i \in DOMAIN s : s[i] \notin I}
           upto(i) == {j \in staying : j <= i}
           place(i) == Cardinality(upto(i))
           n == Cardinality(staying)
           at(k) == CHOOSE i \in staying : place(i) = k
<1>1. /\ Len(s) \in Nat /\ DOMAIN s = 1 .. Len(s) /\ staying \subseteq 1 .. Len(s)
      /\ \A i, j \in 1 .. Len(s) : s[i] = s[j] => i = j
      /\ \A i \in 1 .. Len(s) : s[i] \in D
  BY DEF Lists
<1>2. t = [k \in 1 .. n |-> s[at(k)]]
  BY DEF Without
<1>3. IsFiniteSet(1 .. Len(s)) /\ IsFiniteSet(staying) /\ n \in Nat
  <2>1. IsFiniteSet(1 .. Len(s))
    BY <1>1, FS_Interval, SMT
  <2>2. IsFiniteSet(staying)
    BY <1>1, <2>1, FS_Subset
  <2> HIDE DEF staying
  <2> QED BY <2>1, <2>2, FS_CardinalityType
<1> HIDE DEF staying
<1>a. \A i \in staying : i \in Int
  BY <1>1, SMT
<1>4. \A i \in staying : i \in upto(i) /\ upto(i) \in SUBSET staying
  BY <1>1, SMT
<1>5. \A i \in staying : place(i) \in 1 .. n /\ IsFiniteSet(upto(i))
  <2> TAKE i \in staying
  <2>1. IsFiniteSet(upto(i)) /\ place(i) <= n
    BY <1>3, <1>4, FS_Subset
  <2>2. place(i) \in Nat /\ place(i) # 0
    BY <1>4, <2>1, FS_CardinalityType, FS_EmptySet
  <2> QED BY <1>3, <2>1, <2>2, SMT
<1>6. ASSUME NEW i \in staying, NEW j \in staying, i < j PROVE place(i) < place(j)
  <2>1. upto(i) \in SUBSET upto(j) /\ j \in upto(j) /\ j \notin upto(i)
    BY <1>a, <1>6, SMT
  <2>2. place(i) <= place(j) /\ place(i) # place(j)
    <3> HIDE DEF upto
    <3> QED BY <1>5, <2>1, FS_Subset
  <2> QED BY <1>3, <1>5, <2>2, SMT
<1>7. \A i, j \in staying : place(i) = place(j) => i = j
  <2> TAKE i, j \in staying
  <2>1. place(i) \in Int /\ place(j) \in Int /\ i \in Int /\ j \in Int
    BY <1>3, <1>5, <1>a, SMT
  <2>2. /\ i < j => place(i) < place(j)
        /\ j < i => place(j) < place(i)
    BY <1>6
  <2> HIDE DEF place
  <2> QED BY <2>1, <2>2, SMT
<1>8. \A k \in 1 .. n : \E i \in staying : place(i) = k
  <2> DEFINE f == [i \in staying |-> place(i)]
  <2>1. f \in [staying -> 1 .. n]
    BY <1>5
  <2>2. f \in Injection(staying, 1 .. n)
    <3> HIDE DEF place
    <3> QED BY <1>5, <1>7 DEF Injection, IsInjective
  <2>3. IsFiniteSet(1 .. n) /\ Cardinality(1 .. n) = n
    BY <1>3, FS_Interval, SMT
  <2>4. f \in Surjection(staying, 1 .. n)
    <3> HIDE DEF f
    <3> QED BY <2>2, <2>3, FS_Injection
  <2> HIDE DEF place
  <2> QED BY <2>4 DEF Surjection
<1> HIDE DEF place
<1>9. \A k \in 1 .. n : at(k) \in staying /\ place(at(k)) = k
  BY <1>8
<1> HIDE DEF at
<1>10. \A i \in staying : at(place(i)) = i
  BY <1>5, <1>7, <1>9
<1>11. Len(t) = n /\ t \in [1 .. n -> D]
  <2>1. \A k \in 1 .. n : s[at(k)] \in D
    BY <1>1, <1>9
  <2>2. t \in [1 .. n -> D]
    BY <1>2, <2>1
  <2> HIDE DEF n
  <2> QED BY <1>3, <2>2, SeqOf
<1>12. Lists(t, D)
  <2>1. ASSUME NEW k \in 1 .. n, NEW l \in 1 .. n, t[k] = t[l] PROVE k = l
    <3>1. s[at(k)] = s[at(l)]
      BY <1>2, <2>1
    <3>2. at(k) = at(l)
      BY <1>1, <1>9, <3>1
    <3> QED BY <1>9, <3>2
  <2> QED BY <1>3, <1>11, <2>1 DEF Lists
<1>13. Members(t) = Members(s) \ I
  <2>1. ASSUME NEW x \in Members(t) PROVE x \in Members(s) \ I
    <3>1. PICK k \in 1 .. n : x = s[at(k)]
      <4> HIDE DEF n
      <4> QED BY <1>2, <1>11 DEF Members
    <3> QED BY <1>1, <1>9, <3>1 DEF Members, staying
  <2>2. ASSUME NEW x \in Members(s) \ I PROVE x \in Members(t)
    <3>1. PICK i \in 1 .. Len(s) : x = s[i]
      BY DEF Members
    <3>2. i \in staying
      BY <1>1, <3>1 DEF staying
    <3>3. place(i) \in 1 .. n /\ t[place(i)] = x
      BY <1>2, <1>5, <1>10, <3>1, <3>2
    <3> QED BY <1>11, <3>3 DEF Members
  <2> QED BY <2>1, <2>2
<1>14. Cardinality(I) \in Nat /\ Len(t) + Cardinality(I) = Len(s)
  <2>1. /\ IsFiniteSet(Members(s)) /\ Cardinality(Members(s)) = Len(s)
        /\ IsFiniteSet(Members(t)) /\ Cardinality(Members(t)) = Len(t)
    BY <1>12, MembersCounted
  <2>2. IsFiniteSet(I) /\ Cardinality(I) \in Nat
    BY <2>1, FS_Subset, FS_CardinalityType
  <2>3. Members(t) \cup I = Members(s) /\ Members(t) \cap I = {}
    BY <1>13
  <2>4. Cardinality(Members(t) \cup I)
          = Cardinality(Members(t)) + Cardinality(I) - Cardinality(Members(t) \cap I)
    BY <2>1, <2>2, FS_Union
  <2>5. Cardinality({}) = 0
    BY FS_EmptySet
  <2>6. Len(s) = Len(t) + Cardinality(I) - 0
    BY <2>1, <2>3, <2>4, <2>5
  <2>7. Len(t) \in Int /\ Cardinality(I) \in Int
    BY ONLY <1>12, <2>2 DEF Lists
  <2> QED BY ONLY <2>2, <2>6, <2>7
<1> QED BY <1>12, <1>13, <1>14

-----------------------------------------------------------------------------
(* The graph of the remaining nodes.                                       *)

(* The shortest of some edges, in either direction, has a length.          *)
LEMMA ShortestIsNat ==
  ASSUME NEW list \in SUBSET InputEdge, NEW u, NEW v
  PROVE  Shortest(list, u, v) \in Nat
<1> DEFINE E == {e \in list : \/ e.source = u /\ e.target = v /\ e.forward
                              \/ e.source = v /\ e.target = u /\ e.backward}
           S == {IntMax} \cup {Larger(e.weight, 1) : e \in E}
<1>1. S \in SUBSET Nat /\ S # {}
  BY SizeAssumption, SMT DEF InputEdge, Larger
<1>2. Shortest(list, u, v) = Min(S)
  BY DEF Shortest
<1> QED BY <1>1, <1>2, MinIsLeast

(* The constructor keeps an edge at both ends and none from a node to      *)
(* itself.                                                                 *)
LEMMA InitialEdges ==
  ASSUME NEW list \in SUBSET InputEdge, NEW g, g = InitialGraph(list)
  PROVE  /\ g \in [Node -> SUBSET EdgeType]
         /\ \A u \in Node : Targets(g, u) \subseteq Node \ {u}
         /\ \A u, v \in Node : v \in Targets(g, u) => u \in Targets(g, v)
<1> DEFINE S(u, v) == Shortest(list, u, v)
<1>1. 0 \in Node
  BY SizeAssumption, SMT DEF Node
<1>2. \A u, v \in Node : S(u, v) \in Nat
  BY ShortestIsNat
<1> HIDE DEF S
<1>3. ASSUME NEW u \in Node, NEW v \in Node
      PROVE  /\ Merged(list, u, v) \subseteq EdgeType
             /\ \A e \in Merged(list, u, v) : e.target = v /\ u # v /\ (S(u, v) # IntMax \/ S(v, u) # IntMax)
             /\ u # v /\ (S(u, v) # IntMax \/ S(v, u) # IntMax) => Merged(list, u, v) # {}
  <2> DEFINE both == {Kept(v, d, 0, FALSE, TRUE, TRUE) : d \in {S(u, v)} \ {IntMax}}
             there == {Kept(v, d, 0, FALSE, TRUE, FALSE) : d \in {S(u, v)} \ {IntMax}}
             back == {Kept(v, d, 0, FALSE, FALSE, TRUE) : d \in {S(v, u)} \ {IntMax}}
  <2>1. Merged(list, u, v) = IF u = v THEN {} ELSE IF S(u, v) = S(v, u) THEN both ELSE there \cup back
    BY DEF Merged, S
  <2>2. \A d \in Nat : \A f, h \in BOOLEAN :
           Kept(v, d, 0, FALSE, f, h) \in EdgeType /\ Kept(v, d, 0, FALSE, f, h).target = v
    BY <1>1 DEF Kept, EdgeType
  <2>3. both \cup there \cup back \subseteq EdgeType /\ \A e \in both \cup there \cup back : e.target = v
    BY <1>2, <2>2
  <2> QED BY <2>1, <2>3
<1>4. \A u \in Node : g[u] = UNION {Merged(list, u, v) : v \in Node}
  BY DEF InitialGraph
<1>5. g \in [Node -> SUBSET EdgeType]
  <2>1. \A u \in Node : UNION {Merged(list, u, v) : v \in Node} \subseteq EdgeType
    BY <1>3, SMT
  <2> QED BY <2>1 DEF InitialGraph
<1>6. \A u, v \in Node : v \in Targets(g, u) <=> u # v /\ (S(u, v) # IntMax \/ S(v, u) # IntMax)
  <2> TAKE u, v \in Node
  <2>1. ASSUME v \in Targets(g, u) PROVE u # v /\ (S(u, v) # IntMax \/ S(v, u) # IntMax)
    <3>1. PICK e \in g[u] : e.target = v
      BY <2>1 DEF Targets
    <3>2. PICK w \in Node : e \in Merged(list, u, w)
      BY <1>4, SMT
    <3> QED BY <1>3, <3>1, <3>2
  <2>2. ASSUME u # v, S(u, v) # IntMax \/ S(v, u) # IntMax PROVE v \in Targets(g, u)
    <3>1. PICK e \in Merged(list, u, v) : e.target = v
      BY <1>3, <2>2, SMT
    <3>2. e \in g[u]
      BY <1>4, <3>1, SMT
    <3> QED BY <3>1, <3>2 DEF Targets
  <2> QED BY <2>1, <2>2
<1>7. \A u \in Node : Targets(g, u) \subseteq Node
  BY <1>5, SMT DEF Targets, EdgeType
<1> QED BY <1>5, <1>6, <1>7

\* g2 is g without the edges that lead from the neighbours of x to x.
Trimmed(g, g2, R, x) ==
  \A u \in R : Targets(g2, u) = IF u \in Targets(g, x) THEN Targets(g, u) \ {x} ELSE Targets(g, u)

(* DeleteIncomingEdges: no edge leads to x any more, and the other nodes   *)
(* of the round are not touched, being no neighbours of x.                 *)
LEMMA DeleteMutual ==
  ASSUME NEW g, NEW g2, NEW R, NEW I \in SUBSET R, NEW gone \in SUBSET I, NEW ins, NEW x \in I \ gone,
         Mutual(g, R, gone, ins), Apart(g, I), Bridging(g, I, ins), Trimmed(g, g2, R, x)
  PROVE  /\ Mutual(g2, R, gone \cup {x}, ins)
         /\ \A y \in I : Targets(g2, y) = Targets(g, y)
<1>1. \A y \in I : Targets(g2, y) = Targets(g, y)
  BY DEF Apart, Trimmed
<1>2. Pending(ins, x) = {}
  BY SMT DEF Pending, Bridging, Apart
<1>3. ASSUME NEW u \in R, x \in Targets(g, u) PROVE u \in Targets(g, x)
  <2>1. u \notin gone
    BY <1>3 DEF Apart
  <2>2. x \in R \ gone /\ u \in R \ gone
    BY <2>1
  <2>3. u \in Targets(g, x) \cup Pending(ins, x)
    BY <1>3, <2>2 DEF Mutual
  <2> QED BY <1>2, <2>3
<1>4. \A u \in R : Targets(g2, u) \subseteq R \ (gone \cup {x} \cup {u})
  <2> TAKE u \in R
  <2>1. Targets(g, u) \subseteq R \ (gone \cup {u})
    BY DEF Mutual
  <2> QED BY <1>3, <2>1 DEF Trimmed
<1>5. ASSUME NEW u \in R \ (gone \cup {x}), NEW v \in R \ (gone \cup {x}),
             v \in Targets(g2, u) \cup Pending(ins, u)
      PROVE  u \in Targets(g2, v) \cup Pending(ins, v)
  <2>1. \A w \in R \ {x} : w \in Targets(g2, u) <=> w \in Targets(g, u)
    BY DEF Trimmed
  <2>2. \A w \in R \ {x} : w \in Targets(g2, v) <=> w \in Targets(g, v)
    BY DEF Trimmed
  <2>3. v \in Targets(g, u) \cup Pending(ins, u) => u \in Targets(g, v) \cup Pending(ins, v)
    BY DEF Mutual
  <2> QED BY <1>5, <2>1, <2>2, <2>3
<1> QED BY <1>1, <1>4, <1>5 DEF Mutual

(* InsertShortcut: what waited is now an edge.                             *)
LEMMA InsertMutual ==
  ASSUME NEW g, NEW g2, NEW R, NEW I \in SUBSET R, NEW ins, NEW s \in ins,
         Mutual(g, R, I, ins), Apart(g, I), Bridging(g, I, ins),
         \A u \in R : Targets(g2, u) = IF u = s.source THEN Targets(g, u) \cup {s.edge.target} ELSE Targets(g, u)
  PROVE  /\ Mutual(g2, R, I, ins \ {s})
         /\ \A y \in I : Targets(g2, y) = Targets(g, y)
<1>1. PICK x \in I : s.source \in Targets(g, x) /\ s.edge.target \in Targets(g, x)
  BY DEF Bridging
<1>2. /\ s.source \in R \ I /\ s.edge.target \in R \ I /\ s.source # s.edge.target
  BY <1>1 DEF Mutual, Apart, Bridging
<1>3. \A u \in R : Targets(g2, u) \cup Pending(ins \ {s}, u) = Targets(g, u) \cup Pending(ins, u)
  <2> TAKE u \in R
  <2>1. CASE u = s.source
    <3>1. Pending(ins, u) \subseteq Pending(ins \ {s}, u) \cup {s.edge.target}
      BY DEF Pending
    <3>2. Pending(ins \ {s}, u) \subseteq Pending(ins, u) /\ s.edge.target \in Pending(ins, u)
      BY <2>1 DEF Pending
    <3> QED BY <2>1, <3>1, <3>2
  <2>2. CASE u # s.source
    <3>1. Pending(ins, u) = Pending(ins \ {s}, u)
      BY <2>2 DEF Pending
    <3> QED BY <2>2, <3>1
  <2> QED BY <2>1, <2>2
<1>4. \A u \in R : Targets(g2, u) \subseteq R \ (I \cup {u})
  <2> TAKE u \in R
  <2>1. Targets(g, u) \subseteq R \ (I \cup {u})
    BY DEF Mutual
  <2> QED BY <1>2, <2>1
<1>5. \A y \in I : Targets(g2, y) = Targets(g, y)
  BY <1>2
<1>6. \A u, v \in R \ I : v \in Targets(g2, u) \cup Pending(ins \ {s}, u) =>
                          u \in Targets(g2, v) \cup Pending(ins \ {s}, v)
  BY <1>3 DEF Mutual
<1> QED BY <1>4, <1>5, <1>6 DEF Mutual

(* What is said of the round's nodes depends on their own edges only.      *)
LEMMA RoundKept ==
  ASSUME NEW g, NEW g2, NEW I, NEW ins, NEW ins2 \in SUBSET ins, Apart(g, I), Bridging(g, I, ins),
         \A y \in I : Targets(g2, y) = Targets(g, y)
  PROVE  Apart(g2, I) /\ Bridging(g2, I, ins2)
BY DEF Apart, Bridging

-----------------------------------------------------------------------------
(* The steps of Run.                                                       *)

(* The remaining nodes are nodes of the graph, with edges to each other.   *)
LEMMA RemainingNodes ==
  ASSUME Sized
  PROVE  /\ Remaining = Members(remaining) /\ Remaining \subseteq DOMAIN graph /\ Remaining \subseteq Node
         /\ \A u \in Remaining : graph[u] \subseteq EdgeType /\ priority[u] \in Nat
<1>1. DOMAIN remaining = 1 .. Len(remaining) /\ \A i \in 1 .. Len(remaining) : remaining[i] \in DOMAIN graph
  BY DEF Sized, Lists
<1>2. Remaining = Members(remaining) /\ Remaining \subseteq DOMAIN graph
  BY <1>1 DEF Remaining, Members
<1> QED BY <1>2 DEF Sized

(* The constructor.                                                        *)
LEMMA InitCInv == Init => CInv
<1> SUFFICES ASSUME Init PROVE CInv
  OBVIOUS
<1>1. job \in Jobs /\ job.list \in SUBSET InputEdge /\ graph = InitialGraph(job.list)
  BY JobAssumption DEF Init
<1>2. /\ graph \in [Node -> SUBSET EdgeType]
      /\ \A u \in Node : Targets(graph, u) \subseteq Node \ {u}
      /\ \A u, v \in Node : v \in Targets(graph, u) => u \in Targets(graph, v)
  BY <1>1, InitialEdges
<1>3. Lists(remaining, Node) /\ Len(remaining) = NumNodes
  <2>1. NumNodes \in Nat /\ remaining = [i \in 1 .. NumNodes |-> i - 1]
    BY SizeAssumption DEF Init
  <2>2. remaining \in [1 .. NumNodes -> Node]
    BY <2>1, SMT DEF Node
  <2>3. Len(remaining) = NumNodes
    BY ONLY <2>1, <2>2, SeqOf, Zenon
  <2>4. \A i, j \in 1 .. NumNodes : remaining[i] = remaining[j] => i = j
    BY <2>1, SMT
  <2> HIDE <2>1
  <2> QED BY <2>1, <2>2, <2>3, <2>4 DEF Lists
<1>4. Sized
  <2>1. priority \in [Node -> Nat] /\ contracted = 0
    BY OrderAssumption DEF Init
  <2>2. DOMAIN graph = Node
    BY <1>2
  <2> QED BY <1>1, <1>2, <1>3, <2>1, <2>2, SizeAssumption, SMT DEF Sized
<1>5. Remaining = Node
  <2>1. NumNodes \in Nat /\ remaining = [i \in 1 .. NumNodes |-> i - 1]
    BY SizeAssumption, SMT DEF Init
  <2>2. \A n \in Node : n + 1 \in 1 .. NumNodes /\ remaining[n + 1] = n
    BY <2>1, SMT DEF Node
  <2>3. Remaining \subseteq Node
    BY <1>4, RemainingNodes
  <2>4. \A n \in Node : n \in Remaining
    BY <2>1, <2>2 DEF Remaining
  <2> QED BY <2>3, <2>4
<1>6. independent = {} /\ todo = {} /\ inserted = {} /\ pc = "loop" /\ Gone = {}
  BY DEF Init, Gone
<1>7. Mutual(graph, Remaining, Gone, inserted)
  BY <1>2, <1>5, <1>6 DEF Mutual, Pending
<1> QED BY <1>4, <1>6, <1>7 DEF CInv, Rounds, Apart, Bridging

(* Steps that leave the list and the size of the graph alone.              *)
LEMMA SizedKept ==
  ASSUME Sized, UNCHANGED <<job, remaining, contracted>>, DOMAIN graph' = DOMAIN graph,
         graph' \in [DOMAIN graph -> SUBSET EdgeType], priority' \in [DOMAIN graph -> Nat]
  PROVE  Sized' /\ Remaining' = Remaining
BY DEF Sized, Remaining

(* A round starts: it has someone to contract, and nobody's neighbours are *)
(* another's, or one of the two would have had to wait.                    *)
LEMMA SelectCInv ==
  ASSUME CInv, SelectIndependent
  PROVE  CInv'
<1>1. /\ Sized /\ Rounds /\ pc = "loop" /\ inserted = {} /\ Mutual(graph, Remaining, {}, {})
      /\ LoopCondition /\ inserted' = {} /\ pc' = "contract" /\ todo' = independent'
      /\ independent' = {n \in Remaining : IsNodeIndependent(n)}
      /\ UNCHANGED <<job, graph, remaining, priority, contracted>>
  BY DEF CInv, SelectIndependent, Rounds, Gone, graphVars
<1>2. Sized' /\ Remaining' = Remaining
  BY <1>1, SizedKept DEF Sized
<1>3. /\ Remaining \subseteq Node /\ \A u \in Remaining : priority[u] \in Nat
      /\ Remaining = Members(remaining)
  BY <1>1, RemainingNodes
<1>4. \A u \in Remaining : Targets(graph, u) \subseteq Remaining \ {u} /\ Neighbours(graph, u) = Targets(graph, u)
  BY <1>1 DEF Mutual, Neighbours, Targets
<1>5. \A u, v \in Remaining : v \in Targets(graph, u) => u \in Targets(graph, v)
  BY <1>1 DEF Mutual, Pending
<1>6. Remaining # {}
  <2>1. contracted < Limit /\ Limit \in Nat /\ Limit <= NumNodes
    BY <1>1, LimitBound DEF LoopCondition, Sized
  <2>2. Len(remaining) \in Nat /\ contracted \in Nat /\ NumNodes \in Nat /\ Len(remaining) + contracted = NumNodes
    BY <1>1, SizeAssumption DEF Sized, Lists
  <2>3. 1 \in 1 .. Len(remaining)
    BY <2>1, <2>2, SMT
  <2> QED BY <1>3, <2>3 DEF Members
<1>7. independent' # {}
  <2>1. PICK n \in Remaining : \A u \in Remaining : ~Yields(n, u)
    BY <1>3, <1>6, SomeoneFirst
  <2>2. IsNodeIndependent(n)
    <3>1. Neighbours(graph, n) \subseteq Remaining
      BY <1>4
    <3>2. UNION {Neighbours(graph, u) : u \in Neighbours(graph, n)} \subseteq Remaining
      BY <1>4, <3>1
    <3> QED BY <2>1, <3>1, <3>2 DEF IsNodeIndependent
  <2> QED BY <1>1, <2>2
<1>8. Apart(graph, independent')
  <2> SUFFICES ASSUME NEW x \in independent', NEW y \in independent', x # y,
                      y \in Targets(graph, x) \/ Targets(graph, x) \cap Targets(graph, y) # {}
               PROVE  FALSE
    BY <1>1, <1>4 DEF Apart
  <2> DEFINE Near(n) == Neighbours(graph, n)
             Far(n) == (UNION {Neighbours(graph, u) : u \in Near(n)}) \ {n}
  <2>1. x \in Remaining /\ y \in Remaining /\ IsNodeIndependent(x) /\ IsNodeIndependent(y)
    BY <1>1
  <2>2. y \in Near(x) \cup Far(x) /\ x \in Near(y) \cup Far(y)
    <3>1. CASE y \in Targets(graph, x)
      BY <1>4, <1>5, <2>1, <3>1, SMT
    <3>2. CASE Targets(graph, x) \cap Targets(graph, y) # {}
      <4>1. PICK u \in Remaining : u \in Targets(graph, x) /\ u \in Targets(graph, y)
        BY <1>4, <2>1, <3>2
      <4>2. x \in Neighbours(graph, u) /\ y \in Neighbours(graph, u) /\ u \in Near(x) /\ u \in Near(y)
        BY <1>4, <1>5, <2>1, <4>1, SMT
      <4>3. \A n : u \in Near(n) => Neighbours(graph, u) \ {n} \subseteq Far(n)
        <5> TAKE n
        <5> HAVE u \in Near(n)
        <5> HIDE DEF Near
        <5>1. Neighbours(graph, u) \in {Neighbours(graph, w) : w \in Near(n)}
          OBVIOUS
        <5> QED BY <5>1
      <4> HIDE DEF Near, Far
      <4> QED BY <4>2, <4>3
    <3> QED BY <3>1, <3>2
  <2>3. ~Yields(x, y) /\ ~Yields(y, x)
    BY <2>1, <2>2 DEF IsNodeIndependent
  <2> QED BY <1>3, <2>1, <2>3, OneWaits
<1>9. Gone' = {}
  BY <1>1 DEF Gone
<1>10. Mutual(graph, Remaining, {}, {})' /\ Bridging(graph, independent, inserted)'
  BY <1>1, <1>2 DEF Bridging
<1>11. Rounds'
  <2>1. independent' \subseteq Remaining /\ todo' \subseteq independent'
    BY <1>1
  <2> QED BY <1>1, <1>2, <1>7, <2>1 DEF Rounds
<1> QED BY <1>1, <1>2, <1>8, <1>9, <1>10, <1>11 DEF CInv

(* ContractNode: the shortcuts of x join its neighbours both ways.         *)
LEMMA ContractCInv ==
  ASSUME CInv, NEW x \in todo, ContractNode(x)
  PROVE  CInv'
<1>1. /\ Sized /\ Rounds /\ pc = "contract" /\ Gone = {} /\ x \in independent /\ x \in Remaining
      /\ inserted' = inserted \cup Shortcuts(graph, x)
      /\ UNCHANGED <<job, graph, remaining, priority, contracted, independent>>
      /\ todo' \subseteq independent
      /\ \/ pc' = "contract"
         \/ pc' = "delete" /\ todo' = independent
  BY DEF CInv, ContractNode, Rounds, Gone, graphVars, roundVars, NextTask
<1>2. Sized' /\ Remaining' = Remaining
  BY <1>1, SizedKept DEF Sized
<1>3. Remaining \subseteq Node /\ \A u \in Remaining : graph[u] \subseteq EdgeType
  BY <1>1, RemainingNodes
<1>4. Gone' = {}
  BY <1>1 DEF Gone
<1>5. Closed(graph, Remaining) /\ job \in Jobs /\ x \in Node
  BY <1>1, <1>3 DEF CInv, Mutual, Closed, Sized
<1>6. \A s \in Shortcuts(graph, x) :
         /\ s \in [source : Node, edge : EdgeType] /\ s.source # s.edge.target
         /\ s.source \in Targets(graph, x) /\ s.edge.target \in Targets(graph, x)
         /\ \E t \in Shortcuts(graph, x) : t.source = s.edge.target /\ t.edge.target = s.source
  BY <1>1, <1>5, ShortcutEnds, SMT
<1>7. Bridging(graph, independent, inserted')
  BY <1>1, <1>6 DEF CInv, Bridging
<1>8. Mutual(graph, Remaining, {}, inserted')
  <2>1. \A u, v \in Remaining : v \in Targets(graph, u) \cup Pending(inserted, u) =>
                                u \in Targets(graph, v) \cup Pending(inserted, v)
    BY <1>1 DEF CInv, Mutual
  <2>2. \A u, v : v \in Pending(Shortcuts(graph, x), u) => u \in Pending(Shortcuts(graph, x), v)
    BY <1>6 DEF Pending
  <2>3. \A u : Pending(inserted', u) = Pending(inserted, u) \cup Pending(Shortcuts(graph, x), u)
    BY <1>1 DEF Pending
  <2>4. \A u \in Remaining : Targets(graph, u) \subseteq Remaining \ ({} \cup {u})
    BY <1>1 DEF CInv, Mutual
  <2> QED BY <2>1, <2>2, <2>3, <2>4, SMT DEF Mutual
<1>9. Apart(graph, independent)
  BY DEF CInv
<1>10. Rounds'
  BY <1>1, <1>2 DEF Rounds
<1> QED BY <1>1, <1>2, <1>4, <1>7, <1>8, <1>9, <1>10 DEF CInv

(* DeleteIncomingEdges.                                                    *)
LEMMA DeleteCInv ==
  ASSUME CInv, NEW x \in todo, DeleteIncomingEdges(x)
  PROVE  CInv'
<1>1. /\ Sized /\ Rounds /\ pc = "delete" /\ Gone = independent \ todo /\ x \in independent
      /\ independent \subseteq Remaining
      /\ UNCHANGED <<job, remaining, priority, contracted, independent, inserted>>
      /\ todo' \subseteq independent
      /\ \/ pc' = "delete" /\ todo' = todo \ {x}
         \/ pc' = "insert" /\ todo = {x}
      /\ graph' = [u \in DOMAIN graph |-> IF u \in Neighbours(graph, x)
                                          THEN {e \in graph[u] : e.target # x} ELSE graph[u]]
  BY DEF CInv, DeleteIncomingEdges, Rounds, Gone, roundVars, NextTask
<1>2. Sized' /\ Remaining' = Remaining
  <2>1. DOMAIN graph' = DOMAIN graph
    BY <1>1
  <2>2. graph' \in [DOMAIN graph -> SUBSET EdgeType]
    BY <1>1 DEF Sized
  <2> QED BY <1>1, <2>1, <2>2, SizedKept DEF Sized
<1>3. Remaining \subseteq DOMAIN graph
  BY <1>1, RemainingNodes
<1>4. Neighbours(graph, x) = Targets(graph, x)
  BY <1>1 DEF CInv, Mutual, Neighbours, Targets
<1>5. Trimmed(graph, graph', Remaining, x)
  BY <1>1, <1>3, <1>4 DEF Targets, Trimmed
<1>6. Gone' = Gone \cup {x} /\ x \notin Gone /\ Gone \subseteq independent
  BY <1>1 DEF Gone
<1>7. /\ Mutual(graph', Remaining, Gone \cup {x}, inserted)
      /\ \A y \in independent : Targets(graph', y) = Targets(graph, y)
  <2>1. Gone \in SUBSET independent /\ x \in independent \ Gone /\ independent \in SUBSET Remaining
    BY <1>1, <1>6
  <2>2. /\ Mutual(graph, Remaining, Gone, inserted) /\ Apart(graph, independent)
        /\ Bridging(graph, independent, inserted)
    BY DEF CInv
  <2> QED BY ONLY <1>5, <2>1, <2>2, DeleteMutual
<1>8. Apart(graph', independent) /\ Bridging(graph', independent, inserted)
  BY <1>7, RoundKept DEF CInv
<1>9. Rounds'
  BY <1>1, <1>2 DEF Rounds
<1> QED BY <1>1, <1>2, <1>6, <1>7, <1>8, <1>9 DEF CInv

(* The insertion of a shortcut, whatever edge FindEdge met.                *)
LEMMA InsertCInv ==
  ASSUME CInv, NEW s \in inserted, InsertShortcut(s)
  PROVE  CInv'
<1>1. /\ Sized /\ Rounds /\ pc = "insert" /\ Gone = independent /\ independent \subseteq Remaining
      /\ UNCHANGED <<job, remaining, priority, contracted, independent, todo, pc>>
      /\ inserted' = inserted \ {s}
  BY DEF CInv, InsertShortcut, Rounds, Gone, roundVars
<1>2. s.edge \in EdgeType /\ s.source \in Remaining
  <2>1. s \in [source : Node, edge : EdgeType] /\ \E x \in independent : s.source \in Targets(graph, x)
    BY DEF CInv, Bridging
  <2> QED BY <1>1, <2>1 DEF CInv, Mutual
<1>3. s.source \in DOMAIN graph /\ Remaining \subseteq DOMAIN graph
  BY <1>1, <1>2, RemainingNodes
<1>4. PICK new \in SUBSET EdgeType :
        /\ graph' = [graph EXCEPT ![s.source] = new]
        /\ {e.target : e \in new} = Targets(graph, s.source) \cup {s.edge.target}
  <2> DEFINE old == graph[s.source]
  <2>0. old \subseteq EdgeType
    BY <1>1, <1>3 DEF Sized
  <2>1. CASE graph' = [graph EXCEPT ![s.source] = @ \cup {s.edge}]
    <3>1. old \cup {s.edge} \in SUBSET EdgeType
      BY <1>2, <2>0
    <3>2. {e.target : e \in old \cup {s.edge}} = Targets(graph, s.source) \cup {s.edge.target}
      BY DEF Targets
    <3> QED BY <2>1, <3>1, <3>2
  <2>2. ASSUME NEW c \in Found(s), graph' = [graph EXCEPT ![s.source] = (@ \ {c}) \cup {s.edge}]
        PROVE  \E new \in SUBSET EdgeType :
                 /\ graph' = [graph EXCEPT ![s.source] = new]
                 /\ {e.target : e \in new} = Targets(graph, s.source) \cup {s.edge.target}
    <3>1. (old \ {c}) \cup {s.edge} \in SUBSET EdgeType
      BY <1>2, <2>0
    <3>2. c \in old /\ c.target = s.edge.target
      BY DEF Found
    <3>3. {e.target : e \in (old \ {c}) \cup {s.edge}} = Targets(graph, s.source) \cup {s.edge.target}
      BY <3>2 DEF Targets
    <3> QED BY <2>2, <3>1, <3>3
  <2>3. \/ graph' = [graph EXCEPT ![s.source] = @ \cup {s.edge}]
        \/ \E c \in Found(s) : graph' = [graph EXCEPT ![s.source] = (@ \ {c}) \cup {s.edge}]
    BY DEF InsertShortcut
  <2> QED BY <2>1, <2>2, <2>3
<1>5. Sized' /\ Remaining' = Remaining
  <2>1. DOMAIN graph' = DOMAIN graph
    BY <1>4
  <2>2. graph' \in [DOMAIN graph -> SUBSET EdgeType]
    BY <1>1, <1>4 DEF Sized
  <2> QED BY <1>1, <2>1, <2>2, SizedKept DEF Sized
<1>6. \A u \in Remaining : Targets(graph', u) =
         IF u = s.source THEN Targets(graph, u) \cup {s.edge.target} ELSE Targets(graph, u)
  BY <1>3, <1>4 DEF Targets
<1>7. /\ Mutual(graph', Remaining, independent, inserted \ {s})
      /\ \A y \in independent : Targets(graph', y) = Targets(graph, y)
  BY <1>1, <1>6, InsertMutual, SMT DEF CInv
<1>8. Apart(graph', independent) /\ Bridging(graph', independent, inserted')
  BY <1>1, <1>7, RoundKept DEF CInv
<1>9. Gone' = independent
  BY <1>1 DEF Gone
<1>10. Rounds'
  BY <1>1, <1>5 DEF Rounds
<1> QED BY <1>1, <1>5, <1>7, <1>8, <1>9, <1>10 DEF CInv

(* The new ids number the remaining nodes, each once.                      *)
LEMMA NewIds ==
  ASSUME Sized
  PROVE  /\ \A i \in 1 .. Len(remaining) : NewId(remaining[i]) = i - 1
         /\ \A n \in Remaining : NewId(n) \in 0 .. Len(remaining) - 1 /\ remaining[NewId(n) + 1] = n
<1>1. /\ DOMAIN remaining = 1 .. Len(remaining) /\ Len(remaining) \in Nat
      /\ \A i, j \in 1 .. Len(remaining) : remaining[i] = remaining[j] => i = j
  BY DEF Sized, Lists
<1>2. \A i \in 1 .. Len(remaining) : NewId(remaining[i]) = i - 1
  <2> TAKE i \in 1 .. Len(remaining)
  <2> DEFINE c == CHOOSE j \in DOMAIN remaining : remaining[j] = remaining[i]
  <2>1. c \in DOMAIN remaining /\ remaining[c] = remaining[i]
    BY <1>1
  <2>2. c = i
    BY <1>1, <2>1
  <2> QED BY <2>2 DEF NewId
<1>3. ASSUME NEW n \in Remaining PROVE NewId(n) \in 0 .. Len(remaining) - 1 /\ remaining[NewId(n) + 1] = n
  <2>1. PICK i \in 1 .. Len(remaining) : n = remaining[i]
    BY <1>1 DEF Remaining
  <2>2. NewId(n) = i - 1
    BY <1>2, <2>1
  <2>3. i - 1 \in 0 .. Len(remaining) - 1 /\ (i - 1) + 1 = i
    BY <1>1, SMT
  <2> QED BY <2>1, <2>2, <2>3
<1> QED BY <1>2, <1>3

(* The list of the first n ids.                                            *)
LEMMA FirstIds ==
  ASSUME NEW n \in Nat, NEW t, t = [i \in 1 .. n |-> i - 1]
  PROVE  Lists(t, 0 .. n - 1) /\ Len(t) = n /\ Members(t) = 0 .. n - 1
<1>1. t \in [1 .. n -> 0 .. n - 1] /\ \A i \in 1 .. n : t[i] = i - 1
  BY SMT
<1>2. Len(t) = n
  BY ONLY <1>1, SeqOf, Zenon
<1>3. \A i, j \in 1 .. n : t[i] = t[j] => i = j
  BY ONLY <1>1
<1>4. \A k \in 0 .. n - 1 : k + 1 \in 1 .. n /\ t[k + 1] = k
  <2> TAKE k \in 0 .. n - 1
  <2>1. k + 1 \in 1 .. n /\ (k + 1) - 1 = k
    BY SMT
  <2> QED BY ONLY <1>1, <2>1, Zenon
<1> HIDE DEF Lists
<1>5. Lists(t, 0 .. n - 1)
  BY ONLY <1>1, <1>2, <1>3, n \in Nat, Zenon DEF Lists
<1>6. Members(t) = 0 .. n - 1
  <2>1. \A i \in 1 .. n : t[i] \in 0 .. n - 1
    BY ONLY <1>1, Zenon
  <2> QED BY ONLY <1>2, <1>4, <2>1, Zenon DEF Members
<1> QED BY <1>2, <1>5, <1>6

(* The flush renames the remaining nodes and their edges together.         *)
LEMMA FlushCInv ==
  ASSUME CInv, Flush
  PROVE  CInv'
<1> DEFINE L == Len(remaining)
           D == 0 .. L - 1
           Renamed(e) == [e EXCEPT !.target = NewId(e.target), !.is_original_via_node_ID = TRUE]
<1>1. /\ Sized /\ Rounds /\ pc = "loop" /\ inserted = {} /\ independent = {} /\ todo = {}
      /\ Mutual(graph, Remaining, {}, {})
      /\ UNCHANGED <<job, contracted, independent, todo, inserted, pc>>
      /\ priority' = [n \in D |-> priority[remaining[n + 1]]]
      /\ graph' = [n \in D |-> {Renamed(e) : e \in graph[remaining[n + 1]]}]
      /\ remaining' = [i \in 1 .. L |-> i - 1]
  BY DEF CInv, Flush, Rounds, Gone
<1>2. L \in Nat /\ L <= NumNodes /\ NumNodes \in Nat /\ D \subseteq Node
  <2>1. L \in Nat /\ contracted \in Nat /\ L + contracted = NumNodes /\ NumNodes \in Nat
    BY <1>1, SizeAssumption DEF Sized, Lists
  <2>2. L <= NumNodes
    BY <2>1, SMT
  <2> QED BY <2>1, <2>2, SMT DEF Node
<1>3. /\ \A i \in 1 .. L : NewId(remaining[i]) = i - 1
      /\ \A n \in Remaining : NewId(n) \in D /\ remaining[NewId(n) + 1] = n
  BY <1>1, NewIds
<1>4. /\ Remaining = Members(remaining)
      /\ \A u \in Remaining : graph[u] \subseteq EdgeType /\ priority[u] \in Nat
  BY <1>1, RemainingNodes
<1>5. \A n \in D : n + 1 \in 1 .. L /\ remaining[n + 1] \in Remaining
  <2>1. \A n \in D : n + 1 \in 1 .. L
    BY <1>2, SMT
  <2> QED BY <1>4, <2>1 DEF Members
<1> HIDE DEF D, L
<1>6. \A n \in D : \A e \in graph[remaining[n + 1]] :
         /\ e \in EdgeType /\ e.target \in Remaining
         /\ Renamed(e) \in EdgeType /\ Renamed(e).target = NewId(e.target)
  <2> TAKE n \in D
  <2> TAKE e \in graph[remaining[n + 1]]
  <2>1. e \in EdgeType
    BY <1>4, <1>5
  <2>2. e.target \in Remaining
    BY <1>1, <1>5 DEF Mutual, Targets
  <2>3. NewId(e.target) \in Node
    BY <1>2, <1>3, <2>2
  <2> QED BY <2>1, <2>2, <2>3 DEF EdgeType
<1> HIDE DEF Renamed
<1>7. \A n \in D : graph'[n] = {Renamed(e) : e \in graph[remaining[n + 1]]}
  BY <1>1
<1>8. \A n \in D : Targets(graph', n) = {NewId(t) : t \in Targets(graph, remaining[n + 1])}
  <2> TAKE n \in D
  <2>1. Targets(graph', n) = {Renamed(e).target : e \in graph[remaining[n + 1]]}
    BY ONLY <1>7, n \in D DEF Targets
  <2>2. Targets(graph', n) = {NewId(e.target) : e \in graph[remaining[n + 1]]}
    BY <1>6, <2>1
  <2> QED BY <2>2 DEF Targets
<1>9. graph' \in [D -> SUBSET EdgeType] /\ DOMAIN graph' = D /\ priority' \in [D -> Nat]
  <2>1. DOMAIN graph' = D
    BY <1>1
  <2>4. \A n \in D : graph'[n] \in SUBSET EdgeType
    BY ONLY <1>6, <1>7
  <2>2. priority' \in [D -> Nat]
    BY <1>1, <1>4, <1>5
  <2>3. graph' = [n \in D |-> graph'[n]]
    BY <1>1
  <2> QED BY ONLY <2>1, <2>2, <2>3, <2>4, Zenon
<1>10. Lists(remaining', D) /\ Len(remaining') = L /\ Remaining' = D
  <2>1. remaining' = [i \in 1 .. L |-> i - 1] /\ L \in Nat
    BY <1>1, <1>2
  <2>2. Lists(remaining', 0 .. L - 1) /\ Len(remaining') = L /\ Members(remaining') = 0 .. L - 1
    BY ONLY <2>1, FirstIds, Zenon
  <2>3. DOMAIN remaining' = 1 .. L
    BY ONLY <2>1, Zenon
  <2>4. Remaining' = Members(remaining')
    BY ONLY <2>2, <2>3, Zenon DEF Remaining, Members
  <2> QED BY <2>2, <2>4 DEF D
<1>11. Sized'
  <2>1. job' \in Jobs /\ contracted' \in Nat /\ Len(remaining') + contracted' = NumNodes
    BY <1>1, <1>10 DEF Sized, L
  <2> QED BY <1>2, <1>9, <1>10, <2>1 DEF Sized
<1>12. Mutual(graph', D, {}, {})
  <2>1. ASSUME NEW u \in D PROVE Targets(graph', u) \subseteq D \ ({} \cup {u})
    <3>1. Targets(graph, remaining[u + 1]) \subseteq Remaining \ {remaining[u + 1]}
      BY <1>1, <1>5 DEF Mutual
    <3>2. ASSUME NEW t \in Targets(graph, remaining[u + 1]) PROVE NewId(t) \in D /\ NewId(t) # u
      BY <1>3, <3>1
    <3> QED BY <1>8, <3>2, SMT
  <2>2. ASSUME NEW u \in D, NEW v \in D, v \in Targets(graph', u) PROVE u \in Targets(graph', v)
    <3>1. PICK t \in Targets(graph, remaining[u + 1]) : v = NewId(t)
      BY <1>8, <2>2
    <3>2. t \in Remaining /\ remaining[u + 1] \in Remaining
      BY <1>1, <1>5 DEF Mutual
    <3>3. remaining[v + 1] = t
      BY <1>3, <3>1, <3>2
    <3>4. remaining[u + 1] \in Targets(graph, t)
      BY <1>1, <3>2 DEF Mutual, Pending
    <3>5. NewId(remaining[u + 1]) = u
      BY <1>3, <1>5, <1>2, SMT DEF D
    <3> QED BY <1>8, <3>3, <3>4, <3>5
  <2>3. \A u : Pending({}, u) = {}
    BY DEF Pending
  <2> QED BY <2>1, <2>2, <2>3 DEF Mutual
<1>13. Gone' = {} /\ Apart(graph', {}) /\ Bridging(graph', {}, {})
  BY <1>1 DEF Gone, Apart, Bridging
<1>14. Rounds'
  BY <1>1 DEF Rounds
<1> QED BY <1>1, <1>10, <1>11, <1>12, <1>13, <1>14 DEF CInv

(* The priorities are evaluated again.                                     *)
LEMMA UpdateCInv ==
  ASSUME CInv, NEW x \in todo, UpdateNodeNeighbours(x)
  PROVE  CInv'
<1>1. /\ Sized /\ Rounds /\ pc = "update" /\ Gone = independent /\ todo' \subseteq independent
      /\ UNCHANGED <<job, graph, remaining, contracted, independent, inserted, pc>>
  BY DEF CInv, UpdateNodeNeighbours, Rounds, Gone, graphVars, roundVars
<1>2. priority' \in [DOMAIN graph -> Nat]
  <2>1. PICK p \in [Neighbours(graph, x) -> Priorities] :
          priority' = [n \in DOMAIN priority |-> IF n \in DOMAIN p THEN p[n] ELSE priority[n]]
    BY DEF UpdateNodeNeighbours
  <2> QED BY <1>1, <2>1, OrderAssumption DEF Sized
<1>3. Sized' /\ Remaining' = Remaining
  BY <1>1, <1>2, SizedKept DEF Sized
<1>4. Gone' = independent
  BY <1>1 DEF Gone
<1>5. Rounds'
  BY <1>1, <1>3 DEF Rounds
<1> QED BY <1>1, <1>3, <1>4, <1>5 DEF CInv

(* The end of the loop that inserts.                                       *)
LEMMA InsertDoneCInv ==
  ASSUME CInv, InsertDone
  PROVE  CInv'
<1>1. /\ Sized /\ Rounds /\ pc = "insert" /\ Gone = independent /\ todo' \subseteq independent
      /\ pc' = "update" /\ inserted = {}
      /\ UNCHANGED <<job, graph, remaining, contracted, independent, inserted, priority>>
  BY DEF CInv, InsertDone, Rounds, Gone, graphVars, roundVars
<1>2. Sized' /\ Remaining' = Remaining
  BY <1>1, SizedKept DEF Sized
<1>3. Gone' = independent
  BY <1>1 DEF Gone
<1>4. Rounds'
  BY <1>1, <1>2 DEF Rounds
<1> QED BY <1>1, <1>2, <1>3, <1>4 DEF CInv

(* The round is over, and its nodes leave the list.                        *)
LEMMA EndRoundCInv ==
  ASSUME CInv, EndRound
  PROVE  CInv'
<1>1. /\ Sized /\ Rounds /\ pc = "update" /\ Gone = independent /\ independent \subseteq Remaining
      /\ todo = {} /\ inserted = {} /\ independent' = {} /\ pc' = "loop"
      /\ contracted' = contracted + Cardinality(independent)
      /\ UNCHANGED <<job, graph, priority, inserted, todo>>
      /\ Mutual(graph, Remaining, independent, {})
  BY DEF CInv, EndRound, Rounds, Gone, graphVars
<1>2. Remaining = Members(remaining) /\ Lists(remaining, DOMAIN graph)
  BY <1>1, RemainingNodes DEF Sized
<1>3. /\ Lists(remaining', DOMAIN graph) /\ Members(remaining') = Members(remaining) \ independent
      /\ Cardinality(independent) \in Nat
      /\ Len(remaining') + Cardinality(independent) = Len(remaining)
  <2>1. independent \in SUBSET Members(remaining)
    BY <1>1, <1>2
  <2>2. remaining' = Without(remaining, independent)
    BY DEF EndRound
  <2> QED BY ONLY <1>2, <2>1, <2>2, Partitioned, Zenon
<1>4. Sized'
  <2>1. contracted' \in Nat /\ Len(remaining') + contracted' = NumNodes
    <3>1. /\ Len(remaining') \in Nat /\ contracted \in Nat /\ Len(remaining) \in Nat
          /\ Len(remaining) + contracted = NumNodes
      BY <1>1, <1>2, <1>3 DEF Sized, Lists
    <3> QED BY ONLY <1>1, <1>3, <3>1
  <2> QED BY <1>1, <1>3, <2>1 DEF Sized
<1>5. Remaining' = Remaining \ independent
  <2>1. Remaining' = Members(remaining')
    BY <1>3 DEF Remaining, Members, Lists
  <2> QED BY <1>2, <1>3, <2>1
<1>6. Mutual(graph, Remaining \ independent, {}, {})
  BY <1>1 DEF Mutual
<1>7. Gone' = {} /\ Apart(graph', {}) /\ Bridging(graph', {}, {})
  BY <1>1 DEF Gone, Apart, Bridging
<1>8. Rounds'
  BY <1>1 DEF Rounds
<1> QED BY <1>1, <1>4, <1>5, <1>6, <1>7, <1>8 DEF CInv

(* Run ends.                                                               *)
LEMMA FinishCInv ==
  ASSUME CInv, Finish
  PROVE  CInv'
<1>1. /\ Sized /\ Rounds /\ pc = "loop" /\ Gone = {} /\ pc' = "done"
      /\ UNCHANGED <<job, graph, remaining, contracted, independent, inserted, priority, todo>>
  BY DEF CInv, Finish, Rounds, Gone, graphVars, roundVars
<1>2. Sized' /\ Remaining' = Remaining
  BY <1>1, SizedKept DEF Sized
<1>3. Gone' = {}
  BY <1>1 DEF Gone
<1>4. Rounds'
  BY <1>1, <1>2 DEF Rounds
<1> QED BY <1>1, <1>2, <1>3, <1>4 DEF CInv

(* Every step keeps the invariant.                                         *)
LEMMA CInvInvariance == Spec => []CInv
<1>1. ASSUME CInv, [Next]_vars PROVE CInv'
  <2>1. CASE Next
    BY <1>1, <2>1, FlushCInv, SelectCInv, ContractCInv, DeleteCInv, UpdateCInv, InsertCInv,
       InsertDoneCInv, EndRoundCInv, FinishCInv DEF Next, Step, Done, vars, CInv, Sized, Rounds, Remaining, Gone
  <2>2. CASE UNCHANGED vars
    BY <1>1, <2>2 DEF vars, CInv, Sized, Rounds, Remaining, Gone
  <2> QED BY <1>1, <2>1, <2>2
<1> QED BY <1>1, InitCInv, PTL DEF Spec

(* Every round of Run contracts some node, so that Run ends, for every     *)
(* graph, whatever the priorities are: the node before all others never    *)
(* has to wait (IsNodeIndependent, bias).                                  *)
THEOREM RoundsContract == Spec => []RoundContracts
<1>1. CInv => RoundContracts
  BY DEF CInv, Rounds, RoundContracts
<1> QED BY <1>1, CInvInvariance, PTL

(* The parallel loops over the nodes of a round never meet at a node, at   *)
(* any time of the round and for every graph (IsNodeIndependent looks two  *)
(* hops far).                                                              *)
THEOREM NeighboursApart == Spec => []NoSharedNeighbour
<1>1. CInv => NoSharedNeighbour
  <2> SUFFICES ASSUME CInv, NEW x \in independent, NEW y \in independent, x # y
               PROVE  ({x} \cup Neighbours(graph, x)) \cap ({y} \cup Neighbours(graph, y)) = {}
    BY DEF NoSharedNeighbour
  <2>1. y \notin Targets(graph, x) /\ x \notin Targets(graph, y) /\ Targets(graph, x) \cap Targets(graph, y) = {}
    BY DEF CInv, Apart
  <2>2. Neighbours(graph, x) \subseteq Targets(graph, x) /\ Neighbours(graph, y) \subseteq Targets(graph, y)
    BY DEF Neighbours, Targets
  <2> QED BY <2>1, <2>2
<1> QED BY <1>1, CInvInvariance, PTL

-----------------------------------------------------------------------------
(* The levels, for a run that computes them. *)

Left == {OriginalId(n) : n \in Remaining}

\* The nodes of the current graph have original ids of their own.
Named ==
  /\ ~flushed => DOMAIN graph = Node /\ external = {}
  /\ \A n \in DOMAIN graph : OriginalId(n) \in Node
  /\ \A m, n \in DOMAIN graph : OriginalId(m) = OriginalId(n) => m = n
  /\ external \subseteq [source : Node, edge : EdgeType]

\* A contracted node is below the current level, and one that is being
\* contracted has it.
Ranked ==
  /\ level \in Nat /\ levels \in [Node -> Nat]
  /\ \A n \in Node \ Left : levels[n] < level
  /\ \A x \in independent : levels[OriginalId(x)] = level

\* From a to b is up, or to a node that is left.
Up(a, b) == b \in Left \/ levels[a] < levels[b]

\* The edges of the contracted nodes lead up, before and after the flush.
Upward ==
  /\ \A x \in DOMAIN graph \ Remaining : \A e \in graph[x] :
        e.target \in DOMAIN graph /\ Up(OriginalId(x), OriginalId(e.target))
  /\ \A s \in external : s.source \notin Left /\ Up(s.source, s.edge.target)

LInv == Named /\ Ranked /\ Upward /\ LevelsAscend

(* A step that leaves levels, ids and the edges of contracted nodes alone. *)
LEMMA LKept ==
  ASSUME LInv, pc' # "done", DOMAIN graph' = DOMAIN graph,
         \A u \in DOMAIN graph \ Remaining : graph'[u] = graph[u],
         UNCHANGED <<remaining, orig, external, flushed, levels, level, independent>>
  PROVE  LInv'
<1>1. Left' = Left /\ Remaining' = Remaining /\ \A n : OriginalId(n)' = OriginalId(n)
  BY DEF Left, Remaining, OriginalId
<1>2. Named'
  BY <1>1 DEF LInv, Named
<1>3. Ranked'
  BY <1>1 DEF LInv, Ranked
<1>4. Upward'
  BY <1>1 DEF LInv, Upward, Up
<1>5. LevelsAscend'
  BY DEF LevelsAscend
<1> QED BY <1>2, <1>3, <1>4, <1>5 DEF LInv

(* Nothing is contracted yet.                                              *)
LEMMA InitLInv ==
  ASSUME Init
  PROVE  LInv
<1>1. DOMAIN graph = Node /\ ~flushed /\ external = {} /\ levels = [n \in Node |-> 0] /\ level = 0
      /\ independent = {} /\ pc = "loop"
  BY DEF Init, InitialGraph
<1>2. \A n : OriginalId(n) = n
  BY <1>1 DEF OriginalId
<1>3. Remaining = Node
  <2>1. NumNodes \in Nat /\ remaining = [i \in 1 .. NumNodes |-> i - 1]
    BY SizeAssumption, SMT DEF Init
  <2>2. Members(remaining) = 0 .. NumNodes - 1 /\ Len(remaining) = NumNodes
    BY ONLY <2>1, FirstIds, Zenon
  <2> QED BY <2>1, <2>2 DEF Remaining, Members, Node
<1>4. Left = Node
  BY <1>2, <1>3, SMT DEF Left
<1>5. Named /\ Ranked /\ Upward
  BY <1>1, <1>2, <1>3, <1>4, SMT DEF Named, Ranked, Upward
<1>6. LevelsAscend
  BY <1>1 DEF LevelsAscend
<1> QED BY <1>5, <1>6 DEF LInv

(* The chosen nodes get the current level.                                 *)
LEMMA SelectLInv ==
  ASSUME CInv, LInv, ~job.cached, SelectIndependent
  PROVE  LInv'
<1>1. /\ UNCHANGED <<graph, orig, external, flushed, remaining, level>>
      /\ independent' \subseteq Remaining /\ levels' = LevelsAfter(independent') /\ pc' = "contract"
  BY DEF SelectIndependent, graphVars
<1>2. Left' = Left /\ Remaining' = Remaining /\ \A n : OriginalId(n)' = OriginalId(n)
  BY <1>1 DEF Left, Remaining, OriginalId
<1>3. Named /\ Ranked /\ Upward /\ Remaining \subseteq DOMAIN graph
  BY RemainingNodes DEF LInv, CInv, Sized, Lists, Members
<1>4. Named'
  BY <1>1, <1>2, <1>3 DEF Named
<1>5. \A x \in independent' : OriginalId(x) \in Node /\ OriginalId(x) \in Left
  BY <1>1, <1>3 DEF Named, Left
<1>6. /\ levels' \in [Node -> Nat]
      /\ \A n \in Node \ Left : levels'[n] = levels[n]
      /\ \A x \in independent' : levels'[OriginalId(x)] = level
  BY <1>1, <1>3, <1>5 DEF LevelsAfter, Ranked
<1>7. Ranked'
  BY <1>1, <1>2, <1>3, <1>6 DEF Ranked
<1>8. \A x \in DOMAIN graph \ Remaining : OriginalId(x) \in Node \ Left
  BY <1>3, SMT DEF Named, Left
<1>9. Upward'
  <2>1. \A a \in Node \ Left : \A b \in Node : Up(a, b) => Up(a, b)'
    BY <1>2, <1>6 DEF Up
  <2>2. ASSUME NEW x \in DOMAIN graph \ Remaining, NEW e \in graph[x]
        PROVE  e.target \in DOMAIN graph /\ Up(OriginalId(x), OriginalId(e.target))'
    BY <1>2, <1>3, <1>8, <2>1 DEF Upward, Named
  <2>3. ASSUME NEW t \in external PROVE t.source \notin Left /\ Up(t.source, t.edge.target)'
    <3>1. t.source \in Node /\ t.edge.target \in Node
      BY <1>3 DEF Named, EdgeType
    <3> QED BY <1>3, <2>1, <3>1 DEF Upward
  <2> QED BY <1>1, <1>2, <2>2, <2>3 DEF Upward
<1>10. LevelsAscend'
  BY <1>1 DEF LevelsAscend
<1> QED BY <1>4, <1>7, <1>9, <1>10 DEF LInv

(* The nodes of the round leave; what is left is above them.               *)
LEMMA EndRoundLInv ==
  ASSUME CInv, LInv, EndRound, CInv'
  PROVE  LInv'
<1>1. /\ UNCHANGED <<graph, orig, external, flushed, levels>> /\ level' = level + 1 /\ independent' = {}
      /\ pc' = "loop" /\ pc = "update" /\ Gone = independent /\ independent \subseteq Remaining
      /\ remaining' = Without(remaining, independent)
  BY DEF EndRound, graphVars, CInv, Rounds, Gone
<1>2. Remaining = Members(remaining) /\ Lists(remaining, DOMAIN graph) /\ Remaining \subseteq DOMAIN graph
  BY RemainingNodes DEF CInv, Sized, Lists, Members
<1>3. Members(remaining') = Members(remaining) \ independent /\ Lists(remaining', DOMAIN graph)
  <2>1. independent \in SUBSET Members(remaining)
    BY <1>1, <1>2
  <2>2. remaining' = Without(remaining, independent)
    BY <1>1
  <2> QED BY ONLY <1>2, <2>1, <2>2, Partitioned
<1>4. Remaining' = Remaining \ independent
  <2>1. Remaining' = Members(remaining')
    BY <1>3 DEF Remaining, Members, Lists
  <2> QED BY <1>2, <1>3, <2>1
<1>5. Named /\ Ranked /\ Upward
  BY DEF LInv
<1>6. \A n : OriginalId(n)' = OriginalId(n)
  BY <1>1 DEF OriginalId
<1>7. Named'
  BY <1>1, <1>5, <1>6 DEF Named
<1>8. Left' \subseteq Left /\ \A n \in Left \ Left' : levels[n] = level
  BY <1>4, <1>5, <1>6 DEF Left, Ranked
<1>9. Ranked'
  <2>1. \A n \in Node \ Left' : levels[n] < level + 1
    BY <1>5, <1>8, SMT DEF Ranked
  <2> QED BY <1>1, <1>5, <2>1, SMT DEF Ranked
<1>10. Upward'
  <2>1. \A a \in Node \ Left : \A b \in Node : Up(a, b) => Up(a, b)'
    BY <1>1, <1>5, <1>8 DEF Up, Ranked
  <2>2. \A x \in DOMAIN graph \ Remaining : OriginalId(x) \in Node \ Left
    BY <1>2, <1>5, SMT DEF Named, Left
  <2>3. ASSUME NEW x \in DOMAIN graph \ Remaining, NEW e \in graph[x]
        PROVE  e.target \in DOMAIN graph /\ Up(OriginalId(x), OriginalId(e.target))'
    BY <1>6, <1>5, <2>1, <2>2 DEF Upward, Named
  <2>4. ASSUME NEW x \in independent, NEW e \in graph[x]
        PROVE  e.target \in DOMAIN graph /\ Up(OriginalId(x), OriginalId(e.target))'
    <3>1. e.target \in Remaining'
      BY <1>1, <1>4, SMT DEF CInv, Mutual, Targets
    <3>2. OriginalId(e.target)' \in Left'
      BY <3>1 DEF Left
    <3> QED BY <1>2, <1>4, <3>1, <3>2 DEF Up
  <2>5. ASSUME NEW t \in external PROVE t.source \notin Left' /\ Up(t.source, t.edge.target)'
    <3>1. t.source \in Node /\ t.edge.target \in Node
      BY <1>5 DEF Named, EdgeType
    <3> QED BY <1>5, <1>8, <2>1, <3>1 DEF Upward
  <2> QED BY <1>1, <1>4, <1>6, <2>3, <2>4, <2>5 DEF Upward
<1>11. LevelsAscend'
  BY <1>1 DEF LevelsAscend
<1> QED BY <1>7, <1>9, <1>10, <1>11 DEF LInv

(* The nodes that are left keep their original ids when they get new ones. *)
LEMMA FlushIds ==
  ASSUME CInv, Named, Flush
  PROVE  /\ Named' /\ Left' = Remaining /\ Left = Remaining /\ Remaining' = 0 .. Len(remaining) - 1
         /\ \A n \in 0 .. Len(remaining) - 1 : OriginalId(n)' = remaining[n + 1] /\ n + 1 \in 1 .. Len(remaining)
<1> DEFINE L == Len(remaining)
<1>1. /\ ~flushed /\ flushed'
      /\ orig' = [n \in 0 .. L - 1 |-> remaining[n + 1]]
      /\ DOMAIN graph' = 0 .. L - 1
      /\ remaining' = [i \in 1 .. L |-> i - 1]
      /\ external' = UNION {{[source |-> n, edge |-> e] : e \in graph[n]} : n \in Node \ Remaining}
  BY DEF Flush, FlushCondition
<1>2. DOMAIN graph = Node /\ \A n : OriginalId(n) = n
  BY <1>1 DEF Named, OriginalId
<1>3. /\ Remaining = Members(remaining) /\ Lists(remaining, Node) /\ Remaining \subseteq Node
      /\ L \in Nat /\ graph \in [Node -> SUBSET EdgeType]
  BY <1>2, RemainingNodes DEF CInv, Sized, Lists, Members
<1>4. Remaining' = 0 .. L - 1
  <2>1. Members(remaining') = 0 .. L - 1 /\ Len(remaining') = L
    BY ONLY <1>1, <1>3, FirstIds, Zenon
  <2> QED BY <1>1, <2>1 DEF Remaining, Members
<1>5. \A n \in 0 .. L - 1 : OriginalId(n)' = remaining[n + 1] /\ n + 1 \in 1 .. L
  BY <1>1, <1>3, SMT DEF OriginalId
<1>6. Left' = Remaining /\ Left = Remaining
  <2>1. \A i \in 1 .. L : i - 1 \in 0 .. L - 1 /\ (i - 1) + 1 = i
    BY <1>3, SMT
  <2>2. Left' = {OriginalId(n)' : n \in 0 .. L - 1}
    BY <1>4 DEF Left
  <2>3. Left' = {remaining[n + 1] : n \in 0 .. L - 1}
    BY <1>5, <2>2
  <2>4. Left' = {remaining[i] : i \in 1 .. L}
    BY <1>5, <2>1, <2>3
  <2>5. Left' = Members(remaining)
    BY <2>4 DEF Members
  <2> QED BY <1>2, <1>3, <2>5 DEF Left
<1>7. external' \subseteq [source : Node, edge : EdgeType]
  BY <1>1, <1>3, SMT
<1>8. Named'
  <2>1. \A n \in 0 .. L - 1 : OriginalId(n)' \in Node
    BY <1>3, <1>5 DEF Lists
  <2>2. \A m, n \in 0 .. L - 1 : OriginalId(m)' = OriginalId(n)' => m = n
    <3> TAKE m, n \in 0 .. L - 1
    <3>1. remaining[m + 1] = remaining[n + 1] => m + 1 = n + 1
      BY <1>3, <1>5 DEF Lists
    <3> QED BY <1>3, <1>5, <3>1, SMT
  <2> QED BY <1>1, <1>7, <2>1, <2>2 DEF Named
<1> QED BY <1>4, <1>5, <1>6, <1>8

(* The edges of contracted nodes move to the external list.                *)
LEMMA FlushLInv ==
  ASSUME CInv, LInv, Flush
  PROVE  LInv'
<1> DEFINE L == Len(remaining)
<1>1. /\ ~flushed /\ flushed' /\ pc = "loop" /\ pc' = "loop" /\ independent = {}
      /\ UNCHANGED <<levels, level, independent>>
      /\ orig' = [n \in 0 .. L - 1 |-> remaining[n + 1]]
      /\ DOMAIN graph' = 0 .. L - 1
      /\ remaining' = [i \in 1 .. L |-> i - 1]
      /\ external' = UNION {{[source |-> n, edge |-> e] : e \in graph[n]} : n \in Node \ Remaining}
  BY DEF Flush, FlushCondition, CInv, Rounds
<1>2. Named /\ Ranked /\ Upward /\ DOMAIN graph = Node
  BY <1>1 DEF LInv, Named
<1>3. Named' /\ Left' = Remaining /\ Left = Remaining /\ Remaining' = 0 .. L - 1
  BY <1>2, FlushIds
<1>4. Ranked'
  BY <1>1, <1>2, <1>3 DEF Ranked
<1>5. Upward'
  <2>1. \A a, b : Up(a, b)' <=> Up(a, b)
    BY <1>1, <1>3 DEF Up
  <2>2. ASSUME NEW t \in external' PROVE t.source \notin Left' /\ Up(t.source, t.edge.target)'
    <3>1. PICK n \in Node \ Remaining : \E e \in graph[n] : t = [source |-> n, edge |-> e]
      BY <1>1
    <3>2. PICK e \in graph[n] : t = [source |-> n, edge |-> e]
      BY <3>1
    <3>3. Up(n, e.target)
      BY <1>1, <1>2 DEF Upward, OriginalId
    <3> QED BY <1>3, <2>1, <3>2, <3>3
  <2> QED BY <1>1, <1>3, <2>2 DEF Upward
<1>6. LevelsAscend'
  BY <1>1 DEF LevelsAscend
<1> QED BY <1>3, <1>4, <1>5, <1>6 DEF LInv

(* GetEdges collects what is left of the graph and the external list.      *)
LEMMA FinishLInv ==
  ASSUME CInv, LInv, Finish
  PROVE  LInv'
<1>1. UNCHANGED <<job, graph, orig, external, flushed, remaining, contracted, level, independent, levels>>
      /\ edges' = GetEdges
  BY DEF Finish, graphVars, roundVars
<1>2. Left' = Left /\ Remaining' = Remaining /\ \A n : OriginalId(n)' = OriginalId(n)
  BY <1>1 DEF Left, Remaining, OriginalId
<1>3. Named /\ Ranked /\ Upward /\ graph \in [DOMAIN graph -> SUBSET EdgeType]
  BY DEF LInv, CInv, Sized
<1>4. Named' /\ Ranked' /\ Upward'
  BY <1>1, <1>2, <1>3 DEF Named, Ranked, Upward, Up
<1>5. ASSUME NEW t \in GetEdges PROVE t.source \in Left \/ Up(t.source, t.edge.target)
  <2>1. CASE t \in UNION {{Translated(n, e) : e \in graph[n]} : n \in DOMAIN graph}
    <3>1. PICK n \in DOMAIN graph : t \in {Translated(n, e) : e \in graph[n]}
      BY <2>1
    <3>2. PICK e \in graph[n] : t = Translated(n, e)
      BY <3>1
    <3>3. t.source = OriginalId(n) /\ t.edge.target = OriginalId(e.target)
      <4>1. e \in EdgeType
        BY <1>3
      <4> QED BY <3>2, <4>1 DEF Translated, EdgeType
    <3>4. CASE n \in Remaining
      BY <3>3, <3>4 DEF Left
    <3>5. CASE n \notin Remaining
      BY <1>3, <3>3, <3>5 DEF Upward
    <3> QED BY <3>4, <3>5
  <2>2. CASE t \in {[x EXCEPT !.edge.is_original_via_node_ID = TRUE] : x \in external}
    <3>1. PICK x \in external : t = [x EXCEPT !.edge.is_original_via_node_ID = TRUE]
      BY <2>2
    <3>2. x \in [source : Node, edge : EdgeType]
      BY <1>3 DEF Named
    <3>3. t.source = x.source /\ t.edge.target = x.edge.target
      BY <3>1, <3>2 DEF EdgeType
    <3> QED BY <1>3, <3>3 DEF Upward
  <2> QED BY <2>1, <2>2 DEF GetEdges
<1>6. LevelsAscend'
  BY <1>1, <1>2, <1>5 DEF LevelsAscend, Left, Up
<1> QED BY <1>4, <1>6 DEF LInv

(* Every step keeps LInv, in a run that computes the levels.               *)
LEMMA NextLInv ==
  ASSUME CInv, CInv', LInv, ~job.cached, [Next]_vars
  PROVE  LInv'
<1>1. CASE Flush
  BY <1>1, FlushLInv
<1>2. CASE SelectIndependent
  BY <1>2, SelectLInv
<1>3. ASSUME NEW x \in todo, ContractNode(x) PROVE LInv'
  <2>1. UNCHANGED <<graph, remaining, orig, external, flushed, levels, level, independent>> /\ pc' # "done"
    BY <1>3 DEF ContractNode, NextTask, graphVars, roundVars
  <2> QED BY <2>1, LKept
<1>4. ASSUME NEW x \in todo, DeleteIncomingEdges(x) PROVE LInv'
  <2>1. UNCHANGED <<remaining, orig, external, flushed, levels, level, independent>> /\ pc' # "done"
    BY <1>4 DEF DeleteIncomingEdges, NextTask, roundVars
  <2>2. Neighbours(graph, x) \subseteq Remaining
    BY DEF CInv, Rounds, Mutual, Targets, Neighbours
  <2>3. DOMAIN graph' = DOMAIN graph /\ \A u \in DOMAIN graph \ Remaining : graph'[u] = graph[u]
    BY <1>4, <2>2 DEF DeleteIncomingEdges
  <2> QED BY <2>1, <2>3, LKept
<1>5. ASSUME NEW x \in todo, UpdateNodeNeighbours(x) PROVE LInv'
  <2>1. UNCHANGED <<graph, remaining, orig, external, flushed, levels, level, independent>> /\ pc' # "done"
    BY <1>5 DEF UpdateNodeNeighbours, graphVars, roundVars
  <2> QED BY <2>1, LKept, SMT
<1>6. ASSUME NEW t \in inserted, InsertShortcut(t) PROVE LInv'
  <2>1. UNCHANGED <<remaining, orig, external, flushed, levels, level, independent>> /\ pc' # "done"
    BY <1>6 DEF InsertShortcut, roundVars
  <2>2. t.source \in Remaining
    BY DEF CInv, Rounds, Bridging, Mutual
  <2>3. \E new : graph' = [graph EXCEPT ![t.source] = new]
    BY <1>6 DEF InsertShortcut
  <2>4. DOMAIN graph' = DOMAIN graph /\ \A u \in DOMAIN graph \ Remaining : graph'[u] = graph[u]
    BY <2>2, <2>3 DEF CInv, Sized
  <2> QED BY <2>1, <2>4, LKept, SMT
<1>7. CASE InsertDone
  <2>1. UNCHANGED <<graph, remaining, orig, external, flushed, levels, level, independent>> /\ pc' # "done"
    BY <1>7 DEF InsertDone, graphVars, roundVars
  <2> QED BY <2>1, LKept
<1>8. CASE EndRound
  BY <1>8, EndRoundLInv
<1>9. CASE Finish
  BY <1>9, FinishLInv, SMT
<1>10. CASE UNCHANGED vars
  BY <1>10, SMT DEF vars, LInv, Named, Ranked, Upward, Up, Left, Remaining, OriginalId, LevelsAscend
<1> QED BY <1>1, <1>2, <1>3, <1>4, <1>5, <1>6, <1>7, <1>8, <1>9, <1>10 DEF Next, Step, Done

(* The levels written for a later run are an order of contraction of the   *)
(* hierarchy, for every graph, across the renumbering of the flush and for *)
(* any share of uncontracted nodes (Run, GetEdges, GetNodeLevels).         *)
THEOREM LevelsFit == Spec => []LevelsAscend
<1> DEFINE J == job.cached \/ LInv
<1>1. Init => J
  BY InitLInv
<1>2. ASSUME J, CInv, CInv', [Next]_vars PROVE J'
  <2>1. job' = job
    BY <1>2 DEF Next, Step, Done, vars, Flush, SelectIndependent, ContractNode, DeleteIncomingEdges,
       UpdateNodeNeighbours, InsertShortcut, InsertDone, EndRound, Finish
  <2>2. CASE job.cached
    BY <2>1, <2>2
  <2>3. CASE ~job.cached
    BY <1>2, <2>3, NextLInv
  <2> QED BY <2>2, <2>3
<1>3. J => LevelsAscend
  BY DEF LevelsAscend, LInv
<1> QED BY <1>1, <1>2, <1>3, CInvInvariance, PTL DEF Spec

-----------------------------------------------------------------------------
(* Walks over arcs.                                                        *)

Length == Nat \ {0}

ArcSet == Node \X Node \X Length

\* X holds the start s and, with a node, what its arcs lead to.
Spreads(A, s, X) ==
  /\ <<s, 0>> \in X
  /\ \A u, v \in Node : \A d \in Nat, w \in Length :
        <<u, d>> \in X /\ <<u, v, w>> \in A => <<v, d + w>> \in X

\* The ends and lengths of the walks from s.
Walks(A, s) ==
  {p \in Node \X Nat : \A X \in SUBSET (Node \X Nat) : Spreads(A, s, X) => p \in X}

(* Walks are the smallest such set.                                        *)
LEMMA WalksSpread ==
  ASSUME NEW A, NEW s \in Node
  PROVE  Spreads(A, s, Walks(A, s)) /\ Walks(A, s) \subseteq Node \X Nat
<1>0. 0 \in Nat /\ \A d \in Nat, w \in Length : d + w \in Nat
  BY SMT DEF Length
<1>1. Walks(A, s) \subseteq Node \X Nat
  BY DEF Walks
<1>2. <<s, 0>> \in Walks(A, s)
  BY <1>0 DEF Walks, Spreads
<1>3. ASSUME NEW u \in Node, NEW v \in Node, NEW d \in Nat, NEW w \in Length,
             <<u, d>> \in Walks(A, s), <<u, v, w>> \in A
      PROVE  <<v, d + w>> \in Walks(A, s)
  <2>1. <<v, d + w>> \in Node \X Nat
    BY <1>0
  <2>2. ASSUME NEW X \in SUBSET (Node \X Nat), Spreads(A, s, X) PROVE <<v, d + w>> \in X
    <3>1. <<u, d>> \in X
      BY <1>3, <2>2 DEF Walks
    <3> QED BY <1>3, <2>2, <3>1 DEF Spreads
  <2> QED BY <2>1, <2>2 DEF Walks
<1> QED BY <1>1, <1>2, <1>3 DEF Spreads

(* What the start and the arcs keep holds of all walks.                    *)
LEMMA WalksIn ==
  ASSUME NEW A, NEW s \in Node, NEW X \in SUBSET (Node \X Nat), Spreads(A, s, X)
  PROVE  Walks(A, s) \subseteq X
BY DEF Walks

(* The walk of length 0, and a walk continued by an arc.                   *)
LEMMA WalkStep ==
  ASSUME NEW A, NEW s \in Node
  PROVE  /\ <<s, 0>> \in Walks(A, s)
         /\ \A u, v \in Node : \A d \in Nat, w \in Length :
               <<u, d>> \in Walks(A, s) /\ <<u, v, w>> \in A => <<v, d + w>> \in Walks(A, s)
         /\ \A v \in Node, w \in Length : <<s, v, w>> \in A => <<v, w>> \in Walks(A, s)
<1>1. /\ <<s, 0>> \in Walks(A, s)
      /\ \A u, v \in Node : \A d \in Nat, w \in Length :
               <<u, d>> \in Walks(A, s) /\ <<u, v, w>> \in A => <<v, d + w>> \in Walks(A, s)
  BY WalksSpread DEF Spreads
<1>2. 0 \in Nat /\ \A w \in Length : 0 + w = w
  BY SMT DEF Length
<1> QED BY <1>1, <1>2

(* A walk is a member of Node \X Nat.                                      *)
LEMMA WalkType ==
  ASSUME NEW A, NEW s \in Node, NEW v, NEW d, <<v, d>> \in Walks(A, s)
  PROVE  v \in Node /\ d \in Nat
BY DEF Walks

(* Walks join.                                                             *)
LEMMA WalksJoin ==
  ASSUME NEW A, NEW s \in Node, NEW u, NEW c, <<u, c>> \in Walks(A, s),
         NEW v, NEW d, <<v, d>> \in Walks(A, u)
  PROVE  <<v, c + d>> \in Walks(A, s)
<1> DEFINE X == {p \in Node \X Nat : <<p[1], c + p[2]>> \in Walks(A, s)}
<1>1. u \in Node /\ c \in Nat
  BY WalkType
<1>2. c + 0 = c /\ \A x \in Nat, w \in Length : x + w \in Nat /\ c + x \in Nat /\ (c + x) + w = c + (x + w)
  BY <1>1, SMT DEF Length
<1>3. <<u, 0>> \in X
  BY <1>1, <1>2
<1>4. ASSUME NEW x \in Node, NEW y \in Node, NEW k \in Nat, NEW w \in Length, <<x, k>> \in X, <<x, y, w>> \in A
      PROVE  <<y, k + w>> \in X
  <2>1. <<x, c + k>> \in Walks(A, s)
    BY <1>4
  <2>2. <<y, (c + k) + w>> \in Walks(A, s)
    BY <1>2, <1>4, <2>1, WalkStep
  <2> QED BY <1>2, <2>2
<1>5. Walks(A, u) \subseteq X
  BY <1>1, <1>3, <1>4, WalksIn DEF Spreads
<1> QED BY <1>5

\* The walk to v is one to u and an arc from there.
LastArc(A, s, v, d) ==
  \E u \in Node, c \in Nat, w \in Length :
     <<u, c>> \in Walks(A, s) /\ <<u, v, w>> \in A /\ d = c + w

\* The walk to v is an arc to u and a walk from there.
FirstArc(A, s, v, d) ==
  \E u \in Node, c \in Nat, w \in Length :
     <<s, u, w>> \in A /\ <<v, c>> \in Walks(A, u) /\ d = w + c

(* A walk is empty or ends with an arc.                                    *)
LEMMA WalkLast ==
  ASSUME NEW A, NEW s \in Node, NEW v, NEW d, <<v, d>> \in Walks(A, s)
  PROVE  \/ v = s /\ d = 0
         \/ LastArc(A, s, v, d)
<1> DEFINE Q(p) == \/ p = <<s, 0>>
                   \/ \E u \in Node, c \in Nat, w \in Length :
                         <<u, c>> \in Walks(A, s) /\ <<u, p[1], w>> \in A /\ p[2] = c + w
           X == {p \in Walks(A, s) : Q(p)}
<1>1. X \in SUBSET (Node \X Nat)
  BY WalksSpread
<1>2. <<s, 0>> \in X
  BY WalkStep
<1>3. ASSUME NEW x \in Node, NEW y \in Node, NEW k \in Nat, NEW w \in Length, <<x, k>> \in X, <<x, y, w>> \in A
      PROVE  <<y, k + w>> \in X
  <2>1. <<y, k + w>> \in Walks(A, s)
    BY <1>3, WalkStep
  <2>2. <<y, k + w>>[1] = y /\ <<y, k + w>>[2] = k + w
    OBVIOUS
  <2>3. Q(<<y, k + w>>)
    BY <1>3, <2>2
  <2> QED BY <2>1, <2>3
<1>4. <<v, d>> \in X
  BY <1>1, <1>2, <1>3, WalksIn DEF Spreads
<1>5. <<v, d>>[1] = v /\ <<v, d>>[2] = d
  OBVIOUS
<1>6. CASE <<v, d>> = <<s, 0>>
  BY <1>6, SMT
<1>7. CASE <<v, d>> # <<s, 0>>
  BY <1>4, <1>5, <1>7 DEF LastArc
<1> QED BY <1>6, <1>7

(* A walk is empty or starts with an arc.                                  *)
LEMMA WalkFirst ==
  ASSUME NEW A, NEW s \in Node, NEW v, NEW d, <<v, d>> \in Walks(A, s)
  PROVE  \/ v = s /\ d = 0
         \/ FirstArc(A, s, v, d)
<1> DEFINE Q(p) == \/ p = <<s, 0>>
                   \/ \E u \in Node, c \in Nat, w \in Length :
                         <<s, u, w>> \in A /\ <<p[1], c>> \in Walks(A, u) /\ p[2] = w + c
           X == {p \in Node \X Nat : Q(p)}
<1>1. <<s, 0>> \in X
  <2>1. 0 \in Nat
    BY SMT
  <2> QED BY <2>1
<1>2. ASSUME NEW x \in Node, NEW y \in Node, NEW k \in Nat, NEW w \in Length, <<x, k>> \in X, <<x, y, w>> \in A
      PROVE  <<y, k + w>> \in X
  <2>1. <<y, k + w>> \in Node \X Nat /\ <<y, k + w>>[1] = y /\ <<y, k + w>>[2] = k + w
    <3>1. k + w \in Nat
      BY SMT DEF Length
    <3> QED BY <3>1
  <2>2. CASE <<x, k>> = <<s, 0>>
    <3>1. x = s /\ k + w = w + 0 /\ 0 \in Nat
      BY <2>2, SMT DEF Length
    <3>2. <<y, 0>> \in Walks(A, y)
      BY WalkStep
    <3>3. <<s, y, w>> \in A
      BY <1>2, <3>1
    <3>4. Q(<<y, k + w>>)
      BY <2>1, <3>1, <3>2, <3>3
    <3> QED BY <2>1, <3>4
  <2>3. CASE <<x, k>> # <<s, 0>>
    <3>1. PICK u \in Node, c \in Nat, w2 \in Length :
             <<s, u, w2>> \in A /\ <<x, c>> \in Walks(A, u) /\ k = w2 + c
      <4>1. <<x, k>>[1] = x /\ <<x, k>>[2] = k
        OBVIOUS
      <4> QED BY <1>2, <2>3, <4>1
    <3>2. <<y, c + w>> \in Walks(A, u)
      BY <1>2, <3>1, WalkStep
    <3>3. c + w \in Nat /\ k + w = w2 + (c + w)
      BY <3>1, SMT DEF Length
    <3>4. Q(<<y, k + w>>)
      BY <2>1, <3>1, <3>2, <3>3
    <3> QED BY <2>1, <3>4
  <2> QED BY <2>2, <2>3
<1>3. <<v, d>> \in X
  BY <1>1, <1>2, WalksIn DEF Spreads
<1>4. <<v, d>>[1] = v /\ <<v, d>>[2] = d
  OBVIOUS
<1>5. CASE <<v, d>> = <<s, 0>>
  BY <1>5, SMT
<1>6. CASE <<v, d>> # <<s, 0>>
  BY <1>3, <1>4, <1>6 DEF FirstArc
<1> QED BY <1>5, <1>6

\* There is a walk from u to v that is no longer than d.
Within(A, u, v, d) == \E c \in Nat : c <= d /\ <<v, c>> \in Walks(A, u)

(* Short walks join too.                                                   *)
LEMMA WithinJoin ==
  ASSUME NEW A, NEW u \in Node, NEW v \in Node, NEW x \in Node, NEW c \in Nat, NEW d \in Nat,
         Within(A, u, v, c), Within(A, v, x, d)
  PROVE  Within(A, u, x, c + d)
<1>1. PICK c1 \in Nat : c1 <= c /\ <<v, c1>> \in Walks(A, u)
  BY DEF Within
<1>2. PICK d1 \in Nat : d1 <= d /\ <<x, d1>> \in Walks(A, v)
  BY DEF Within
<1>3. <<x, c1 + d1>> \in Walks(A, u)
  BY <1>1, <1>2, WalksJoin
<1>4. c1 + d1 \in Nat /\ c1 + d1 <= c + d
  BY <1>1, <1>2, SMT
<1> QED BY <1>3, <1>4 DEF Within

(* A walk is within its length, and every longer one.                      *)
LEMMA WithinLonger ==
  ASSUME NEW A, NEW u \in Node, NEW v, NEW d \in Nat, NEW e \in Nat, d <= e,
         Within(A, u, v, d)
  PROVE  Within(A, u, v, e)
<1>1. PICK k \in Nat : k <= d /\ <<v, k>> \in Walks(A, u)
  BY DEF Within
<1>2. k <= e
  BY <1>1, SMT
<1> QED BY <1>1, <1>2 DEF Within

(* When every arc of A is replaced by a walk in B between the images of    *)
(* its ends that is no longer, so is every walk.                           *)
LEMMA WalksMapped ==
  ASSUME NEW A, NEW B, NEW f, \A n \in Node : f[n] \in Node, NEW s \in Node,
         \A u, v \in Node, w \in Length : <<u, v, w>> \in A => Within(B, f[u], f[v], w)
  PROVE  \A v \in Node, d \in Nat : <<v, d>> \in Walks(A, s) => Within(B, f[s], f[v], d)
<1> DEFINE X == {p \in Node \X Nat : Within(B, f[s], f[p[1]], p[2])}
<1>1. <<s, 0>> \in X
  <2>1. 0 \in Nat /\ 0 <= 0
    BY SMT
  <2>2. Within(B, f[s], f[s], 0)
    BY <2>1, WalkStep DEF Within
  <2> QED BY <2>1, <2>2
<1>2. ASSUME NEW x \in Node, NEW y \in Node, NEW k \in Nat, NEW w \in Length, <<x, k>> \in X, <<x, y, w>> \in A
      PROVE  <<y, k + w>> \in X
  <2>1. Within(B, f[s], f[x], k) /\ Within(B, f[x], f[y], w)
    BY <1>2
  <2>2. w \in Nat /\ k + w \in Nat
    BY SMT DEF Length
  <2>3. Within(B, f[s], f[y], k + w)
    BY <2>1, <2>2, WithinJoin
  <2> QED BY <2>2, <2>3
<1>3. Walks(A, s) \subseteq X
  BY <1>1, <1>2, WalksIn DEF Spreads
<1>4. ASSUME NEW v \in Node, NEW d \in Nat, <<v, d>> \in Walks(A, s) PROVE Within(B, f[s], f[v], d)
  <2>1. <<v, d>>[1] = v /\ <<v, d>>[2] = d
    OBVIOUS
  <2> QED BY <1>3, <1>4, <2>1
<1> QED BY <1>4

(* The same with the ends kept.                                            *)
LEMMA WalksDominated ==
  ASSUME NEW A, NEW B, NEW s \in Node,
         \A u, v \in Node, w \in Length : <<u, v, w>> \in A => Within(B, u, v, w)
  PROVE  \A v \in Node, d \in Nat : Within(A, s, v, d) => Within(B, s, v, d)
<1> DEFINE f == [n \in Node |-> n]
<1>1. \A n \in Node : f[n] = n
  OBVIOUS
<1> HIDE DEF f
<1>2. \A v \in Node, d \in Nat : <<v, d>> \in Walks(A, s) => Within(B, f[s], f[v], d)
  BY <1>1, WalksMapped
<1>3. ASSUME NEW v \in Node, NEW d \in Nat, Within(A, s, v, d) PROVE Within(B, s, v, d)
  <2>1. PICK c \in Nat : c <= d /\ <<v, c>> \in Walks(A, s)
    BY <1>3 DEF Within
  <2>2. Within(B, s, v, c)
    BY <1>1, <1>2, <2>1
  <2> QED BY <2>1, <2>2, WithinLonger
<1> QED BY <1>3

TurnedArcs(A) == {<<a[2], a[1], a[3]>> : a \in A}

(* Walks can be walked back over the turned arcs.                          *)
LEMMA WalkBack ==
  ASSUME NEW A \in SUBSET ArcSet, NEW s \in Node, NEW t, NEW d, <<t, d>> \in Walks(A, s)
  PROVE  <<s, d>> \in Walks(TurnedArcs(A), t)
<1> DEFINE B == TurnedArcs(A)
           X == {p \in Node \X Nat : <<s, p[2]>> \in Walks(B, p[1])}
<1>0. \A u, v, w : <<u, v, w>> \in A => <<v, u, w>> \in B
  <2> TAKE u, v, w
  <2> HAVE <<u, v, w>> \in A
  <2>1. <<u, v, w>>[1] = u /\ <<u, v, w>>[2] = v /\ <<u, v, w>>[3] = w
    OBVIOUS
  <2> QED BY <2>1 DEF TurnedArcs
<1> HIDE DEF B
<1>1. <<s, 0>> \in X
  <2>1. 0 \in Nat
    BY SMT
  <2> QED BY <2>1, WalkStep
<1>2. ASSUME NEW x \in Node, NEW y \in Node, NEW k \in Nat, NEW w \in Length, <<x, k>> \in X, <<x, y, w>> \in A
      PROVE  <<y, k + w>> \in X
  <2>1. <<s, k>> \in Walks(B, x) /\ <<y, x, w>> \in B
    BY <1>0, <1>2
  <2>2. <<x, w>> \in Walks(B, y)
    BY <2>1, WalkStep
  <2>3. <<s, w + k>> \in Walks(B, y)
    BY <2>1, <2>2, WalksJoin
  <2>4. k + w \in Nat /\ k + w = w + k
    BY SMT DEF Length
  <2> QED BY <2>3, <2>4
<1>3. Walks(A, s) \subseteq X
  BY <1>1, <1>2, WalksIn DEF Spreads
<1> QED BY <1>3 DEF B

-----------------------------------------------------------------------------
(* From computes the distances.                                            *)

(* From is a sequence of rounds over all arcs: its labels are those of     *)
(* walks, and none is lost but for a shorter one.                          *)
LEMMA FromRounds ==
  ASSUME NEW A \in SUBSET ArcSet, NEW s \in Node
  PROVE  \E f : /\ From(A, s) = f[NumNodes] /\ f[0] = {<<s, 0>>}
                /\ \A k \in 1 .. NumNodes :
                     LET all == f[k - 1] \cup
                                  UNION {{<<a[2], l[2] + a[3]>> : a \in {a \in A : a[1] = l[1]}} : l \in f[k - 1]}
                     IN  f[k] = {l \in all : \A m \in all : m[1] = l[1] => l[2] <= m[2]}
<1> DEFINE N == NumNodes
           Best(labels) == {l \in labels : \A m \in labels : m[1] = l[1] => l[2] <= m[2]}
           Then(labels) == Best(labels \cup
                     UNION {{<<a[2], l[2] + a[3]>> : a \in {a \in A : a[1] = l[1]}} : l \in labels})
           Runs(f, n) == f = [k \in 0 .. n |-> IF k = 0 THEN {<<s, 0>>} ELSE Then(f[k - 1])]
<1>0. N \in Nat
  BY SizeAssumption, SMT
<1>1. From(A, s) = (CHOOSE f : Runs(f, N))[N]
  BY DEF From
<1> HIDE DEF Then
<1>2. \E f : Runs(f, N)
  <2> DEFINE S == {n \in Nat : \E f : Runs(f, n)}
  <2>1. 0 \in S
    <3> DEFINE h == [k \in 0 .. 0 |-> IF k = 0 THEN {<<s, 0>>} ELSE {}]
    <3>1. \A k \in 0 .. 0 : k = 0
      BY SMT
    <3>2. \A k \in 0 .. 0 : h[k] = {<<s, 0>>}
      BY <3>1
    <3>3. Runs(h, 0)
      BY <3>1
    <3>4. 0 \in Nat
      BY SMT
    <3> QED BY <3>3, <3>4
  <2>2. ASSUME NEW n \in 1 .. N, n - 1 \in S PROVE n \in S
    <3>1. PICK f : Runs(f, n - 1)
      BY <2>2
    <3> DEFINE h == [k \in 0 .. n |-> IF k = n THEN Then(f[n - 1]) ELSE f[k]]
    <3>2. /\ n \in Nat /\ n # 0 /\ n - 1 # n
          /\ \A k \in 0 .. n : k # n => k \in 0 .. n - 1 /\ k - 1 # n /\ (k # 0 => k - 1 \in 0 .. n)
          /\ n - 1 \in 0 .. n
      BY <1>0, SMT
    <3>3. \A k \in 0 .. n - 1 : f[k] = IF k = 0 THEN {<<s, 0>>} ELSE Then(f[k - 1])
      BY <3>1
    <3>4. \A k \in 0 .. n : h[k] = IF k = n THEN Then(f[n - 1]) ELSE f[k]
      OBVIOUS
    <3>5. \A k \in 0 .. n : h[k] = IF k = 0 THEN {<<s, 0>>} ELSE Then(h[k - 1])
      BY <3>2, <3>3, <3>4
    <3>6. Runs(h, n)
      BY <3>5
    <3> QED BY <3>2, <3>6
  <2> HIDE DEF Runs
  <2>3. \A k \in 0 .. N : k \in S
    BY <1>0, <2>1, <2>2, Counting
  <2>4. N \in 0 .. N
    BY <1>0, SMT
  <2> QED BY <2>3, <2>4
<1>3. PICK f : f = (CHOOSE h : Runs(h, N)) /\ Runs(f, N)
  BY <1>2
<1>4. 0 \in 0 .. N /\ N \in 0 .. N /\ \A k \in 1 .. N : k \in 0 .. N /\ k # 0
  BY <1>0, SMT
<1>5. f[0] = {<<s, 0>>} /\ \A k \in 1 .. N : f[k] = Then(f[k - 1])
  BY <1>3, <1>4
<1>6. From(A, s) = f[N]
  BY <1>1, <1>3
<1> QED BY <1>5, <1>6 DEF Then

(* A pair of a node and a length is one.                                   *)
LEMMA PairOf ==
  ASSUME NEW p \in Node \X Nat
  PROVE  \E u \in Node, d \in Nat : p = <<u, d>>
BY SMT

(* From gives the distances: its labels are ends and lengths of walks, and *)
(* no walk is shorter than the label of its end.  After k rounds of        *)
(* relaxing all arcs k + 1 nodes have their distance, or all that can be   *)
(* reached have.                                                           *)
LEMMA FromExact ==
  ASSUME NEW A \in SUBSET ArcSet, NEW s \in Node
  PROVE  /\ From(A, s) \subseteq Walks(A, s)
         /\ \A v, d : <<v, d>> \in Walks(A, s) => \E c \in Nat : <<v, c>> \in From(A, s) /\ c <= d
<1> DEFINE N == NumNodes
           W == Walks(A, s)
           More(L) == UNION {{<<a[2], l[2] + a[3]>> : a \in {a \in A : a[1] = l[1]}} : l \in L}
           Best(L) == {l \in L : \A m \in L : m[1] = l[1] => l[2] <= m[2]}
<1>1. PICK f : /\ From(A, s) = f[N] /\ f[0] = {<<s, 0>>}
               /\ \A k \in 1 .. N : f[k] = Best(f[k - 1] \cup More(f[k - 1]))
  BY FromRounds
<1>2. N \in Nat /\ 0 \in Nat /\ 0 \in 0 .. N /\ N \in 0 .. N
      /\ (\A k \in 1 .. N : k \in 0 .. N /\ k - 1 \in 0 .. N /\ k - 1 \in Nat /\ k \in Nat)
  BY SizeAssumption, SMT
<1>3. W \subseteq Node \X Nat
  BY WalksSpread
<1>4. ASSUME NEW L \in SUBSET W PROVE More(L) \subseteq W
  <2> SUFFICES ASSUME NEW p \in More(L) PROVE p \in W
    OBVIOUS
  <2>0. PICK l \in L, a \in A : a[1] = l[1] /\ p = <<a[2], l[2] + a[3]>>
    OBVIOUS
  <2>1. l \in W /\ a \in ArcSet
    OBVIOUS
  <2>2. PICK u \in Node, d \in Nat : l = <<u, d>>
    BY <1>3, <2>1, PairOf
  <2>3. PICK x \in Node, v \in Node, w \in Length : a = <<x, v, w>>
    BY <2>1, SMT DEF ArcSet
  <2>4. x = u /\ l[2] = d /\ a[2] = v /\ a[3] = w
    BY <2>0, <2>2, <2>3, SMT
  <2>5. <<u, d>> \in W /\ <<u, v, w>> \in A
    BY <2>1, <2>2, <2>3, <2>4
  <2>6. <<v, d + w>> \in W
    BY <2>5, WalkStep
  <2> QED BY <2>0, <2>4, <2>6
<1>5. \A k \in 0 .. N : f[k] \in SUBSET W
  <2> DEFINE S == {k \in 0 .. N : f[k] \in SUBSET W}
  <2>1. 0 \in S
    <3>1. <<s, 0>> \in W
      BY WalkStep
    <3> HIDE DEF W
    <3> QED BY <1>1, <1>2, <3>1
  <2>2. ASSUME NEW k \in 1 .. N, k - 1 \in S PROVE k \in S
    <3>1. f[k - 1] \cup More(f[k - 1]) \in SUBSET W
      BY <1>4, <2>2
    <3>2. Best(f[k - 1] \cup More(f[k - 1])) \in SUBSET W
      BY <3>1
    <3> QED BY <1>1, <1>2, <3>2
  <2> QED BY <1>2, <2>1, <2>2, Counting
<1>6. ASSUME NEW L \in SUBSET W, NEW v, NEW d, <<v, d>> \in L
      PROVE  \E c \in Nat : c <= d /\ <<v, c>> \in Best(L)
  <2> DEFINE D == {c \in Nat : <<v, c>> \in L}
  <2>1. d \in D
    BY <1>3, <1>6
  <2>2. PICK c \in D : \A e \in D : c <= e
    BY <2>1, Least
  <2>3. ASSUME NEW m \in L, m[1] = <<v, c>>[1] PROVE <<v, c>>[2] <= m[2]
    <3>1. PICK x \in Node, e \in Nat : m = <<x, e>>
      BY <1>3, <2>3, PairOf
    <3>2. m[1] = x /\ m[2] = e /\ <<v, c>>[1] = v /\ <<v, c>>[2] = c
      BY <3>1
    <3>3. e \in D
      BY <2>3, <3>1, <3>2
    <3> QED BY <2>2, <3>2, <3>3
  <2>4. <<v, c>> \in Best(L)
    BY <2>2, <2>3
  <2> QED BY <2>1, <2>2, <2>4
<1> DEFINE Near(v, c) == \A e \in Nat : <<v, e>> \in W => c <= e
           Over(k) == {v \in Node : \E c \in Nat : <<v, c>> \in f[k] /\ Near(v, c)}
<1>7. ASSUME NEW k \in 1 .. N PROVE Over(k - 1) \subseteq Over(k)
  <2> SUFFICES ASSUME NEW v \in Over(k - 1) PROVE v \in Over(k)
    OBVIOUS
  <2>1. PICK c \in Nat : <<v, c>> \in f[k - 1] /\ Near(v, c)
    OBVIOUS
  <2>2. f[k - 1] \cup More(f[k - 1]) \in SUBSET W
    BY <1>2, <1>4, <1>5
  <2> HIDE DEF W, More, Best
  <2>3. PICK e \in Nat : e <= c /\ <<v, e>> \in Best(f[k - 1] \cup More(f[k - 1]))
    BY <1>6, <2>1, <2>2
  <2>4. \A x \in Nat : c <= x => e <= x
    BY <2>3, SMT
  <2>5. <<v, e>> \in f[k]
    BY <1>1, <2>3
  <2> QED BY <2>1, <2>4, <2>5
<1>8. s \in Over(0)
  <2>1. \A e \in Nat : 0 <= e
    BY SMT
  <2> QED BY <1>1, <1>2, <2>1
<1>9. \A k \in 0 .. N : s \in Over(k)
  <2> DEFINE S == {k \in 0 .. N : s \in Over(k)}
  <2>1. 0 \in S
    BY <1>2, <1>8
  <2> HIDE DEF Over
  <2>2. \A k \in 1 .. N : k - 1 \in S => k \in S
    BY <1>2, <1>7
  <2> HIDE DEF S
  <2>3. \A k \in 0 .. N : k \in S
    BY <1>2, <2>1, <2>2, Counting
  <2> QED BY <2>3 DEF S
<1>10. ASSUME NEW k \in 1 .. N, NEW x, NEW y, <<x, y>> \in W, x \notin Over(k - 1)
       PROVE  \E v \in Node : v \in Over(k) /\ v \notin Over(k - 1)
  <2> DEFINE D == {d \in Nat : \E v \in Node : v \notin Over(k - 1) /\ <<v, d>> \in W}
  <2>1. D # {} /\ D \in SUBSET Nat
    BY <1>3, <1>10
  <2>2. PICK d \in D : \A e \in D : d <= e
    BY <2>1, Least
  <2>3. PICK v \in Node : v \notin Over(k - 1) /\ <<v, d>> \in W
    BY <2>2
  <2>4. v # s
    BY <1>2, <1>9, <2>3
  <2>5. PICK u \in Node, c \in Nat, w \in Length : <<u, c>> \in W /\ <<u, v, w>> \in A /\ d = c + w
    <3>1. <<v, d>> \in Walks(A, s) /\ ~(v = s /\ d = 0)
      BY <2>3, <2>4
    <3>2. LastArc(A, s, v, d)
      BY <3>1, WalkLast
    <3> QED BY <3>2 DEF LastArc
  <2>6. ~(d <= c)
    BY <2>5, SMT DEF Length
  <2>7. u \in Over(k - 1)
    BY <2>2, <2>5, <2>6
  <2>8. PICK b \in Nat : <<u, b>> \in f[k - 1] /\ b <= c
    BY <2>5, <2>7
  <2>9. /\ <<u, b>>[1] = u /\ <<u, b>>[2] = b
        /\ <<u, v, w>>[1] = u /\ <<u, v, w>>[2] = v /\ <<u, v, w>>[3] = w
    BY SMT
  <2>10. <<v, b + w>> \in More(f[k - 1])
    <3>1. PICK l \in f[k - 1] : l[1] = u /\ l[2] = b
      BY <2>8, <2>9
    <3> DEFINE T(m) == {<<a[2], m[2] + a[3]>> : a \in {a \in A : a[1] = m[1]}}
    <3>2. <<v, b + w>> \in T(l)
      BY <2>5, <2>9, <3>1
    <3> HIDE DEF T
    <3>3. <<v, b + w>> \in UNION {T(m) : m \in f[k - 1]}
      BY <3>2
    <3> QED BY <3>3 DEF T
  <2>11. f[k - 1] \cup More(f[k - 1]) \in SUBSET W
    BY <1>2, <1>4, <1>5
  <2>12. PICK e \in Nat : e <= b + w /\ <<v, e>> \in Best(f[k - 1] \cup More(f[k - 1]))
    BY <1>6, <2>10, <2>11
  <2>13. e <= d
    BY <2>5, <2>8, <2>12, SMT DEF Length
  <2>14. \A i \in Nat : d <= i => e <= i
    BY <2>2, <2>12, <2>13, SMT
  <2>15. \A i \in Nat : <<v, i>> \in W => d <= i
    BY <2>2, <2>3
  <2>16. <<v, e>> \in f[k] /\ Near(v, e)
    BY <1>1, <2>12, <2>14, <2>15
  <2> QED BY <2>3, <2>16
<1> DEFINE All(k) == \A x, y : <<x, y>> \in W => x \in Over(k)
<1>11. \A k \in 0 .. N : Over(k) \subseteq Node
  OBVIOUS
<1> HIDE DEF Over
<1>12. IsFiniteSet(Node) /\ Cardinality(Node) = N
  BY NodesFinite
<1>13. \A k \in 0 .. N : IsFiniteSet(Over(k)) /\ Cardinality(Over(k)) \in Nat
  BY <1>11, <1>12, FS_Subset, FS_CardinalityType
<1>14. All(N)
  <2> DEFINE S == {k \in 0 .. N : All(k) \/ k + 1 <= Cardinality(Over(k))}
  <2>1. 0 \in S
    <3>1. Cardinality(Over(0)) # 0
      BY <1>2, <1>8, <1>13, FS_EmptySet
    <3>2. 0 + 1 <= Cardinality(Over(0))
      BY <1>2, <1>13, <3>1, SMT
    <3> QED BY <1>2, <3>2
  <2>2. ASSUME NEW k \in 1 .. N, k - 1 \in S PROVE k \in S
    <3>1. CASE All(k - 1)
      BY <1>2, <1>7, <3>1
    <3>2. CASE ~All(k - 1)
      <4>1. PICK v \in Node : v \in Over(k) /\ v \notin Over(k - 1)
        BY <1>10, <3>2
      <4>2. /\ Cardinality(Over(k - 1) \cup {v}) = Cardinality(Over(k - 1)) + 1
            /\ IsFiniteSet(Over(k - 1) \cup {v})
        BY <1>2, <1>13, <4>1, FS_AddElement
      <4>3. Over(k - 1) \cup {v} \subseteq Over(k)
        BY <1>7, <4>1
      <4>4. Cardinality(Over(k - 1) \cup {v}) <= Cardinality(Over(k))
        BY <1>2, <1>13, <4>3, FS_Subset
      <4>5. (k - 1) + 1 <= Cardinality(Over(k - 1))
        BY <2>2, <3>2
      <4>6. Cardinality(Over(k)) \in Nat /\ Cardinality(Over(k - 1)) \in Nat
        BY <1>2, <1>13
      <4>7. k + 1 <= Cardinality(Over(k))
        BY ONLY <4>2, <4>4, <4>5, <4>6, k \in 1 .. N, <1>2, SMT
      <4> QED BY <1>2, <4>7
    <3> QED BY <3>1, <3>2
  <2> HIDE DEF S
  <2>3. N \in S
    BY <1>2, <2>1, <2>2, Counting
  <2>4. Cardinality(Over(N)) <= N
    BY <1>2, <1>11, <1>12, FS_Subset
  <2>5. ~(N + 1 <= Cardinality(Over(N)))
    BY <1>2, <1>13, <2>4, SMT
  <2> QED BY <2>3, <2>5 DEF S
<1>15. From(A, s) \subseteq W
  BY <1>1, <1>2, <1>5
<1>16. ASSUME NEW v, NEW d, <<v, d>> \in W PROVE \E c \in Nat : <<v, c>> \in From(A, s) /\ c <= d
  <2>1. v \in Over(N) /\ d \in Nat
    BY <1>3, <1>14, <1>16
  <2> QED BY <1>1, <1>16, <2>1 DEF Over
<1> QED BY <1>15, <1>16

-----------------------------------------------------------------------------
(* Distances when some nodes are taken out.                                *)

(* More arcs, more walks.                                                  *)
LEMMA WalksMore ==
  ASSUME NEW A, NEW B, A \subseteq B, NEW s \in Node
  PROVE  Walks(A, s) \subseteq Walks(B, s)
BY DEF Walks, Spreads

(* An arc is a walk, and so is nothing.                                    *)
LEMMA WithinArc ==
  ASSUME NEW A, NEW u \in Node, NEW v \in Node
  PROVE  /\ \A d \in Nat : Within(A, u, u, d)
         /\ \A w \in Length : <<u, v, w>> \in A => Within(A, u, v, w)
<1>1. 0 \in Nat /\ (\A d \in Nat : 0 <= d) /\ \A w \in Length : w \in Nat /\ w <= w
  BY SMT DEF Length
<1> QED BY <1>1, WalkStep DEF Within

\* The arcs that neither leave nor enter x, or any of K.
Away(A, x) == {a \in A : a[1] # x /\ a[2] # x}

Off(A, K) == {a \in A : a[1] \notin K /\ a[2] \notin K}

\* The nodes K are apart: no arc joins two of them, and no node has arcs to
\* two of them.
Scattered(A, K) ==
  /\ \A x, y \in K : \A w \in Length : <<x, y, w>> \notin A
  /\ \A p \in Node, x, y \in K : \A w, z \in Length : <<p, x, w>> \in A /\ <<p, y, z>> \in A => x = y

\* What goes through x is as short without x.
Replaceable(A, x) ==
  \A p, q \in Node : \A w, z \in Length :
     <<p, x, w>> \in A /\ <<x, q, z>> \in A =>
        p = q \/ w + z >= IntMax \/ Within(Away(A, x), p, q, w + z)

(* When each of some nodes that are apart can be replaced while the others *)
(* are still there, all can be taken out at once: a shortest walk that     *)
(* goes through one of them has another first arc to a node that stays.    *)
LEMMA Bypass ==
  ASSUME NEW A \in SUBSET ArcSet, NEW K \in SUBSET Node, Scattered(A, K), \A x \in K : Replaceable(A, x)
  PROVE  \A p, q \in Node \ K : \A d \in Nat : d < IntMax /\ Within(A, p, q, d) => Within(Off(A, K), p, q, d)
<1> DEFINE B == Off(A, K)
           Fails(p, q, d) == <<q, d>> \in Walks(A, p) /\ ~Within(B, p, q, d)
           Bad == {d \in Nat : d < IntMax /\ \E p, q \in Node \ K : Fails(p, q, d)}
<1>0. IntMax \in Nat
  BY SizeAssumption, SMT
<1>1. Bad = {}
  <2> SUFFICES ASSUME Bad # {} PROVE FALSE
    OBVIOUS
  <2>1. PICK d \in Bad : \A c \in Bad : d <= c
    BY Least
  <2>2. PICK p \in Node \ K, q \in Node \ K : Fails(p, q, d)
    BY <2>1
  <2>3. d \in Nat /\ d < IntMax /\ p \in Node /\ q \in Node /\ p \notin K /\ q \notin K
    BY <2>1, <2>2
  <2>4. ASSUME NEW u \in Node, u \notin K, NEW c \in Nat, c < d, <<q, c>> \in Walks(A, u)
        PROVE  Within(B, u, q, c)
    <3>1. c < IntMax /\ ~(d <= c)
      BY <1>0, <2>3, <2>4, SMT
    <3>2. c \notin Bad
      BY <2>1, <3>1
    <3>3. ~Fails(u, q, c)
      BY <2>3, <2>4, <3>1, <3>2
    <3> QED BY <2>4, <3>3
  <2>5. ASSUME NEW u \in Node, u \notin K, NEW w \in Length, <<p, u, w>> \in A,
               NEW c \in Nat, <<q, c>> \in Walks(A, u), w + c <= d
        PROVE  FALSE
    <3>1. c < d /\ w \in Nat /\ w + c \in Nat
      BY <2>3, <2>5, SMT DEF Length
    <3>2. Within(B, u, q, c)
      BY <2>4, <2>5, <3>1
    <3>3. <<p, u, w>>[1] = p /\ <<p, u, w>>[2] = u
      BY SMT
    <3>4. <<p, u, w>> \in B
      BY <2>3, <2>5, <3>3 DEF Off
    <3>5. Within(B, p, u, w)
      BY <2>3, <3>4, WithinArc
    <3>6. Within(B, p, q, w + c)
      BY <2>3, <3>1, <3>2, <3>5, WithinJoin
    <3>7. Within(B, p, q, d)
      BY <2>3, <2>5, <3>1, <3>6, WithinLonger
    <3> QED BY <2>2, <3>7
  <2>6. ~(p = q /\ d = 0)
    BY <2>2, <2>3, WithinArc
  <2>7. PICK x \in Node, c \in Nat, w \in Length : <<p, x, w>> \in A /\ <<q, c>> \in Walks(A, x) /\ d = w + c
    <3>1. FirstArc(A, p, q, d)
      BY <2>2, <2>3, <2>6, WalkFirst
    <3> QED BY <3>1 DEF FirstArc
  <2>8. x \in K
    <3>1. w + c <= d
      BY <2>3, <2>7, SMT
    <3> QED BY <2>5, <2>7, <3>1
  <2>9. PICK r \in Node, b \in Nat, z \in Length : <<x, r, z>> \in A /\ <<q, b>> \in Walks(A, r) /\ c = z + b
    <3>1. FirstArc(A, x, q, c)
      BY <2>3, <2>7, <2>8, WalkFirst
    <3> QED BY <3>1 DEF FirstArc
  <2>10. r \notin K
    BY <2>8, <2>9 DEF Scattered
  <2>11. b < d /\ b <= d /\ w + z < IntMax /\ w + z \in Nat
    BY <1>0, <2>3, <2>7, <2>9, SMT DEF Length
  <2>12. p # r
    <3> SUFFICES ASSUME p = r PROVE FALSE
      OBVIOUS
    <3>1. Within(B, p, q, b)
      BY <2>4, <2>9, <2>10, <2>11
    <3>2. Within(B, p, q, d)
      BY <2>3, <2>11, <3>1, WithinLonger
    <3> QED BY <2>2, <3>2
  <2>13. Within(Away(A, x), p, r, w + z)
    <3>1. ~(w + z >= IntMax)
      BY <1>0, <2>11, SMT
    <3>2. Replaceable(A, x)
      BY <2>8
    <3> QED BY <2>3, <2>7, <2>9, <2>12, <3>1, <3>2 DEF Replaceable
  <2>14. PICK k \in Nat : k <= w + z /\ <<r, k>> \in Walks(Away(A, x), p)
    BY <2>13 DEF Within
  <2>15. PICK u \in Node, e \in Nat, v \in Length :
           <<p, u, v>> \in Away(A, x) /\ <<r, e>> \in Walks(Away(A, x), u) /\ k = v + e
    <3>1. FirstArc(Away(A, x), p, r, k)
      BY <2>3, <2>12, <2>14, WalkFirst
    <3> QED BY <3>1 DEF FirstArc
  <2>16. <<p, u, v>> \in A /\ u # x
    <3>1. <<p, u, v>>[2] = u
      BY SMT
    <3> QED BY <2>15, <3>1 DEF Away
  <2>17. u \notin K
    BY <2>3, <2>7, <2>8, <2>16 DEF Scattered
  <2>18. <<r, e>> \in Walks(A, u)
    <3>1. Away(A, x) \subseteq A
      BY DEF Away
    <3> QED BY <2>15, <3>1, WalksMore
  <2>19. <<q, e + b>> \in Walks(A, u)
    BY <2>9, <2>18, WalksJoin
  <2>20. e + b \in Nat /\ v + (e + b) <= d
    BY <2>3, <2>7, <2>9, <2>14, <2>15, SMT DEF Length
  <2> QED BY <2>5, <2>16, <2>17, <2>19, <2>20
<1> SUFFICES ASSUME NEW p \in Node \ K, NEW q \in Node \ K, NEW d \in Nat, d < IntMax, Within(A, p, q, d)
             PROVE  Within(B, p, q, d)
  OBVIOUS
<1>2. PICK c \in Nat : c <= d /\ <<q, c>> \in Walks(A, p)
  BY DEF Within
<1>3. c < IntMax
  BY <1>0, <1>2, SMT
<1>4. Within(B, p, q, c)
  BY <1>1, <1>2, <1>3
<1> QED BY <1>2, <1>4, WithinLonger

\* Every arc of A has a walk in B that is no longer.
Matched(A, B) == \A u, v \in Node, w \in Length : <<u, v, w>> \in A => Within(B, u, v, w)

\* A walk from s over U and a walk from t over D are joined by a walk over A
\* that makes up at most d.
Met(U, D, A, s, t, d) ==
  \E m, n \in Node, a, b, c \in Nat :
     a + b + c <= d /\ Within(U, s, m, a) /\ Within(D, t, n, b) /\ Within(A, m, n, c)

\* The distances of G can be found over U, D and A.
Covered(G, U, D, A) ==
  \A s, t \in Node, d \in Nat : d < IntMax /\ Within(G, s, t, d) => Met(U, D, A, s, t, d)

(* Replacing arcs by walks loses no distance.                              *)
LEMMA CoveredStill ==
  ASSUME NEW G, NEW U, NEW D, NEW A, NEW U2, NEW D2, NEW A2, Covered(G, U, D, A),
         Matched(U, U2), Matched(D, D2), Matched(A, A2)
  PROVE  Covered(G, U2, D2, A2)
<1> SUFFICES ASSUME NEW s \in Node, NEW t \in Node, NEW d \in Nat, d < IntMax, Within(G, s, t, d)
             PROVE  Met(U2, D2, A2, s, t, d)
  BY DEF Covered
<1>1. PICK m \in Node, n \in Node, a \in Nat, b \in Nat, c \in Nat :
        a + b + c <= d /\ Within(U, s, m, a) /\ Within(D, t, n, b) /\ Within(A, m, n, c)
  BY DEF Covered, Met
<1>2. Within(U2, s, m, a)
  BY <1>1, WalksDominated DEF Matched
<1>3. Within(D2, t, n, b)
  BY <1>1, WalksDominated DEF Matched
<1>4. Within(A2, m, n, c)
  BY <1>1, WalksDominated DEF Matched
<1> QED BY <1>1, <1>2, <1>3, <1>4 DEF Met

(* Arcs that are there match themselves.                                   *)
LEMMA MatchedMore ==
  ASSUME NEW A, NEW B, A \subseteq B
  PROVE  Matched(A, B)
BY WithinArc DEF Matched

(* At the end of a round the nodes K are taken out of A: their arcs go to  *)
(* U and, turned, to D.                                                    *)
LEMMA CoveredRound ==
  ASSUME NEW G, NEW U, NEW D, NEW A \in SUBSET ArcSet, NEW U2, NEW D2, Covered(G, U, D, A),
         NEW K \in SUBSET Node, Scattered(A, K), \A x \in K : Replaceable(A, x),
         Matched(U, U2), Matched(D, D2),
         \A x \in K, u \in Node, w \in Length : <<x, u, w>> \in A => <<x, u, w>> \in U2,
         \A x \in K, u \in Node, w \in Length : <<u, x, w>> \in A => <<x, u, w>> \in D2
  PROVE  Covered(G, U2, D2, Off(A, K))
<1> DEFINE B == Off(A, K)
<1> SUFFICES ASSUME NEW s \in Node, NEW t \in Node, NEW d \in Nat, d < IntMax, Within(G, s, t, d)
             PROVE  Met(U2, D2, B, s, t, d)
  BY DEF Covered
<1>0. IntMax \in Nat
  BY SizeAssumption, SMT
<1>1. PICK m \in Node, n \in Node, a \in Nat, b \in Nat, c \in Nat :
        a + b + c <= d /\ Within(U, s, m, a) /\ Within(D, t, n, b) /\ Within(A, m, n, c)
  BY DEF Covered, Met
<1>2. Within(U2, s, m, a)
  BY <1>1, WalksDominated DEF Matched
<1>3. Within(D2, t, n, b)
  BY <1>1, WalksDominated DEF Matched
<1>4. PICK c1 \in Nat : c1 <= c /\ <<n, c1>> \in Walks(A, m)
  BY <1>1 DEF Within
<1>5. a + b + 0 <= d /\ 0 \in Nat
  BY <1>1, SMT
<1>6. CASE m = n
  <2>1. Within(B, m, n, 0)
    BY <1>5, <1>6, WithinArc
  <2> QED BY <1>2, <1>3, <1>5, <2>1 DEF Met
<1>7. CASE m # n
  <2>1. PICK p \in Node, e \in Nat, f \in Nat :
          p \notin K /\ Within(U2, s, p, e) /\ <<n, f>> \in Walks(A, p) /\ e + f <= a + c
    <3>1. CASE m \notin K
      <4>1. a + c1 <= a + c
        BY <1>4, SMT
      <4> QED BY <1>2, <1>4, <3>1, <4>1
    <3>2. CASE m \in K
      <4>1. FirstArc(A, m, n, c1)
        BY <1>4, <1>7, WalkFirst
      <4>2. PICK u \in Node, g \in Nat, w \in Length :
              <<m, u, w>> \in A /\ <<n, g>> \in Walks(A, u) /\ c1 = w + g
        BY <4>1 DEF FirstArc
      <4>3. u \notin K /\ <<m, u, w>> \in U2
        BY <3>2, <4>2 DEF Scattered
      <4>4. w \in Nat /\ a + w \in Nat /\ (a + w) + g <= a + c
        BY <1>4, <4>2, SMT DEF Length
      <4>5. Within(U2, m, u, w)
        BY <4>3, WithinArc
      <4>6. Within(U2, s, u, a + w)
        BY <1>2, <4>4, <4>5, WithinJoin
      <4> QED BY <4>2, <4>3, <4>4, <4>6
    <3> QED BY <3>1, <3>2
  <2>2. CASE n \notin K
    <3>1. f < IntMax /\ f <= f /\ e + b + f <= d
      BY <1>0, <1>1, <2>1, SMT
    <3>2. Within(A, p, n, f)
      BY <2>1, <3>1 DEF Within
    <3>3. Within(B, p, n, f)
      BY <2>1, <2>2, <3>1, <3>2, Bypass
    <3> QED BY <1>3, <2>1, <3>1, <3>3 DEF Met
  <2>3. CASE n \in K
    <3>1. LastArc(A, p, n, f)
      BY <2>1, <2>3, WalkLast
    <3>2. PICK u \in Node, g \in Nat, w \in Length :
            <<u, g>> \in Walks(A, p) /\ <<u, n, w>> \in A /\ f = g + w
      BY <3>1 DEF LastArc
    <3>3. u \notin K /\ <<n, u, w>> \in D2
      BY <2>3, <3>2 DEF Scattered
    <3>4. w \in Nat /\ b + w \in Nat /\ g < IntMax /\ g <= g /\ e + (b + w) + g <= d
      BY <1>0, <1>1, <2>1, <3>2, SMT DEF Length
    <3>5. Within(D2, n, u, w)
      BY <3>3, WithinArc
    <3>6. Within(D2, t, u, b + w)
      BY <1>3, <3>4, <3>5, WithinJoin
    <3>7. Within(A, p, u, g)
      BY <3>2, <3>4 DEF Within
    <3>8. Within(B, p, u, g)
      BY <2>1, <3>3, <3>4, <3>7, Bypass
    <3> QED BY <2>1, <3>4, <3>6, <3>8 DEF Met
  <2> QED BY <2>2, <2>3
<1> QED BY <1>6, <1>7

-----------------------------------------------------------------------------
(* Keys and walks.                                                         *)

(* The key of a node after From is its distance, or IntMax.                *)
LEMMA KeyWithin ==
  ASSUME NEW A \in SUBSET ArcSet, NEW s \in Node, NEW t \in Node
  PROVE  /\ Key(From(A, s), t) \in Nat /\ Key(From(A, s), t) <= IntMax
         /\ \A d \in Nat : d < IntMax => (Key(From(A, s), t) <= d <=> Within(A, s, t, d))
<1> DEFINE L == From(A, s)
           k == Key(L, t)
<1>1. L \subseteq Walks(A, s) /\ \A v, d : <<v, d>> \in Walks(A, s) => \E c \in Nat : <<v, c>> \in L /\ c <= d
  BY FromExact
<1> HIDE DEF L
<1>2. \A l \in L : \E u \in Node, d \in Nat : l = <<u, d>>
  BY <1>1, WalksSpread, PairOf
<1>3. \A l \in L : l[2] \in Nat /\ l = <<l[1], l[2]>>
  <2> TAKE l \in L
  <2>1. PICK u \in Node, d \in Nat : l = <<u, d>>
    BY <1>2
  <2>2. l[1] = u /\ l[2] = d
    BY <2>1, SMT
  <2> QED BY <2>1, <2>2
<1>4. /\ k \in Nat /\ k <= IntMax
      /\ \A l \in L : l[1] = t => k <= l[2]
      /\ k = IntMax \/ \E l \in L : l[1] = t /\ k = l[2]
  <2>1. \A l \in L : l[2] \in Nat
    BY <1>3
  <2> QED BY <2>1, KeyIsLeast, SMT
<1>5. IntMax \in Nat
  BY SizeAssumption, SMT
<1> HIDE DEF k
<1>6. ASSUME NEW d \in Nat, d < IntMax, k <= d PROVE Within(A, s, t, d)
  <2>1. k # IntMax
    BY <1>4, <1>5, <1>6, SMT
  <2>2. PICK l \in L : l[1] = t /\ k = l[2]
    BY <1>4, <2>1
  <2>3. <<t, k>> \in Walks(A, s)
    BY <1>1, <1>3, <2>2
  <2> QED BY <1>4, <1>6, <2>3 DEF Within
<1>7. ASSUME NEW d \in Nat, Within(A, s, t, d) PROVE k <= d
  <2>1. PICK e \in Nat : e <= d /\ <<t, e>> \in Walks(A, s)
    BY <1>7 DEF Within
  <2>2. PICK c \in Nat : <<t, c>> \in L /\ c <= e
    BY <1>1, <2>1
  <2>3. <<t, c>>[1] = t /\ <<t, c>>[2] = c
    OBVIOUS
  <2>4. k <= c
    BY <1>4, <2>2, <2>3
  <2> QED BY <1>4, <2>1, <2>2, <2>4, SMT
<1>8. k \in Nat /\ k <= IntMax /\ \A d \in Nat : d < IntMax => (k <= d <=> Within(A, s, t, d))
  BY <1>4, <1>6, <1>7
<1> QED BY <1>8 DEF k, L

\* There are short walks from s to t over A as there are from u to v over B.
Alike(A, s, t, B, u, v) == \A d \in Nat : d < IntMax => (Within(A, s, t, d) <=> Within(B, u, v, d))

(* The same short walks, the same key.                                     *)
LEMMA SameKey ==
  ASSUME NEW A \in SUBSET ArcSet, NEW B \in SUBSET ArcSet, NEW s \in Node, NEW t \in Node, NEW u \in Node,
         NEW v \in Node, Alike(A, s, t, B, u, v)
  PROVE  Key(From(A, s), t) = Key(From(B, u), v)
<1> DEFINE k == Key(From(A, s), t)
           l == Key(From(B, u), v)
<1>1. k \in Nat /\ k <= IntMax /\ \A d \in Nat : d < IntMax => (k <= d <=> Within(A, s, t, d))
  BY KeyWithin
<1>2. l \in Nat /\ l <= IntMax /\ \A d \in Nat : d < IntMax => (l <= d <=> Within(B, u, v, d))
  BY KeyWithin
<1>3. \A d \in Nat : d < IntMax => (k <= d <=> l <= d)
  BY <1>1, <1>2 DEF Alike
<1>4. IntMax \in Nat
  BY SizeAssumption, SMT
<1> HIDE DEF k, l
<1>5. k = l
  BY <1>1, <1>2, <1>3, <1>4, SMT
<1> QED BY <1>5 DEF k, l

\* A walk over U from s and one over D from t meet.
Meet(U, D, s, t, d) ==
  \E m \in Node, a, b \in Nat : a + b <= d /\ Within(U, s, m, a) /\ Within(D, t, m, b)

\* They do for the short walks of G, and for no shorter ones.
Meets(G, U, D, s, t) ==
  /\ \A d \in Nat : d < IntMax /\ Within(G, s, t, d) => Meet(U, D, s, t, d)
  /\ \A m \in Node, a, b \in Nat : Within(U, s, m, a) /\ Within(D, t, m, b) => Within(G, s, t, a + b)

(* When every short walk of G is a walk over U and one over D that meet,   *)
(* and the other way round, the two searches have G's distances.           *)
LEMMA MeetingKeys ==
  ASSUME NEW G \in SUBSET ArcSet, NEW U \in SUBSET ArcSet, NEW D \in SUBSET ArcSet,
         NEW s \in Node, NEW t \in Node, Meets(G, U, D, s, t)
  PROVE  Key(From(G, s), t) =
           Min({IntMax} \cup {Key(From(U, s), m) + Key(From(D, t), m) : m \in Node})
<1> DEFINE k == Key(From(G, s), t)
           f(m) == Key(From(U, s), m)
           b(m) == Key(From(D, t), m)
           S == {IntMax} \cup {f(m) + b(m) : m \in Node}
<1>1. k \in Nat /\ k <= IntMax /\ \A d \in Nat : d < IntMax => (k <= d <=> Within(G, s, t, d))
  BY KeyWithin
<1>2. \A m \in Node : f(m) \in Nat /\ \A d \in Nat : d < IntMax => (f(m) <= d <=> Within(U, s, m, d))
  BY KeyWithin
<1>3. \A m \in Node : b(m) \in Nat /\ \A d \in Nat : d < IntMax => (b(m) <= d <=> Within(D, t, m, d))
  BY KeyWithin
<1>4. IntMax \in Nat
  BY SizeAssumption, SMT
<1> HIDE DEF k, f, b
<1>5. \A m \in Node : f(m) + b(m) \in Nat
  BY <1>2, <1>3, SMT
<1>6. S \in SUBSET Nat /\ S # {}
  BY <1>4, <1>5
<1>7. Min(S) \in S /\ \A y \in S : Min(S) <= y
  BY <1>6, MinIsLeast
<1>8. ASSUME NEW y \in S PROVE k <= y
  <2>1. CASE y = IntMax
    BY <1>1, <2>1
  <2>2. CASE y # IntMax
    <3>1. PICK m \in Node : y = f(m) + b(m)
      BY <2>2
    <3>2. f(m) \in Nat /\ b(m) \in Nat /\ y \in Nat
      BY <1>2, <1>3, <1>5, <3>1
    <3>3. CASE y >= IntMax
      BY <1>1, <1>4, <3>2, <3>3, SMT
    <3>4. CASE ~(y >= IntMax)
      <4>1. f(m) < IntMax /\ b(m) < IntMax /\ y < IntMax /\ f(m) <= f(m) /\ b(m) <= b(m)
        BY <1>4, <3>1, <3>2, <3>4, SMT
      <4>2. Within(U, s, m, f(m)) /\ Within(D, t, m, b(m))
        BY <1>2, <1>3, <3>2, <4>1
      <4>3. Within(G, s, t, y)
        BY <3>1, <3>2, <4>2 DEF Meets
      <4> QED BY <1>1, <3>2, <4>1, <4>3
    <3> QED BY <3>3, <3>4
  <2> QED BY <2>1, <2>2
<1>9. \E y \in S : y <= k
  <2>1. CASE k = IntMax
    BY <1>1, <2>1
  <2>2. CASE k # IntMax
    <3>1. k < IntMax /\ k <= k
      BY <1>1, <1>4, <2>2, SMT
    <3>2. Within(G, s, t, k)
      BY <1>1, <3>1
    <3>7. Meet(U, D, s, t, k)
      BY <1>1, <3>1, <3>2 DEF Meets
    <3>3. PICK m \in Node, a \in Nat, c \in Nat : a + c <= k /\ Within(U, s, m, a) /\ Within(D, t, m, c)
      BY <3>7 DEF Meet
    <3>4. a < IntMax /\ c < IntMax
      BY <1>1, <1>4, <3>1, <3>3, SMT
    <3>5. f(m) <= a /\ b(m) <= c /\ f(m) \in Nat /\ b(m) \in Nat
      BY <1>2, <1>3, <3>3, <3>4
    <3>6. f(m) + b(m) <= k
      BY <1>1, <3>3, <3>5, SMT
    <3> QED BY <3>6
  <2> QED BY <2>1, <2>2
<1>10. PICK y \in S : y <= k
  BY <1>9
<1>11. Min(S) <= y /\ k <= Min(S) /\ Min(S) \in Nat /\ y \in Nat
  BY <1>6, <1>7, <1>8, <1>10
<1> HIDE DEF S
<1>12. k = Min(S)
  BY <1>1, <1>10, <1>11, SMT
<1> QED BY <1>12 DEF k, f, b, S

-----------------------------------------------------------------------------
(* A hierarchy under construction: records E of the edges kept at the      *)
(* nodes, of which L are left, K are being contracted and T have their     *)
(* shortcuts.                                                              *)

Record == [source : Node, edge : EdgeType]

\* The arcs kept where they start, and where they end, at nodes of L.
Outs(E, L) ==
  {a \in ArcSet : \E r \in E : /\ r.source \in L /\ r.edge.forward
                               /\ a = <<r.source, r.edge.target, r.edge.distance>>}

Ins(E, L) ==
  {a \in ArcSet : \E r \in E : /\ r.source \in L /\ r.edge.backward
                               /\ a = <<r.edge.target, r.source, r.edge.distance>>}

Arcs(E, L) == Outs(E, L) \cup Ins(E, L)

\* What a search from the source, and one from the target, finds at the
\* contracted nodes.
Ups(E, L) == Outs(E, Node \ L)

Downs(E, L) ==
  {a \in ArcSet : \E r \in E : /\ r.source \in Node \ L /\ r.edge.backward
                               /\ a = <<r.source, r.edge.target, r.edge.distance>>}

\* A record is a walk of the input G.
Real(G, E) ==
  \A r \in E : /\ r.edge.distance \in Length
               /\ r.edge.forward => Within(G, r.source, r.edge.target, r.edge.distance)
               /\ r.edge.backward => Within(G, r.edge.target, r.source, r.edge.distance)

\* Nodes that are left know nodes that are left.
Inside(E, L) == \A r \in E : r.source \in L => r.edge.target \in L

\* A record at a node that stays has one at its other end that is no longer.
Twins(E, M) ==
  \A r \in E : r.source \in M =>
     /\ r.edge.forward => \E q \in E : /\ q.source = r.edge.target /\ q.edge.target = r.source
                                       /\ q.edge.backward /\ q.edge.distance <= r.edge.distance
     /\ r.edge.backward => \E q \in E : /\ q.source = r.edge.target /\ q.edge.target = r.source
                                        /\ q.edge.forward /\ q.edge.distance <= r.edge.distance

\* What leads through a node of T is as short without it.
Bridged(E, A, T) ==
  \A i, o \in E : i.source \in T /\ o.source = i.source /\ i.edge.backward /\ o.edge.forward =>
     \/ i.edge.target = o.edge.target
     \/ i.edge.distance + o.edge.distance >= IntMax
     \/ Within(Away(A, i.source), i.edge.target, o.edge.target, i.edge.distance + o.edge.distance)

\* No edge of a contracted node is kept at its other end.
OneWay(E, L) ==
  \A r, q \in E : r.source \notin L /\ q.source = r.edge.target => q.edge.target # r.source

\* The halves of a shortcut from u to v over x: i is kept at x and leads there
\* from u, o leads on to v.
Halves(i, o, x, u, v) ==
  /\ i.source = x /\ i.edge.target = u /\ i.edge.backward
  /\ o.source = x /\ o.edge.target = v /\ o.edge.forward

\* A record from u to v over x, in the direction of the record at its start
\* (forward) or at its end: it has two halves, and no two halves are shorter
\* than the shortest record beside it.
Splits(E, r, u, v) ==
  /\ \E i, o \in E : /\ Halves(i, o, r.edge.id, u, v)
                     /\ i.edge.distance + o.edge.distance = r.edge.distance
  /\ \A i, o \in E : Halves(i, o, r.edge.id, u, v) =>
        \E q \in E : /\ q.source = r.source /\ q.edge.target = r.edge.target
                     /\ r.source = u => q.edge.forward
                     /\ r.source = v => q.edge.backward
                     /\ q.edge.distance <= i.edge.distance + o.edge.distance

Unpacks(E, D) ==
  \A r \in E : r.edge.shortcut =>
     /\ r.edge.id \in D /\ r.source # r.edge.target
     /\ r.edge.forward => Splits(E, r, r.source, r.edge.target)
     /\ r.edge.backward => Splits(E, r, r.edge.target, r.source)

HInv(G, E, L, K, T) ==
  /\ L \subseteq Node /\ K \subseteq L /\ T \subseteq K /\ E \subseteq Record
  /\ Real(G, E) /\ Inside(E, L) /\ Twins(E, L \ K)
  /\ Bridged(E, Arcs(E, L), T)
  /\ Covered(G, Ups(E, L), Downs(E, L), Arcs(E, L))
  /\ OneWay(E, L) /\ Unpacks(E, (Node \ L) \cup T)

-----------------------------------------------------------------------------
(* What the steps of a round do to a hierarchy.                            *)

\* Every arc of A has one in B between the same nodes that is no longer.
Answered(A, B) ==
  \A u, v \in Node, w \in Length : <<u, v, w>> \in A => \E z \in Length : z <= w /\ <<u, v, z>> \in B

(* Such arcs can replace the others, also around a node.                   *)
LEMMA AnsweredMatch ==
  ASSUME NEW A, NEW B, Answered(A, B)
  PROVE  Matched(A, B) /\ \A x : Matched(Away(A, x), Away(B, x))
<1>1. ASSUME NEW C, NEW D, Answered(C, D) PROVE Matched(C, D)
  <2> SUFFICES ASSUME NEW u \in Node, NEW v \in Node, NEW w \in Length, <<u, v, w>> \in C
               PROVE  Within(D, u, v, w)
    BY DEF Matched
  <2>1. PICK z \in Length : z <= w /\ <<u, v, z>> \in D
    BY <1>1 DEF Answered
  <2>2. z \in Nat /\ w \in Nat
    BY SMT DEF Length
  <2>3. Within(D, u, v, z)
    BY <2>1, WithinArc
  <2> QED BY <2>1, <2>2, <2>3, WithinLonger
<1>2. ASSUME NEW x PROVE Answered(Away(A, x), Away(B, x))
  <2> SUFFICES ASSUME NEW u \in Node, NEW v \in Node, NEW w \in Length, <<u, v, w>> \in Away(A, x)
               PROVE  \E z \in Length : z <= w /\ <<u, v, z>> \in Away(B, x)
    BY DEF Answered
  <2>1. \A z : <<u, v, z>>[1] = u /\ <<u, v, z>>[2] = v
    OBVIOUS
  <2>2. <<u, v, w>> \in A /\ u # x /\ v # x
    BY <2>1 DEF Away
  <2>3. PICK z \in Length : z <= w /\ <<u, v, z>> \in B
    BY <2>2 DEF Answered
  <2> QED BY <2>1, <2>2, <2>3 DEF Away
<1> QED BY <1>1, <1>2

(* Bridges hold over shorter arcs.                                         *)
LEMMA BridgedStill ==
  ASSUME NEW E, NEW F, NEW A, NEW B, NEW T, Bridged(E, A, T), Answered(A, B),
         \A r \in E : r \in Record /\ r.edge.distance \in Length,
         \A r \in F : r.source \in T => r \in E
  PROVE  Bridged(F, B, T)
<1> SUFFICES ASSUME NEW i \in F, NEW o \in F, i.source \in T, o.source = i.source, i.edge.backward, o.edge.forward,
                    i.edge.target # o.edge.target, ~(i.edge.distance + o.edge.distance >= IntMax)
             PROVE  Within(Away(B, i.source), i.edge.target, o.edge.target, i.edge.distance + o.edge.distance)
  BY DEF Bridged
<1>1. i \in E /\ o \in E
  OBVIOUS
<1>2. Within(Away(A, i.source), i.edge.target, o.edge.target, i.edge.distance + o.edge.distance)
  BY <1>1 DEF Bridged
<1>3. i.edge.target \in Node /\ o.edge.target \in Node
  BY <1>1 DEF Record, EdgeType
<1>4. i.edge.distance \in Length /\ o.edge.distance \in Length
  BY <1>1
<1>5. i.edge.distance + o.edge.distance \in Nat
  BY <1>4, SMT DEF Length
<1>6. Matched(Away(A, i.source), Away(B, i.source))
  BY AnsweredMatch
<1> QED BY <1>2, <1>3, <1>5, <1>6, WalksDominated DEF Matched

(* The arcs of a record.                                                   *)
LEMMA RecordArcs ==
  ASSUME NEW E, NEW L, NEW r \in E, r \in Record, r.edge.distance \in Length, r.source \in L
  PROVE  /\ r.edge.forward => <<r.source, r.edge.target, r.edge.distance>> \in Outs(E, L)
         /\ r.edge.backward => <<r.edge.target, r.source, r.edge.distance>> \in Ins(E, L)
<1>1. r.source \in Node /\ r.edge.target \in Node
  BY DEF Record, EdgeType
<1>2. /\ <<r.source, r.edge.target, r.edge.distance>> \in ArcSet
      /\ <<r.edge.target, r.source, r.edge.distance>> \in ArcSet
  BY <1>1, SMT DEF ArcSet
<1> QED BY <1>2 DEF Outs, Ins

(* An arc is known by its ends and its length.                             *)
LEMMA TripleIs == \A u, v, w, x, y, z : <<u, v, w>> = <<x, y, z>> => u = x /\ v = y /\ w = z
BY SMT

(* When records at nodes that are left change, the contracted nodes keep   *)
(* their arcs.                                                             *)
LEMMA OldArcs ==
  ASSUME NEW E, NEW F, NEW L, \A r : r.source \notin L => (r \in E <=> r \in F)
  PROVE  Ups(E, L) = Ups(F, L) /\ Downs(E, L) = Downs(F, L)
BY DEF Ups, Downs, Outs

\* q can stand for r.
Betters(q, r) ==
  /\ q.source = r.source /\ q.edge.target = r.edge.target
  /\ q.edge.forward = r.edge.forward /\ q.edge.backward = r.edge.backward
  /\ q.edge.distance <= r.edge.distance

(* Distances of records are compared as numbers.                           *)
LEMMA RecordOrder ==
  ASSUME NEW G, NEW E \in SUBSET Record, Real(G, E)
  PROVE  /\ \A r \in E : r.edge.distance \in Length /\ r.edge.distance \in Nat /\ r.edge.distance <= r.edge.distance
         /\ \A p, q \in E : \A n \in Nat :
               p.edge.distance <= q.edge.distance /\ q.edge.distance <= n => p.edge.distance <= n
         /\ \A p, q \in E : p.edge.distance + q.edge.distance \in Nat
<1>1. \A r \in E : r.edge.distance \in Length
  BY DEF Real
<1>2. /\ \A d \in Length : d \in Nat /\ d <= d
      /\ \A c, d \in Length : (\A n \in Nat : c <= d /\ d <= n => c <= n) /\ c + d \in Nat
  BY SMT DEF Length
<1>3. \A r \in E : r.edge.distance \in Length /\ r.edge.distance \in Nat /\ r.edge.distance <= r.edge.distance
  BY <1>1, <1>2
<1>4. ASSUME NEW p \in E, NEW q \in E
      PROVE  /\ p.edge.distance + q.edge.distance \in Nat
             /\ \A n \in Nat : p.edge.distance <= q.edge.distance /\ q.edge.distance <= n => p.edge.distance <= n
  <2>1. p.edge.distance \in Length /\ q.edge.distance \in Length
    BY <1>1
  <2> QED BY <1>2, <2>1
<1> QED BY <1>3, <1>4

(* A record is dropped for a better one beside it.                         *)
LEMMA HImproved ==
  ASSUME NEW G, NEW E, NEW F \in SUBSET E, NEW L, NEW K, NEW T, HInv(G, E, L, K, T),
         \A r \in E : r \notin F => r.source \in L \ K /\ \E q \in F : Betters(q, r)
  PROVE  HInv(G, F, L, K, T)
<1>1. /\ L \subseteq Node /\ K \subseteq L /\ T \subseteq K /\ E \in SUBSET Record /\ F \in SUBSET Record
      /\ Real(G, E) /\ Inside(E, L) /\ Twins(E, L \ K) /\ Bridged(E, Arcs(E, L), T)
      /\ Covered(G, Ups(E, L), Downs(E, L), Arcs(E, L)) /\ OneWay(E, L) /\ Unpacks(E, (Node \ L) \cup T)
  BY DEF HInv
<1>2. Real(G, F) /\ Inside(F, L) /\ OneWay(F, L)
  BY <1>1 DEF Real, Inside, OneWay
<1>3. /\ \A r \in E : r.edge.distance \in Length /\ r.edge.distance \in Nat /\ r.edge.distance <= r.edge.distance
      /\ \A p, q \in E : \A n \in Nat :
            p.edge.distance <= q.edge.distance /\ q.edge.distance <= n => p.edge.distance <= n
      /\ \A p, q \in E : p.edge.distance + q.edge.distance \in Nat
  BY <1>1, RecordOrder
<1>4. ASSUME NEW r \in E PROVE \E q \in F : Betters(q, r)
  BY <1>3 DEF Betters
<1>5. Twins(F, L \ K)
  <2> SUFFICES ASSUME NEW r \in F, r.source \in L \ K
      PROVE  /\ r.edge.forward => \E q \in F : /\ q.source = r.edge.target /\ q.edge.target = r.source
                                               /\ q.edge.backward /\ q.edge.distance <= r.edge.distance
             /\ r.edge.backward => \E q \in F : /\ q.source = r.edge.target /\ q.edge.target = r.source
                                                /\ q.edge.forward /\ q.edge.distance <= r.edge.distance
    BY DEF Twins
  <2>1. ASSUME NEW q \in E, q.edge.distance <= r.edge.distance
        PROVE  \E p \in F : Betters(p, q) /\ p.edge.distance <= r.edge.distance
    <3>1. PICK p \in F : Betters(p, q)
      BY <1>4
    <3>2. p \in E /\ p.edge.distance <= q.edge.distance /\ r.edge.distance \in Nat
      BY <1>3, <3>1 DEF Betters
    <3>3. p.edge.distance <= r.edge.distance
      BY <1>3, <2>1, <3>2
    <3> QED BY <3>1, <3>3
  <2>2. ASSUME r.edge.forward
        PROVE  \E q \in F : /\ q.source = r.edge.target /\ q.edge.target = r.source
                            /\ q.edge.backward /\ q.edge.distance <= r.edge.distance
    <3>1. PICK q \in E : /\ q.source = r.edge.target /\ q.edge.target = r.source
                         /\ q.edge.backward /\ q.edge.distance <= r.edge.distance
      BY <1>1, <2>2 DEF Twins
    <3>2. PICK p \in F : Betters(p, q) /\ p.edge.distance <= r.edge.distance
      BY <2>1, <3>1
    <3>3. p.source = r.edge.target /\ p.edge.target = r.source /\ p.edge.backward
      BY <3>1, <3>2 DEF Betters
    <3> QED BY <3>2, <3>3
  <2>3. ASSUME r.edge.backward
        PROVE  \E q \in F : /\ q.source = r.edge.target /\ q.edge.target = r.source
                            /\ q.edge.forward /\ q.edge.distance <= r.edge.distance
    <3>1. PICK q \in E : /\ q.source = r.edge.target /\ q.edge.target = r.source
                         /\ q.edge.forward /\ q.edge.distance <= r.edge.distance
      BY <1>1, <2>3 DEF Twins
    <3>2. PICK p \in F : Betters(p, q) /\ p.edge.distance <= r.edge.distance
      BY <2>1, <3>1
    <3>3. p.source = r.edge.target /\ p.edge.target = r.source /\ p.edge.forward
      BY <3>1, <3>2 DEF Betters
    <3> QED BY <3>2, <3>3
  <2> QED BY <2>2, <2>3
<1>6. Answered(Arcs(E, L), Arcs(F, L))
  <2> SUFFICES ASSUME NEW u \in Node, NEW v \in Node, NEW w \in Length, <<u, v, w>> \in Arcs(E, L)
               PROVE  \E z \in Length : z <= w /\ <<u, v, z>> \in Arcs(F, L)
    BY DEF Answered
  <2>1. CASE <<u, v, w>> \in Outs(E, L)
    <3>1. PICK r \in E : r.source \in L /\ r.edge.forward /\ r.source = u /\ r.edge.target = v /\ r.edge.distance = w
      BY <2>1, TripleIs DEF Outs
    <3>2. PICK q \in F : Betters(q, r)
      BY <1>4
    <3>3. q.source = u /\ q.edge.target = v /\ q.edge.forward /\ q.edge.distance <= w /\ q.edge.distance \in Length
      BY <1>3, <3>1, <3>2 DEF Betters
    <3>4. <<u, v, q.edge.distance>> \in Outs(F, L)
      BY <1>1, <3>1, <3>3, RecordArcs
    <3> QED BY <3>3, <3>4 DEF Arcs
  <2>2. CASE <<u, v, w>> \in Ins(E, L)
    <3>1. PICK r \in E : r.source \in L /\ r.edge.backward /\ r.edge.target = u /\ r.source = v /\ r.edge.distance = w
      BY <2>2, TripleIs DEF Ins
    <3>2. PICK q \in F : Betters(q, r)
      BY <1>4
    <3>3. q.source = v /\ q.edge.target = u /\ q.edge.backward /\ q.edge.distance <= w /\ q.edge.distance \in Length
      BY <1>3, <3>1, <3>2 DEF Betters
    <3>4. <<u, v, q.edge.distance>> \in Ins(F, L)
      BY <1>1, <3>1, <3>3, RecordArcs
    <3> QED BY <3>3, <3>4 DEF Arcs
  <2> QED BY <2>1, <2>2 DEF Arcs
<1>7. Bridged(F, Arcs(F, L), T)
  BY <1>1, <1>3, <1>6, BridgedStill
<1>8. Covered(G, Ups(F, L), Downs(F, L), Arcs(F, L))
  <2>1. Ups(E, L) = Ups(F, L) /\ Downs(E, L) = Downs(F, L)
    BY OldArcs
  <2>2. Matched(Arcs(E, L), Arcs(F, L))
    BY <1>6, AnsweredMatch
  <2> QED BY <1>1, <2>1, <2>2, MatchedMore, CoveredStill
<1>9. Unpacks(F, (Node \ L) \cup T)
  <2>1. ASSUME NEW r \in F, NEW u, NEW v, r.edge.id \in (Node \ L) \cup T, Splits(E, r, u, v)
        PROVE  Splits(F, r, u, v)
    <3>1. \A i \in E : i.source = r.edge.id => i \in F
      BY <1>1, <2>1
    <3>2. \E i, o \in F : /\ Halves(i, o, r.edge.id, u, v)
                          /\ i.edge.distance + o.edge.distance = r.edge.distance
      BY <2>1, <3>1 DEF Splits, Halves
    <3>3. ASSUME NEW i \in F, NEW o \in F, Halves(i, o, r.edge.id, u, v)
          PROVE  \E q \in F : /\ q.source = r.source /\ q.edge.target = r.edge.target
                              /\ r.source = u => q.edge.forward
                              /\ r.source = v => q.edge.backward
                              /\ q.edge.distance <= i.edge.distance + o.edge.distance
      <4>1. PICK q \in E : /\ q.source = r.source /\ q.edge.target = r.edge.target
                           /\ r.source = u => q.edge.forward
                           /\ r.source = v => q.edge.backward
                           /\ q.edge.distance <= i.edge.distance + o.edge.distance
        BY <2>1, <3>3 DEF Splits
      <4>2. PICK p \in F : Betters(p, q)
        BY <1>4
      <4>3. p.edge.distance <= i.edge.distance + o.edge.distance
        <5>1. p \in E /\ p.edge.distance <= q.edge.distance /\ i.edge.distance + o.edge.distance \in Nat
          BY <1>3, <4>2 DEF Betters
        <5> QED BY <1>3, <4>1, <5>1
      <4> QED BY <4>1, <4>2, <4>3 DEF Betters
    <3> QED BY <3>2, <3>3 DEF Splits
  <2> QED BY <1>1, <2>1 DEF Unpacks
<1> QED BY <1>1, <1>2, <1>5, <1>7, <1>8, <1>9 DEF HInv

(* The records that lead to a node of the round are dropped: its own       *)
(* records stand for them.                                                 *)
LEMMA HTrimmed ==
  ASSUME NEW G, NEW E, NEW F, NEW L, NEW K, NEW T, HInv(G, E, L, K, T), NEW x \in K,
         F = {r \in E : ~(r.source \in L \ K /\ r.edge.target = x)}
  PROVE  HInv(G, F, L, K, T)
<1>1. /\ L \subseteq Node /\ K \subseteq L /\ T \subseteq K /\ E \in SUBSET Record /\ F \in SUBSET Record
      /\ Real(G, E) /\ Inside(E, L) /\ Twins(E, L \ K) /\ Bridged(E, Arcs(E, L), T)
      /\ Covered(G, Ups(E, L), Downs(E, L), Arcs(E, L)) /\ OneWay(E, L) /\ Unpacks(E, (Node \ L) \cup T)
  BY DEF HInv
<1>2. F \subseteq E /\ \A r \in E : r \in F \/ (r.source \in L \ K /\ r.edge.target = x)
  OBVIOUS
<1>3. Real(G, F) /\ Inside(F, L) /\ OneWay(F, L)
  BY <1>1, <1>2 DEF Real, Inside, OneWay
<1>4. \A r \in E : r.edge.distance \in Length
  BY <1>1 DEF Real
<1>5. Twins(F, L \ K)
  <2>1. ASSUME NEW r \in F, NEW q \in E, r.source \in L \ K, q.edge.target = r.source PROVE q \in F
    <3>1. q.edge.target # x
      BY <2>1
    <3> QED BY <1>2, <3>1
  <2> SUFFICES ASSUME NEW r \in F, r.source \in L \ K
               PROVE  /\ r.edge.forward => \E q \in F : /\ q.source = r.edge.target /\ q.edge.target = r.source
                                                        /\ q.edge.backward /\ q.edge.distance <= r.edge.distance
                      /\ r.edge.backward => \E q \in F : /\ q.source = r.edge.target /\ q.edge.target = r.source
                                                         /\ q.edge.forward /\ q.edge.distance <= r.edge.distance
    BY DEF Twins
  <2>2. r \in E
    BY <1>2
  <2> QED BY <1>1, <2>1, <2>2 DEF Twins
<1>6. Answered(Arcs(E, L), Arcs(F, L))
  <2> SUFFICES ASSUME NEW u \in Node, NEW v \in Node, NEW w \in Length, <<u, v, w>> \in Arcs(E, L)
               PROVE  \E z \in Length : z <= w /\ <<u, v, z>> \in Arcs(F, L)
    BY DEF Answered
  <2>0. w <= w
    BY SMT DEF Length
  <2>1. CASE <<u, v, w>> \in Outs(E, L)
    <3>1. PICK r \in E : r.source \in L /\ r.edge.forward /\ r.source = u /\ r.edge.target = v /\ r.edge.distance = w
      BY <2>1, TripleIs DEF Outs
    <3>2. CASE r \in F
      <4>1. <<u, v, w>> \in Outs(F, L)
        BY <1>1, <1>4, <3>1, <3>2, RecordArcs
      <4> QED BY <2>0, <4>1 DEF Arcs
    <3>3. CASE r \notin F
      <4>1. r.source \in L \ K /\ r.edge.target = x
        BY <1>2, <3>3
      <4>2. PICK q \in E : /\ q.source = r.edge.target /\ q.edge.target = r.source
                           /\ q.edge.backward /\ q.edge.distance <= r.edge.distance
        BY <1>1, <3>1, <4>1 DEF Twins
      <4>3. q \in F /\ q.source \in L /\ q \in Record
        BY <1>1, <1>2, <4>1, <4>2
      <4>4. <<q.edge.target, q.source, q.edge.distance>> \in Ins(F, L)
        BY <1>4, <4>2, <4>3, RecordArcs
      <4>5. <<u, v, q.edge.distance>> \in Arcs(F, L)
        BY <3>1, <4>2, <4>4 DEF Arcs
      <4> QED BY <1>4, <3>1, <4>2, <4>5
    <3> QED BY <3>2, <3>3
  <2>2. CASE <<u, v, w>> \in Ins(E, L)
    <3>1. PICK r \in E : r.source \in L /\ r.edge.backward /\ r.edge.target = u /\ r.source = v /\ r.edge.distance = w
      BY <2>2, TripleIs DEF Ins
    <3>2. CASE r \in F
      <4>1. <<u, v, w>> \in Ins(F, L)
        BY <1>1, <1>4, <3>1, <3>2, RecordArcs
      <4> QED BY <2>0, <4>1 DEF Arcs
    <3>3. CASE r \notin F
      <4>1. r.source \in L \ K /\ r.edge.target = x
        BY <1>2, <3>3
      <4>2. PICK q \in E : /\ q.source = r.edge.target /\ q.edge.target = r.source
                           /\ q.edge.forward /\ q.edge.distance <= r.edge.distance
        BY <1>1, <3>1, <4>1 DEF Twins
      <4>3. q \in F /\ q.source \in L /\ q \in Record
        BY <1>1, <1>2, <4>1, <4>2
      <4>4. <<q.source, q.edge.target, q.edge.distance>> \in Outs(F, L)
        BY <1>4, <4>2, <4>3, RecordArcs
      <4>5. <<u, v, q.edge.distance>> \in Arcs(F, L)
        BY <3>1, <4>2, <4>4 DEF Arcs
      <4> QED BY <1>4, <3>1, <4>2, <4>5
    <3> QED BY <3>2, <3>3
  <2> QED BY <2>1, <2>2 DEF Arcs
<1>7. Bridged(F, Arcs(F, L), T)
  BY <1>1, <1>2, <1>4, <1>6, BridgedStill
<1>8. Covered(G, Ups(F, L), Downs(F, L), Arcs(F, L))
  <2>1. Ups(E, L) = Ups(F, L) /\ Downs(E, L) = Downs(F, L)
    BY <1>2, OldArcs
  <2>2. Matched(Arcs(E, L), Arcs(F, L))
    BY <1>6, AnsweredMatch
  <2> QED BY <1>1, <2>1, <2>2, MatchedMore, CoveredStill
<1>9. Unpacks(F, (Node \ L) \cup T)
  <2>1. ASSUME NEW r \in F, NEW u, NEW v, r.edge.id \in (Node \ L) \cup T, Splits(E, r, u, v)
        PROVE  Splits(F, r, u, v)
    <3>1. \A i \in E : i.source = r.edge.id => i \in F
      BY <1>1, <1>2, <2>1
    <3>2. \A q \in E : q.source = r.source /\ q.edge.target = r.edge.target => q \in F
      OBVIOUS
    <3>3. \E i, o \in F : /\ Halves(i, o, r.edge.id, u, v)
                          /\ i.edge.distance + o.edge.distance = r.edge.distance
      BY <2>1, <3>1 DEF Splits, Halves
    <3> QED BY <1>2, <2>1, <3>2, <3>3 DEF Splits
  <2> QED BY <1>1, <1>2, <2>1 DEF Unpacks
<1> QED BY <1>1, <1>3, <1>5, <1>7, <1>8, <1>9 DEF HInv

(* The shortcuts of a node of the round are recorded.                      *)
LEMMA HShortcuts ==
  ASSUME NEW G, NEW E, NEW N \in SUBSET Record, NEW F, NEW L, NEW K, NEW T, HInv(G, E, L, K, T), NEW x \in K,
         F = E \cup N, Real(G, N), Twins(N, L \ K),
         \A r \in N : r.source \in L \ K /\ r.edge.target \in L \ K /\ r.source # r.edge.target,
         Bridged(F, Arcs(F, L), {x}),
         \A r \in N : /\ r.edge.id = x
                      /\ r.edge.forward => Splits(F, r, r.source, r.edge.target)
                      /\ r.edge.backward => Splits(F, r, r.edge.target, r.source)
  PROVE  HInv(G, F, L, K, T \cup {x})
<1>1. /\ L \subseteq Node /\ K \subseteq L /\ T \subseteq K /\ E \in SUBSET Record /\ F \in SUBSET Record
      /\ Real(G, E) /\ Inside(E, L) /\ Twins(E, L \ K) /\ Bridged(E, Arcs(E, L), T)
      /\ Covered(G, Ups(E, L), Downs(E, L), Arcs(E, L)) /\ OneWay(E, L) /\ Unpacks(E, (Node \ L) \cup T)
  BY DEF HInv
<1>2. Real(G, F)
  BY <1>1 DEF Real
<1>3. Inside(F, L) /\ OneWay(F, L)
  BY <1>1 DEF Inside, OneWay
<1>4. \A r \in F : r.edge.distance \in Length
  BY <1>2 DEF Real
<1>5. Twins(F, L \ K)
  BY <1>1 DEF Twins
<1>6. Arcs(E, L) \subseteq Arcs(F, L)
  BY DEF Arcs, Outs, Ins
<1>7. Answered(Arcs(E, L), Arcs(F, L))
  <2>1. \A w \in Length : w <= w
    BY SMT DEF Length
  <2> QED BY <1>6, <2>1 DEF Answered
<1>8. Bridged(F, Arcs(F, L), T)
  BY <1>1, <1>4, <1>7, BridgedStill
<1>9. Bridged(F, Arcs(F, L), T \cup {x})
  BY <1>8 DEF Bridged
<1>10. Covered(G, Ups(F, L), Downs(F, L), Arcs(F, L))
  <2>1. Ups(E, L) = Ups(F, L) /\ Downs(E, L) = Downs(F, L)
    BY OldArcs
  <2> QED BY <1>1, <1>6, <2>1, MatchedMore, CoveredStill
<1>11. Unpacks(F, (Node \ L) \cup (T \cup {x}))
  <2>1. ASSUME NEW r \in E, NEW u, NEW v, r.edge.id \in (Node \ L) \cup T, Splits(E, r, u, v)
        PROVE  Splits(F, r, u, v)
    <3>1. \A i \in F : i.source = r.edge.id => i \in E
      BY <1>1, <2>1
    <3>2. \A i, o \in F : Halves(i, o, r.edge.id, u, v) => i \in E /\ o \in E
      BY <3>1 DEF Halves
    <3>3. E \subseteq F
      OBVIOUS
    <3>4. \E i, o \in F : /\ Halves(i, o, r.edge.id, u, v)
                          /\ i.edge.distance + o.edge.distance = r.edge.distance
      <4>1. PICK i \in E, o \in E : Halves(i, o, r.edge.id, u, v) /\ i.edge.distance + o.edge.distance = r.edge.distance
        BY <2>1 DEF Splits
      <4> QED BY <3>3, <4>1
    <3>5. ASSUME NEW i \in F, NEW o \in F, Halves(i, o, r.edge.id, u, v)
          PROVE  \E q \in F : /\ q.source = r.source /\ q.edge.target = r.edge.target
                              /\ r.source = u => q.edge.forward
                              /\ r.source = v => q.edge.backward
                              /\ q.edge.distance <= i.edge.distance + o.edge.distance
      <4>1. i \in E /\ o \in E
        BY <3>2, <3>5
      <4> QED BY <2>1, <3>3, <3>5, <4>1 DEF Splits
    <3> QED BY <3>4, <3>5 DEF Splits
  <2>2. ASSUME NEW r \in E, r.edge.shortcut
        PROVE  /\ r.edge.id \in (Node \ L) \cup (T \cup {x}) /\ r.source # r.edge.target
               /\ r.edge.forward => Splits(F, r, r.source, r.edge.target)
               /\ r.edge.backward => Splits(F, r, r.edge.target, r.source)
    BY <1>1, <2>1, <2>2 DEF Unpacks
  <2>3. ASSUME NEW r \in N
        PROVE  /\ r.edge.id \in (Node \ L) \cup (T \cup {x}) /\ r.source # r.edge.target
               /\ r.edge.forward => Splits(F, r, r.source, r.edge.target)
               /\ r.edge.backward => Splits(F, r, r.edge.target, r.source)
    OBVIOUS
  <2> QED BY <2>2, <2>3 DEF Unpacks
<1>12. T \cup {x} \subseteq K
  BY <1>1
<1> QED BY <1>1, <1>2, <1>3, <1>5, <1>9, <1>10, <1>11, <1>12 DEF HInv

\* An arc from x, or to x, that is kept at x.
Outward(E, x, u, w) ==
  \E o \in E : o.source = x /\ o.edge.target = u /\ o.edge.forward /\ o.edge.distance = w

Inward(E, x, u, w) ==
  \E i \in E : i.source = x /\ i.edge.target = u /\ i.edge.backward /\ i.edge.distance = w

(* The nodes of the round leave: nothing leads to them, no two of them     *)
(* share a neighbour, and all of them have their shortcuts.                *)
LEMMA HContracted ==
  ASSUME NEW G, NEW E, NEW L, NEW K, HInv(G, E, L, K, K),
         \A r \in E : r.source \in L => r.edge.target \in L \ K,
         \A r, q \in E : r.source \in K /\ q.source \in K /\ r.edge.target = q.edge.target => r.source = q.source
  PROVE  HInv(G, E, L \ K, {}, {})
<1> DEFINE A == Arcs(E, L)
           M == L \ K
<1>1. /\ L \subseteq Node /\ K \subseteq L /\ E \in SUBSET Record
      /\ Real(G, E) /\ Inside(E, L) /\ Twins(E, L \ K) /\ Bridged(E, A, K)
      /\ Covered(G, Ups(E, L), Downs(E, L), A) /\ OneWay(E, L) /\ Unpacks(E, (Node \ L) \cup K)
  BY DEF HInv
<1>2. M \subseteq Node /\ M \ {} = M /\ (Node \ M) \cup {} = (Node \ L) \cup K
  BY <1>1
<1>3. A \in SUBSET ArcSet /\ K \in SUBSET Node
  BY <1>1 DEF Arcs, Outs, Ins
<1>4. ASSUME NEW x \in K, NEW u, NEW w, <<x, u, w>> \in A
      PROVE  Outward(E, x, u, w)
  <2>1. CASE <<x, u, w>> \in Outs(E, L)
    BY <2>1, TripleIs DEF Outs, Outward
  <2>2. CASE <<x, u, w>> \in Ins(E, L)
    <3>1. PICK r \in E : r.source \in L /\ r.edge.target = x
      BY <2>2, TripleIs DEF Ins
    <3> QED BY <3>1
  <2> QED BY <1>4, <2>1, <2>2 DEF Arcs
<1>5. ASSUME NEW x \in K, NEW u, NEW w, <<u, x, w>> \in A
      PROVE  Inward(E, x, u, w)
  <2>1. CASE <<u, x, w>> \in Ins(E, L)
    BY <2>1, TripleIs DEF Ins, Inward
  <2>2. CASE <<u, x, w>> \in Outs(E, L)
    <3>1. PICK r \in E : r.source \in L /\ r.edge.target = x
      BY <2>2, TripleIs DEF Outs
    <3> QED BY <3>1
  <2> QED BY <1>5, <2>1, <2>2 DEF Arcs
<1>6. Scattered(A, K)
  <2>1. ASSUME NEW x \in K, NEW y \in K, NEW w \in Length, <<x, y, w>> \in A PROVE FALSE
    <3>1. PICK o \in E : o.source = x /\ o.edge.target = y
      <4>1. Outward(E, x, y, w)
        BY <1>4, <2>1
      <4> QED BY <4>1 DEF Outward
    <3> QED BY <1>1, <3>1
  <2>2. ASSUME NEW p \in Node, NEW x \in K, NEW y \in K, NEW w \in Length, NEW z \in Length,
               <<p, x, w>> \in A, <<p, y, z>> \in A
        PROVE  x = y
    <3>1. PICK i \in E : i.source = x /\ i.edge.target = p
      <4>1. Inward(E, x, p, w)
        BY <1>5, <2>2
      <4> QED BY <4>1 DEF Inward
    <3>2. PICK j \in E : j.source = y /\ j.edge.target = p
      <4>1. Inward(E, y, p, z)
        BY <1>5, <2>2
      <4> QED BY <4>1 DEF Inward
    <3> QED BY <3>1, <3>2
  <2> QED BY <2>1, <2>2 DEF Scattered
<1>7. ASSUME NEW x \in K PROVE Replaceable(A, x)
  <2> SUFFICES ASSUME NEW p \in Node, NEW q \in Node, NEW w \in Length, NEW z \in Length,
                      <<p, x, w>> \in A, <<x, q, z>> \in A
               PROVE  p = q \/ w + z >= IntMax \/ Within(Away(A, x), p, q, w + z)
    BY DEF Replaceable
  <2>1. PICK i \in E : i.source = x /\ i.edge.target = p /\ i.edge.backward /\ i.edge.distance = w
    <3>1. Inward(E, x, p, w)
      BY <1>5
    <3> QED BY <3>1 DEF Inward
  <2>2. PICK o \in E : o.source = x /\ o.edge.target = q /\ o.edge.forward /\ o.edge.distance = z
    <3>1. Outward(E, x, q, z)
      BY <1>4
    <3> QED BY <3>1 DEF Outward
  <2> QED BY <1>1, <2>1, <2>2 DEF Bridged
<1>8. Matched(Ups(E, L), Ups(E, M)) /\ Matched(Downs(E, L), Downs(E, M))
  <2>1. Ups(E, L) \subseteq Ups(E, M)
    BY DEF Ups, Outs
  <2>2. Downs(E, L) \subseteq Downs(E, M)
    BY DEF Downs
  <2> QED BY <2>1, <2>2, MatchedMore
<1>9. ASSUME NEW x \in K, NEW u \in Node, NEW w \in Length, <<x, u, w>> \in A
      PROVE  <<x, u, w>> \in Ups(E, M)
  <2>1. PICK o \in E : o.source = x /\ o.edge.target = u /\ o.edge.forward /\ o.edge.distance = w
    <3>1. Outward(E, x, u, w)
      BY <1>4, <1>9
    <3> QED BY <3>1 DEF Outward
  <2>2. x \in Node \ M /\ <<x, u, w>> \in ArcSet
    BY <1>1, <1>3, <1>9
  <2>3. <<x, u, w>> = <<o.source, o.edge.target, o.edge.distance>>
    BY <2>1
  <2> QED BY <2>1, <2>2, <2>3 DEF Ups, Outs
<1>10. ASSUME NEW x \in K, NEW u \in Node, NEW w \in Length, <<u, x, w>> \in A
       PROVE  <<x, u, w>> \in Downs(E, M)
  <2>1. PICK i \in E : i.source = x /\ i.edge.target = u /\ i.edge.backward /\ i.edge.distance = w
    <3>1. Inward(E, x, u, w)
      BY <1>5, <1>10
    <3> QED BY <3>1 DEF Inward
  <2>2. x \in Node \ M /\ <<x, u, w>> \in ArcSet
    BY <1>1 DEF ArcSet
  <2>3. <<x, u, w>> = <<i.source, i.edge.target, i.edge.distance>>
    BY <2>1
  <2> QED BY <2>1, <2>2, <2>3 DEF Downs
<1>11. Covered(G, Ups(E, M), Downs(E, M), Off(A, K))
  BY <1>1, <1>3, <1>6, <1>7, <1>8, <1>9, <1>10, CoveredRound
<1>12. Off(A, K) = Arcs(E, M)
  <2>1. ASSUME NEW a \in Off(A, K) PROVE a \in Arcs(E, M)
    <3>0. a \in A /\ a[1] \notin K /\ a[2] \notin K
      BY <2>1 DEF Off
    <3>1. CASE a \in Outs(E, L)
      <4>1. PICK r \in E : r.source \in L /\ r.edge.forward /\ a = <<r.source, r.edge.target, r.edge.distance>>
        BY <3>1 DEF Outs
      <4>2. r.source \in M
        BY <3>0, <4>1
      <4> QED BY <1>3, <3>0, <4>1, <4>2 DEF Arcs, Outs
    <3>2. CASE a \in Ins(E, L)
      <4>1. PICK r \in E : r.source \in L /\ r.edge.backward /\ a = <<r.edge.target, r.source, r.edge.distance>>
        BY <3>2 DEF Ins
      <4>2. r.source \in M
        BY <3>0, <4>1
      <4> QED BY <1>3, <3>0, <4>1, <4>2 DEF Arcs, Ins
    <3> QED BY <3>0, <3>1, <3>2 DEF Arcs
  <2>2. ASSUME NEW a \in Arcs(E, M) PROVE a \in Off(A, K)
    <3>0. Arcs(E, M) \subseteq A
      BY DEF Arcs, Outs, Ins
    <3>1. CASE a \in Outs(E, M)
      <4>1. PICK r \in E : r.source \in M /\ a = <<r.source, r.edge.target, r.edge.distance>>
        BY <3>1 DEF Outs
      <4>2. a[1] = r.source /\ a[2] = r.edge.target
        BY <4>1
      <4> QED BY <2>2, <3>0, <4>1, <4>2 DEF Off
    <3>2. CASE a \in Ins(E, M)
      <4>1. PICK r \in E : r.source \in M /\ a = <<r.edge.target, r.source, r.edge.distance>>
        BY <3>2 DEF Ins
      <4>2. a[2] = r.source /\ a[1] = r.edge.target
        BY <4>1
      <4> QED BY <2>2, <3>0, <4>1, <4>2 DEF Off
    <3> QED BY <2>2, <3>1, <3>2 DEF Arcs
  <2> QED BY <2>1, <2>2
<1>13. Inside(E, M) /\ Bridged(E, Arcs(E, M), {}) /\ OneWay(E, M)
  BY <1>1 DEF Inside, Bridged, OneWay
<1> HIDE DEF A, M
<1>14. HInv(G, E, M, {}, {})
  BY <1>1, <1>2, <1>11, <1>12, <1>13 DEF HInv, M
<1> QED BY <1>14 DEF M

(* A round begins.                                                         *)
LEMMA HSelected ==
  ASSUME NEW G, NEW E, NEW L, NEW K, HInv(G, E, L, {}, {}), K \subseteq L
  PROVE  HInv(G, E, L, K, {})
<1>1. Twins(E, L \ {}) => Twins(E, L \ K)
  BY DEF Twins
<1> QED BY <1>1 DEF HInv

-----------------------------------------------------------------------------
(* Witness searches.                                                       *)

(* A search that may go further finds no less: it makes the same passes    *)
(* until the other one stops.                                              *)
LEMMA LongerSearch ==
  ASSUME NEW g, NEW R, Closed(g, R), NEW source \in R, NEW targets, NEW near \in Nat, NEW far \in Nat, near <= far,
         NEW middleNode, job.max_settled \in Nat
  PROVE  Dijkstra(g, source, targets, near, middleNode) \subseteq Dijkstra(g, source, targets, far, middleNode)
<1> DEFINE M == job.max_settled
           Short(s) == Pass(g, targets, near, middleNode, s)
           Long(s) == Pass(g, targets, far, middleNode, s)
           C == R \X Nat
           Behind(s, t) == s = t \/ (s.stopped /\ s.labels \subseteq t.labels)
<1>1. Searched(g, source, targets, near, middleNode) /\ Searched(g, source, targets, far, middleNode)
  BY SearchPasses
<1>2. PICK f : /\ Dijkstra(g, source, targets, near, middleNode) = f[M].labels
               /\ Passes(g, source, targets, near, middleNode, f)
  BY <1>1 DEF Searched
<1>3. PICK h : /\ Dijkstra(g, source, targets, far, middleNode) = h[M].labels
               /\ Passes(g, source, targets, far, middleNode, h)
  BY <1>1 DEF Searched
<1>4. /\ f[0] = Opening(source) /\ h[0] = Opening(source)
      /\ \A k \in 1 .. M : f[k] = Short(f[k - 1])
      /\ \A k \in 1 .. M : h[k] = Long(h[k - 1])
  BY <1>2, <1>3 DEF Passes
<1>5. C \in SUBSET (R \X Nat) /\ <<source, 0>> \in C
  OBVIOUS
<1>6. Relaxes(g, R, middleNode, C)
  BY SizeAssumption, SMT DEF Closed, Targets, EdgeType, Relaxes
<1> HIDE DEF C
<1>7. \A k \in 0 .. M : LabelsIn(f[k], source, C)
  BY <1>2, <1>5, <1>6, PassesHave
<1>8. \A k \in 0 .. M : LabelsIn(h[k], source, C)
  BY <1>3, <1>5, <1>6, PassesHave
<1>9. ASSUME NEW s, LabelsIn(s, source, C) PROVE Behind(Short(s), Long(s))
  <2>1. \A l \in s.labels : l[2] \in Nat
    BY <1>9 DEF LabelsIn, C
  <2>2. s.labels \subseteq Long(s).labels
    BY <1>5, <1>6, <1>9, PassLabels
  <2> DEFINE open == {l \in s.labels : l[1] \notin s.settled}
             n == (CHOOSE l \in open : \A m \in open : l[2] <= m[2])[1]
  <2>3. CASE s.stopped \/ open = {}
    BY <2>3 DEF Pass
  <2>4. CASE ~(s.stopped \/ open = {})
    <3>1. Short(s) = Settling(g, targets, near, middleNode, s, n) /\ Long(s) = Settling(g, targets, far, middleNode, s, n)
      BY <2>4 DEF Pass
    <3> HIDE DEF n, open
    <3>2. Key(s.labels, n) \in Nat
      BY <2>1, KeyIsLeast
    <3>3. CASE Key(s.labels, n) > near /\ ~(Key(s.labels, n) > far)
      <4>1. Settling(g, targets, near, middleNode, s, n) = [s EXCEPT !.stopped = TRUE]
        BY <3>3 DEF Settling
      <4>2. "stopped" \in DOMAIN s /\ "labels" \in DOMAIN s /\ "stopped" # "labels"
        BY <1>9 DEF LabelsIn
      <4>3. [s EXCEPT !.stopped = TRUE].stopped /\ [s EXCEPT !.stopped = TRUE].labels = s.labels
        BY <4>2
      <4>4. Short(s).stopped /\ Short(s).labels = s.labels
        BY <3>1, <4>1, <4>3
      <4> QED BY <4>4, <2>2
    <3>4. CASE Key(s.labels, n) > near <=> Key(s.labels, n) > far
      <4>1. Settling(g, targets, near, middleNode, s, n) = Settling(g, targets, far, middleNode, s, n)
        BY <3>4 DEF Settling
      <4> QED BY <3>1, <4>1
    <3>5. Key(s.labels, n) > far => Key(s.labels, n) > near
      BY ONLY <3>2, near \in Nat, far \in Nat, near <= far, SMT
    <3> QED BY <3>3, <3>4, <3>5
  <2> QED BY <2>3, <2>4
<1>10. ASSUME NEW s, NEW t, LabelsIn(t, source, C), Behind(s, t) PROVE Behind(Short(s), Long(t))
  <2>1. CASE s = t
    BY <1>9, <1>10, <2>1
  <2>2. CASE s.stopped /\ s.labels \subseteq t.labels
    <3>1. Short(s) = s
      BY <2>2 DEF Pass
    <3>2. t.labels \subseteq Long(t).labels
      BY <1>5, <1>6, <1>10, PassLabels
    <3> QED BY <2>2, <3>1, <3>2
  <2> QED BY <1>10, <2>1, <2>2
<1> HIDE DEF Behind, Short, Long
<1>11. \A k \in 0 .. M : Behind(f[k], h[k])
  <2> DEFINE S == {k \in 0 .. M : Behind(f[k], h[k])}
  <2>1. 0 \in 0 .. M /\ \A k \in 1 .. M : k \in 0 .. M /\ k - 1 \in 0 .. M
    BY SMT
  <2>2. Behind(f[0], h[0])
    BY <1>4 DEF Behind
  <2>3. \A k \in 1 .. M : k - 1 \in S => k \in S
    BY <1>4, <1>8, <1>10, <2>1
  <2>4. 0 \in S
    BY <2>1, <2>2
  <2>5. \A k \in 0 .. M : k \in S
    BY <2>3, <2>4, Counting
  <2> QED BY <2>5
<1>12. M \in 0 .. M
  BY SMT
<1>13. f[M].labels \subseteq h[M].labels
  BY <1>11, <1>12 DEF Behind
<1> QED BY <1>2, <1>3, <1>13

(* The largest of some bounded numbers is one of them.                     *)
LEMMA MaxIsMost ==
  ASSUME NEW n \in Nat, NEW S \in SUBSET (0 .. n), S # {}
  PROVE  Max(S) \in S /\ Max(S) \in Nat /\ \A y \in S : y <= Max(S)
<1> DEFINE D == {n - y : y \in S}
<1>1. D \in SUBSET Nat /\ D # {}
  <2>1. \A y \in 0 .. n : n - y \in Nat
    BY SMT
  <2> QED BY <2>1
<1>2. PICK d \in D : \A m \in D : d <= m
  BY <1>1, Least
<1>3. PICK x \in S : d = n - x
  OBVIOUS
<1>4. \A y \in S : x >= y
  <2> TAKE y \in S
  <2>1. n - x <= n - y
    BY <1>2, <1>3
  <2>2. x \in 0 .. n /\ y \in 0 .. n
    OBVIOUS
  <2> QED BY ONLY <2>1, <2>2, n \in Nat, SMT
<1>5. \E z \in S : \A y \in S : z >= y
  BY <1>4
<1>6. Max(S) \in S /\ \A y \in S : Max(S) >= y
  BY <1>5 DEF Max
<1>7. \A a, b \in 0 .. n : a \in Nat /\ (a >= b => b <= a)
  BY SMT
<1> QED BY <1>6, <1>7

\* The search ContractNode makes for an edge to the node, and how far it goes.
Far(g, node, in) == Max({0} \cup {in.distance + e.distance : e \in {e \in g[node] : e.forward}})

Seen(g, node, in) ==
  Dijkstra(g, in.target, {e.target : e \in {e \in g[node] : e.forward}} \ {in.target}, Far(g, node, in), node)

(* The pairs of edges that get a shortcut.                                 *)
LEMMA ReplacedIs ==
  ASSUME NEW g, NEW node
  PROVE  /\ \A in, e : <<in, e>> \in Replaced(g, node) <=>
               /\ in \in g[node] /\ in.backward /\ e \in g[node] /\ e.forward
               /\ in.distance + e.distance < Key(Seen(g, node, in), e.target)
         /\ \A p \in Replaced(g, node) : p = <<p[1], p[2]>>
<1> DEFINE out == {e \in g[node] : e.forward}
           pairs(in) == {<<in, e>> : e \in {e \in out : in.distance + e.distance < Key(Seen(g, node, in), e.target)}}
<1>1. Replaced(g, node) = UNION {pairs(in) : in \in {e \in g[node] : e.backward}}
  BY DEF Replaced, Seen, Far
<1> HIDE DEF pairs
<1>2. \A a, b, c, d : <<a, b>> = <<c, d>> => a = c /\ b = d
  BY SMT
<1>3. ASSUME NEW in, NEW e, <<in, e>> \in Replaced(g, node)
      PROVE  /\ in \in g[node] /\ in.backward /\ e \in g[node] /\ e.forward
             /\ in.distance + e.distance < Key(Seen(g, node, in), e.target)
  <2>1. PICK a \in {b \in g[node] : b.backward} : <<in, e>> \in pairs(a)
    BY <1>1, <1>3
  <2>2. PICK b \in out : <<in, e>> = <<a, b>> /\ a.distance + b.distance < Key(Seen(g, node, a), b.target)
    BY <2>1 DEF pairs
  <2>3. in = a /\ e = b
    BY <1>2, <2>2
  <2> QED BY <2>1, <2>2, <2>3
<1>4. ASSUME NEW in, NEW e, in \in g[node], in.backward, e \in g[node], e.forward,
             in.distance + e.distance < Key(Seen(g, node, in), e.target)
      PROVE  <<in, e>> \in Replaced(g, node)
  <2>1. <<in, e>> \in pairs(in)
    BY <1>4 DEF pairs
  <2> QED BY <1>1, <1>4, <2>1
<1>5. ASSUME NEW p \in Replaced(g, node) PROVE p = <<p[1], p[2]>>
  <2>1. PICK a \in {b \in g[node] : b.backward} : p \in pairs(a)
    BY <1>1, <1>5
  <2>2. PICK b \in out : p = <<a, b>>
    BY <2>1 DEF pairs
  <2> QED BY <2>2
<1> QED BY <1>3, <1>4, <1>5

\* The edges of a node, as far as the search of a shortcut needs them.
Bounded(g, node) == \A e \in g[node] : e \in EdgeType /\ e.distance < IntMax

(* From a shorter edge the search goes less far.                           *)
LEMMA FarOrder ==
  ASSUME NEW g, NEW node, Bounded(g, node), NEW a \in g[node], NEW in \in g[node], a.distance <= in.distance
  PROVE  Far(g, node, a) \in Nat /\ Far(g, node, in) \in Nat /\ Far(g, node, a) <= Far(g, node, in)
<1> DEFINE out == {e \in g[node] : e.forward}
           S(i) == {0} \cup {i.distance + e.distance : e \in out}
<1>1. \A e \in g[node] : e.distance \in Nat /\ e.distance < IntMax
  BY DEF Bounded, EdgeType
<1>2. IntMax \in Nat /\ IntMax + IntMax \in Nat
  BY SizeAssumption, SMT
<1>3. ASSUME NEW i \in g[node]
      PROVE  Max(S(i)) \in S(i) /\ Max(S(i)) \in Nat /\ \A y \in S(i) : y <= Max(S(i))
  <2>1. S(i) \in SUBSET (0 .. IntMax + IntMax) /\ S(i) # {}
    <3>1. i.distance \in Nat /\ i.distance < IntMax
      BY <1>1
    <3>2. \A e \in out : i.distance + e.distance \in 0 .. IntMax + IntMax
      <4> TAKE e \in out
      <4>1. e.distance \in Nat /\ e.distance < IntMax
        BY <1>1
      <4> QED BY ONLY <1>2, <3>1, <4>1, SMT
    <3>3. 0 \in 0 .. IntMax + IntMax
      BY ONLY <1>2, SMT
    <3> QED BY <3>2, <3>3
  <2> QED BY <1>2, <2>1, MaxIsMost
<1>4. Far(g, node, a) = Max(S(a)) /\ Far(g, node, in) = Max(S(in))
  BY DEF Far
<1>5. \A y \in S(a) : y <= Max(S(in))
  <2>1. 0 <= Max(S(in))
    BY <1>3
  <2>2. ASSUME NEW e \in out PROVE a.distance + e.distance <= Max(S(in))
    <3>1. in.distance + e.distance <= Max(S(in)) /\ Max(S(in)) \in Nat
      BY <1>3
    <3>2. a.distance \in Nat /\ in.distance \in Nat /\ e.distance \in Nat
      BY <1>1
    <3> HIDE DEF S
    <3> QED BY ONLY <3>1, <3>2, a.distance <= in.distance, SMT
  <2> QED BY <2>1, <2>2
<1> QED BY <1>3, <1>4, <1>5

(* What a search can see.                                                  *)
LEMMA SeenIn ==
  ASSUME job \in Jobs, NEW g, NEW R, Closed(g, R), NEW node, NEW in, in.target \in R,
         NEW C \in SUBSET (R \X Nat), <<in.target, 0>> \in C, Relaxes(g, R, node, C)
  PROVE  Seen(g, node, in) \subseteq C
<1> DEFINE targets == {e.target : e \in {e \in g[node] : e.forward}} \ {in.target}
<1>1. job.max_settled \in Nat
  BY JobAssumption
<1>2. Seen(g, node, in) = Dijkstra(g, in.target, targets, Far(g, node, in), node)
  BY DEF Seen
<1> HIDE DEF targets
<1>3. Dijkstra(g, in.target, targets, Far(g, node, in), node) \subseteq C
  BY <1>1, SearchLabels
<1> QED BY <1>2, <1>3

(* Keys of a search are numbers.                                           *)
LEMMA SeenKey ==
  ASSUME job \in Jobs, NEW g, NEW R, Closed(g, R), NEW node, NEW in, in.target \in R, NEW v
  PROVE  /\ \A l \in Seen(g, node, in) : l[2] \in Nat
         /\ Key(Seen(g, node, in), v) \in Nat /\ Key(Seen(g, node, in), v) <= IntMax
<1> DEFINE C == R \X Nat
<1>1. C \in SUBSET (R \X Nat) /\ <<in.target, 0>> \in C
  OBVIOUS
<1>2. Relaxes(g, R, node, C)
  BY SizeAssumption, SMT DEF Closed, Targets, EdgeType, Relaxes
<1>3. Seen(g, node, in) \subseteq C
  <2> HIDE DEF C
  <2> QED BY <1>1, <1>2, SeenIn
<1>4. \A l \in Seen(g, node, in) : l[2] \in Nat
  BY <1>3
<1> QED BY <1>4, KeyIsLeast, SMT

\* The forward edges of g, without those of node, are arcs of B between the
\* nodes that f makes of theirs.
Shows(g, R, node, f, B) ==
  /\ \A n \in R : f[n] \in Node
  /\ \A n \in R \ {node} : \A e \in g[n] : e.forward /\ e.target # node =>
        e.distance \in Length /\ <<f[n], f[e.target], e.distance>> \in B

(* What gets no shortcut is as short without the node: a label of the      *)
(* search below IntMax is the length of a walk, however early it stopped.  *)
LEMMA Witnessed ==
  ASSUME job \in Jobs, NEW g, NEW R, Closed(g, R), NEW node \in R, node \notin Targets(g, node),
         NEW f, NEW B, Shows(g, R, node, f, B),
         NEW in \in g[node], in.backward, NEW e \in g[node], e.forward
  PROVE  \/ <<in, e>> \in Replaced(g, node)
         \/ in.distance + e.distance >= IntMax
         \/ Within(B, f[in.target], f[e.target], in.distance + e.distance)
<1> DEFINE s == in.target
           d == in.distance + e.distance
           C == {p \in R \X Nat : p[1] # node /\ (p[2] < IntMax => <<f[p[1]], p[2]>> \in Walks(B, f[s]))}
           labels == Seen(g, node, in)
<1>1. /\ job.max_settled \in Nat /\ IntMax \in Nat /\ IntMax # 0
      /\ in \in EdgeType /\ e \in EdgeType /\ in.target \in R /\ e.target \in R /\ s # node
  BY JobAssumption, SizeAssumption DEF Closed, Targets
<1>2. f[s] \in Node /\ f[e.target] \in Node /\ in.distance \in Nat /\ e.distance \in Nat
  BY <1>1 DEF Shows, EdgeType
<1>3. d \in Nat
  BY <1>2, SMT
<1>4. C \in SUBSET (R \X Nat) /\ <<s, 0>> \in C
  <2>1. <<s, 0>> \in R \X Nat /\ <<s, 0>>[1] = s /\ <<s, 0>>[2] = 0
    BY <1>1
  <2>2. <<f[s], 0>> \in Walks(B, f[s])
    BY <1>2, WalkStep
  <2> QED BY <1>1, <2>1, <2>2
<1>5. Relaxes(g, R, node, C)
  <2> SUFFICES ASSUME NEW n \in R, NEW k \in Nat, NEW h \in Nat, NEW x \in g[n], <<n, k>> \in C,
                      h = k \/ (h = IntMax /\ k >= IntMax), x.forward, x.target # node
               PROVE  <<x.target, h + x.distance>> \in C
    BY DEF Relaxes
  <2>1. n # node /\ (k < IntMax => <<f[n], k>> \in Walks(B, f[s])) /\ f[n] \in Node
    <3>1. <<n, k>>[1] = n /\ <<n, k>>[2] = k
      OBVIOUS
    <3> QED BY <3>1 DEF Shows
  <2>2. x.distance \in Length /\ <<f[n], f[x.target], x.distance>> \in B /\ x.target \in R /\ f[x.target] \in Node
    BY <2>1 DEF Shows, Closed, Targets
  <2>3. h + x.distance \in Nat /\ (h + x.distance < IntMax => h = k /\ k < IntMax)
    BY <1>1, <2>2, SMT DEF Length
  <2>4. h + x.distance < IntMax => <<f[x.target], h + x.distance>> \in Walks(B, f[s])
    BY <1>2, <2>1, <2>2, <2>3, WalkStep
  <2>5. <<x.target, h + x.distance>> \in R \X Nat /\ <<x.target, h + x.distance>>[1] = x.target
        /\ <<x.target, h + x.distance>>[2] = h + x.distance
    BY <2>2, <2>3
  <2> QED BY <2>4, <2>5
<1> HIDE DEF C
<1>6. labels \subseteq C
  BY <1>1, <1>4, <1>5, SeenIn
<1> HIDE DEF labels
<1>7. \A l \in labels : l[2] \in Nat
  BY <1>6 DEF C
<1>8. /\ Key(labels, e.target) \in Nat
      /\ Key(labels, e.target) = IntMax \/ \E l \in labels : l[1] = e.target /\ Key(labels, e.target) = l[2]
  BY <1>7, KeyIsLeast, SMT
<1> SUFFICES ASSUME <<in, e>> \notin Replaced(g, node), ~(d >= IntMax)
             PROVE  Within(B, f[s], f[e.target], d)
  OBVIOUS
<1>9. ~(d < Key(labels, e.target))
  BY ReplacedIs DEF labels
<1>10. Key(labels, e.target) <= d /\ Key(labels, e.target) < IntMax /\ Key(labels, e.target) # IntMax
  BY ONLY <1>1, <1>3, <1>8, <1>9, ~(d >= IntMax), SMT
<1>11. PICK l \in labels : l[1] = e.target /\ Key(labels, e.target) = l[2]
  BY <1>8, <1>10
<1>12. <<f[e.target], l[2]>> \in Walks(B, f[s])
  BY <1>6, <1>10, <1>11 DEF C
<1> QED BY <1>8, <1>10, <1>11, <1>12 DEF Within

\* The node has a shortcut from u to v of at most length d.
Beaten(g, node, u, v, d) ==
  \E c, h : <<c, h>> \in Replaced(g, node) /\ c.target = u /\ h.target = v /\ c.distance + h.distance <= d

(* The shortcuts of a node between two others include one that is no longer *)
(* than any way over the node, when there is one at all.                   *)
LEMMA ShortestReplaced ==
  ASSUME job \in Jobs, NEW g, NEW R, Closed(g, R), NEW node \in R, Bounded(g, node),
         NEW in, NEW e, <<in, e>> \in Replaced(g, node),
         NEW a \in g[node], a.backward, a.target = in.target, NEW b \in g[node], b.forward, b.target = e.target
  PROVE  Beaten(g, node, in.target, e.target, a.distance + b.distance)
<1>1. /\ in \in g[node] /\ in.backward /\ e \in g[node] /\ e.forward
      /\ in.distance + e.distance < Key(Seen(g, node, in), e.target)
  BY ReplacedIs
<1>0. /\ in.target \in R /\ \A l \in Seen(g, node, in) : l[2] \in Nat
      /\ \A l \in Seen(g, node, a) : l[2] \in Nat
      /\ Key(Seen(g, node, in), e.target) \in Nat /\ Key(Seen(g, node, a), e.target) \in Nat
  <2>1. in.target \in R
    BY <1>1 DEF Closed, Targets
  <2> QED BY <2>1, SeenKey
<1>2. in.distance \in Nat /\ e.distance \in Nat /\ a.distance \in Nat /\ b.distance \in Nat
  BY <1>1 DEF Bounded, EdgeType
<1>3. CASE in.distance + e.distance <= a.distance + b.distance
  BY <1>1, <1>3 DEF Beaten
<1>4. CASE ~(in.distance + e.distance <= a.distance + b.distance) /\ in.distance <= a.distance
  <2>1. in.distance + b.distance <= a.distance + b.distance
        /\ in.distance + b.distance < Key(Seen(g, node, in), e.target)
    BY ONLY <1>1, <1>2, <1>4, <1>0, SMT
  <2>2. <<in, b>> \in Replaced(g, node)
    BY <1>1, <2>1, ReplacedIs
  <2> QED BY <1>1, <2>1, <2>2 DEF Beaten
<1>5. CASE ~(in.distance + e.distance <= a.distance + b.distance) /\ ~(in.distance <= a.distance)
  <2> DEFINE targets == {x.target : x \in {x \in g[node] : x.forward}} \ {in.target}
  <2>1. a.distance <= in.distance
    BY ONLY <1>2, <1>5, SMT
  <2>2. Far(g, node, a) \in Nat /\ Far(g, node, in) \in Nat /\ Far(g, node, a) <= Far(g, node, in)
    BY <1>1, <2>1, FarOrder
  <2>3. /\ Seen(g, node, a) = Dijkstra(g, in.target, targets, Far(g, node, a), node)
        /\ Seen(g, node, in) = Dijkstra(g, in.target, targets, Far(g, node, in), node)
    BY DEF Seen
  <2> HIDE DEF targets
  <2>4. job.max_settled \in Nat
    BY JobAssumption
  <2>5. Seen(g, node, a) \subseteq Seen(g, node, in)
    <3>1. Dijkstra(g, in.target, targets, Far(g, node, a), node)
            \subseteq Dijkstra(g, in.target, targets, Far(g, node, in), node)
      BY <1>0, <2>2, <2>4, LongerSearch
    <3> QED BY <2>3, <3>1
  <2>6. <<a, b>> \in Replaced(g, node)
    <3> SUFFICES ASSUME <<a, b>> \notin Replaced(g, node) PROVE FALSE
      OBVIOUS
    <3>1. ~(a.distance + b.distance < Key(Seen(g, node, a), e.target))
      BY ReplacedIs
    <3>2. Key(Seen(g, node, in), e.target) <= Key(Seen(g, node, a), e.target)
      <4>1. /\ Key(Seen(g, node, in), e.target) <= IntMax
            /\ \A l \in Seen(g, node, in) : l[1] = e.target => Key(Seen(g, node, in), e.target) <= l[2]
        BY <1>0, KeyIsLeast, SMT
      <4>2. Key(Seen(g, node, a), e.target) = IntMax
            \/ \E l \in Seen(g, node, a) : l[1] = e.target /\ Key(Seen(g, node, a), e.target) = l[2]
        BY <1>0, KeyIsLeast, SMT
      <4> QED BY <2>5, <4>1, <4>2
    <3> QED BY ONLY <1>0, <1>1, <1>2, <1>5, <3>1, <3>2, SMT
  <2>7. a.distance + b.distance <= a.distance + b.distance
    BY <1>2, SMT
  <2> QED BY <2>6, <2>7 DEF Beaten
<1> QED BY <1>3, <1>4, <1>5

\* The ends and the length of a shortcut, as ContractNode collects them.
End(u, v, d) == [source |-> u, target |-> v, distance |-> d]

Ends(g, node) == {End(p[1].target, p[2].target, p[1].distance + p[2].distance) : p \in Replaced(g, node)}

\* A shortcut as it is recorded at u.
Cut(g, node, u, v, d) ==
  [source |-> u,
   edge |-> Kept(v, d, node, TRUE, End(u, v, d) \in Ends(g, node), End(v, u, d) \in Ends(g, node))]

\* A pair of edges from u to v over the node, of length d together, is replaced.
Joins(g, node, u, v, d) ==
  \E a, b : <<a, b>> \in Replaced(g, node) /\ a.target = u /\ b.target = v /\ a.distance + b.distance = d

(* What is replaced makes the ends of shortcuts.                           *)
LEMMA EndsAre ==
  ASSUME NEW g, NEW node, NEW u, NEW v, NEW d
  PROVE  End(u, v, d) \in Ends(g, node) <=> Joins(g, node, u, v, d)
<1>1. ASSUME End(u, v, d) \in Ends(g, node)
      PROVE  Joins(g, node, u, v, d)
  <2>1. PICK p \in Replaced(g, node) : End(u, v, d) = End(p[1].target, p[2].target, p[1].distance + p[2].distance)
    BY <1>1 DEF Ends
  <2>2. u = p[1].target /\ v = p[2].target /\ d = p[1].distance + p[2].distance
    BY <2>1 DEF End
  <2>3. p = <<p[1], p[2]>>
    BY ReplacedIs
  <2>4. <<p[1], p[2]>> \in Replaced(g, node)
    BY <2>3
  <2> QED BY <2>2, <2>4 DEF Joins
<1>2. ASSUME NEW a, NEW b, <<a, b>> \in Replaced(g, node), a.target = u, b.target = v, a.distance + b.distance = d
      PROVE  End(u, v, d) \in Ends(g, node)
  <2>1. <<a, b>>[1] = a /\ <<a, b>>[2] = b
    OBVIOUS
  <2>2. End(<<a, b>>[1].target, <<a, b>>[2].target, <<a, b>>[1].distance + <<a, b>>[2].distance) \in Ends(g, node)
    BY <1>2 DEF Ends
  <2> QED BY <1>2, <2>1, <2>2
<1> QED BY <1>1, <1>2 DEF Joins

(* Every shortcut is recorded at both its ends.                            *)
LEMMA ShortcutsAre ==
  ASSUME NEW g, NEW node
  PROVE  /\ \A s \in Shortcuts(g, node) : \E u, v, d :
               /\ s = Cut(g, node, u, v, d)
               /\ End(u, v, d) \in Ends(g, node) \/ End(v, u, d) \in Ends(g, node)
         /\ \A u, v, d : End(u, v, d) \in Ends(g, node) =>
               Cut(g, node, u, v, d) \in Shortcuts(g, node) /\ Cut(g, node, v, u, d) \in Shortcuts(g, node)
<1> DEFINE turned(x) == [source |-> x.target, target |-> x.source, distance |-> x.distance]
           record(x) == [source |-> x.source,
                         edge |-> Kept(x.target, x.distance, node, TRUE, x \in Ends(g, node), turned(x) \in Ends(g, node))]
           both == Ends(g, node) \cup {turned(x) : x \in Ends(g, node)}
<1>1. Shortcuts(g, node) = {record(x) : x \in both}
  BY DEF Shortcuts, Ends, End
<1>2. \A u, v, d : turned(End(u, v, d)) = End(v, u, d) /\ record(End(u, v, d)) = Cut(g, node, u, v, d)
  BY DEF End, Cut
<1> HIDE DEF turned, record
<1>3. ASSUME NEW x \in Ends(g, node) PROVE \E u, v, d : x = End(u, v, d)
  BY DEF Ends
<1>4. ASSUME NEW x \in both
      PROVE  \E u, v, d : x = End(u, v, d) /\ (End(u, v, d) \in Ends(g, node) \/ End(v, u, d) \in Ends(g, node))
  <2>1. CASE x \in Ends(g, node)
    <3>1. PICK u, v, d : x = End(u, v, d)
      BY <1>3, <2>1
    <3> QED BY <2>1, <3>1
  <2>2. CASE x \in {turned(y) : y \in Ends(g, node)}
    <3>1. PICK y \in Ends(g, node) : x = turned(y)
      BY <2>2
    <3>2. PICK u, v, d : y = End(u, v, d)
      BY <1>3
    <3>3. x = End(v, u, d) /\ End(u, v, d) \in Ends(g, node)
      BY <1>2, <3>1, <3>2
    <3> QED BY <3>3
  <2> QED BY <2>1, <2>2
<1>5. ASSUME NEW s \in Shortcuts(g, node)
      PROVE  \E u, v, d : /\ s = Cut(g, node, u, v, d)
                          /\ End(u, v, d) \in Ends(g, node) \/ End(v, u, d) \in Ends(g, node)
  <2>1. PICK x \in both : s = record(x)
    BY <1>1, <1>5
  <2>2. PICK u, v, d : x = End(u, v, d) /\ (End(u, v, d) \in Ends(g, node) \/ End(v, u, d) \in Ends(g, node))
    BY <1>4
  <2>3. s = Cut(g, node, u, v, d)
    BY <1>2, <2>1, <2>2
  <2> QED BY <2>2, <2>3
<1>6. ASSUME NEW u, NEW v, NEW d, End(u, v, d) \in Ends(g, node)
      PROVE  Cut(g, node, u, v, d) \in Shortcuts(g, node) /\ Cut(g, node, v, u, d) \in Shortcuts(g, node)
  <2>1. turned(End(u, v, d)) \in both /\ End(u, v, d) \in both
    BY <1>6
  <2>2. End(v, u, d) \in both
    BY <1>2, <2>1
  <2>3. record(End(u, v, d)) \in Shortcuts(g, node) /\ record(End(v, u, d)) \in Shortcuts(g, node)
    BY <1>1, <2>1, <2>2
  <2> QED BY <1>2, <2>3
<1> QED BY <1>5, <1>6

-----------------------------------------------------------------------------
(* The hierarchy of a state.                                               *)

\* All records, under the original ids: what GetEdges would return, and the
\* shortcuts that wait.
Records == GetEdges \cup {Translated(s.source, s.edge) : s \in inserted}

Round == {OriginalId(x) : x \in independent}

Treated == {OriginalId(x) : x \in IF pc = "contract" THEN independent \ todo ELSE independent}

Housed ==
  /\ Named
  /\ \A u \in DOMAIN graph : \A e \in graph[u] :
        /\ e.target \in DOMAIN graph /\ (e.is_original_via_node_ID \/ e.id \in DOMAIN graph)
        /\ e.distance < IntMax
  /\ \A s \in inserted : /\ s.source \in DOMAIN graph /\ s.edge.target \in DOMAIN graph
                         /\ s.edge.id \in DOMAIN graph /\ s.edge.distance < IntMax
  /\ \A s \in external, n \in DOMAIN graph : s.source # OriginalId(n)

DInv ==
  /\ Housed /\ HInv(InputArcs, Records, Left, Round, Treated)
  /\ pc = "done" => edges = GetEdges

-----------------------------------------------------------------------------
(* Records and the edges they come from.                                   *)

(* The fields of a translated edge.                                        *)
LEMMA TranslatedIs ==
  ASSUME NEW n, NEW e \in EdgeType
  PROVE  LET r == Translated(n, e)
         IN  /\ r.source = OriginalId(n) /\ r.edge.target = OriginalId(e.target)
             /\ r.edge.distance = e.distance /\ r.edge.shortcut = e.shortcut
             /\ r.edge.forward = e.forward /\ r.edge.backward = e.backward
             /\ r.edge.id = IF e.is_original_via_node_ID THEN e.id ELSE OriginalId(e.id)
             /\ OriginalId(n) \in Node /\ OriginalId(e.target) \in Node /\ r.edge.id \in Node => r \in Record
<1> DEFINE r == Translated(n, e)
           d == [e EXCEPT !.target = OriginalId(e.target),
                          !.id = IF e.is_original_via_node_ID THEN e.id ELSE OriginalId(e.id),
                          !.is_original_via_node_ID = TRUE]
<1>1. r = [source |-> OriginalId(n), edge |-> d]
  BY DEF Translated
<1>3. /\ d.target = OriginalId(e.target)
      /\ d.distance = e.distance /\ d.shortcut = e.shortcut
      /\ d.forward = e.forward /\ d.backward = e.backward
      /\ d.id = IF e.is_original_via_node_ID THEN e.id ELSE OriginalId(e.id)
      /\ d.is_original_via_node_ID = TRUE
  BY DEF EdgeType
<1>4. d.target \in Node /\ d.id \in Node => d \in EdgeType
  BY DEF EdgeType
<1> HIDE DEF d, r
<1>2. r.source = OriginalId(n) /\ r.edge = d
  BY <1>1
<1>5. OriginalId(n) \in Node /\ d \in EdgeType => r \in Record
  BY <1>1 DEF Record
<1>6. /\ r.source = OriginalId(n) /\ r.edge.target = OriginalId(e.target)
      /\ r.edge.distance = e.distance /\ r.edge.shortcut = e.shortcut
      /\ r.edge.forward = e.forward /\ r.edge.backward = e.backward
      /\ r.edge.id = IF e.is_original_via_node_ID THEN e.id ELSE OriginalId(e.id)
  BY <1>2, <1>3
<1>7. OriginalId(n) \in Node /\ OriginalId(e.target) \in Node /\ r.edge.id \in Node => r \in Record
  BY <1>2, <1>3, <1>4, <1>5
<1> QED BY <1>6, <1>7 DEF r

\* The edge e is kept at n or waits to be.
At(n, e) ==
  /\ e \in EdgeType /\ n \in DOMAIN graph /\ e.target \in DOMAIN graph
  /\ e.is_original_via_node_ID \/ e.id \in DOMAIN graph
  /\ e.distance < IntMax
  /\ e \in graph[n] \/ [source |-> n, edge |-> e] \in inserted

KeptAs(n, r) == \E e : At(n, e) /\ r = Translated(n, e)

(* Records at the nodes of the graph are their edges.                      *)
LEMMA RecordsAre ==
  ASSUME CInv, Housed
  PROVE  /\ \A n \in DOMAIN graph : \A e \in graph[n] : At(n, e)
         /\ \A s \in inserted : At(s.source, s.edge)
         /\ \A n, e : At(n, e) => Translated(n, e) \in Records /\ Translated(n, e) \in Record
         /\ \A n \in DOMAIN graph : \A r \in Records : r.source = OriginalId(n) => KeptAs(n, r)
<1>1. graph \in [DOMAIN graph -> SUBSET EdgeType] /\ \A s \in inserted : s \in [source : Node, edge : EdgeType]
  BY DEF CInv, Sized, Bridging
<1>2. /\ \A n \in DOMAIN graph : OriginalId(n) \in Node
      /\ \A m, n \in DOMAIN graph : OriginalId(m) = OriginalId(n) => m = n
      /\ external \subseteq [source : Node, edge : EdgeType]
      /\ \A s \in external, n \in DOMAIN graph : s.source # OriginalId(n)
  BY DEF Housed, Named
<1>3. \A n \in DOMAIN graph : \A e \in graph[n] : At(n, e)
  BY <1>1 DEF Housed, At
<1>4. ASSUME NEW s \in inserted PROVE At(s.source, s.edge)
  <2>1. s = [source |-> s.source, edge |-> s.edge] /\ s.edge \in EdgeType
    BY <1>1
  <2> QED BY <2>1 DEF Housed, At
<1>5. ASSUME NEW n, NEW e, At(n, e) PROVE Translated(n, e) \in Records /\ Translated(n, e) \in Record
  <2>1. e \in EdgeType /\ OriginalId(n) \in Node /\ OriginalId(e.target) \in Node
    BY <1>2, <1>5 DEF At
  <2>2. e.id \in Node
    BY <2>1 DEF EdgeType
  <2>3. Translated(n, e).edge.id \in Node
    <3>1. Translated(n, e).edge.id = IF e.is_original_via_node_ID THEN e.id ELSE OriginalId(e.id)
      BY <2>1, TranslatedIs
    <3>2. e.is_original_via_node_ID \/ OriginalId(e.id) \in Node
      BY <1>2, <1>5 DEF At
    <3> QED BY <2>2, <3>1, <3>2
  <2>4. Translated(n, e) \in Record
    BY <2>1, <2>3, TranslatedIs
  <2>5. CASE e \in graph[n]
    <3>1. Translated(n, e) \in {Translated(n, x) : x \in graph[n]} /\ n \in DOMAIN graph
      BY <1>5, <2>5 DEF At
    <3>2. Translated(n, e) \in UNION {{Translated(m, x) : x \in graph[m]} : m \in DOMAIN graph}
      BY <3>1
    <3> QED BY <2>4, <3>2 DEF Records, GetEdges
  <2>6. CASE [source |-> n, edge |-> e] \in inserted
    <3>1. [source |-> n, edge |-> e].source = n /\ [source |-> n, edge |-> e].edge = e
      OBVIOUS
    <3>2. Translated(n, e) \in {Translated(s.source, s.edge) : s \in inserted}
      BY <2>6, <3>1
    <3> QED BY <2>4, <3>2 DEF Records
  <2> QED BY <1>5, <2>5, <2>6 DEF At
<1>6. ASSUME NEW n \in DOMAIN graph, NEW r \in Records, r.source = OriginalId(n) PROVE KeptAs(n, r)
  <2>1. ASSUME NEW m, NEW e, At(m, e), r = Translated(m, e) PROVE KeptAs(n, r)
    <3>1. r.source = OriginalId(m) /\ m \in DOMAIN graph
      BY <2>1, TranslatedIs DEF At
    <3>2. m = n
      BY <1>2, <1>6, <3>1
    <3> QED BY <2>1, <3>2 DEF KeptAs
  <2>2. CASE r \in UNION {{Translated(m, e) : e \in graph[m]} : m \in DOMAIN graph}
    <3>1. PICK m \in DOMAIN graph : r \in {Translated(m, e) : e \in graph[m]}
      BY <2>2
    <3>2. PICK e \in graph[m] : r = Translated(m, e)
      BY <3>1
    <3> QED BY <1>3, <2>1, <3>2
  <2>3. CASE r \in {[x EXCEPT !.edge.is_original_via_node_ID = TRUE] : x \in external}
    <3>1. PICK x \in external : r = [x EXCEPT !.edge.is_original_via_node_ID = TRUE]
      BY <2>3
    <3>2. x \in [source : Node, edge : EdgeType]
      BY <1>2
    <3>3. r.source = x.source
      BY <3>1, <3>2
    <3> QED BY <1>2, <1>6, <3>3
  <2>4. CASE r \in {Translated(s.source, s.edge) : s \in inserted}
    <3>1. PICK s \in inserted : r = Translated(s.source, s.edge)
      BY <2>4
    <3> QED BY <1>4, <2>1, <3>1
  <2> QED BY <1>6, <2>2, <2>3, <2>4 DEF Records, GetEdges
<1> QED BY <1>3, <1>4, <1>5, <1>6

(* A node and its original id are left, or being contracted, together.     *)
LEMMA LeftAre ==
  ASSUME CInv, Housed
  PROVE  /\ Remaining \subseteq DOMAIN graph /\ independent \subseteq Remaining
         /\ \A n \in DOMAIN graph : /\ OriginalId(n) \in Left <=> n \in Remaining
                                    /\ OriginalId(n) \in Round <=> n \in independent
         /\ \A s \in Left : \E n \in Remaining : s = OriginalId(n)
         /\ \A s \in Round : \E n \in independent : s = OriginalId(n)
         /\ Left \subseteq Node /\ Round \subseteq Left
<1>1. Remaining \subseteq DOMAIN graph /\ independent \subseteq Remaining
  BY RemainingNodes DEF CInv, Sized, Rounds
<1>2. /\ \A n \in DOMAIN graph : OriginalId(n) \in Node
      /\ \A m, n \in DOMAIN graph : OriginalId(m) = OriginalId(n) => m = n
  BY DEF Housed, Named
<1>3. ASSUME NEW n \in DOMAIN graph
      PROVE  (OriginalId(n) \in Left <=> n \in Remaining) /\ (OriginalId(n) \in Round <=> n \in independent)
  BY <1>1, <1>2 DEF Left, Round
<1>4. Left \subseteq Node /\ Round \subseteq Left
  BY <1>1, <1>2 DEF Left, Round
<1> QED BY <1>1, <1>3, <1>4 DEF Left, Round

-----------------------------------------------------------------------------
(* Every step keeps the hierarchy.                                         *)

(* The records come of graph and ids only.                                 *)
LEMMA SameRecords ==
  ASSUME UNCHANGED <<graph, orig, external, flushed, inserted>>
  PROVE  Records' = Records /\ GetEdges' = GetEdges
<1>1. \A n, e : Translated(n, e)' = Translated(n, e)
  BY DEF Translated, OriginalId
<1>2. GetEdges' = GetEdges
  BY <1>1, SMT DEF GetEdges
<1> QED BY <1>1, <1>2 DEF Records

(* The input stays with the job.                                           *)
LEMMA SameInput ==
  ASSUME job' = job
  PROVE  InputArcs' = InputArcs
BY SMT DEF InputArcs

(* A step that leaves graph, ids and round alone.                          *)
LEMMA DKept ==
  ASSUME DInv, UNCHANGED <<job, graph, remaining, orig, external, flushed, independent, inserted>>,
         Treated' = Treated, pc' # "done"
  PROVE  DInv'
<1>1. \A n : OriginalId(n)' = OriginalId(n)
  BY DEF OriginalId
<1>2. Records' = Records
  BY SameRecords
<1>3. Left' = Left /\ Round' = Round
  BY <1>1 DEF Left, Round, Remaining
<1>4. InputArcs' = InputArcs
  BY SameInput
<1>5. Housed'
  BY <1>1 DEF DInv, Housed, Named
<1> QED BY <1>2, <1>3, <1>4, <1>5 DEF DInv

(* A round begins with nodes that are left.                                *)
LEMMA SelectDInv ==
  ASSUME CInv, DInv, SelectIndependent
  PROVE  DInv'
<1>1. /\ UNCHANGED <<job, graph, remaining, orig, external, flushed, inserted>> /\ pc = "loop" /\ pc' = "contract"
      /\ independent' \subseteq Remaining /\ todo' = independent' /\ independent = {}
  BY DEF SelectIndependent, graphVars, CInv, Rounds
<1>2. \A n : OriginalId(n)' = OriginalId(n)
  BY <1>1 DEF OriginalId
<1>3. Records' = Records
  BY <1>1, SameRecords
<1>4. Left' = Left /\ InputArcs' = InputArcs
  BY <1>1, <1>2, SameInput DEF Left, Remaining
<1>5. Round = {} /\ Treated = {} /\ Round' \subseteq Left /\ Treated' = {}
  BY <1>1, <1>2 DEF Round, Treated, Left
<1>6. Housed'
  BY <1>1, <1>2 DEF DInv, Housed, Named
<1>7. HInv(InputArcs, Records, Left, Round', {})
  BY <1>5, HSelected DEF DInv
<1> QED BY <1>1, <1>3, <1>4, <1>5, <1>6, <1>7 DEF DInv

(* The nodes of the round are gone: their edges lead to nodes that stay.   *)
LEMMA EndRoundDInv ==
  ASSUME CInv, DInv, EndRound
  PROVE  DInv'
<1>1. /\ UNCHANGED <<job, graph, orig, external, flushed, inserted>> /\ independent' = {}
      /\ pc' = "loop" /\ pc = "update" /\ Gone = independent /\ independent \subseteq Remaining
      /\ remaining' = Without(remaining, independent) /\ inserted = {}
  BY DEF EndRound, graphVars, CInv, Rounds, Gone
<1>2. Remaining = Members(remaining) /\ Lists(remaining, DOMAIN graph)
  BY RemainingNodes DEF CInv, Sized
<1>3. Members(remaining') = Members(remaining) \ independent /\ Lists(remaining', DOMAIN graph)
  <2>1. independent \in SUBSET Members(remaining)
    BY <1>1, <1>2
  <2>2. remaining' = Without(remaining, independent)
    BY <1>1
  <2> QED BY ONLY <1>2, <2>1, <2>2, Partitioned, Zenon
<1>4. Remaining' = Remaining \ independent
  <2>1. Remaining' = Members(remaining')
    BY <1>3 DEF Remaining, Members, Lists
  <2> QED BY <1>2, <1>3, <2>1
<1>5. \A n : OriginalId(n)' = OriginalId(n)
  BY <1>1 DEF OriginalId
<1>6. Housed /\ HInv(InputArcs, Records, Left, Round, Treated)
  BY DEF DInv
<1>7. Left' = Left \ Round
  <2>1. \A n \in Remaining : OriginalId(n) \in Round <=> n \in independent
    BY <1>6, LeftAre
  <2> QED BY <1>4, <1>5, <2>1 DEF Left
<1>8. Treated = Round /\ Round' = {} /\ Treated' = {}
  BY <1>1 DEF Treated, Round
<1>9. Records' = Records /\ InputArcs' = InputArcs
  BY <1>1, SameRecords, SameInput
<1>10. ASSUME NEW r \in Records, r.source \in Left
       PROVE  \E n \in Remaining : \E e \in graph[n] : /\ r.source = OriginalId(n) /\ r.edge.target = OriginalId(e.target)
                                                       /\ e.target \in Remaining \ independent
  <2>1. PICK n \in Remaining : r.source = OriginalId(n)
    BY <1>10 DEF Left
  <2>2. n \in DOMAIN graph
    BY <1>6, LeftAre
  <2>3. KeptAs(n, r)
    BY <1>6, <2>1, <2>2, RecordsAre
  <2>4. PICK e : At(n, e) /\ r = Translated(n, e)
    BY <2>3 DEF KeptAs
  <2>5. e \in graph[n] /\ r.edge.target = OriginalId(e.target)
    BY <1>1, <2>4, TranslatedIs DEF At
  <2>6. e.target \in Remaining \ independent
    BY <1>1, <2>5 DEF CInv, Mutual, Targets
  <2> QED BY <2>1, <2>5, <2>6
<1>11. ASSUME NEW r \in Records, r.source \in Left PROVE r.edge.target \in Left \ Round
  <2>1. PICK m \in Remaining \ independent : r.edge.target = OriginalId(m)
    BY <1>10, <1>11
  <2> QED BY <1>6, <2>1, LeftAre
<1>12. ASSUME NEW r \in Records, NEW q \in Records, r.source \in Round, q.source \in Round, r.edge.target = q.edge.target
       PROVE  r.source = q.source
  <2>0. r.source \in Left /\ q.source \in Left
    BY <1>6, <1>12, LeftAre
  <2>1. PICK m \in Remaining : \E e \in graph[m] : /\ r.source = OriginalId(m) /\ r.edge.target = OriginalId(e.target)
                                                   /\ e.target \in Remaining
    BY <1>10, <2>0
  <2>2. PICK n \in Remaining : \E e \in graph[n] : /\ q.source = OriginalId(n) /\ q.edge.target = OriginalId(e.target)
                                                   /\ e.target \in Remaining
    BY <1>10, <2>0
  <2>3. PICK d \in graph[m] : /\ r.source = OriginalId(m) /\ r.edge.target = OriginalId(d.target) /\ d.target \in Remaining
    BY <2>1
  <2>4. PICK e \in graph[n] : /\ q.source = OriginalId(n) /\ q.edge.target = OriginalId(e.target) /\ e.target \in Remaining
    BY <2>2
  <2>5. m \in independent /\ n \in independent
    BY <1>6, <1>12, <2>3, <2>4, LeftAre
  <2>6. d.target = e.target
    BY <1>6, <1>12, <2>3, <2>4, LeftAre DEF Housed, Named
  <2>7. m = n
    <3>1. d.target \in Targets(graph, m) /\ d.target \in Targets(graph, n)
      BY <2>6 DEF Targets
    <3>2. m # n => Targets(graph, m) \cap Targets(graph, n) = {}
      BY <2>5 DEF CInv, Apart
    <3> QED BY <3>1, <3>2
  <2> QED BY <2>3, <2>4, <2>7
<1>13. HInv(InputArcs, Records, Left \ Round, {}, {})
  BY <1>6, <1>8, <1>11, <1>12, HContracted
<1>14. Housed'
  BY <1>1, <1>5, <1>6 DEF Housed, Named
<1> QED BY <1>1, <1>7, <1>8, <1>9, <1>13, <1>14 DEF DInv

(* GetEdges returns the hierarchy.                                         *)
LEMMA FinishDInv ==
  ASSUME CInv, DInv, Finish
  PROVE  DInv'
<1>1. /\ UNCHANGED <<job, graph, remaining, orig, external, flushed, independent, inserted>>
      /\ edges' = GetEdges /\ pc = "loop" /\ pc' = "done"
  BY DEF Finish, graphVars, roundVars
<1>2. \A n : OriginalId(n)' = OriginalId(n)
  BY <1>1 DEF OriginalId
<1>3. Records' = Records /\ GetEdges' = GetEdges
  BY <1>1, SameRecords
<1>4. Left' = Left /\ Round' = Round /\ InputArcs' = InputArcs
  BY <1>1, <1>2, SameInput DEF Left, Round, Remaining
<1>5. Treated' = Treated
  BY <1>1, <1>2 DEF Treated
<1>6. Housed'
  BY <1>1, <1>2 DEF DInv, Housed, Named
<1> QED BY <1>1, <1>3, <1>4, <1>5, <1>6 DEF DInv

\* The edges of the external list, as GetEdges returns them.
Moved == {[s EXCEPT !.edge.is_original_via_node_ID = TRUE] : s \in external}

\* The records, one by one.
Spelled ==
  \A r : r \in Records <=> \/ \E n \in DOMAIN graph : \E e \in graph[n] : r = Translated(n, e)
                           \/ r \in Moved
                           \/ \E s \in inserted : r = Translated(s.source, s.edge)

(* A record is an edge of the graph, of the external list, or waits.       *)
LEMMA RecordsMember == Spelled
<1>1. \A r : r \in UNION {{Translated(n, e) : e \in graph[n]} : n \in DOMAIN graph}
               <=> \E n \in DOMAIN graph : \E e \in graph[n] : r = Translated(n, e)
  <2> TAKE r
  <2>1. ASSUME r \in UNION {{Translated(n, e) : e \in graph[n]} : n \in DOMAIN graph}
        PROVE  \E n \in DOMAIN graph : \E e \in graph[n] : r = Translated(n, e)
    <3>1. PICK n \in DOMAIN graph : r \in {Translated(n, e) : e \in graph[n]}
      BY <2>1
    <3> QED BY <3>1
  <2>2. ASSUME NEW n \in DOMAIN graph, NEW e \in graph[n], r = Translated(n, e)
        PROVE  r \in UNION {{Translated(m, d) : d \in graph[m]} : m \in DOMAIN graph}
    <3>1. r \in {Translated(n, d) : d \in graph[n]}
      BY <2>2
    <3> QED BY <3>1
  <2> QED BY <2>1, <2>2
<1>2. \A r : r \in {Translated(s.source, s.edge) : s \in inserted}
               <=> \E s \in inserted : r = Translated(s.source, s.edge)
  OBVIOUS
<1> QED BY <1>1, <1>2 DEF Records, GetEdges, Moved, Spelled

(* So they are after a step that leaves the ids alone.                    *)
LEMMA NextRecords ==
  ASSUME UNCHANGED <<orig, external, flushed>>
  PROVE  \A r : r \in Records' <=> \/ \E n \in DOMAIN graph' : \E e \in graph'[n] : r = Translated(n, e)
                                   \/ r \in Moved
                                   \/ \E s \in inserted' : r = Translated(s.source, s.edge)
<1>1. \A n, e : Translated(n, e)' = Translated(n, e)
  BY DEF Translated, OriginalId
<1>2. Moved' = Moved
  BY DEF Moved
<1>3. Spelled'
  BY RecordsMember, PTL
<1> QED BY <1>1, <1>2, <1>3 DEF Spelled

(* The shortcuts that wait join nodes that stay.                           *)
LEMMA WaitingStay ==
  ASSUME CInv, NEW s \in inserted
  PROVE  s.source \in Remaining \ independent /\ s.edge.target \in Remaining \ independent
<1>1. PICK x \in independent : s.source \in Targets(graph, x) /\ s.edge.target \in Targets(graph, x)
  BY DEF CInv, Bridging
<1>2. x \in Remaining
  BY DEF CInv, Rounds
<1>3. Targets(graph, x) \subseteq Remaining
  BY <1>2 DEF CInv, Mutual
<1>4. \A y \in independent : y \notin Targets(graph, x)
  BY <1>1 DEF CInv, Apart
<1> QED BY <1>1, <1>3, <1>4

(* DeleteIncomingEdges finds every edge to the node: an edge that leads    *)
(* there from a node that stays is kept at both ends.                      *)
LEMMA DeleteDInv ==
  ASSUME CInv, DInv, NEW x \in todo, DeleteIncomingEdges(x)
  PROVE  DInv'
<1> DEFINE F == {r \in Records : ~(r.source \in Left \ Round /\ r.edge.target = OriginalId(x))}
<1>1. /\ UNCHANGED <<job, remaining, orig, external, flushed, independent, inserted>>
      /\ pc = "delete" /\ pc' \in {"delete", "insert"} /\ x \in independent /\ x \in Remaining /\ x \notin Gone
      /\ graph' = [u \in DOMAIN graph |->
                   IF u \in Neighbours(graph, x)
                   THEN {e \in graph[u] : e.target # x} ELSE graph[u]]
  BY DEF DeleteIncomingEdges, NextTask, roundVars, CInv, Rounds, Gone
<1>2. \A n : OriginalId(n)' = OriginalId(n)
  BY <1>1 DEF OriginalId
<1>3. Housed /\ HInv(InputArcs, Records, Left, Round, Treated)
  BY DEF DInv
<1>4. Left' = Left /\ Round' = Round /\ InputArcs' = InputArcs /\ Treated' = Treated
  BY <1>1, <1>2, SameInput DEF Left, Round, Remaining, Treated
<1>5. /\ Remaining \subseteq DOMAIN graph /\ OriginalId(x) \in Round
      /\ \A n \in DOMAIN graph : OriginalId(n) \in Left \ Round <=> n \in Remaining \ independent
      /\ \A n \in DOMAIN graph : OriginalId(n) = OriginalId(x) => n = x
  <2>1. Remaining \subseteq DOMAIN graph /\ x \in DOMAIN graph
    BY <1>1, <1>3, LeftAre
  <2> QED BY <1>1, <1>3, <2>1, LeftAre DEF Housed, Named
<1>6. Neighbours(graph, x) \subseteq Remaining \ independent
  BY <1>1 DEF CInv, Mutual, Apart, Neighbours, Targets
<1>7. ASSUME NEW n \in Remaining \ independent, NEW e \in graph[n], e.target = x
      PROVE  n \in Neighbours(graph, x)
  <2>1. Pending(inserted, x) = {}
    <3>1. \A s \in inserted : s.source # x
      BY <1>1, WaitingStay
    <3> QED BY <3>1 DEF Pending
  <2>2. n \notin Gone /\ n # x
    BY <1>1 DEF Gone
  <2>3. x \in Targets(graph, n)
    BY <1>7 DEF Targets
  <2>4. n \in Targets(graph, x)
    BY <1>1, <2>1, <2>2, <2>3 DEF CInv, Mutual
  <2> QED BY <2>2, <2>4 DEF Neighbours, Targets
<1>8. ASSUME NEW n \in DOMAIN graph, NEW e \in graph[n]
      PROVE  e \in graph'[n] <=> ~(n \in Remaining \ independent /\ e.target = x)
  <2>1. CASE n \in Neighbours(graph, x)
    <3>1. graph'[n] = {d \in graph[n] : d.target # x}
      BY <1>1, <2>1
    <3> QED BY <1>6, <2>1, <3>1
  <2>2. CASE n \notin Neighbours(graph, x)
    <3>1. graph'[n] = graph[n]
      BY <1>1, <2>2
    <3> QED BY <1>7, <2>2, <3>1
  <2> QED BY <2>1, <2>2
<1>9. DOMAIN graph' = DOMAIN graph /\ \A n \in DOMAIN graph : graph'[n] \subseteq graph[n]
  BY <1>1
<1>10. ASSUME NEW n \in DOMAIN graph, NEW e \in graph[n]
       PROVE  Translated(n, e) \in F <=> e \in graph'[n]
  <2>1. At(n, e) /\ Translated(n, e) \in Records
    BY <1>3, RecordsAre
  <2>2. Translated(n, e).source = OriginalId(n) /\ Translated(n, e).edge.target = OriginalId(e.target)
    BY <2>1, TranslatedIs DEF At
  <2>3. e.target \in DOMAIN graph
    BY <2>1 DEF At
  <2> QED BY <1>5, <1>8, <2>1, <2>2, <2>3
<1>11. ASSUME NEW r \in Moved PROVE r \in F
  <2>1. r \in Records
    BY <1>11, RecordsMember DEF Spelled
  <2>2. PICK s \in external : r = [s EXCEPT !.edge.is_original_via_node_ID = TRUE]
    BY <1>11 DEF Moved
  <2>3. s \in [source : Node, edge : EdgeType] /\ \A n \in DOMAIN graph : s.source # OriginalId(n)
    BY <1>3 DEF Housed, Named
  <2>4. r.source = s.source
    BY <2>2, <2>3
  <2>5. r.source \notin Left
    BY <1>5, <2>3, <2>4 DEF Left
  <2> QED BY <2>1, <2>5
<1>12. ASSUME NEW s \in inserted PROVE Translated(s.source, s.edge) \in F
  <2>1. At(s.source, s.edge) /\ Translated(s.source, s.edge) \in Records
    BY <1>3, RecordsAre
  <2>2. Translated(s.source, s.edge).edge.target = OriginalId(s.edge.target) /\ s.edge.target \in DOMAIN graph
    BY <2>1, TranslatedIs DEF At
  <2>3. s.edge.target # x
    BY <1>1, WaitingStay
  <2> QED BY <1>5, <2>1, <2>2, <2>3
<1> HIDE DEF F
<1>13. Records' = F
  <2>1. ASSUME NEW r \in Records' PROVE r \in F
    <3>1. CASE \E n \in DOMAIN graph' : \E e \in graph'[n] : r = Translated(n, e)
      BY <1>9, <1>10, <3>1
    <3>2. CASE \E s \in inserted' : r = Translated(s.source, s.edge)
      BY <1>1, <1>12, <3>2
    <3> QED BY <1>1, <1>11, <2>1, <3>1, <3>2, NextRecords
  <2>2. ASSUME NEW r \in F PROVE r \in Records'
    <3>0. r \in Records
      BY <2>2 DEF F
    <3>1. CASE \E n \in DOMAIN graph : \E e \in graph[n] : r = Translated(n, e)
      <4>1. PICK n \in DOMAIN graph : \E e \in graph[n] : r = Translated(n, e)
        BY <3>1
      <4>2. PICK e \in graph[n] : r = Translated(n, e)
        BY <4>1
      <4>3. e \in graph'[n] /\ n \in DOMAIN graph'
        BY <1>9, <1>10, <2>2, <4>2
      <4> QED BY <1>1, <4>2, <4>3, NextRecords
    <3>2. CASE r \in Moved \/ \E s \in inserted : r = Translated(s.source, s.edge)
      BY <1>1, <3>2, NextRecords
    <3> QED BY <3>0, <3>1, <3>2, RecordsMember DEF Spelled
  <2> QED BY <2>1, <2>2
<1>14. HInv(InputArcs, F, Left, Round, Treated)
  BY <1>3, <1>5, HTrimmed DEF F
<1>15. Housed'
  BY <1>1, <1>2, <1>3, <1>9 DEF Housed, Named
<1> QED BY <1>1, <1>4, <1>13, <1>14, <1>15 DEF DInv

(* A shortcut that waits is recorded, and may replace a longer one.        *)
LEMMA InsertDInv ==
  ASSUME CInv, DInv, NEW s \in inserted, InsertShortcut(s)
  PROVE  DInv'
<1>1. /\ UNCHANGED <<job, remaining, orig, external, flushed, independent, todo, pc>>
      /\ pc = "insert" /\ inserted' = inserted \ {s}
  BY DEF InsertShortcut, roundVars
<1>2. \A n : OriginalId(n)' = OriginalId(n)
  BY <1>1 DEF OriginalId
<1>3. Housed /\ HInv(InputArcs, Records, Left, Round, Treated) /\ graph \in [DOMAIN graph -> SUBSET EdgeType]
  BY DEF DInv, CInv, Sized
<1>4. Left' = Left /\ Round' = Round /\ InputArcs' = InputArcs /\ Treated' = Treated
  BY <1>1, <1>2, SameInput DEF Left, Round, Remaining, Treated
<1>5. At(s.source, s.edge) /\ s.source \in DOMAIN graph /\ s.edge \in EdgeType
      /\ s.source \in Remaining \ independent
  BY <1>3, RecordsAre, WaitingStay DEF At
<1> DEFINE Loses(l) == /\ graph' = [graph EXCEPT ![s.source] = (graph[s.source] \ l) \cup {s.edge}]
                       /\ \A c \in l : c \in Found(s) /\ Improves(s.edge, c)
<1>6. PICK lost : Loses(lost)
  <2>1. graph[s.source] \cup {s.edge} = (graph[s.source] \ {}) \cup {s.edge}
    OBVIOUS
  <2>2. ASSUME graph' = [graph EXCEPT ![s.source] = @ \cup {s.edge}] PROVE Loses({})
    BY <2>1, <2>2
  <2>3. ASSUME NEW c \in Found(s), Improves(s.edge, c),
               graph' = [graph EXCEPT ![s.source] = (@ \ {c}) \cup {s.edge}]
        PROVE  Loses({c})
    BY <2>3
  <2> HIDE DEF Loses
  <2>4. CASE Found(s) = {} /\ graph' = [graph EXCEPT ![s.source] = @ \cup {s.edge}]
    BY <2>2, <2>4
  <2>5. ASSUME NEW c \in Found(s), graph' = [graph EXCEPT ![s.source] =
                        IF Improves(s.edge, c) THEN (@ \ {c}) \cup {s.edge} ELSE @ \cup {s.edge}]
        PROVE  \E l : Loses(l)
    <3>1. CASE Improves(s.edge, c)
      <4>1. graph' = [graph EXCEPT ![s.source] = (@ \ {c}) \cup {s.edge}]
        BY <2>5, <3>1
      <4> QED BY <2>3, <3>1, <4>1
    <3>2. CASE ~Improves(s.edge, c)
      <4>1. graph' = [graph EXCEPT ![s.source] = @ \cup {s.edge}]
        BY <2>5, <3>2
      <4> QED BY <2>2, <4>1
    <3> QED BY <3>1, <3>2
  <2> QED BY <2>4, <2>5 DEF InsertShortcut
<1>7. /\ DOMAIN graph' = DOMAIN graph /\ graph'[s.source] = (graph[s.source] \ lost) \cup {s.edge}
      /\ \A n \in DOMAIN graph : n # s.source => graph'[n] = graph[n]
  BY <1>3, <1>5, <1>6
<1>8. /\ \A n \in DOMAIN graph : \A e \in graph'[n] : e \in graph[n] \/ (n = s.source /\ e = s.edge)
      /\ \A n \in DOMAIN graph : \A e \in graph[n] : e \in graph'[n] \/ (n = s.source /\ e \in lost)
  BY <1>7
<1>9. ASSUME NEW r \in Records' PROVE r \in Records
  <2>1. CASE \E n \in DOMAIN graph' : \E e \in graph'[n] : r = Translated(n, e)
    <3>1. PICK n \in DOMAIN graph : \E e \in graph'[n] : r = Translated(n, e)
      BY <1>7, <2>1
    <3>2. PICK e \in graph'[n] : r = Translated(n, e)
      BY <3>1
    <3>3. e \in graph[n] \/ (n = s.source /\ e = s.edge)
      BY <1>8, <3>2
    <3>4. At(n, e)
      BY <1>3, <1>5, <3>3, RecordsAre
    <3> QED BY <1>3, <3>2, <3>4, RecordsAre
  <2>2. CASE r \in Moved \/ \E t \in inserted' : r = Translated(t.source, t.edge)
    BY <1>1, <2>2, RecordsMember DEF Spelled
  <2> QED BY <1>1, <1>9, <2>1, <2>2, NextRecords
<1>10. Translated(s.source, s.edge) \in Records'
  BY <1>1, <1>5, <1>7, NextRecords
<1>11. ASSUME NEW r \in Records, r \notin Records'
       PROVE  r.source \in Left \ Round /\ \E q \in Records' : Betters(q, r)
  <2>1. r \notin Moved
    BY <1>1, <1>11, NextRecords
  <2>2. ~ \E t \in inserted : r = Translated(t.source, t.edge)
    BY <1>1, <1>10, <1>11, NextRecords
  <2>3. PICK n \in DOMAIN graph : \E e \in graph[n] : r = Translated(n, e)
    BY <2>1, <2>2, RecordsMember DEF Spelled
  <2>4. PICK e \in graph[n] : r = Translated(n, e)
    BY <2>3
  <2>5. e \notin graph'[n]
    BY <1>1, <1>7, <1>11, <2>4, NextRecords
  <2>6. n = s.source /\ e \in Found(s) /\ Improves(s.edge, e) /\ e \in EdgeType
    BY <1>3, <1>6, <1>8, <2>5
  <2> DEFINE q == Translated(s.source, s.edge)
  <2>7. /\ r.source = OriginalId(n) /\ r.edge.target = OriginalId(e.target) /\ r.edge.distance = e.distance
        /\ r.edge.forward = e.forward /\ r.edge.backward = e.backward
    BY <2>4, <2>6, TranslatedIs
  <2>8. /\ q.source = OriginalId(n) /\ q.edge.target = OriginalId(s.edge.target) /\ q.edge.distance = s.edge.distance
        /\ q.edge.forward = s.edge.forward /\ q.edge.backward = s.edge.backward
    BY <1>5, <2>6, TranslatedIs
  <2>9. /\ e.target = s.edge.target /\ s.edge.forward = e.forward /\ s.edge.backward = e.backward
        /\ s.edge.distance < e.distance
    BY <2>6 DEF Found, Improves
  <2>10. s.edge.distance \in Nat /\ e.distance \in Nat
    BY <1>5, <2>6 DEF EdgeType
  <2>11. s.edge.distance <= e.distance
    BY ONLY <2>9, <2>10, SMT
  <2> HIDE DEF q
  <2>12. Betters(q, r)
    BY <2>7, <2>8, <2>9, <2>11 DEF Betters
  <2>13. r.source \in Left \ Round
    BY <1>3, <1>5, <2>6, <2>7, LeftAre
  <2> QED BY <1>10, <2>12, <2>13 DEF q
<1>12. HInv(InputArcs, Records', Left, Round, Treated)
  <2>1. Records' \in SUBSET Records
    BY <1>9
  <2> QED BY <1>3, <1>11, <2>1, HImproved
<1>13. Housed'
  <2>1. Named'
    BY <1>1, <1>2, <1>3, <1>7 DEF Housed, Named
  <2>2. ASSUME NEW n \in DOMAIN graph, NEW e \in graph'[n]
        PROVE  /\ e.target \in DOMAIN graph /\ (e.is_original_via_node_ID \/ e.id \in DOMAIN graph)
               /\ e.distance < IntMax
    BY <1>3, <1>5, <1>8 DEF Housed, At
  <2> QED BY <1>1, <1>2, <1>3, <1>7, <2>1, <2>2 DEF Housed
<1> QED BY <1>1, <1>4, <1>12, <1>13 DEF DInv

\* The edge e, kept at n, in original ids.
Plain(n, e) == [source |-> n, edge |-> [e EXCEPT !.is_original_via_node_ID = TRUE]]

(* Writing new ids into an edge and reading them back.                     *)
LEMMA EdgeBack ==
  ASSUME NEW e \in EdgeType, NEW t
  PROVE  LET d == [e EXCEPT !.target = t, !.is_original_via_node_ID = TRUE]
         IN  /\ d.target = t /\ d.id = e.id /\ d.is_original_via_node_ID = TRUE /\ d.distance = e.distance
             /\ [d EXCEPT !.target = e.target, !.id = e.id, !.is_original_via_node_ID = TRUE]
                  = [e EXCEPT !.is_original_via_node_ID = TRUE]
             /\ [e EXCEPT !.target = e.target, !.id = e.id, !.is_original_via_node_ID = TRUE]
                  = [e EXCEPT !.is_original_via_node_ID = TRUE]
BY DEF EdgeType

(* The flush moves the records and changes none.                           *)
LEMMA FlushDInv ==
  ASSUME CInv, DInv, Flush
  PROVE  DInv'
<1> DEFINE L == Len(remaining)
           Renamed(e) == [e EXCEPT !.target = NewId(e.target), !.is_original_via_node_ID = TRUE]
<1>1. /\ ~flushed /\ flushed' /\ pc = "loop" /\ pc' = "loop" /\ independent = {} /\ inserted = {}
      /\ UNCHANGED <<job, independent, inserted>>
      /\ orig' = [n \in 0 .. L - 1 |-> remaining[n + 1]]
      /\ graph' = [n \in 0 .. L - 1 |-> {Renamed(e) : e \in graph[remaining[n + 1]]}]
      /\ external' = UNION {{[source |-> n, edge |-> e] : e \in graph[n]} : n \in Node \ Remaining}
  BY DEF Flush, FlushCondition, CInv, Rounds
<1>2. /\ Housed /\ Named /\ DOMAIN graph = Node /\ external = {} /\ \A n : OriginalId(n) = n
      /\ HInv(InputArcs, Records, Left, Round, Treated)
  BY <1>1 DEF DInv, Housed, Named, OriginalId
<1>3. /\ Named' /\ Left' = Remaining /\ Left = Remaining /\ Remaining' = 0 .. L - 1
      /\ \A n \in 0 .. L - 1 : OriginalId(n)' = remaining[n + 1] /\ n + 1 \in 1 .. L
  BY <1>2, FlushIds
<1>4. /\ Remaining = Members(remaining) /\ Remaining \subseteq Node /\ L \in Nat
      /\ \A n \in Node : graph[n] \subseteq EdgeType
  BY <1>2, RemainingNodes DEF CInv, Sized, Lists
<1>5. /\ \A i \in 1 .. L : NewId(remaining[i]) = i - 1
      /\ \A n \in Remaining : NewId(n) \in 0 .. L - 1 /\ remaining[NewId(n) + 1] = n
  BY NewIds DEF CInv
<1>6. Round' = {} /\ Treated' = {} /\ Round = {} /\ Treated = {} /\ InputArcs' = InputArcs
  BY <1>1, SameInput DEF Round, Treated
<1>7. ASSUME NEW n \in Node, NEW e \in graph[n] PROVE Translated(n, e) = Plain(n, e)
  <2>1. e \in EdgeType
    BY <1>4
  <2>2. Translated(n, e) = [source |-> n, edge |-> [e EXCEPT !.target = e.target, !.id = e.id, !.is_original_via_node_ID = TRUE]]
    <3>1. OriginalId(n) = n /\ OriginalId(e.target) = e.target
          /\ (IF e.is_original_via_node_ID THEN e.id ELSE OriginalId(e.id)) = e.id
      BY <1>2
    <3> QED BY <3>1 DEF Translated
  <2> QED BY <2>1, <2>2, EdgeBack DEF Plain
<1>8. \A r : r \in Records <=> \E n \in Node : \E e \in graph[n] : r = Plain(n, e)
  <2>1. Moved = {}
    BY <1>2 DEF Moved
  <2>2. \A r : r \in Records <=> \E n \in Node : \E e \in graph[n] : r = Translated(n, e)
    BY <1>1, <1>2, <2>1, RecordsMember DEF Spelled
  <2>3. ASSUME NEW r, r \in Records PROVE \E n \in Node : \E e \in graph[n] : r = Plain(n, e)
    <3>1. PICK n \in Node : \E e \in graph[n] : r = Translated(n, e)
      BY <2>2, <2>3
    <3>2. PICK e \in graph[n] : r = Translated(n, e)
      BY <3>1
    <3> QED BY <1>7, <3>2
  <2>4. ASSUME NEW n \in Node, NEW e \in graph[n] PROVE Plain(n, e) \in Records
    <3>1. Translated(n, e) \in Records
      BY <2>2
    <3> QED BY <1>7, <3>1
  <2> QED BY <2>3, <2>4
<1>9. ASSUME NEW n \in 0 .. L - 1, NEW e \in graph[remaining[n + 1]], NEW d, d = Renamed(e)
      PROVE  /\ remaining[n + 1] \in Remaining
             /\ d.target \in 0 .. L - 1 /\ d.is_original_via_node_ID /\ d.distance = e.distance
             /\ Translated(n, d)' = Plain(remaining[n + 1], e)
  <2>1. remaining[n + 1] \in Remaining
    BY <1>3, <1>4 DEF Members
  <2>2. e \in EdgeType /\ e.target \in Remaining
    <3>1. Targets(graph, remaining[n + 1]) \subseteq Remaining
      BY <2>1 DEF CInv, Mutual
    <3> QED BY <1>4, <2>1, <3>1 DEF Targets
  <2>3. /\ d.target = NewId(e.target) /\ d.id = e.id /\ d.is_original_via_node_ID = TRUE /\ d.distance = e.distance
        /\ [d EXCEPT !.target = e.target, !.id = e.id, !.is_original_via_node_ID = TRUE]
             = [e EXCEPT !.is_original_via_node_ID = TRUE]
    BY <1>9, <2>2, EdgeBack
  <2>4. d.target \in 0 .. L - 1 /\ remaining[d.target + 1] = e.target
    BY <1>5, <2>2, <2>3
  <2>5. OriginalId(n)' = remaining[n + 1] /\ OriginalId(d.target)' = e.target
    BY <1>3, <2>4
  <2>6. Translated(n, d)' = [source |-> remaining[n + 1],
                             edge |-> [d EXCEPT !.target = e.target, !.id = e.id, !.is_original_via_node_ID = TRUE]]
    BY <2>3, <2>5 DEF Translated
  <2> QED BY <2>1, <2>3, <2>4, <2>6 DEF Plain
<1>10. ASSUME NEW n \in 0 .. L - 1, NEW d \in graph'[n]
       PROVE  \E e \in graph[remaining[n + 1]] : d = Renamed(e)
  BY <1>1, <1>10
<1>11. ASSUME NEW n \in 0 .. L - 1, NEW e \in graph[remaining[n + 1]] PROVE Renamed(e) \in graph'[n]
  BY <1>1, <1>11
<1> HIDE DEF Renamed
<1>12. \A r : r \in Moved' <=> \E n \in Node \ Remaining : \E e \in graph[n] : r = Plain(n, e)
  <2>1. ASSUME NEW n \in Node \ Remaining, NEW e \in graph[n]
        PROVE  [[source |-> n, edge |-> e] EXCEPT !.edge.is_original_via_node_ID = TRUE] = Plain(n, e)
    <3> DEFINE t == [source |-> n, edge |-> e]
               d == [e EXCEPT !.is_original_via_node_ID = TRUE]
    <3>1. [t EXCEPT !.edge.is_original_via_node_ID = TRUE] = [t EXCEPT !.edge = d]
      OBVIOUS
    <3> HIDE DEF d
    <3>2. [t EXCEPT !.edge = d] = [source |-> n, edge |-> d]
      BY SMT
    <3> QED BY <3>1, <3>2 DEF Plain, d
  <2>2. \A t : t \in external' <=> \E n \in Node \ Remaining : \E e \in graph[n] : t = [source |-> n, edge |-> e]
    BY <1>1, SMT
  <2>3. \A r : r \in Moved' <=> \E t \in external' : r = [t EXCEPT !.edge.is_original_via_node_ID = TRUE]
    BY DEF Moved
  <2>4. ASSUME NEW r, r \in Moved' PROVE \E n \in Node \ Remaining : \E e \in graph[n] : r = Plain(n, e)
    <3>1. PICK t \in external' : r = [t EXCEPT !.edge.is_original_via_node_ID = TRUE]
      BY <2>3, <2>4
    <3>2. PICK n \in Node \ Remaining : \E e \in graph[n] : t = [source |-> n, edge |-> e]
      BY <2>2, <3>1
    <3>3. PICK e \in graph[n] : t = [source |-> n, edge |-> e]
      BY <3>2
    <3>4. r = Plain(n, e)
      BY <2>1, <3>1, <3>3
    <3> QED BY <3>4
  <2>5. ASSUME NEW n \in Node \ Remaining, NEW e \in graph[n] PROVE Plain(n, e) \in Moved'
    <3>1. [source |-> n, edge |-> e] \in external'
      BY <2>2
    <3>2. [[source |-> n, edge |-> e] EXCEPT !.edge.is_original_via_node_ID = TRUE] \in Moved'
      BY <2>3, <3>1
    <3> QED BY <2>1, <3>2
  <2> QED BY <2>4, <2>5
<1>13. \A n \in Remaining : \E i \in 0 .. L - 1 : remaining[i + 1] = n
  BY <1>5
<1>14. Spelled'
  BY RecordsMember, PTL
<1>15. DOMAIN graph' = 0 .. L - 1 /\ inserted' = {}
  BY <1>1
<1>16. \A r : r \in Records' <=> \/ \E n \in 0 .. L - 1 : \E d \in graph'[n] : r = Translated(n, d)'
                                 \/ r \in Moved'
  BY <1>14, <1>15 DEF Spelled
<1>17. Records' = Records
  <2>1. ASSUME NEW r \in Records' PROVE r \in Records
    <3>1. ASSUME NEW n \in 0 .. L - 1, NEW d \in graph'[n], r = Translated(n, d)' PROVE r \in Records
      <4>1. PICK e \in graph[remaining[n + 1]] : d = Renamed(e)
        BY <1>10
      <4>2. remaining[n + 1] \in Node /\ r = Plain(remaining[n + 1], e)
        BY <1>4, <1>9, <3>1, <4>1
      <4> QED BY <1>8, <4>2
    <3>2. CASE r \in Moved'
      <4>1. PICK n \in Node \ Remaining : \E e \in graph[n] : r = Plain(n, e)
        BY <1>12, <3>2
      <4> QED BY <1>8, <4>1
    <3> QED BY <1>16, <2>1, <3>1, <3>2
  <2>2. ASSUME NEW r \in Records PROVE r \in Records'
    <3>1. PICK n \in Node : \E e \in graph[n] : r = Plain(n, e)
      BY <1>8, <2>2
    <3>2. PICK e \in graph[n] : r = Plain(n, e)
      BY <3>1
    <3>3. CASE n \in Remaining
      <4>1. PICK i \in 0 .. L - 1 : remaining[i + 1] = n
        BY <1>13, <3>3
      <4>2. PICK d : d = Renamed(e)
        OBVIOUS
      <4>3. d \in graph'[i] /\ r = Translated(i, d)'
        BY <1>9, <1>11, <3>2, <4>1, <4>2
      <4> QED BY <1>16, <4>3
    <3>4. CASE n \notin Remaining
      BY <1>12, <1>16, <3>2, <3>4
    <3> QED BY <3>3, <3>4
  <2> QED BY <2>1, <2>2
<1>18. Housed'
  <2>1. ASSUME NEW n \in 0 .. L - 1, NEW d \in graph'[n]
        PROVE  d.target \in 0 .. L - 1 /\ d.is_original_via_node_ID /\ d.distance < IntMax
    <3>1. PICK e \in graph[remaining[n + 1]] : d = Renamed(e)
      BY <1>10
    <3>2. /\ remaining[n + 1] \in Node
          /\ d.target \in 0 .. L - 1 /\ d.is_original_via_node_ID /\ d.distance = e.distance
      BY <1>4, <1>9, <3>1
    <3>3. e.distance < IntMax
      BY <1>2, <3>2 DEF Housed
    <3> QED BY <3>2, <3>3
  <2>2. ASSUME NEW t \in external', NEW n \in 0 .. L - 1 PROVE t.source # OriginalId(n)'
    <3>1. PICK m \in Node \ Remaining : \E e \in graph[m] : t = [source |-> m, edge |-> e]
      BY <1>1
    <3>2. t.source = m
      <4>1. PICK e : t = [source |-> m, edge |-> e]
        BY <3>1
      <4> QED BY <4>1
    <3>3. OriginalId(n)' \in Remaining
      BY <1>3, <1>4 DEF Members
    <3> QED BY <3>2, <3>3
  <2> QED BY <1>3, <1>15, <2>1, <2>2 DEF Housed
<1> QED BY <1>1, <1>2, <1>3, <1>6, <1>17, <1>18 DEF DInv

=============================================================================
