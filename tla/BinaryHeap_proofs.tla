------------------------- MODULE BinaryHeap_proofs -------------------------
(***************************************************************************)
(* Proofs about BinaryHeap, for every set of nodes and weights, every      *)
(* capacity and both kinds of index storage.                               *)
(***************************************************************************)
EXTENDS BinaryHeap, WellFoundedInduction, TLAPS

(* A non-empty set of natural numbers has a least element: where the walk  *)
(* to the root of the heap comes to an end.                                *)
LEMMA Least ==
  ASSUME NEW S \in SUBSET Nat, S # {}
  PROVE  \E x \in S : \A y \in S : x <= y
<1>1. IsWellFoundedOn(OpToRel(<, Nat), Nat)
  BY NatLessThanWellFounded
<1>2. PICK R : /\ IsWellFoundedOn(R, Nat)
               /\ \A x, y \in Nat : x < y => <<x, y>> \in R
  <2>1. \A x, y \in Nat : x < y => <<x, y>> \in OpToRel(<, Nat)
    BY DEF OpToRel
  <2> QED BY <1>1, <2>1, Zenon
<1>3. \E x \in S : \A y \in S : ~ (<<y, x>> \in R)
  <2>1. S \subseteq Nat
    OBVIOUS
  <2>2. IsWellFoundedOn(R, Nat)
    BY <1>2
  <2>3. S # {}
    OBVIOUS
  <2> QED BY ONLY <2>1, <2>2, <2>3, WFMin
<1>4. PICK x \in S : \A y \in S : ~ (<<y, x>> \in R)
  BY <1>3
<1>5. \A y \in S : ~ (y < x)
  <2> TAKE y \in S
  <2>1. x \in Nat /\ y \in Nat
    OBVIOUS
  <2>2. ~ (<<y, x>> \in R)
    BY <1>4
  <2> QED BY <2>1, <2>2, <1>2, Zenon
<1> QED BY <1>5


(***************************************************************************)
(* The inductive invariant.  Inside a loop the element on the move is in   *)
(* neither array: the properties hold everywhere but at the hole, and the  *)
(* element may be put into the hole without harm to the side the loop      *)
(* comes from.                                                             *)
(***************************************************************************)
\* Every entry of inserted_nodes is found through node_index.
Indexed == \A j \in 0 .. count - 1 : iNode[j] \in Nodes /\ node_index[iNode[j]] = j

Sentinel == hWeight[0] = MinWeight

\* The heap outside position k and the entries outside S agree.
Linked(k, S) ==
  /\ \A i \in 1 .. size : i # k =>
        /\ hIndex[i] < count /\ hIndex[i] \notin S
        /\ iKey[hIndex[i]] = i /\ iWeight[hIndex[i]] = hWeight[i]
  /\ \A j \in 0 .. count - 1 : j \notin S /\ iKey[j] # 0 =>
        iKey[j] <= size /\ iKey[j] # k /\ hIndex[iKey[j]] = j

\* Heap order outside position k; k's parent is not heavier than k's children.
Ordered(k) ==
  \A i \in 2 .. size :
    /\ i # k /\ i \div 2 # k => hWeight[i \div 2] <= hWeight[i]
    /\ i \div 2 = k /\ k >= 2 => hWeight[k \div 2] <= hWeight[i]

Moving ==
  /\ hole >= 1 /\ hole <= size
  /\ moving < count /\ iWeight[moving] = weight /\ iKey[moving] # 0

Idle == pc = "idle" => Linked(0, {}) /\ Ordered(0)

Up == pc = "up" =>
  /\ Moving /\ Linked(hole, {moving}) /\ Ordered(hole)
  /\ \A i \in 2 .. size : i \div 2 = hole => weight <= hWeight[i]

Down == pc = "down" =>
  /\ Moving /\ Linked(hole, {moving, removed}) /\ Ordered(hole)
  /\ removed < count /\ removed # moving /\ iKey[removed] # 0
  /\ hole >= 2 => hWeight[hole \div 2] <= weight
  /\ \A i \in 1 .. size : i # hole => iWeight[removed] <= hWeight[i]
  /\ iWeight[removed] <= weight

IInv == TypeOK /\ Indexed /\ Sentinel /\ Idle /\ Up /\ Down

-----------------------------------------------------------------------------
(* Halving, as used for the parent of a position.                          *)
LEMMA Halves ==
  ASSUME NEW i \in Nat
  PROVE  /\ i \div 2 \in Nat /\ 2 * (i \div 2) <= i /\ i <= 2 * (i \div 2) + 1
         /\ i > 0 => i \div 2 < i
  OBVIOUS

(* In heap order the root is lightest: a lighter element of least position *)
(* would have a lighter parent.                                            *)
LEMMA RootIsLeast ==
  ASSUME TypeOK, Ordered(0)
  PROVE  \A i \in 1 .. size : hWeight[1] <= hWeight[i]
<1> DEFINE S == {i \in 1 .. size : hWeight[i] < hWeight[1]}
<1>1. \A i \in Slots : hWeight[i] \in Int
  BY WeightAssumption, Zenon DEF TypeOK
<1>2. size \in Nat /\ 1 .. size \subseteq Slots
  BY CapacityAssumption DEF TypeOK, Slots
<1>3. ASSUME S # {} PROVE FALSE
  <2>1. S \in SUBSET Nat
    BY <1>2
  <2>2. PICK x \in S : \A y \in S : x <= y
    <3> HIDE DEF S
    <3> QED BY <1>3, <2>1, Least, Zenon
  <2>3. x \in 2 .. size /\ x \in Nat /\ hWeight[x] < hWeight[1]
    BY <1>1, <1>2, <2>2, CapacityAssumption DEF Slots
  <2>4. x \div 2 \in 1 .. size /\ x \div 2 < x /\ x \div 2 # 0
    BY <1>2, <2>3, Halves
  <2>5. hWeight[x \div 2] <= hWeight[x]
    BY <2>3, <2>4 DEF Ordered
  <2>6. x \div 2 \in S
    BY <1>1, <1>2, <2>3, <2>4, <2>5
  <2> QED BY <2>2, <2>4, <2>6, <1>2
<1>4. \A i \in 1 .. size : ~ (hWeight[i] < hWeight[1])
  BY <1>3, Zenon
<1> QED BY <1>1, <1>2, <1>4, CapacityAssumption DEF Slots

-----------------------------------------------------------------------------
(* The empty heap is ordered.                                              *)
LEMMA InitIInv == Init => IInv
  BY WeightAssumption, CapacityAssumption, NoNodeAssumption, StorageAssumption
     DEF Init, IInv, TypeOK, Indexed, Sentinel, Idle, Up, Down, Linked, Ordered,
         NoIndices, NoWeights, NoNodes, Slots, NoIndex

(* Facts about types, in the form the steps below use them.                *)
LEMMA SlotFacts == Capacity \in Nat /\ \A i : i \in Slots <=> i \in Nat /\ i <= Capacity
  BY CapacityAssumption DEF Slots

(* What the types say of sizes, slots and weights.                         *)
LEMMA TypeFacts ==
  ASSUME TypeOK
  PROVE  /\ size \in Nat /\ count \in Nat /\ size <= count /\ count <= Capacity
         /\ \A i \in Slots : hIndex[i] \in Slots /\ iKey[i] \in Slots
         /\ \A i \in Slots : hWeight[i] \in Int /\ iWeight[i] \in Int
         /\ weight \in Int /\ hole \in Slots /\ moving \in Slots /\ removed \in Slots
<1>1. \A w \in Weights \cup {MinWeight} : w \in Int
  BY WeightAssumption, Zenon
<1>2. /\ size \in Nat /\ count \in Nat /\ size <= count /\ count <= Capacity
      /\ hole \in Slots /\ moving \in Slots /\ removed \in Slots
  BY SlotFacts, Zenon DEF TypeOK
<1>3. \A i \in Slots : hIndex[i] \in Slots /\ iKey[i] \in Slots
  BY Zenon DEF TypeOK
<1>4. \A i \in Slots : hWeight[i] \in Int /\ iWeight[i] \in Int
  BY <1>1, Zenon DEF TypeOK
<1>5. weight \in Int
  BY <1>1, Zenon DEF TypeOK
<1> QED BY <1>2, <1>3, <1>4, <1>5, Zenon

(* The parent of a position is a smaller position.                         *)
LEMMA Parents ==
  ASSUME NEW n \in Nat, NEW i \in 2 .. n
  PROVE  i \in Nat /\ i \div 2 \in 1 .. n /\ i \div 2 < i
  BY Halves

(* Insert puts the new entry in the hole at the end.                       *)
LEMMA InsertIInv ==
  ASSUME IInv, NEW v \in Nodes, NEW w \in Weights, Insert(v, w)
  PROVE  IInv'
<1> DEFINE W == Weights \cup {MinWeight}
<1>a. /\ hIndex \in [Slots -> Slots] /\ hWeight \in [Slots -> W]
      /\ iNode \in [Slots -> Nodes \cup {NoNode}] /\ iKey \in [Slots -> Slots]
      /\ iWeight \in [Slots -> W] /\ node_index \in [Nodes -> Slots]
  BY Zenon DEF IInv, TypeOK
<1>b. /\ size \in Nat /\ count \in Nat /\ size <= count /\ count < Capacity /\ w \in Int
      /\ \A i \in Slots : hIndex[i] \in Slots /\ iKey[i] \in Slots
      /\ \A i \in Slots : hWeight[i] \in Int /\ iWeight[i] \in Int
  BY TypeFacts, WeightAssumption, Zenon DEF IInv, Insert
<1>c. size + 1 \in Slots /\ count \in Slots /\ count + 1 \in Slots /\ w \in W
  BY <1>b, SlotFacts
<1>d. Linked(0, {}) /\ Ordered(0)
  BY Zenon DEF IInv, Idle, Insert
<1>e. /\ size' = size + 1 /\ count' = count + 1
      /\ pc' = "up" /\ hole' = size + 1 /\ moving' = count /\ weight' = w /\ removed' = removed
  BY Zenon DEF Insert, Upheap
<1>f. \A i \in Slots : /\ hIndex'[i] = IF i = size + 1 THEN count ELSE hIndex[i]
                       /\ hWeight'[i] = IF i = size + 1 THEN w ELSE hWeight[i]
                       /\ iNode'[i] = IF i = count THEN v ELSE iNode[i]
                       /\ iKey'[i] = IF i = count THEN size + 1 ELSE iKey[i]
                       /\ iWeight'[i] = IF i = count THEN w ELSE iWeight[i]
  BY <1>a, <1>c, Zenon DEF Insert
<1>g. \A u \in Nodes : node_index'[u] = IF u = v THEN count ELSE node_index[u]
  BY <1>a, Zenon DEF Insert
<1>1. TypeOK'
  <2>1. hIndex' \in [Slots -> Slots] /\ hWeight' \in [Slots -> W]
    BY <1>a, <1>c, Zenon DEF Insert
  <2>2. /\ iNode' \in [Slots -> Nodes \cup {NoNode}] /\ iKey' \in [Slots -> Slots]
        /\ iWeight' \in [Slots -> W] /\ node_index' \in [Nodes -> Slots]
    BY <1>a, <1>c, Zenon DEF Insert
  <2>3. size' <= count' /\ removed' \in Slots
    BY <1>b, <1>e DEF IInv, TypeOK
  <2> QED BY <1>c, <1>e, <2>1, <2>2, <2>3, Zenon DEF TypeOK
<1>2. Indexed'
  <2>1. \A j \in 0 .. count - 1 : iNode[j] \in Nodes /\ node_index[iNode[j]] = j
    BY Zenon DEF IInv, Indexed
  <2>2. \A j \in 0 .. count - 1 : iNode[j] # v
    BY <2>1, <1>b DEF Insert, WasInserted
  <2>3. \A j \in 0 .. count - 1 : j \in Slots /\ j # count
    BY <1>b, SlotFacts
  <2>4. \A j \in 0 .. count - 1 : iNode'[j] \in Nodes /\ node_index'[iNode'[j]] = j
    BY <2>1, <2>2, <2>3, <1>f, <1>g
  <2>5. iNode'[count] \in Nodes /\ node_index'[iNode'[count]] = count
    BY <1>c, <1>f, <1>g, Zenon
  <2> QED BY <2>4, <2>5, <1>b, <1>e DEF Indexed
<1>3. Sentinel'
  BY <1>b, <1>f, SlotFacts DEF IInv, Sentinel
<1>4. Idle' /\ Down'
  BY <1>e, Zenon DEF Idle, Down
<1>5. Up'
  <2>1. Moving'
    BY <1>b, <1>c, <1>e, <1>f DEF Moving
  <2>2. Linked(hole, {moving})'
    <3>1. \A i \in 1 .. size : i \in Slots /\ i # size + 1 /\ hIndex[i] # count
      BY <1>b, <1>d, SlotFacts DEF Linked
    <3>2. \A j \in 0 .. count - 1 : j \in Slots /\ j # count
      BY <1>b, SlotFacts
    <3>3. \A i \in 1 .. size' : i # size + 1 =>
             /\ hIndex'[i] < count' /\ hIndex'[i] # count
             /\ iKey'[hIndex'[i]] = i /\ iWeight'[hIndex'[i]] = hWeight'[i]
      BY <1>b, <1>d, <1>e, <1>f, <3>1, SlotFacts DEF Linked
    <3>4. \A j \in 0 .. count' - 1 : j # count /\ iKey'[j] # 0 =>
             iKey'[j] <= size' /\ iKey'[j] # size + 1 /\ hIndex'[iKey'[j]] = j
      BY <1>b, <1>d, <1>e, <1>f, <3>2, SlotFacts DEF Linked
    <3> QED BY <3>3, <3>4, <1>e, Zenon DEF Linked
  <2>3. \A i \in 2 .. size' : i \in Slots /\ i \div 2 \in Slots /\ i \div 2 # size + 1 /\ i \div 2 # 0 /\ i # 0
    BY <1>b, <1>e, SlotFacts, Parents
  <2>4. Ordered(hole)'
    BY <1>b, <1>d, <1>e, <1>f, <2>3 DEF Ordered
  <2> QED BY <1>e, <2>1, <2>2, <2>3, <2>4, Zenon DEF Up
<1> QED BY <1>1, <1>2, <1>3, <1>4, <1>5, Zenon DEF IInv

(* DecreaseKey makes the hole where the node is.                           *)
LEMMA DecreaseKeyIInv ==
  ASSUME IInv, NEW v \in Nodes, NEW w \in Weights, DecreaseKey(v, w)
  PROVE  IInv'
<1> DEFINE W == Weights \cup {MinWeight}
           j == node_index[v]
           k == iKey[j]
<1>a. /\ hWeight \in [Slots -> W] /\ iWeight \in [Slots -> W] /\ node_index \in [Nodes -> Slots]
  BY Zenon DEF IInv, TypeOK
<1>b. /\ size \in Nat /\ count \in Nat /\ size <= count /\ count <= Capacity /\ w \in Int
      /\ \A i \in Slots : hIndex[i] \in Slots /\ iKey[i] \in Slots
      /\ \A i \in Slots : hWeight[i] \in Int /\ iWeight[i] \in Int
  BY TypeFacts, WeightAssumption, Zenon DEF IInv, DecreaseKey
<1>c. Linked(0, {}) /\ Ordered(0)
  BY Zenon DEF IInv, Idle, DecreaseKey
<1>d. j \in Slots /\ j \in 0 .. count - 1 /\ k \in Slots /\ k # 0
  BY <1>a, <1>b, SlotFacts DEF DecreaseKey, WasInserted, WasRemoved
<1>e. k \in 1 .. size /\ hIndex[k] = j
  BY <1>b, <1>c, <1>d, SlotFacts DEF Linked
<1>f. iWeight[j] = hWeight[k] /\ w <= hWeight[k]
  BY <1>c, <1>e, <1>d, Zenon DEF Linked, DecreaseKey, GetKey
<1>g. /\ hole' = k /\ moving' = j /\ weight' = w /\ size' = size /\ count' = count /\ pc' = "up"
      /\ iKey' = iKey /\ hIndex' = hIndex /\ iNode' = iNode /\ node_index' = node_index
      /\ removed' = removed
  BY <1>e, Zenon DEF DecreaseKey, Upheap
<1>h. \A i \in Slots : /\ hWeight'[i] = IF i = k THEN w ELSE hWeight[i]
                       /\ iWeight'[i] = IF i = j THEN w ELSE iWeight[i]
  BY <1>a, <1>d, Zenon DEF DecreaseKey
<1>1. TypeOK'
  <2>1. hWeight' \in [Slots -> W] /\ iWeight' \in [Slots -> W]
    BY <1>a, <1>d, Zenon DEF DecreaseKey
  <2> QED BY <1>d, <1>g, <2>1, Zenon DEF IInv, TypeOK
<1> HIDE DEF j, k
<1>2. Indexed'
  BY <1>g, Zenon DEF IInv, Indexed
<1>3. Sentinel'
  BY <1>d, <1>h, SlotFacts DEF IInv, Sentinel
<1>4. Idle' /\ Down'
  BY <1>g, Zenon DEF Idle, Down
<1>5. Up'
  <2>1. Moving'
    BY <1>b, <1>d, <1>e, <1>g, <1>h DEF Moving, k
  <2>2. Linked(hole, {moving})'
    <3>1. \A i \in 1 .. size : i \in Slots
      BY <1>b, SlotFacts
    <3>2. \A i \in 0 .. count - 1 : i \in Slots
      BY <1>b, SlotFacts
    <3>3. \A i \in 1 .. size : i # k =>
             /\ hIndex[i] < count /\ hIndex[i] # j
             /\ iKey[hIndex[i]] = i /\ iWeight'[hIndex[i]] = hWeight'[i]
      <4> TAKE i \in 1 .. size
      <4>1. hIndex[i] < count /\ iKey[hIndex[i]] = i /\ iWeight[hIndex[i]] = hWeight[i]
        BY <1>c, <1>b DEF Linked
      <4>2. i # k => hIndex[i] # j
        BY <4>1, Zenon DEF k
      <4> QED BY <4>1, <4>2, <1>b, <1>h, <3>1, Zenon
    <3>4. \A i \in 0 .. count - 1 : i # j /\ iKey[i] # 0 =>
             iKey[i] <= size /\ iKey[i] # k /\ hIndex[iKey[i]] = i
      BY <1>c, <1>e, Zenon DEF Linked
    <3> QED BY <3>3, <3>4, <1>g, Zenon DEF Linked
  <2>3. \A i \in 2 .. size : i \in Slots /\ i \div 2 \in Slots /\ i \div 2 # i /\ i \div 2 # 0 /\ i # 0
    BY <1>b, SlotFacts, Parents
  <2>4. k >= 2 => k \div 2 \in Slots /\ k \div 2 # k /\ hWeight[k \div 2] <= hWeight[k]
    BY <1>b, <1>c, <1>e, <2>3 DEF Ordered
  <2>5. \A i \in 2 .. size : hWeight[i \div 2] <= hWeight[i]
    BY <1>c, <2>3, Zenon DEF Ordered
  <2>6. Ordered(hole)'
    <3> SUFFICES ASSUME NEW i \in 2 .. size
                 PROVE  /\ i # k /\ i \div 2 # k => hWeight'[i \div 2] <= hWeight'[i]
                        /\ i \div 2 = k /\ k >= 2 => hWeight'[k \div 2] <= hWeight'[i]
      BY <1>g, Zenon DEF Ordered
    <3>1. i # k /\ i \div 2 # k => hWeight'[i \div 2] <= hWeight'[i]
      BY <1>h, <2>3, <2>5, Zenon
    <3>2. ASSUME i \div 2 = k, k >= 2 PROVE hWeight'[k \div 2] <= hWeight'[i]
      <4>1. hWeight'[k \div 2] = hWeight[k \div 2] /\ hWeight'[i] = hWeight[i]
        BY <1>h, <2>3, <2>4, <3>2, Zenon
      <4>2. hWeight[k \div 2] <= hWeight[k] /\ hWeight[k] <= hWeight[i]
        BY <2>4, <2>5, <3>2, Zenon
      <4>3. hWeight[k \div 2] \in Int /\ hWeight[k] \in Int /\ hWeight[i] \in Int
        BY <1>b, <1>d, <2>3, <2>4, <3>2, Zenon
      <4> QED BY <4>1, <4>2, <4>3
    <3> QED BY <3>1, <3>2, Zenon
  <2>7. \A i \in 2 .. size : i \div 2 = k => w <= hWeight'[i]
    <3> TAKE i \in 2 .. size
    <3> HAVE i \div 2 = k
    <3>1. hWeight'[i] = hWeight[i] /\ hWeight[k] <= hWeight[i] /\ hWeight[i] \in Int /\ hWeight[k] \in Int
      BY <1>b, <1>d, <1>h, <2>3, <2>5, Zenon
    <3> QED BY <3>1, <1>b, <1>f
  <2> QED BY <1>g, <2>1, <2>2, <2>6, <2>7, Zenon DEF Up
<1> QED BY <1>1, <1>2, <1>3, <1>4, <1>5 DEF IInv

(* A loop step moves the element at p into the hole and leaves the hole at *)
(* p; the entry of the moved element follows.                              *)
MoveFrom(p) ==
  /\ size' = size /\ count' = count /\ iWeight' = iWeight
  /\ hIndex' = [hIndex EXCEPT ![hole] = hIndex[p]]
  /\ hWeight' = [hWeight EXCEPT ![hole] = hWeight[p]]
  /\ iKey' = [iKey EXCEPT ![hIndex[p]] = hole]

Relinked(p, S) ==
  /\ \A i \in 1 .. size' : i # p =>
        /\ hIndex'[i] < count' /\ hIndex'[i] \notin S
        /\ iKey'[hIndex'[i]] = i /\ iWeight'[hIndex'[i]] = hWeight'[i]
  /\ \A j \in 0 .. count' - 1 : j \notin S /\ iKey'[j] # 0 =>
        iKey'[j] <= size' /\ iKey'[j] # p /\ hIndex'[iKey'[j]] = j
  /\ \A j \in S \cap Slots : iKey'[j] = iKey[j]
  /\ hIndex' \in [Slots -> Slots] /\ iKey' \in [Slots -> Slots]
  /\ hWeight' \in [Slots -> Weights \cup {MinWeight}]
  /\ \A i \in Slots : hWeight'[i] = IF i = hole THEN hWeight[p] ELSE hWeight[i]

(* Upheap or Downheap moves an entry into the hole.                        *)
LEMMA HoleMoves ==
  ASSUME TypeOK, NEW S, NEW p \in 1 .. size, hole \in 1 .. size, p # hole, Linked(hole, S),
         MoveFrom(p)
  PROVE  Relinked(p, S)
<1> DEFINE q == hIndex[p]
<1>a. /\ hIndex \in [Slots -> Slots] /\ hWeight \in [Slots -> Weights \cup {MinWeight}]
      /\ iKey \in [Slots -> Slots]
  BY Zenon DEF TypeOK
<1>b. /\ size \in Nat /\ count \in Nat /\ size <= count /\ count <= Capacity
      /\ \A i \in Slots : hIndex[i] \in Slots /\ iKey[i] \in Slots
  BY TypeFacts, Zenon
<1>c. \A i \in 1 .. size : i \in Slots
  BY <1>b, SlotFacts
<1>d. p \in Slots /\ hole \in Slots /\ q \in Slots
  BY <1>b, <1>c, Zenon
<1>e. q < count /\ q \notin S /\ iKey[q] = p /\ iWeight[q] = hWeight[p]
  BY Zenon DEF Linked
<1>f. \A i \in Slots : /\ hIndex'[i] = IF i = hole THEN q ELSE hIndex[i]
                       /\ hWeight'[i] = IF i = hole THEN hWeight[p] ELSE hWeight[i]
                       /\ iKey'[i] = IF i = q THEN hole ELSE iKey[i]
  BY <1>a, <1>d, Zenon DEF MoveFrom
<1>g. /\ hIndex' \in [Slots -> Slots] /\ iKey' \in [Slots -> Slots]
      /\ hWeight' \in [Slots -> Weights \cup {MinWeight}]
  BY <1>a, <1>d, Zenon DEF MoveFrom
<1> HIDE DEF q
<1>1. ASSUME NEW i \in 1 .. size, i # p
      PROVE  /\ hIndex'[i] < count /\ hIndex'[i] \notin S
             /\ iKey'[hIndex'[i]] = i /\ iWeight[hIndex'[i]] = hWeight'[i]
  <2>1. CASE i = hole
    BY <2>1, <1>d, <1>e, <1>f, Zenon
  <2>2. CASE i # hole
    <3>1. hIndex'[i] = hIndex[i] /\ hWeight'[i] = hWeight[i] /\ hIndex[i] \in Slots
      BY <2>2, <1>b, <1>c, <1>f, Zenon
    <3>2. /\ hIndex[i] < count /\ hIndex[i] \notin S
          /\ iKey[hIndex[i]] = i /\ iWeight[hIndex[i]] = hWeight[i]
      BY <2>2, Zenon DEF Linked
    <3>3. hIndex[i] # q
      BY <3>2, <1>e, <1>1, Zenon
    <3> QED BY <3>1, <3>2, <3>3, <1>f, Zenon
  <2> QED BY <2>1, <2>2, Zenon
<1>2. ASSUME NEW j \in 0 .. count - 1, j \notin S, iKey'[j] # 0
      PROVE  iKey'[j] <= size /\ iKey'[j] # p /\ hIndex'[iKey'[j]] = j
  <2>0. j \in Slots
    BY <1>b, SlotFacts
  <2>1. CASE j = q
    BY <2>1, <1>b, <1>d, <1>f
  <2>2. CASE j # q
    <3>1. iKey'[j] = iKey[j] /\ iKey[j] \in Slots
      BY <2>0, <2>2, <1>b, <1>f, Zenon
    <3>2. iKey[j] <= size /\ iKey[j] # hole /\ hIndex[iKey[j]] = j
      BY <1>2, <3>1, Zenon DEF Linked
    <3>3. iKey[j] # p
      BY <3>2, <2>2, Zenon DEF q
    <3> QED BY <3>1, <3>2, <3>3, <1>f, Zenon
  <2> QED BY <2>1, <2>2, Zenon
<1>3. \A j \in S \cap Slots : iKey'[j] = iKey[j]
  BY <1>e, <1>f, Zenon
<1> QED BY <1>1, <1>2, <1>3, <1>f, <1>g DEF MoveFrom, Relinked

(* A step of the loop of Upheap.                                           *)
LEMMA UpMovesIInv ==
  ASSUME IInv, UpMoves
  PROVE  IInv'
<1> DEFINE p == hole \div 2
<1>a. /\ size \in Nat /\ count \in Nat /\ size <= count /\ count <= Capacity /\ weight \in Int
      /\ \A i \in Slots : hWeight[i] \in Int
      /\ hole \in Slots /\ moving \in Slots
  BY TypeFacts, Zenon DEF IInv
<1>b. /\ Moving /\ Linked(hole, {moving}) /\ Ordered(hole)
      /\ \A i \in 2 .. size : i \div 2 = hole => weight <= hWeight[i]
  BY Zenon DEF IInv, Up, UpMoves
<1>c. hole \in Nat /\ hole >= 1 /\ hole <= size /\ p \in Nat /\ 2 * p <= hole /\ hole <= 2 * p + 1
  BY <1>a, <1>b, SlotFacts, Halves, Zenon DEF Moving
<1>d. MinWeight <= weight
  BY WeightAssumption DEF IInv, TypeOK
<1>e. hWeight[p] > weight /\ p # 0
  BY <1>a, <1>d, WeightAssumption DEF IInv, Sentinel, UpMoves
<1>f. p \in 1 .. size /\ p # hole /\ hole \in 1 .. size /\ hole \in 2 .. size /\ p \in Slots
  BY <1>a, <1>c, <1>e, SlotFacts
<1>g. /\ size' = size /\ count' = count /\ hole' = p /\ pc' = "up" /\ moving' = moving
      /\ weight' = weight /\ removed' = removed /\ iWeight' = iWeight /\ iNode' = iNode
      /\ node_index' = node_index
      /\ hIndex' = [hIndex EXCEPT ![hole] = hIndex[p]]
      /\ hWeight' = [hWeight EXCEPT ![hole] = hWeight[p]]
      /\ iKey' = [iKey EXCEPT ![hIndex[p]] = hole]
  BY Zenon DEF UpMoves
<1> HIDE DEF p
<1>h. Relinked(p, {moving})
  <2>1. TypeOK /\ MoveFrom(p)
    BY <1>g, Zenon DEF IInv, MoveFrom
  <2> QED BY <1>b, <1>f, <2>1, HoleMoves, Zenon
<1>i. \A i \in Slots : hWeight'[i] = IF i = hole THEN hWeight[p] ELSE hWeight[i]
  BY <1>h, Zenon DEF Relinked
<1>1. TypeOK'
  BY <1>f, <1>g, <1>h, Zenon DEF IInv, TypeOK, Relinked
<1>2. Indexed'
  BY <1>g, Zenon DEF IInv, Indexed
<1>3. Sentinel'
  BY <1>c, <1>i, SlotFacts DEF IInv, Sentinel
<1>4. Idle' /\ Down'
  BY <1>g, Zenon DEF Idle, Down
<1>5. Up'
  <2>1. Moving'
    BY <1>a, <1>b, <1>f, <1>g, <1>h DEF Moving, Relinked
  <2>2. Linked(hole, {moving})'
    BY <1>g, <1>h, Zenon DEF Linked, Relinked
  <2>3. \A i \in 2 .. size : i \in Slots /\ i \div 2 \in Slots /\ i \div 2 # i
    BY <1>a, SlotFacts, Parents
  <2>4. Ordered(hole)'
    <3> SUFFICES ASSUME NEW i \in 2 .. size
                 PROVE  /\ i # p /\ i \div 2 # p => hWeight'[i \div 2] <= hWeight'[i]
                        /\ i \div 2 = p /\ p >= 2 => hWeight'[p \div 2] <= hWeight'[i]
      BY <1>g, Zenon DEF Ordered
    <3>1. ASSUME i # p, i \div 2 # p PROVE hWeight'[i \div 2] <= hWeight'[i]
      <4>1. i # hole
        BY <3>1, Zenon DEF p
      <4>2. CASE i \div 2 = hole
        <5>1. hWeight[p] <= hWeight[i]
          BY <1>b, <1>f, <4>2 DEF Ordered, p
        <5> QED BY <5>1, <4>1, <4>2, <2>3, <1>i, Zenon
      <4>3. CASE i \div 2 # hole
        <5>1. hWeight[i \div 2] <= hWeight[i]
          BY <1>b, <4>1, <4>3, Zenon DEF Ordered
        <5> QED BY <5>1, <4>1, <4>3, <2>3, <1>i, Zenon
      <4> QED BY <4>2, <4>3, Zenon
    <3>2. ASSUME i \div 2 = p, p >= 2 PROVE hWeight'[p \div 2] <= hWeight'[i]
      <4>0. p \in 2 .. size /\ p \div 2 \in Slots /\ p \div 2 < p
        BY <1>f, <3>2, <1>a, Parents, SlotFacts
      <4>1. hWeight[p \div 2] <= hWeight[p]
        <5>1. p # hole /\ p \div 2 # hole
          BY <1>c, <1>e, <4>0, <3>2
        <5> QED BY <1>b, <4>0, <5>1, Zenon DEF Ordered
      <4>2. hWeight'[p \div 2] = hWeight[p \div 2]
        BY <1>c, <1>e, <4>0, <3>2, <1>i
      <4>3. CASE i = hole
        BY <4>1, <4>2, <4>3, <2>3, <1>i, Zenon
      <4>4. CASE i # hole
        <5>1. hWeight[p] <= hWeight[i] /\ hWeight'[i] = hWeight[i]
          BY <1>b, <1>f, <3>2, <4>4, <2>3, <1>i, Zenon DEF Ordered
        <5>2. hWeight[p \div 2] \in Int /\ hWeight[p] \in Int /\ hWeight[i] \in Int
          BY <1>a, <1>f, <2>3, <4>0, Zenon
        <5> QED BY <5>1, <5>2, <4>1, <4>2
      <4> QED BY <4>3, <4>4, Zenon
    <3> QED BY <3>1, <3>2, Zenon
  <2>5. \A i \in 2 .. size : i \div 2 = p => weight <= hWeight'[i]
    <3> TAKE i \in 2 .. size
    <3> HAVE i \div 2 = p
    <3>0. hWeight[p] \in Int /\ hWeight[i] \in Int
      BY <1>a, <1>f, <2>3, Zenon
    <3>1. CASE i = hole
      BY <3>0, <3>1, <1>a, <1>e, <2>3, <1>i
    <3>2. CASE i # hole
      <4>1. hWeight[p] <= hWeight[i] /\ hWeight'[i] = hWeight[i]
        BY <1>b, <1>f, <3>2, <2>3, <1>i, Zenon DEF Ordered
      <4> QED BY <3>0, <4>1, <1>a, <1>e
    <3> QED BY <3>1, <3>2, Zenon
  <2> QED BY <1>g, <2>1, <2>2, <2>4, <2>5, Zenon DEF Up
<1> QED BY <1>1, <1>2, <1>3, <1>4, <1>5, Zenon DEF IInv

(* The end of a loop puts the moving element into the hole; the entries of *)
(* S other than its own are those of nodes taken out.                      *)
Placed(S) ==
  /\ size' = size /\ count' = count /\ iWeight' = iWeight
  /\ Place
  /\ \A j \in Slots : iKey'[j] = IF j = moving THEN hole ELSE IF j \in S THEN 0 ELSE iKey[j]

(* The moving entry is put into the hole.                                  *)
LEMMA HoleCloses ==
  ASSUME TypeOK, NEW S, moving \in S, Moving, Linked(hole, S), Placed(S)
  PROVE  /\ Linked(0, {})'
         /\ \A i \in Slots : hWeight'[i] = IF i = hole THEN weight ELSE hWeight[i]
         /\ hIndex' \in [Slots -> Slots] /\ hWeight' \in [Slots -> Weights \cup {MinWeight}]
<1>a. hIndex \in [Slots -> Slots] /\ hWeight \in [Slots -> Weights \cup {MinWeight}]
  BY Zenon DEF TypeOK
<1>b. /\ size \in Nat /\ count \in Nat /\ size <= count /\ count <= Capacity
      /\ \A i \in Slots : hIndex[i] \in Slots /\ iKey[i] \in Slots
      /\ hole \in Slots /\ moving \in Slots
  BY TypeFacts, Zenon
<1>c. \A i \in Slots : /\ hIndex'[i] = IF i = hole THEN moving ELSE hIndex[i]
                       /\ hWeight'[i] = IF i = hole THEN weight ELSE hWeight[i]
  BY <1>a, <1>b, Zenon DEF Placed, Place
<1>d. hIndex' \in [Slots -> Slots] /\ hWeight' \in [Slots -> Weights \cup {MinWeight}]
  <2>1. weight \in Weights \cup {MinWeight}
    BY Zenon DEF TypeOK
  <2> QED BY <1>a, <1>b, <2>1, Zenon DEF Placed, Place
<1>e. /\ size' = size /\ count' = count /\ iWeight' = iWeight
      /\ \A j \in Slots : iKey'[j] = IF j = moving THEN hole ELSE IF j \in S THEN 0 ELSE iKey[j]
  BY Zenon DEF Placed
<1>f. hole >= 1 /\ hole <= size /\ moving < count /\ iWeight[moving] = weight
  BY Zenon DEF Moving
<1>1. ASSUME NEW i \in 1 .. size
      PROVE  /\ hIndex'[i] < count
             /\ iKey'[hIndex'[i]] = i /\ iWeight[hIndex'[i]] = hWeight'[i]
  <2>0. i \in Slots
    BY <1>b, SlotFacts
  <2>1. CASE i = hole
    BY <2>0, <2>1, <1>b, <1>c, <1>e, <1>f, Zenon
  <2>2. CASE i # hole
    <3>1. /\ hIndex[i] < count /\ hIndex[i] \notin S
          /\ iKey[hIndex[i]] = i /\ iWeight[hIndex[i]] = hWeight[i]
      BY <2>2, Zenon DEF Linked
    <3>2. hIndex[i] # moving /\ hIndex[i] \in Slots
      BY <3>1, <2>0, <1>b, Zenon
    <3> QED BY <3>1, <3>2, <2>0, <2>2, <1>c, <1>e, Zenon
  <2> QED BY <2>1, <2>2, Zenon
<1>2. ASSUME NEW j \in 0 .. count - 1, iKey'[j] # 0
      PROVE  iKey'[j] <= size /\ hIndex'[iKey'[j]] = j
  <2>0. j \in Slots
    BY <1>b, SlotFacts
  <2>1. CASE j = moving
    BY <2>0, <2>1, <1>b, <1>c, <1>e, <1>f, Zenon
  <2>2. CASE j # moving
    <3>1. j \notin S /\ iKey'[j] = iKey[j] /\ iKey[j] \in Slots
      BY <2>0, <2>2, <1>2, <1>b, <1>e, Zenon
    <3>2. iKey[j] <= size /\ iKey[j] # hole /\ hIndex[iKey[j]] = j
      BY <3>1, <1>2, Zenon DEF Linked
    <3> QED BY <3>1, <3>2, <1>c, Zenon
  <2> QED BY <2>1, <2>2, Zenon
<1>3. Linked(0, {})'
  BY <1>1, <1>2, <1>e, Zenon DEF Linked
<1> QED BY <1>3, <1>c, <1>d, Zenon

(* Where the moving element is no lighter than the hole's parent and no    *)
(* heavier than its children, the heap is in order afterwards.             *)
LEMMA OrderCloses ==
  ASSUME TypeOK, Ordered(hole), hole >= 1, hole <= size, size' = size,
         \A i \in Slots : hWeight'[i] = IF i = hole THEN weight ELSE hWeight[i],
         hole >= 2 => hWeight[hole \div 2] <= weight,
         \A i \in 2 .. size : i \div 2 = hole => weight <= hWeight[i]
  PROVE  Ordered(0)'
<1>1. size \in Nat /\ hole \in Slots
  BY TypeFacts, Zenon
<1>2. size <= Capacity
  BY TypeFacts, SlotFacts
<1> SUFFICES ASSUME NEW i \in 2 .. size
             PROVE  hWeight'[i \div 2] <= hWeight'[i]
  <2>1. \A i \in 2 .. size : i \div 2 # 0
    BY <1>1, Parents
  <2> QED BY <2>1, Zenon DEF Ordered
<1>3. i \in Slots /\ i \div 2 \in Slots /\ i \div 2 # i
  BY <1>1, <1>2, SlotFacts, Parents
<1>4. CASE i = hole
  BY <1>3, <1>4
<1>5. CASE i # hole /\ i \div 2 = hole
  BY <1>3, <1>5, Zenon
<1>6. CASE i # hole /\ i \div 2 # hole
  BY <1>3, <1>6, Zenon DEF Ordered
<1> QED BY <1>4, <1>5, <1>6, Zenon

(* The end of Upheap.                                                      *)
LEMMA UpEndsIInv ==
  ASSUME IInv, UpEnds
  PROVE  IInv'
<1>a. /\ Moving /\ Linked(hole, {moving}) /\ Ordered(hole) /\ TypeOK
      /\ \A i \in 2 .. size : i \div 2 = hole => weight <= hWeight[i]
      /\ moving \in {moving}
  BY Zenon DEF IInv, Up, UpEnds
<1>b. /\ hole \in Slots /\ moving \in Slots /\ iKey \in [Slots -> Slots]
  BY Zenon DEF IInv, TypeOK
<1>c. Placed({moving})
  BY <1>b, Zenon DEF UpEnds, Placed
<1>d. /\ Linked(0, {})'
      /\ \A i \in Slots : hWeight'[i] = IF i = hole THEN weight ELSE hWeight[i]
      /\ hIndex' \in [Slots -> Slots] /\ hWeight' \in [Slots -> Weights \cup {MinWeight}]
  BY <1>a, <1>c, HoleCloses, Zenon
<1>e. /\ size' = size /\ count' = count /\ iNode' = iNode /\ iWeight' = iWeight
      /\ node_index' = node_index /\ pc' = "idle" /\ hole' = 0 /\ moving' = 0
      /\ weight' = MinWeight /\ removed' = 0 /\ iKey' = [iKey EXCEPT ![moving] = hole]
      /\ hWeight[hole \div 2] <= weight
  BY Zenon DEF UpEnds, Return
<1>f. Ordered(0)'
  BY <1>a, <1>d, <1>e, OrderCloses, Zenon DEF Moving
<1>1. TypeOK'
  BY <1>b, <1>d, <1>e, SlotFacts DEF IInv, TypeOK
<1>2. Indexed'
  BY <1>e, Zenon DEF IInv, Indexed
<1>3. Sentinel'
  BY <1>a, <1>d, SlotFacts DEF IInv, Sentinel, Moving
<1> QED BY <1>1, <1>2, <1>3, <1>d, <1>e, <1>f, Zenon DEF IInv, Idle, Up, Down

(* Child is the lighter of the hole's children.                            *)
LEMMA ChildFacts ==
  ASSUME TypeOK, hole \in 1 .. size, 2 * hole <= size
  PROVE  /\ Child \in 2 .. size /\ Child \div 2 = hole /\ Child # hole /\ Child \in Slots
         /\ \A i \in 2 .. size : i \div 2 = hole => hWeight[Child] <= hWeight[i]
<1>1. size \in Nat /\ size <= Capacity /\ \A i \in Slots : hWeight[i] \in Int
  BY TypeFacts, SlotFacts
<1>2. hole \in Nat /\ hole >= 1
  BY <1>1
<1>3. \A i \in 2 .. size : i \div 2 = hole => i = 2 * hole \/ i = 2 * hole + 1
  BY <1>1, <1>2, Halves
<1>4. (2 * hole) \div 2 = hole /\ (2 * hole + 1) \div 2 = hole
  BY <1>2
<1>5. 2 * hole \in Slots /\ (2 * hole + 1 <= size => 2 * hole + 1 \in Slots)
  BY <1>1, <1>2, SlotFacts
<1>6. CASE 2 * hole + 1 <= size /\ hWeight[2 * hole] > hWeight[2 * hole + 1]
  <2>1. Child = 2 * hole + 1
    BY <1>6, Zenon DEF Child
  <2> QED BY <2>1, <1>1, <1>2, <1>3, <1>4, <1>5, <1>6
<1>7. CASE ~ (2 * hole + 1 <= size /\ hWeight[2 * hole] > hWeight[2 * hole + 1])
  <2>1. Child = 2 * hole
    BY <1>7, Zenon DEF Child
  <2> QED BY <2>1, <1>1, <1>2, <1>3, <1>4, <1>5, <1>7
<1> QED BY <1>6, <1>7, Zenon

(* A step of the loop of Downheap.                                         *)
LEMMA DownMovesIInv ==
  ASSUME IInv, DownMoves
  PROVE  IInv'
<1> DEFINE c == Child
<1>a. /\ size \in Nat /\ count \in Nat /\ size <= count /\ count <= Capacity /\ weight \in Int
      /\ \A i \in Slots : hWeight[i] \in Int
      /\ hole \in Slots /\ moving \in Slots /\ removed \in Slots
  BY TypeFacts, Zenon DEF IInv
<1>b. /\ Moving /\ Linked(hole, {moving, removed}) /\ Ordered(hole)
      /\ removed < count /\ removed # moving /\ iKey[removed] # 0
      /\ \A i \in 1 .. size : i # hole => iWeight[removed] <= hWeight[i]
      /\ iWeight[removed] <= weight
  BY Zenon DEF IInv, Down, DownMoves
<1>c. hole \in 1 .. size /\ 2 * hole <= size /\ weight > hWeight[c]
  BY <1>a, <1>b, SlotFacts DEF Moving, DownMoves
<1>d. /\ c \in 2 .. size /\ c \div 2 = hole /\ c # hole /\ c \in Slots
      /\ \A i \in 2 .. size : i \div 2 = hole => hWeight[c] <= hWeight[i]
  BY <1>c, ChildFacts, Zenon DEF IInv
<1>e. c \in 1 .. size
  BY <1>a, <1>d
<1>g. /\ size' = size /\ count' = count /\ hole' = c /\ pc' = "down" /\ moving' = moving
      /\ weight' = weight /\ removed' = removed /\ iWeight' = iWeight /\ iNode' = iNode
      /\ node_index' = node_index
      /\ hIndex' = [hIndex EXCEPT ![hole] = hIndex[c]]
      /\ hWeight' = [hWeight EXCEPT ![hole] = hWeight[c]]
      /\ iKey' = [iKey EXCEPT ![hIndex[c]] = hole]
  BY Zenon DEF DownMoves
<1> HIDE DEF c
<1>h. Relinked(c, {moving, removed})
  <2>1. TypeOK /\ MoveFrom(c)
    BY <1>g, Zenon DEF IInv, MoveFrom
  <2> QED BY <1>b, <1>c, <1>d, <1>e, <2>1, HoleMoves, Zenon
<1>i. \A i \in Slots : hWeight'[i] = IF i = hole THEN hWeight[c] ELSE hWeight[i]
  BY <1>h, Zenon DEF Relinked
<1>j. \A i \in 1 .. size : i \in Slots
  BY <1>a, SlotFacts
<1>k. \A i \in 2 .. size : i \in Slots /\ i \div 2 \in Slots /\ i \div 2 # i /\ i \in 1 .. size
  BY <1>a, SlotFacts, Parents
<1>1. TypeOK'
  BY <1>d, <1>g, <1>h, Zenon DEF IInv, TypeOK, Relinked
<1>2. Indexed'
  BY <1>g, Zenon DEF IInv, Indexed
<1>3. Sentinel'
  BY <1>c, <1>i, SlotFacts DEF IInv, Sentinel
<1>4. Idle' /\ Up'
  BY <1>g, Zenon DEF Idle, Up
<1>5. Down'
  <2>1. Moving'
    BY <1>a, <1>b, <1>e, <1>g, <1>h DEF Moving, Relinked
  <2>2. Linked(hole, {moving, removed})'
    BY <1>g, <1>h, Zenon DEF Linked, Relinked
  <2>3. removed' < count' /\ removed' # moving' /\ iKey'[removed'] # 0
    BY <1>a, <1>b, <1>g, <1>h DEF Relinked
  <2>4. Ordered(hole)'
    <3> SUFFICES ASSUME NEW i \in 2 .. size
                 PROVE  /\ i # c /\ i \div 2 # c => hWeight'[i \div 2] <= hWeight'[i]
                        /\ i \div 2 = c /\ c >= 2 => hWeight'[c \div 2] <= hWeight'[i]
      BY <1>g, Zenon DEF Ordered
    <3>1. CASE i = hole
      <4>1. hWeight[hole \div 2] <= hWeight[c]
        BY <1>b, <1>d, <3>1 DEF Ordered
      <4>2. i \div 2 # c
        BY <1>a, <1>c, <1>d, <3>1, Parents
      <4> QED BY <3>1, <4>1, <4>2, <1>i, <1>k, Zenon
    <3>2. CASE i # hole /\ i \div 2 = hole
      BY <3>2, <1>d, <1>i, <1>k, Zenon
    <3>3. CASE i # hole /\ i \div 2 # hole
      BY <3>3, <1>b, <1>d, <1>i, <1>k, Zenon DEF Ordered
    <3> QED BY <3>1, <3>2, <3>3, Zenon
  <2>5. hole' >= 2 => hWeight'[hole' \div 2] <= weight'
    BY <1>a, <1>c, <1>d, <1>g, <1>i
  <2>6. \A i \in 1 .. size' : i # hole' => iWeight'[removed'] <= hWeight'[i]
    BY <1>b, <1>d, <1>e, <1>g, <1>i, <1>j, Zenon
  <2> QED BY <1>b, <1>g, <2>1, <2>2, <2>3, <2>4, <2>5, <2>6, Zenon DEF Down
<1> QED BY <1>1, <1>2, <1>3, <1>4, <1>5, Zenon DEF IInv

(* The end of Downheap.                                                    *)
LEMMA DownEndsIInv ==
  ASSUME IInv, DownEnds
  PROVE  IInv'
<1> DEFINE S == {moving, removed}
<1>a. /\ Moving /\ Linked(hole, S) /\ Ordered(hole) /\ TypeOK
      /\ hole >= 2 => hWeight[hole \div 2] <= weight
      /\ moving \in S /\ removed # moving
  BY Zenon DEF IInv, Down, DownEnds
<1>b. /\ hole \in Slots /\ moving \in Slots /\ removed \in Slots /\ iKey \in [Slots -> Slots]
  BY Zenon DEF IInv, TypeOK
<1>c. Placed(S)
  <2>1. iKey' = [iKey EXCEPT ![moving] = hole, ![removed] = 0]
    BY Zenon DEF DownEnds
  <2>2. \A j \in Slots : iKey'[j] = IF j = moving THEN hole ELSE IF j \in S THEN 0 ELSE iKey[j]
    BY <1>a, <1>b, <2>1, Zenon
  <2> QED BY <2>2, Zenon DEF DownEnds, Placed
<1>d. /\ Linked(0, {})'
      /\ \A i \in Slots : hWeight'[i] = IF i = hole THEN weight ELSE hWeight[i]
      /\ hIndex' \in [Slots -> Slots] /\ hWeight' \in [Slots -> Weights \cup {MinWeight}]
  <2> HIDE DEF S
  <2> QED BY <1>a, <1>c, HoleCloses, Zenon
<1>e. /\ size' = size /\ count' = count /\ iNode' = iNode /\ iWeight' = iWeight
      /\ node_index' = node_index /\ pc' = "idle" /\ hole' = 0 /\ moving' = 0
      /\ weight' = MinWeight /\ removed' = 0
      /\ iKey' = [iKey EXCEPT ![moving] = hole, ![removed] = 0]
  BY Zenon DEF DownEnds, Return
<1>f. \A i \in 2 .. size : i \div 2 = hole => weight <= hWeight[i]
  <2>1. /\ size \in Nat /\ hole \in 1 .. size /\ weight \in Int
        /\ \A i \in Slots : hWeight[i] \in Int
    BY <1>a, TypeFacts, SlotFacts DEF Moving
  <2>2. \A i \in 2 .. size : i \in Slots
    BY <2>1, TypeFacts, SlotFacts, <1>a
  <2>3. CASE 2 * hole <= size
    <3>1. /\ Child \in Slots
          /\ \A i \in 2 .. size : i \div 2 = hole => hWeight[Child] <= hWeight[i]
      BY <1>a, <2>1, <2>3, ChildFacts, Zenon
    <3>2. ~ (weight > hWeight[Child])
      BY <2>3, Zenon DEF DownEnds
    <3> QED BY <2>1, <2>2, <3>1, <3>2
  <2>4. CASE ~ (2 * hole <= size)
    BY <2>1, <2>4, Halves
  <2> QED BY <2>3, <2>4, Zenon
<1>g. Ordered(0)'
  BY <1>a, <1>d, <1>e, <1>f, OrderCloses, Zenon DEF Moving
<1>1. TypeOK'
  <2>1. iKey' \in [Slots -> Slots]
    BY <1>b, <1>e, SlotFacts
  <2> QED BY <1>d, <1>e, <2>1, SlotFacts DEF IInv, TypeOK
<1>2. Indexed'
  BY <1>e, Zenon DEF IInv, Indexed
<1>3. Sentinel'
  BY <1>a, <1>d, SlotFacts DEF IInv, Sentinel, Moving
<1> QED BY <1>1, <1>2, <1>3, <1>d, <1>e, <1>g, Zenon DEF IInv, Idle, Up, Down

(* DeleteMin makes the hole at the root.                                   *)
LEMMA DeleteMinIInv ==
  ASSUME IInv, DeleteMin
  PROVE  IInv'
<1> DEFINE W == Weights \cup {MinWeight}
<1>a. /\ hIndex \in [Slots -> Slots] /\ hWeight \in [Slots -> W] /\ iKey \in [Slots -> Slots]
      /\ MinWeight \in W
  BY Zenon DEF IInv, TypeOK
<1>b. /\ size \in Nat /\ count \in Nat /\ size <= count /\ count <= Capacity /\ size > 0
      /\ \A i \in Slots : hIndex[i] \in Slots /\ iKey[i] \in Slots
      /\ \A i \in Slots : hWeight[i] \in Int /\ iWeight[i] \in Int
  BY TypeFacts, Zenon DEF IInv, DeleteMin
<1>c. size \in Slots /\ 1 \in Slots /\ 0 \in Slots /\ size - 1 \in Slots /\ 1 \in 1 .. size /\ size \in 1 .. size
  BY <1>b, SlotFacts
<1>d. Linked(0, {}) /\ Ordered(0)
  BY Zenon DEF IInv, Idle, DeleteMin
<1>e. /\ size' = size - 1 /\ count' = count /\ iNode' = iNode /\ iWeight' = iWeight
      /\ node_index' = node_index /\ pc = "idle"
  BY Zenon DEF DeleteMin
<1>f. \A i \in Slots :
        /\ hIndex'[i] = IF i = size THEN 0 ELSE IF i = 1 THEN hIndex[size] ELSE hIndex[i]
        /\ hWeight'[i] = IF i = size THEN MinWeight ELSE IF i = 1 THEN hWeight[size] ELSE hWeight[i]
  BY <1>a, <1>c, Zenon DEF DeleteMin
<1>g. hIndex' \in [Slots -> Slots] /\ hWeight' \in [Slots -> W]
  BY <1>a, <1>c, Zenon DEF DeleteMin
<1>h. \A i \in 1 .. size :
         i \in Slots /\ hIndex[i] \in Slots /\ hIndex[i] < count /\ iKey[hIndex[i]] = i
         /\ iWeight[hIndex[i]] = hWeight[i]
  BY <1>b, <1>d, SlotFacts DEF Linked
<1>2. Indexed'
  BY <1>e, Zenon DEF IInv, Indexed
<1>3. Sentinel'
  BY <1>b, <1>c, <1>f DEF IInv, Sentinel
<1>4. CASE size > 1
  <2>e. /\ pc' = "down" /\ hole' = 1 /\ moving' = hIndex[size] /\ weight' = hWeight[size]
        /\ removed' = hIndex[1] /\ iKey' = iKey
    BY <1>4, Zenon DEF DeleteMin
  <2>1. TypeOK'
    BY <1>a, <1>b, <1>c, <1>e, <1>g, <2>e DEF IInv, TypeOK
  <2>2. Moving'
    BY <1>b, <1>c, <1>e, <1>h, <2>e, <1>4 DEF Moving
  <2>3. removed' < count' /\ removed' # moving' /\ iKey'[removed'] # 0
    BY <1>b, <1>c, <1>e, <1>h, <2>e, <1>4
  <2>4. Linked(hole, {moving, removed})'
    <3>1. ASSUME NEW i \in 1 .. size - 1, i # 1
          PROVE  /\ hIndex'[i] < count /\ hIndex'[i] \notin {hIndex[size], hIndex[1]}
                 /\ iKey[hIndex'[i]] = i /\ iWeight[hIndex'[i]] = hWeight'[i]
      <4>1. i \in 1 .. size /\ i # size /\ i # 1
        BY <1>b, <3>1
      <4>2. hIndex'[i] = hIndex[i] /\ hWeight'[i] = hWeight[i]
        BY <4>1, <1>f, <1>h, Zenon
      <4> QED BY <4>1, <4>2, <1>c, <1>h
    <3>2. ASSUME NEW j \in 0 .. count - 1, j \notin {hIndex[size], hIndex[1]}, iKey[j] # 0
          PROVE  iKey[j] <= size - 1 /\ iKey[j] # 1 /\ hIndex'[iKey[j]] = j
      <4>1. iKey[j] <= size /\ hIndex[iKey[j]] = j
        BY <1>d, <3>2, Zenon DEF Linked
      <4>2. iKey[j] # size /\ iKey[j] # 1
        BY <4>1, <3>2, Zenon
      <4>3. iKey[j] \in Slots /\ iKey[j] \in Nat
        BY <1>b, SlotFacts
      <4> QED BY <4>1, <4>2, <4>3, <1>b, <1>f
    <3> QED BY <3>1, <3>2, <1>e, <2>e, Zenon DEF Linked
  <2>5. Ordered(hole)'
    <3>1. \A i \in 2 .. size - 1 :
            i \in 2 .. size /\ i \in Slots /\ i \div 2 \in Slots /\ i \div 2 # 0
            /\ i # 0 /\ i # 1 /\ i # size /\ i \div 2 # size
      BY <1>b, SlotFacts, Parents
    <3>2. \A i \in 2 .. size - 1 : i \div 2 # 1 => hWeight'[i \div 2] <= hWeight'[i]
      BY <1>d, <1>f, <3>1, Zenon DEF Ordered
    <3> QED BY <3>2, <1>e, <2>e DEF Ordered
  <2>6. \A i \in 1 .. size : hWeight[1] <= hWeight[i]
    BY <1>d, RootIsLeast, Zenon DEF IInv
  <2>7. \A i \in 1 .. size' : i # hole' => iWeight'[removed'] <= hWeight'[i]
    <3>1. \A i \in 1 .. size - 1 : i \in 1 .. size /\ i # size
      BY <1>b
    <3> QED BY <1>c, <1>e, <1>f, <1>h, <2>e, <2>6, <3>1, Zenon
  <2>8. iWeight'[removed'] <= weight'
    BY <1>c, <1>e, <1>h, <2>e, <2>6, Zenon
  <2>9. Down'
    BY <2>e, <2>2, <2>3, <2>4, <2>5, <2>7, <2>8 DEF Down
  <2> QED BY <2>1, <2>e, <2>9, <1>2, <1>3, Zenon DEF IInv, Idle, Up
<1>5. CASE ~ (size > 1)
  <2>1. size = 1
    BY <1>b, <1>5
  <2>2. /\ iKey' = [iKey EXCEPT ![hIndex[1]] = 0] /\ pc' = pc /\ hole' = hole /\ moving' = moving
        /\ weight' = weight /\ removed' = removed
    BY <1>5, Zenon DEF DeleteMin, loop
  <2>3. \A j \in Slots : iKey'[j] = IF j = hIndex[1] THEN 0 ELSE iKey[j]
    BY <1>a, <2>2, Zenon
  <2>4. iKey' \in [Slots -> Slots]
    BY <1>a, <1>c, <2>2, Zenon
  <2>5. TypeOK'
    BY <1>b, <1>c, <1>e, <1>g, <2>2, <2>4 DEF IInv, TypeOK
  <2>6. \A j \in 0 .. count - 1 : iKey'[j] = 0
    <3> TAKE j \in 0 .. count - 1
    <3>1. j \in Slots /\ iKey[j] \in Nat
      BY <1>b, SlotFacts
    <3>2. iKey[j] # 0 => iKey[j] = 1 /\ hIndex[1] = j
      BY <1>d, <2>1, <3>1 DEF Linked
    <3> QED BY <3>1, <3>2, <2>3, Zenon
  <2>7. Linked(0, {})' /\ Ordered(0)'
    BY <1>e, <2>1, <2>6 DEF Linked, Ordered
  <2> QED BY <1>2, <1>3, <1>e, <2>2, <2>5, <2>7, Zenon DEF IInv, Idle, Up, Down
<1> QED BY <1>4, <1>5, Zenon

(* DeleteAll leaves the sentinel, and no inserted node in the heap.        *)
LEMMA DeleteAllIInv ==
  ASSUME IInv, DeleteAll
  PROVE  IInv' /\ \A j \in 0 .. count - 1 : iKey'[j] = 0
<1>a. 0 \in Slots /\ MinWeight \in Weights \cup {MinWeight} /\ iKey \in [Slots -> Slots]
      /\ count \in Nat /\ count <= Capacity /\ size \in Nat
  BY SlotFacts, TypeFacts DEF IInv, TypeOK
<1>b. Linked(0, {}) /\ pc = "idle"
  BY Zenon DEF IInv, Idle, DeleteAll
<1>c. \A j \in Slots : iKey'[j] = IF \E i \in 1 .. size : hIndex[i] = j THEN 0 ELSE iKey[j]
  BY Zenon DEF DeleteAll
<1>d. \A j \in 0 .. count - 1 : iKey'[j] = 0
  <2> TAKE j \in 0 .. count - 1
  <2>1. j \in Slots /\ iKey[j] \in Nat
    BY <1>a, SlotFacts
  <2>2. iKey[j] # 0 => iKey[j] \in 1 .. size /\ hIndex[iKey[j]] = j
    BY <1>a, <1>b, <2>1 DEF Linked
  <2> QED BY <1>c, <2>1, <2>2, Zenon
<1>e. /\ size' = 0 /\ count' = count /\ iNode' = iNode /\ node_index' = node_index /\ pc' = pc
      /\ iWeight' = iWeight /\ hole' = hole /\ moving' = moving /\ weight' = weight
      /\ removed' = removed /\ hIndex' = NoIndices /\ hWeight' = NoWeights
  BY Zenon DEF DeleteAll, loop
<1>f. hIndex' \in [Slots -> Slots] /\ hWeight' \in [Slots -> Weights \cup {MinWeight}]
  BY <1>a, <1>e, Zenon DEF NoIndices, NoWeights
<1>g. iKey' \in [Slots -> Slots]
  BY <1>a, Zenon DEF DeleteAll
<1>1. TypeOK'
  BY <1>a, <1>e, <1>f, <1>g DEF IInv, TypeOK
<1>2. Indexed'
  BY <1>e, Zenon DEF IInv, Indexed
<1>3. Sentinel'
  BY <1>a, <1>e, Zenon DEF Sentinel, NoWeights
<1>4. Linked(0, {})' /\ Ordered(0)'
  BY <1>d, <1>e DEF Linked, Ordered
<1> QED BY <1>1, <1>2, <1>3, <1>4, <1>b, <1>d, <1>e, Zenon DEF IInv, Idle, Up, Down

(* Clear forgets the nodes too.                                            *)
LEMMA ClearIInv ==
  ASSUME IInv, Clear
  PROVE  IInv'
<1>a. 0 \in Slots /\ MinWeight \in Weights \cup {MinWeight} /\ NoIndex \in Slots
  BY SlotFacts DEF NoIndex
<1>b. /\ size' = 0 /\ count' = 0 /\ pc' = pc /\ pc = "idle" /\ iNode' = NoNodes /\ iKey' = NoIndices
      /\ iWeight' = NoWeights /\ hole' = hole /\ moving' = moving /\ weight' = weight
      /\ removed' = removed /\ hIndex' = NoIndices /\ hWeight' = NoWeights
  BY Zenon DEF Clear, loop
<1>c. /\ NoIndices \in [Slots -> Slots] /\ NoWeights \in [Slots -> Weights \cup {MinWeight}]
      /\ NoNodes \in [Slots -> Nodes \cup {NoNode}]
  BY <1>a, Zenon DEF NoIndices, NoWeights, NoNodes
<1>d. node_index' \in [Nodes -> Slots]
  BY <1>a, Zenon DEF Clear, IInv, TypeOK
<1>1. TypeOK'
  BY <1>a, <1>b, <1>c, <1>d DEF IInv, TypeOK
<1>2. Indexed' /\ Sentinel' /\ Linked(0, {})' /\ Ordered(0)'
  BY <1>a, <1>b DEF Indexed, Sentinel, Linked, Ordered, NoWeights
<1> QED BY <1>1, <1>2, <1>b, Zenon DEF IInv, Idle, Up, Down

(* The invariant holds in every reachable state, inside the loops too.     *)
THEOREM Invariance == Spec => []IInv
<1>1. IInv /\ [Next]_vars => IInv'
  <2> SUFFICES ASSUME IInv, [Next]_vars PROVE IInv'
    BY Zenon
  <2>1. CASE \E v \in Nodes, w \in Weights : Insert(v, w) \/ DecreaseKey(v, w)
    BY <2>1, InsertIInv, DecreaseKeyIInv, Zenon
  <2>2. CASE DeleteMin
    BY <2>2, DeleteMinIInv, Zenon
  <2>3. CASE DeleteAll
    BY <2>3, DeleteAllIInv, Zenon
  <2>4. CASE Clear
    BY <2>4, ClearIInv
  <2>5. CASE UpMoves
    BY <2>5, UpMovesIInv
  <2>6. CASE UpEnds
    BY <2>6, UpEndsIInv
  <2>7. CASE DownMoves
    BY <2>7, DownMovesIInv
  <2>8. CASE DownEnds
    BY <2>8, DownEndsIInv
  <2>9. CASE UNCHANGED vars
    BY <2>9 DEF IInv, TypeOK, Indexed, Sentinel, Idle, Up, Down, Moving, Linked, Ordered,
                vars, heap, inserted, loop
  <2> QED BY <2>1, <2>2, <2>3, <2>4, <2>5, <2>6, <2>7, <2>8, <2>9, Zenon DEF Next
<1> QED BY <1>1, InitIInv, PTL DEF Spec

(* The arrays keep their types and sizes.                                  *)
THEOREM TypeCorrect == Spec => []TypeOK
<1>1. IInv => TypeOK
  BY Zenon DEF IInv
<1> QED BY <1>1, Invariance, PTL

(* CheckHeap's assertion holds after every operation.                      *)
THEOREM HeapOrdered == Spec => []HeapOrder
<1>1. IInv => HeapOrder
  <2> SUFFICES ASSUME IInv, pc = "idle", NEW i \in 2 .. size
               PROVE  hWeight[i \div 2] <= hWeight[i]
    BY Zenon DEF HeapOrder
  <2>1. size \in Nat
    BY TypeFacts, Zenon DEF IInv
  <2>2. i # 0 /\ i \div 2 # 0
    BY <2>1, Parents
  <2> QED BY <2>2, Zenon DEF IInv, Idle, Ordered
<1> QED BY <1>1, Invariance, PTL

(* The heap and inserted_nodes point at each other after every operation.  *)
THEOREM Addresses == Spec => []Addressable
<1>1. IInv => Addressable
  <2>1. TypeOK => \A i \in 1 .. size : i # 0
    BY TypeFacts
  <2> QED BY <2>1, Zenon DEF IInv, Idle, Linked, Addressable
<1> QED BY <1>1, Invariance, PTL

(* HeapMin and MinKey answer a least waiting node and its weight.          *)
THEOREM MinCorrect == Spec => []MinIsLeast
<1>1. IInv => MinIsLeast
  <2> SUFFICES ASSUME IInv, pc = "idle", size > 0
               PROVE  /\ WasInserted(HeapMin) /\ ~ WasRemoved(HeapMin) /\ MinKey = GetKey(HeapMin)
                      /\ \A v \in Nodes : WasInserted(v) /\ ~ WasRemoved(v) => MinKey <= GetKey(v)
    BY Zenon DEF MinIsLeast
  <2>1. Linked(0, {}) /\ Ordered(0) /\ TypeOK /\ Indexed
    BY Zenon DEF IInv, Idle
  <2>2. /\ size \in Nat /\ count \in Nat /\ count <= Capacity /\ size <= count
        /\ \A i \in Slots : hIndex[i] \in Slots /\ iKey[i] \in Slots
    BY <2>1, TypeFacts, Zenon
  <2>3. 1 \in 1 .. size /\ 1 \in Slots /\ 1 # 0
    BY <2>2, SlotFacts
  <2>4. hIndex[1] < count /\ iKey[hIndex[1]] = 1 /\ iWeight[hIndex[1]] = hWeight[1]
    BY <2>1, <2>3, Zenon DEF Linked
  <2>5. hIndex[1] \in 0 .. count - 1
    BY <2>2, <2>3, <2>4, SlotFacts
  <2>6. node_index[iNode[hIndex[1]]] = hIndex[1]
    BY <2>1, <2>5, Zenon DEF Indexed
  <2>7. WasInserted(HeapMin) /\ ~ WasRemoved(HeapMin) /\ MinKey = GetKey(HeapMin)
    BY <2>4, <2>6 DEF WasInserted, WasRemoved, HeapMin, MinKey, GetKey
  <2>8. ASSUME NEW v \in Nodes, WasInserted(v), ~ WasRemoved(v) PROVE MinKey <= GetKey(v)
    <3> DEFINE j == node_index[v]
    <3>1. j \in Slots /\ j < count /\ iKey[j] # 0
      BY <2>8, Zenon DEF IInv, TypeOK, WasInserted, WasRemoved
    <3>2. j \in 0 .. count - 1 /\ iKey[j] \in Slots
      BY <3>1, <2>2, SlotFacts
    <3>3. iKey[j] <= size /\ hIndex[iKey[j]] = j
      BY <2>1, <3>1, <3>2, Zenon DEF Linked
    <3>4. iKey[j] \in 1 .. size
      BY <2>2, <3>1, <3>2, <3>3, SlotFacts
    <3>5. iWeight[j] = hWeight[iKey[j]]
      BY <2>1, <3>1, <3>3, <3>4, Zenon DEF Linked
    <3>6. hWeight[1] <= hWeight[iKey[j]]
      BY <2>1, <3>4, RootIsLeast, Zenon
    <3> QED BY <3>5, <3>6, Zenon DEF MinKey, GetKey
  <2> QED BY <2>7, <2>8, Zenon
<1> QED BY <1>1, Invariance, PTL

-----------------------------------------------------------------------------
(* The heap implements the priority queue.                                 *)

(* An entry waits or is taken; entries of different nodes are different.   *)
LEMMA EntryFacts ==
  ASSUME IInv
  PROVE  /\ \A v : v \in Waiting <=> \E j \in 0 .. count - 1 : iNode[j] = v /\ iKey[j] # 0
         /\ \A v : v \in Taken <=> \E j \in 0 .. count - 1 : iNode[j] = v /\ iKey[j] = 0
         /\ \A j \in 0 .. count - 1 : iNode[j] \in Nodes /\ node_index[iNode[j]] = j
         /\ \A v \in Waiting \cup Taken : v \in Nodes /\ Label[v] = iWeight[node_index[v]]
         /\ DOMAIN Label = Waiting \cup Taken
<1>1. \A v : v \in Waiting <=> \E j \in 0 .. count - 1 : iNode[j] = v /\ iKey[j] # 0
  BY Zenon DEF Waiting
<1>2. \A v : v \in Taken <=> \E j \in 0 .. count - 1 : iNode[j] = v /\ iKey[j] = 0
  BY Zenon DEF Taken
<1>3. \A j \in 0 .. count - 1 : iNode[j] \in Nodes /\ node_index[iNode[j]] = j
  BY Zenon DEF IInv, Indexed
<1>4. DOMAIN Label = Waiting \cup Taken /\ \A v \in Waiting \cup Taken : Label[v] = iWeight[node_index[v]]
  BY Zenon DEF Label, GetKey
<1> QED BY <1>1, <1>2, <1>3, <1>4

(* What does not touch a weight and does not take a node out is no step of *)
(* the queue.                                                              *)
LEMMA Stutters ==
  ASSUME count' = count, iNode' = iNode, iWeight' = iWeight, node_index' = node_index,
         \A j \in 0 .. count - 1 : iKey'[j] = 0 <=> iKey[j] = 0
  PROVE  UNCHANGED Queue!vars
<1>1. Waiting' = Waiting
  BY Zenon DEF Waiting
<1>2. Taken' = Taken
  BY Zenon DEF Taken
<1>3. Label' = Label
  BY <1>1, <1>2, Zenon DEF Label, GetKey
<1> QED BY <1>1, <1>2, <1>3, Zenon DEF Queue!vars

(* Insert is the abstract insertion.                                       *)
LEMMA InsertRefines ==
  ASSUME IInv, IInv', NEW v \in Nodes, NEW w \in Weights, Insert(v, w)
  PROVE  Queue!Insert(v, w)
<1> DEFINE E == 0 .. count - 1
<1>a. /\ iNode \in [Slots -> Nodes \cup {NoNode}] /\ iKey \in [Slots -> Slots]
      /\ iWeight \in [Slots -> Weights \cup {MinWeight}] /\ node_index \in [Nodes -> Slots]
      /\ count \in Nat /\ size \in Nat /\ count < Capacity
  BY TypeFacts, Zenon DEF IInv, TypeOK, Insert
<1>b. /\ count \in Slots /\ count' = count + 1 /\ size + 1 # 0
      /\ 0 .. count' - 1 = E \cup {count} /\ count \notin E /\ \A j \in E : j \in Slots
  BY <1>a, SlotFacts DEF Insert
<1>c. \A i \in Slots : /\ iNode'[i] = IF i = count THEN v ELSE iNode[i]
                       /\ iKey'[i] = IF i = count THEN size + 1 ELSE iKey[i]
                       /\ iWeight'[i] = IF i = count THEN w ELSE iWeight[i]
  BY <1>a, <1>b, Zenon DEF Insert
<1>d. \A u \in Nodes : node_index'[u] = IF u = v THEN count ELSE node_index[u]
  BY <1>a, Zenon DEF Insert
<1>e. /\ \A u : u \in Waiting <=> \E j \in E : iNode[j] = u /\ iKey[j] # 0
      /\ \A u : u \in Taken <=> \E j \in E : iNode[j] = u /\ iKey[j] = 0
      /\ \A j \in E : iNode[j] \in Nodes /\ node_index[iNode[j]] = j
      /\ \A u \in Waiting \cup Taken : u \in Nodes /\ Label[u] = iWeight[node_index[u]]
      /\ DOMAIN Label = Waiting \cup Taken
  BY EntryFacts, Zenon
<1>f. \A j \in E : iNode[j] # v
  BY <1>e, <1>a DEF Insert, WasInserted
<1> HIDE DEF E
<1>1. v \notin Waiting \cup Taken
  BY <1>e, <1>f, Zenon
<1>g. /\ \A j \in E : iNode'[j] = iNode[j] /\ iKey'[j] = iKey[j] /\ iWeight'[j] = iWeight[j]
      /\ iNode'[count] = v /\ iKey'[count] # 0 /\ iWeight'[count] = w
  BY <1>b, <1>c, Zenon
<1>2. Waiting' = Waiting \cup {v}
  <2>1. \A u : u \in Waiting' <=> \E j \in E \cup {count} : iNode'[j] = u /\ iKey'[j] # 0
    BY <1>b, Zenon DEF Waiting
  <2> QED BY <2>1, <1>e, <1>g
<1>3. Taken' = Taken
  <2>1. \A u : u \in Taken' <=> \E j \in E \cup {count} : iNode'[j] = u /\ iKey'[j] = 0
    BY <1>b, Zenon DEF Taken
  <2> QED BY <2>1, <1>e, <1>g
<1>4. Label' = [u \in DOMAIN Label \cup {v} |-> IF u = v THEN w ELSE Label[u]]
  <2>1. Label' = [u \in Waiting' \cup Taken' |-> iWeight'[node_index'[u]]]
    BY Zenon DEF Label, GetKey
  <2>2. Waiting' \cup Taken' = DOMAIN Label \cup {v}
    BY <1>2, <1>3, <1>e, Zenon
  <2>3. iWeight'[node_index'[v]] = w
    BY <1>d, <1>g, Zenon
  <2>4. ASSUME NEW u \in DOMAIN Label PROVE u # v /\ iWeight'[node_index'[u]] = Label[u]
    <3>1. PICK j \in E : iNode[j] = u
      BY <1>e, <2>4, Zenon
    <3>2. u \in Nodes /\ node_index[u] = j /\ u # v
      BY <3>1, <1>e, <1>f, Zenon
    <3> QED BY <3>2, <1>d, <1>e, <1>g
  <2> QED BY <2>1, <2>2, <2>3, <2>4, Zenon
<1> QED BY <1>1, <1>2, <1>3, <1>4, Zenon DEF Queue!Insert

(* DecreaseKey is the abstract one.                                        *)
LEMMA DecreaseRefines ==
  ASSUME IInv, NEW v \in Nodes, NEW w \in Weights, DecreaseKey(v, w)
  PROVE  Queue!Decrease(v, w)
<1> DEFINE j == node_index[v]
<1>a. /\ iWeight \in [Slots -> Weights \cup {MinWeight}] /\ node_index \in [Nodes -> Slots]
      /\ count \in Nat
  BY TypeFacts, Zenon DEF IInv, TypeOK
<1>b. /\ j \in Slots /\ j < count /\ iNode[j] = v /\ iKey[j] # 0 /\ w <= iWeight[j]
  BY <1>a, Zenon DEF DecreaseKey, WasInserted, WasRemoved, GetKey
<1>c. j \in 0 .. count - 1
  BY <1>a, <1>b, SlotFacts
<1>d. /\ count' = count /\ iNode' = iNode /\ iKey' = iKey /\ node_index' = node_index
      /\ iWeight' = [iWeight EXCEPT ![j] = w]
  BY Zenon DEF DecreaseKey
<1>e. /\ \A u : u \in Waiting <=> \E i \in 0 .. count - 1 : iNode[i] = u /\ iKey[i] # 0
      /\ \A u : u \in Taken <=> \E i \in 0 .. count - 1 : iNode[i] = u /\ iKey[i] = 0
      /\ \A i \in 0 .. count - 1 : iNode[i] \in Nodes /\ node_index[iNode[i]] = i
      /\ \A u \in Waiting \cup Taken : u \in Nodes /\ Label[u] = iWeight[node_index[u]]
      /\ DOMAIN Label = Waiting \cup Taken
  BY EntryFacts, Zenon
<1>1. v \in Waiting /\ w <= Label[v]
  BY <1>b, <1>c, <1>e, Zenon
<1>2. Waiting' = Waiting /\ Taken' = Taken
  BY <1>d, Zenon DEF Waiting, Taken
<1>3. Label' = [Label EXCEPT ![v] = w]
  <2>1. Label' = [u \in Waiting \cup Taken |-> iWeight'[node_index[u]]]
    BY <1>2, <1>d DEF Label, GetKey
  <2>2. iWeight'[node_index[v]] = w
    BY <1>a, <1>b, <1>d, Zenon
  <2>3. ASSUME NEW u \in Waiting \cup Taken, u # v PROVE iWeight'[node_index[u]] = Label[u]
    <3>1. PICK i \in 0 .. count - 1 : iNode[i] = u
      BY <1>e, Zenon
    <3>2. node_index[u] = i /\ i # j /\ u \in Nodes
      BY <3>1, <1>b, <1>e, <2>3, Zenon
    <3> QED BY <3>2, <1>a, <1>d, <1>e, Zenon
  <2>4. Label = [u \in Waiting \cup Taken |-> Label[u]]
    BY Zenon DEF Label
  <2> QED BY <2>1, <2>2, <2>3, <2>4, <1>1, Zenon
<1> QED BY <1>1, <1>2, <1>3, Zenon DEF Queue!Decrease

(* One entry's key becomes 0, and its weight is least among the waiting.   *)
LEMMA TakeRefines ==
  ASSUME IInv, NEW r \in 0 .. count - 1, iKey[r] # 0,
         count' = count, iNode' = iNode, iWeight' = iWeight, node_index' = node_index,
         iKey'[r] = 0,
         \A j \in 0 .. count - 1 : j # r => (iKey'[j] = 0 <=> iKey[j] = 0),
         \A j \in 0 .. count - 1 : iKey[j] # 0 => iWeight[r] <= iWeight[j]
  PROVE  \E v \in Nodes : Queue!DeleteMin(v)
<1>e. /\ \A u : u \in Waiting <=> \E i \in 0 .. count - 1 : iNode[i] = u /\ iKey[i] # 0
      /\ \A u : u \in Taken <=> \E i \in 0 .. count - 1 : iNode[i] = u /\ iKey[i] = 0
      /\ \A i \in 0 .. count - 1 : iNode[i] \in Nodes /\ node_index[iNode[i]] = i
      /\ \A u \in Waiting \cup Taken : u \in Nodes /\ Label[u] = iWeight[node_index[u]]
      /\ DOMAIN Label = Waiting \cup Taken
  BY EntryFacts, Zenon
<1> DEFINE v == iNode[r]
<1>1. v \in Nodes /\ v \in Waiting
  BY <1>e, Zenon
<1>2. \A u \in Waiting : Label[v] <= Label[u]
  BY <1>e
<1>f. \A i \in 0 .. count - 1 : iNode[i] = v => i = r
  BY <1>e
<1>3. Waiting' = Waiting \ {v}
  <2>1. \A u : u \in Waiting' <=> \E i \in 0 .. count - 1 : iNode[i] = u /\ iKey'[i] # 0
    BY Zenon DEF Waiting
  <2> HIDE DEF v
  <2> QED BY <2>1, <1>e, <1>f DEF v
<1>4. Taken' = Taken \cup {v}
  <2>1. \A u : u \in Taken' <=> \E i \in 0 .. count - 1 : iNode[i] = u /\ iKey'[i] = 0
    BY Zenon DEF Taken
  <2> QED BY <2>1, <1>e, <1>f
<1>5. Label' = Label
  <2>1. Waiting' \cup Taken' = Waiting \cup Taken
    BY <1>1, <1>3, <1>4, Zenon
  <2> QED BY <2>1, Zenon DEF Label, GetKey
<1>6. Queue!DeleteMin(v)
  BY <1>1, <1>2, <1>3, <1>4, <1>5, Zenon DEF Queue!DeleteMin
<1> QED BY <1>1, <1>6, Zenon

(* DeleteMin's node leaves the queue when its key is set to 0.             *)
LEMMA DownEndsRefines ==
  ASSUME IInv, DownEnds
  PROVE  \E v \in Nodes : Queue!DeleteMin(v)
<1>a. /\ size \in Nat /\ count \in Nat /\ size <= count /\ count <= Capacity
      /\ \A i \in Slots : iKey[i] \in Slots
      /\ hole \in Slots /\ moving \in Slots /\ removed \in Slots /\ iKey \in [Slots -> Slots]
  BY TypeFacts, Zenon DEF IInv, TypeOK
<1>b. /\ Moving /\ Linked(hole, {moving, removed})
      /\ removed < count /\ removed # moving /\ iKey[removed] # 0
      /\ \A i \in 1 .. size : i # hole => iWeight[removed] <= hWeight[i]
      /\ iWeight[removed] <= weight
  BY Zenon DEF IInv, Down, DownEnds
<1>c. removed \in 0 .. count - 1
  BY <1>a, <1>b, SlotFacts
<1>d. /\ count' = count /\ iNode' = iNode /\ iWeight' = iWeight /\ node_index' = node_index
      /\ iKey' = [iKey EXCEPT ![moving] = hole, ![removed] = 0]
  BY Zenon DEF DownEnds
<1>e. \A j \in Slots :
         iKey'[j] = IF j = removed THEN 0 ELSE IF j = moving THEN hole ELSE iKey[j]
  BY <1>a, <1>d, Zenon
<1>f. \A j \in 0 .. count - 1 : j \in Slots
  BY <1>a, SlotFacts
<1>1. iKey'[removed] = 0
  BY <1>a, <1>e, Zenon
<1>2. \A j \in 0 .. count - 1 : j # removed => (iKey'[j] = 0 <=> iKey[j] = 0)
  <2>1. hole # 0 /\ iKey[moving] # 0
    BY <1>a, <1>b, SlotFacts DEF Moving
  <2> QED BY <2>1, <1>e, <1>f, Zenon
<1>3. ASSUME NEW j \in 0 .. count - 1, iKey[j] # 0 PROVE iWeight[removed] <= iWeight[j]
  <2>1. CASE j = removed
    <3>1. iWeight[removed] \in Int
      BY <1>a, TypeFacts, Zenon DEF IInv
    <3> QED BY <2>1, <3>1
  <2>2. CASE j = moving
    BY <2>2, <1>b, Zenon DEF Moving
  <2>3. CASE j # removed /\ j # moving
    <3>1. iKey[j] <= size /\ iKey[j] # hole /\ hIndex[iKey[j]] = j
      BY <1>3, <2>3, <1>b, Zenon DEF Linked
    <3>2. iKey[j] \in 1 .. size
      BY <3>1, <1>3, <1>a, <1>f, SlotFacts
    <3>3. iWeight[j] = hWeight[iKey[j]]
      BY <3>1, <3>2, <1>b, Zenon DEF Linked
    <3> QED BY <3>1, <3>2, <3>3, <1>b, Zenon
  <2> QED BY <2>1, <2>2, <2>3, Zenon
<1> QED BY <1>1, <1>2, <1>3, <1>b, <1>c, <1>d, TakeRefines, Zenon

(* DeleteMin takes a node of least key.                                    *)
LEMMA DeleteMinRefines ==
  ASSUME IInv, DeleteMin
  PROVE  (\E v \in Nodes : Queue!DeleteMin(v)) \/ UNCHANGED Queue!vars
<1>a. /\ size \in Nat /\ count \in Nat /\ size <= count /\ count <= Capacity /\ size > 0
      /\ \A i \in Slots : hIndex[i] \in Slots /\ iKey[i] \in Slots
      /\ iKey \in [Slots -> Slots]
  BY TypeFacts, Zenon DEF IInv, TypeOK, DeleteMin
<1>b. count' = count /\ iNode' = iNode /\ iWeight' = iWeight /\ node_index' = node_index
  BY Zenon DEF DeleteMin
<1>1. CASE size > 1
  BY <1>1, <1>b, Stutters, Zenon DEF DeleteMin
<1>2. CASE ~ (size > 1)
  <2> DEFINE r == hIndex[1]
  <2>1. size = 1 /\ 1 \in 1 .. size /\ 1 \in Slots /\ Linked(0, {})
    BY <1>2, <1>a, SlotFacts DEF IInv, Idle, DeleteMin
  <2>2. r < count /\ iKey[r] = 1 /\ r \in Slots
    BY <2>1, <1>a DEF Linked
  <2>3. r \in 0 .. count - 1
    BY <2>2, <1>a, SlotFacts
  <2>4. \A j \in 0 .. count - 1 : j \in Slots
    BY <1>a, SlotFacts
  <2>5. iKey' = [iKey EXCEPT ![r] = 0]
    BY <1>2, Zenon DEF DeleteMin
  <2>6. iKey'[r] = 0 /\ \A j \in 0 .. count - 1 : j # r => (iKey'[j] = 0 <=> iKey[j] = 0)
    BY <2>2, <2>4, <2>5, <1>a, Zenon
  <2>7. ASSUME NEW j \in 0 .. count - 1, iKey[j] # 0 PROVE j = r
    <3>1. iKey[j] <= 1 /\ hIndex[iKey[j]] = j /\ iKey[j] \in Nat
      BY <2>1, <2>4, <2>7, <1>a, SlotFacts, Zenon DEF Linked
    <3> QED BY <3>1, <2>7
  <2>8. iWeight[r] \in Int
    BY <2>2, TypeFacts, Zenon DEF IInv
  <2>9. \A j \in 0 .. count - 1 : iKey[j] # 0 => iWeight[r] <= iWeight[j]
    BY <2>7, <2>8
  <2> HIDE DEF r
  <2>10. iKey[r] # 0
    BY <2>2
  <2> QED BY <1>b, <2>3, <2>6, <2>9, <2>10, TakeRefines, Zenon
<1> QED BY <1>1, <1>2, Zenon

(* Up to the end of Upheap or Downheap a client sees no change.            *)
LEMMA LoopStepRefines ==
  ASSUME IInv, UpMoves \/ UpEnds \/ DownMoves
  PROVE  UNCHANGED Queue!vars
<1>a. /\ size \in Nat /\ count \in Nat /\ size <= count /\ count <= Capacity
      /\ \A i \in Slots : hIndex[i] \in Slots
      /\ hole \in Slots /\ moving \in Slots /\ iKey \in [Slots -> Slots]
  BY TypeFacts, Zenon DEF IInv, TypeOK
<1>b. Moving
  BY Zenon DEF IInv, Up, Down, UpMoves, UpEnds, DownMoves
<1>c. hole # 0 /\ iKey[moving] # 0 /\ hole \in 1 .. size
  BY <1>a, <1>b, SlotFacts DEF Moving
<1>d. \A j \in 0 .. count - 1 : j \in Slots
  BY <1>a, SlotFacts
<1>e. count' = count /\ iNode' = iNode /\ iWeight' = iWeight /\ node_index' = node_index
  BY Zenon DEF UpMoves, UpEnds, DownMoves
<1>1. ASSUME NEW q \in Slots, iKey[q] # 0, iKey' = [iKey EXCEPT ![q] = hole]
      PROVE  UNCHANGED Queue!vars
  <2>1. \A j \in 0 .. count - 1 : iKey'[j] = 0 <=> iKey[j] = 0
    BY <1>1, <1>a, <1>c, <1>d, Zenon
  <2> QED BY <2>1, <1>e, Stutters, Zenon
<1>2. CASE UpEnds
  BY <1>2, <1>1, <1>a, <1>c, Zenon DEF UpEnds
<1>3. CASE UpMoves
  <2> DEFINE p == hole \div 2
  <2>1. p \in Nat /\ p < hole /\ p \in Slots
    BY <1>a, <1>c, Halves, SlotFacts
  <2>2. weight \in Int /\ MinWeight <= weight /\ hWeight[p] > weight
    BY <1>3, WeightAssumption, TypeFacts DEF IInv, TypeOK, UpMoves
  <2>3. p # 0
    BY <2>2, WeightAssumption DEF IInv, Sentinel
  <2>4. p \in 1 .. size /\ p # hole
    BY <2>1, <2>3, <1>a, <1>c
  <2>5. iKey[hIndex[p]] = p
    BY <1>3, <2>4, Zenon DEF IInv, Up, Linked, UpMoves
  <2> QED BY <1>3, <1>1, <1>a, <2>1, <2>3, <2>5, Zenon DEF UpMoves
<1>4. CASE DownMoves
  <2>1. Child \in 2 .. size /\ Child # hole /\ Child \in Slots
    BY <1>4, <1>c, ChildFacts, Zenon DEF IInv, DownMoves
  <2>2. Child \in 1 .. size /\ Child # 0
    BY <2>1, <1>a
  <2>3. iKey[hIndex[Child]] = Child
    BY <1>4, <2>1, <2>2, Zenon DEF IInv, Down, Linked, DownMoves
  <2> QED BY <1>4, <1>1, <1>a, <2>1, <2>2, <2>3, Zenon DEF DownMoves
<1> QED BY <1>2, <1>3, <1>4, Zenon

(* DeleteAll empties the queue.                                            *)
LEMMA DeleteAllRefines ==
  ASSUME IInv, DeleteAll
  PROVE  Queue!DeleteAll
<1>a. count' = count /\ iNode' = iNode /\ iWeight' = iWeight /\ node_index' = node_index
  BY Zenon DEF DeleteAll
<1>b. \A j \in 0 .. count - 1 : iKey'[j] = 0
  BY DeleteAllIInv, Zenon
<1>1. Waiting' = {}
  BY <1>a, <1>b, Zenon DEF Waiting
<1>2. Taken' = Taken \cup Waiting
  BY <1>a, <1>b, Zenon DEF Taken, Waiting
<1>3. Label' = Label
  <2>1. Waiting' \cup Taken' = Waiting \cup Taken
    BY <1>1, <1>2, Zenon
  <2> QED BY <2>1, <1>a, Zenon DEF Label, GetKey
<1> QED BY <1>1, <1>2, <1>3, Zenon DEF Queue!DeleteAll

(* The heap is a priority queue: each of its steps is a step of the queue  *)
(* or leaves the queue alone; DeleteMin takes out a node of least weight.  *)
THEOREM Implements == Spec => QueueSpec
<1>1. Init => Queue!Init
  BY DEF Init, Queue!Init, Waiting, Taken, Label
<1>2. IInv /\ IInv' /\ [Next]_vars => [Queue!Next]_(Queue!vars)
  <2> SUFFICES ASSUME IInv, IInv', [Next]_vars PROVE Queue!Next \/ UNCHANGED Queue!vars
    BY Zenon
  <2>1. CASE \E v \in Nodes, w \in Weights : Insert(v, w) \/ DecreaseKey(v, w)
    BY <2>1, InsertRefines, DecreaseRefines, Zenon DEF Queue!Next
  <2>2. CASE DeleteMin
    BY <2>2, DeleteMinRefines, Zenon DEF Queue!Next
  <2>3. CASE DeleteAll
    BY <2>3, DeleteAllRefines, Zenon DEF Queue!Next
  <2>4. CASE Clear
    <3>1. count' = 0
      BY <2>4, Zenon DEF Clear
    <3>2. Waiting' = {} /\ Taken' = {}
      BY <3>1 DEF Waiting, Taken
    <3>3. Label' = [v \in {} |-> 0]
      BY <3>2, Zenon DEF Label
    <3> QED BY <3>2, <3>3, Zenon DEF Queue!Next, Queue!Clear
  <2>5. CASE UpMoves \/ UpEnds \/ DownMoves
    BY <2>5, LoopStepRefines, Zenon
  <2>6. CASE DownEnds
    BY <2>6, DownEndsRefines, Zenon DEF Queue!Next
  <2>7. CASE UNCHANGED vars
    BY <2>7, Stutters, Zenon DEF vars, inserted
  <2> QED BY <2>1, <2>2, <2>3, <2>4, <2>5, <2>6, <2>7, Zenon DEF Next
<1> QED BY <1>1, <1>2, Invariance, PTL DEF Spec, QueueSpec, Queue!Spec

=============================================================================
