----------------------------- MODULE BinaryHeap -----------------------------
(***************************************************************************)
(* The addressable binary heap of the routing engine                       *)
(* (data_structures/binary_heap.hpp).  The array "heap" holds the waiting  *)
(* elements in heap order below a sentinel at position 0; the array        *)
(* "inserted_nodes" holds every node inserted since Clear, with its place  *)
(* in the heap (key, 0 when it was taken out); "node_index" finds a node's *)
(* entry in it.  ArrayStorage does not forget its entries on Clear, so     *)
(* node_index may point anywhere and WasInserted has to look.              *)
(*                                                                         *)
(* An operation that moves elements is modelled loop iteration by loop     *)
(* iteration: hole is the loop's variable key.                             *)
(***************************************************************************)
EXTENDS Integers

CONSTANTS Nodes, Weights,
          NoNode,       \* in the slots inserted_nodes does not have
          MinWeight,    \* std::numeric_limits<Weight>::min()
          Capacity,     \* bound on the nodes inserted between two Clears
          ArrayStorage  \* the IndexStorage: ArrayStorage, or one of the maps

ASSUME WeightAssumption == /\ Weights \subseteq Int /\ MinWeight \in Int
                           /\ \A w \in Weights : MinWeight <= w
ASSUME NoNodeAssumption == NoNode \notin Nodes
ASSUME CapacityAssumption == Capacity \in Nat
ASSUME StorageAssumption == ArrayStorage \in BOOLEAN

\* The arrays have slots up to their size; the others keep one fixed value.
Slots == 0 .. Capacity
NoIndex == Capacity         \* what peek_index answers for a node not in the map

VARIABLES
  size,                     \* heap.size() - 1
  hIndex, hWeight,          \* heap[i].index, heap[i].weight
  count,                    \* inserted_nodes.size()
  iNode, iKey, iWeight,     \* inserted_nodes[j].node, .key, .weight
  node_index,
  pc, hole, moving, weight, \* the loop: where, and the element on the move
  removed                   \* DeleteMin's removedIndex

heap == <<size, hIndex, hWeight>>
inserted == <<count, iNode, iKey, iWeight>>
loop == <<pc, hole, moving, weight, removed>>
vars == <<heap, inserted, node_index, loop>>

(* The arrays are of their types, and the sizes are those of the code.     *)
TypeOK ==
  /\ size \in Slots /\ count \in Slots /\ size <= count
  /\ hIndex \in [Slots -> Slots]
  /\ hWeight \in [Slots -> Weights \cup {MinWeight}]
  /\ iNode \in [Slots -> Nodes \cup {NoNode}] /\ iKey \in [Slots -> Slots]
  /\ iWeight \in [Slots -> Weights \cup {MinWeight}]
  /\ node_index \in [Nodes -> Slots]
  /\ pc \in {"idle", "up", "down"}
  /\ hole \in Slots /\ moving \in Slots /\ removed \in Slots
  /\ weight \in Weights \cup {MinWeight}

-----------------------------------------------------------------------------
(* Queries.                                                                *)

WasInserted(v) == node_index[v] < count /\ iNode[node_index[v]] = v
WasRemoved(v) == iKey[node_index[v]] = 0
GetKey(v) == iWeight[node_index[v]]
HeapMin == iNode[hIndex[1]]
MinKey == hWeight[1]

(* What the slots past the end of an array hold.                           *)
NoIndices == [i \in Slots |-> 0]
NoWeights == [i \in Slots |-> MinWeight]
NoNodes == [j \in Slots |-> NoNode]

Init ==
  /\ size = 0 /\ count = 0
  /\ hIndex = NoIndices /\ hWeight = NoWeights
  /\ iNode = NoNodes /\ iKey = NoIndices /\ iWeight = NoWeights
  /\ node_index = [v \in Nodes |-> IF ArrayStorage THEN 0 ELSE NoIndex]
  /\ pc = "idle" /\ hole = 0 /\ moving = 0 /\ weight = MinWeight /\ removed = 0

-----------------------------------------------------------------------------
(* Upheap and Downheap.                                                    *)

(* The loop's variables go out of scope.                                   *)
Return == pc' = "idle" /\ hole' = 0 /\ moving' = 0 /\ weight' = MinWeight /\ removed' = 0

Upheap(k, j, w) == pc' = "up" /\ hole' = k /\ moving' = j /\ weight' = w

UpMoves ==
  LET next == hole \div 2 IN
  /\ pc = "up" /\ hWeight[next] > weight
  /\ hIndex' = [hIndex EXCEPT ![hole] = hIndex[next]]
  /\ hWeight' = [hWeight EXCEPT ![hole] = hWeight[next]]
  /\ iKey' = [iKey EXCEPT ![hIndex[next]] = hole]
  /\ hole' = next
  /\ UNCHANGED <<size, count, iNode, iWeight, node_index, pc, moving, weight, removed>>

Place ==
  /\ hIndex' = [hIndex EXCEPT ![hole] = moving]
  /\ hWeight' = [hWeight EXCEPT ![hole] = weight]

UpEnds ==
  /\ pc = "up" /\ hWeight[hole \div 2] <= weight
  /\ Place
  /\ iKey' = [iKey EXCEPT ![moving] = hole]
  /\ Return
  /\ UNCHANGED <<size, count, iNode, iWeight, node_index>>

\* The right child is not looked at.
ChildLeft == 2 * hole

Child ==
  LET next == 2 * hole IN
  IF next + 1 <= size /\ hWeight[next] > hWeight[next + 1] THEN next + 1 ELSE next

DownMoves ==
  /\ pc = "down" /\ 2 * hole <= size /\ weight > hWeight[Child]
  /\ hIndex' = [hIndex EXCEPT ![hole] = hIndex[Child]]
  /\ hWeight' = [hWeight EXCEPT ![hole] = hWeight[Child]]
  /\ iKey' = [iKey EXCEPT ![hIndex[Child]] = hole]
  /\ hole' = Child
  /\ UNCHANGED <<size, count, iNode, iWeight, node_index, pc, moving, weight, removed>>

(* The end of Downheap and, after it, of DeleteMin.                        *)
DownEnds ==
  /\ pc = "down" /\ ~ (2 * hole <= size /\ weight > hWeight[Child])
  /\ Place
  /\ iKey' = [iKey EXCEPT ![moving] = hole, ![removed] = 0]
  /\ Return
  /\ UNCHANGED <<size, count, iNode, iWeight, node_index>>

-----------------------------------------------------------------------------
(* Operations.  The callers ask WasInserted before they insert, and lower  *)
(* the key of a node that waits (routing_base.hpp:158-174).  One does not: *)
(* a table inserts the nodes of both phantoms of a pair, which may be the  *)
(* same (many_to_many.hpp:91-115); node_index then finds the later of two  *)
(* elements with the same key.  That case is not in this module.           *)

Insert(v, w) ==
  /\ pc = "idle" /\ ~ WasInserted(v) /\ count < Capacity
  /\ size' = size + 1
  /\ hIndex' = [hIndex EXCEPT ![size + 1] = count]
  /\ hWeight' = [hWeight EXCEPT ![size + 1] = w]
  /\ count' = count + 1
  /\ iNode' = [iNode EXCEPT ![count] = v]
  /\ iKey' = [iKey EXCEPT ![count] = size + 1]
  /\ iWeight' = [iWeight EXCEPT ![count] = w]
  /\ node_index' = [node_index EXCEPT ![v] = count]
  /\ Upheap(size + 1, count, w)
  /\ UNCHANGED removed

DecreaseKey(v, w) ==
  LET j == node_index[v] IN
  /\ pc = "idle" /\ WasInserted(v) /\ ~ WasRemoved(v) /\ w <= GetKey(v)
  /\ iWeight' = [iWeight EXCEPT ![j] = w]
  /\ hWeight' = [hWeight EXCEPT ![iKey[j]] = w]
  /\ Upheap(iKey[j], hIndex[iKey[j]], w)
  /\ UNCHANGED <<size, hIndex, count, iNode, iKey, node_index, removed>>

DeleteMin ==
  /\ pc = "idle" /\ size > 0
  /\ size' = size - 1
  /\ hIndex' = [hIndex EXCEPT ![1] = hIndex[size], ![size] = 0]
  /\ hWeight' = [hWeight EXCEPT ![1] = hWeight[size], ![size] = MinWeight]
  /\ IF size > 1
     THEN /\ pc' = "down" /\ hole' = 1 /\ moving' = hIndex[size] /\ weight' = hWeight[size]
          /\ removed' = hIndex[1]
          /\ UNCHANGED iKey
     ELSE /\ iKey' = [iKey EXCEPT ![hIndex[1]] = 0]
          /\ UNCHANGED loop
  /\ UNCHANGED <<count, iNode, iWeight, node_index>>

DeleteAll ==
  /\ pc = "idle"
  /\ iKey' = [j \in Slots |-> IF \E i \in 1 .. size : hIndex[i] = j THEN 0 ELSE iKey[j]]
  /\ size' = 0 /\ hIndex' = NoIndices /\ hWeight' = NoWeights
  /\ UNCHANGED <<count, iNode, iWeight, node_index, loop>>

Clear ==
  /\ pc = "idle"
  /\ size' = 0 /\ hIndex' = NoIndices /\ hWeight' = NoWeights
  /\ count' = 0 /\ iNode' = NoNodes /\ iKey' = NoIndices /\ iWeight' = NoWeights
  /\ node_index' = IF ArrayStorage THEN node_index ELSE [v \in Nodes |-> NoIndex]
  /\ UNCHANGED loop

Next ==
  \/ \E v \in Nodes, w \in Weights : Insert(v, w) \/ DecreaseKey(v, w)
  \/ DeleteMin \/ DeleteAll \/ Clear
  \/ UpMoves \/ UpEnds \/ DownMoves \/ DownEnds

Spec == Init /\ [][Next]_vars

-----------------------------------------------------------------------------
(* Between operations no element is lighter than its parent (what          *)
(* CheckHeap asserts after every operation).                               *)
HeapOrder == pc = "idle" => \A i \in 2 .. size : hWeight[i \div 2] <= hWeight[i]

(* Between operations the two arrays agree: every place in the heap and    *)
(* the entry that names it point at each other and carry the same weight,  *)
(* so GetKey, WasRemoved and DecreaseKey read and change the right         *)
(* element.                                                                *)
Addressable == pc = "idle" =>
  /\ \A i \in 1 .. size :
        hIndex[i] < count /\ iKey[hIndex[i]] = i /\ iWeight[hIndex[i]] = hWeight[i]
  /\ \A j \in 0 .. count - 1 :
        iKey[j] # 0 => iKey[j] <= size /\ hIndex[iKey[j]] = j

(* Between operations HeapMin is a waiting node, MinKey is its key, and no *)
(* waiting node has a smaller one.                                         *)
MinIsLeast == pc = "idle" /\ size > 0 =>
  /\ WasInserted(HeapMin) /\ ~ WasRemoved(HeapMin) /\ MinKey = GetKey(HeapMin)
  /\ \A v \in Nodes : WasInserted(v) /\ ~ WasRemoved(v) => MinKey <= GetKey(v)

(* The heap is a priority queue: a node waits from its insertion until its *)
(* key is set to 0, and its label is the weight kept with it.              *)
Waiting == {iNode[j] : j \in {k \in 0 .. count - 1 : iKey[k] # 0}}
Taken == {iNode[j] : j \in {k \in 0 .. count - 1 : iKey[k] = 0}}
Label == [v \in Waiting \cup Taken |-> GetKey(v)]

Queue == INSTANCE PriorityQueue WITH waiting <- Waiting, taken <- Taken, label <- Label

(* Every step of the heap is a step of the queue or none: in particular    *)
(* DeleteMin takes out a node of least weight, however the keys were       *)
(* lowered before, and a cleared heap knows no node although ArrayStorage  *)
(* keeps its entries.                                                      *)
QueueSpec == Queue!Spec

=============================================================================
