--------------------------- MODULE PriorityQueue ---------------------------
(***************************************************************************)
(* What the routing algorithms expect of their heap: a set of labelled     *)
(* nodes, of which some wait and the others were taken out.                *)
(***************************************************************************)
EXTENDS Integers

CONSTANTS Nodes, Weights

VARIABLES waiting,  \* the nodes in the queue
          taken,    \* the nodes that were in the queue since it was cleared
          label     \* label[v]: the weight of a waiting or taken node

vars == <<waiting, taken, label>>

Init == waiting = {} /\ taken = {} /\ label = [v \in {} |-> 0]

Insert(v, w) ==
  /\ v \notin waiting \cup taken
  /\ waiting' = waiting \cup {v}
  /\ label' = [u \in DOMAIN label \cup {v} |-> IF u = v THEN w ELSE label[u]]
  /\ UNCHANGED taken

Decrease(v, w) ==
  /\ v \in waiting /\ w <= label[v]
  /\ label' = [label EXCEPT ![v] = w]
  /\ UNCHANGED <<waiting, taken>>

DeleteMin(v) ==
  /\ v \in waiting /\ \A u \in waiting : label[v] <= label[u]
  /\ waiting' = waiting \ {v}
  /\ taken' = taken \cup {v}
  /\ UNCHANGED label

DeleteAll ==
  /\ taken' = taken \cup waiting
  /\ waiting' = {}
  /\ UNCHANGED label

Clear == waiting' = {} /\ taken' = {} /\ label' = [v \in {} |-> 0]

Next ==
  \/ \E v \in Nodes, w \in Weights : Insert(v, w) \/ Decrease(v, w)
  \/ \E v \in Nodes : DeleteMin(v)
  \/ DeleteAll \/ Clear

Spec == Init /\ [][Next]_vars

=============================================================================
