---------------------------- MODULE HashStorage ----------------------------
(***************************************************************************)
(* The index storage of the contractor's heaps                             *)
(* (data_structures/xor_fast_hash_storage.hpp): a hash table with linear   *)
(* probing that is emptied by raising the current time; a cell with an     *)
(* older time is free.                                                     *)
(***************************************************************************)
EXTENDS Integers, FiniteSets

CONSTANTS HashNodes, HashKeys,
          Positions,      \* the number of cells, 2^16
          MaxTime         \* the largest unsigned

\* The largest unsigned is no node: it is SPECIAL_NODEID.
ASSUME HashAssumption ==
    /\ Positions \in Nat \ {0} /\ MaxTime \in Nat \ {0}
    /\ IsFiniteSet(HashNodes) /\ MaxTime \notin HashNodes /\ "none" \notin HashNodes

VARIABLES fast_hasher,    \* XORFastHash: a table made by chance
          positions, current_timestamp,
          probing,        \* the access in progress: node, key to put, position
          put             \* the keys put since Clear

hashVars == <<fast_hasher, positions, current_timestamp, probing, put>>

Unset == MaxTime
FreshCell == [time |-> MaxTime, id |-> Unset, key |-> Unset]

HashInit ==
    /\ fast_hasher = <<>>
    /\ positions = [p \in 0 .. Positions - 1 |-> FreshCell]
    /\ current_timestamp = 0
    /\ probing = [node |-> "none"]
    /\ put = [n \in {} |-> 0]

\* XORFastHash: the shuffled tables give each node any value.
Shuffle ==
    /\ fast_hasher = <<>>
    /\ fast_hasher' \in [HashNodes -> 0 .. Positions - 1]
    /\ UNCHANGED <<positions, current_timestamp, probing, put>>

\* A mutation of TakenByOther: a node does not know its own cell.
TakenByAny(p, node) == positions[p].time = current_timestamp

\* The cell belongs to another node.
TakenByOther(p, node) == positions[p].time = current_timestamp /\ positions[p].id # node

\* operator[] followed by an assignment of the key.
StartPut(node, key) ==
    /\ fast_hasher # <<>> /\ probing.node = "none"
    /\ probing' = [node |-> node, key |-> key, position |-> fast_hasher[node]]
    /\ UNCHANGED <<fast_hasher, positions, current_timestamp, put>>

\* ++position %= (2 << 16) on an unsigned short.
Probe ==
    /\ probing.node # "none" /\ TakenByOther(probing.position, probing.node)
    /\ probing' = [probing EXCEPT !.position = (@ + 1) % Positions]
    /\ UNCHANGED <<fast_hasher, positions, current_timestamp, put>>

Put ==
    /\ probing.node # "none" /\ ~TakenByOther(probing.position, probing.node)
    /\ positions' = [positions EXCEPT ![probing.position] =
                       [time |-> current_timestamp, id |-> probing.node, key |-> probing.key]]
    /\ put' = [n \in DOMAIN put \cup {probing.node} |->
                 IF n = probing.node THEN probing.key ELSE put[n]]
    /\ probing' = [node |-> "none"]
    /\ UNCHANGED <<fast_hasher, current_timestamp>>

\* Clear: at the largest time the cells are made anew, with that very time.
ClearStorage ==
    /\ fast_hasher # <<>> /\ probing.node = "none"
    /\ current_timestamp' = (current_timestamp + 1) % (MaxTime + 1)
    /\ positions' = IF current_timestamp' = MaxTime
                    THEN [p \in 0 .. Positions - 1 |-> FreshCell] ELSE positions
    /\ put' = [n \in {} |-> 0]
    /\ UNCHANGED <<fast_hasher, probing>>

HashStep ==
    \/ Shuffle
    \/ \E node \in HashNodes, key \in HashKeys : StartPut(node, key)
    \/ Probe
    \/ Put
    \/ ClearStorage

HashSpec == HashInit /\ [][HashStep]_hashVars

\* peek_index, where its loop ends.
PeekIndex(node) ==
    LET at(k) == (fast_hasher[node] + k) % Positions
        ends == {k \in 0 .. Positions - 1 : ~TakenByOther(at(k), node)}
        first == CHOOSE k \in ends : \A j \in ends : k <= j
    IN  positions[at(first)].key

\* Clear by a time stamp forgets what it should and nothing else: a node put
\* since then has its latest key, whatever it collides with, and a search ends
\* while there is a cell for it.  At the largest time the cells made anew bear
\* that time, so that every one looks taken to every node, and a search goes
\* round for ever (XORFastHashStorage::Clear).
StorageFaithful ==
    /\ current_timestamp # MaxTime =>
         /\ \A n \in DOMAIN put : PeekIndex(n) = put[n]
         /\ probing.node # "none" /\ Cardinality(DOMAIN put) < Positions =>
              \E p \in 0 .. Positions - 1 : ~TakenByOther(p, probing.node)
    /\ current_timestamp = MaxTime =>
         \A n \in HashNodes, p \in 0 .. Positions - 1 : TakenByOther(p, n)
=============================================================================
