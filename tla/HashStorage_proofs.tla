------------------------- MODULE HashStorage_proofs -------------------------
(***************************************************************************)
(* Proofs about HashStorage, for tables of every size, any hash function   *)
(* and any largest time.                                                   *)
(***************************************************************************)
EXTENDS HashStorage, FiniteSetTheorems, FunctionTheorems, TLAPS

Cells == 0 .. Positions - 1

\* The k-th cell a search for the node looks at.
At(node, k) == (fast_hasher[node] + k) % Positions

HTypes ==
    /\ fast_hasher = <<>> \/ fast_hasher \in [HashNodes -> Cells]
    /\ positions \in [Cells -> [time : 0 .. MaxTime, id : HashNodes \cup {Unset},
                                key : HashKeys \cup {Unset}]]
    /\ current_timestamp \in 0 .. MaxTime
    /\ \/ probing = [node |-> "none"]
       \/ /\ probing \in [node : HashNodes, key : HashKeys, position : Cells]
          /\ fast_hasher # <<>>
    /\ DOMAIN put \subseteq HashNodes
    /\ fast_hasher = <<>> => DOMAIN put = {}

\* No cell is ahead of the clock, but for the ones never written.
Times ==
    /\ \A p \in Cells : positions[p].time = MaxTime \/ positions[p].time <= current_timestamp
    /\ current_timestamp = MaxTime => \A p \in Cells : positions[p] = FreshCell

\* All cells a search for the node passes before its k-th belong to others.
Passed(node, k) == \A j \in 0 .. k - 1 : TakenByOther(At(node, j), node)

\* A node that was put is found where its search ends.
Found ==
    \A n \in DOMAIN put : \E k \in Cells :
      /\ positions[At(n, k)].time = current_timestamp
      /\ positions[At(n, k)].id = n /\ positions[At(n, k)].key = put[n]
      /\ Passed(n, k)

\* The cells in use belong to different nodes that were put.
InUse ==
    /\ \A p \in Cells : positions[p].time = current_timestamp => positions[p].id \in DOMAIN put
    /\ \A p, q \in Cells :
         positions[p].time = current_timestamp /\ positions[q].time = current_timestamp =>
           (positions[p].id = positions[q].id => p = q)

Searching ==
    probing.node # "none" =>
      \E k \in Cells : probing.position = At(probing.node, k) /\ Passed(probing.node, k)

HInv == HTypes /\ Times /\ (current_timestamp # MaxTime => Found /\ InUse /\ Searching)

-----------------------------------------------------------------------------
(* The cells of a search, one after the other, round the table.              *)
LEMMA Around ==
  ASSUME NEW h \in Cells
  PROVE  /\ \A k \in Nat : (h + k) % Positions \in Cells
         /\ (h + 0) % Positions = h
         /\ \A k \in Cells : k + 1 \in Cells =>
              (((h + k) % Positions) + 1) % Positions = (h + (k + 1)) % Positions
         /\ \A k \in Cells : k + 1 \notin Cells => (((h + k) % Positions) + 1) % Positions = h
<1> USE HashAssumption DEF Cells
<1>1. \A x \in Int : x % Positions \in 0 .. Positions - 1
  OBVIOUS
<1>2. \A x \in 0 .. Positions - 1 : x % Positions = x
  OBVIOUS
<1>3. \A x \in Positions .. Positions + Positions - 1 : x % Positions = x - Positions
  OBVIOUS
<1>4. ASSUME NEW k \in Cells, k + 1 \in Cells
      PROVE  (((h + k) % Positions) + 1) % Positions = (h + (k + 1)) % Positions
  <2>1. CASE h + k < Positions - 1
    BY <1>2, <2>1
  <2>2. CASE h + k = Positions - 1
    BY <1>2, <1>3, <2>2
  <2>3. CASE h + k > Positions - 1
    <3>1. (h + k) % Positions = h + k - Positions
      BY <1>3, <2>3
    <3>2. (h + k - Positions) + 1 \in 0 .. Positions - 1
          /\ h + (k + 1) \in Positions .. Positions + Positions - 1
      BY <1>4, <2>3
    <3> QED BY <1>2, <1>3, <3>1, <3>2
  <2> QED BY <2>1, <2>2, <2>3
<1>5. ASSUME NEW k \in Cells, k + 1 \notin Cells
      PROVE  (((h + k) % Positions) + 1) % Positions = h
  <2>1. k = Positions - 1
    BY <1>5
  <2>2. CASE h = 0
    BY <1>2, <1>3, <2>1, <2>2
  <2>3. CASE h > 0
    <3>1. (h + k) % Positions = h + k - Positions
      BY <1>3, <2>1, <2>3
    <3> QED BY <1>2, <2>1, <3>1
  <2> QED BY <2>2, <2>3
<1> QED BY <1>1, <1>2, <1>4, <1>5

(* A new storage has no cell in use.                                       *)
LEMMA InitHInv == HashInit => HInv
<1> SUFFICES ASSUME HashInit PROVE HInv
  BY Zenon
<1>1. FreshCell \in [time : 0 .. MaxTime, id : HashNodes \cup {Unset}, key : HashKeys \cup {Unset}]
      /\ FreshCell.time = MaxTime
  BY HashAssumption DEF FreshCell, Unset
<1>2. \A p \in Cells : positions[p] = FreshCell
  BY Zenon DEF HashInit, Cells
<1>3. HTypes
  <2>1. DOMAIN put = {}
    BY Zenon DEF HashInit
  <2> QED BY <1>1, <2>1, HashAssumption DEF HashInit, HTypes, Cells
<1>4. Times
  BY <1>1, <1>2, Zenon DEF Times
<1>5. Found /\ Searching
  <2>1. DOMAIN put = {} /\ probing.node = "none"
    BY Zenon DEF HashInit
  <2> QED BY <2>1, Zenon DEF Found, Searching
<1>6. current_timestamp # MaxTime => InUse
  <2> SUFFICES ASSUME current_timestamp # MaxTime PROVE InUse
    BY Zenon
  <2>1. \A p \in Cells : positions[p].time # current_timestamp
    BY <1>1, <1>2, Zenon
  <2> QED BY <2>1, Zenon DEF InUse
<1> QED BY <1>3, <1>4, <1>5, <1>6, Zenon DEF HInv


-----------------------------------------------------------------------------
(* The hash function is drawn.                                             *)
LEMMA ShuffleStep ==
  ASSUME HInv, Shuffle
  PROVE  HInv'
<1>1. /\ HTypes /\ fast_hasher = <<>> /\ fast_hasher' \in [HashNodes -> Cells]
      /\ positions' = positions /\ current_timestamp' = current_timestamp
      /\ probing' = probing /\ put' = put
  BY Zenon DEF HInv, Shuffle, Cells
<1>2. DOMAIN put = {} /\ probing = [node |-> "none"]
  BY <1>1, Zenon DEF HTypes
<1>3. HTypes'
  BY <1>1, <1>2, Zenon DEF HTypes
<1>4. Times'
  BY <1>1, Zenon DEF HInv, Times
<1>5. current_timestamp # MaxTime => InUse'
  BY <1>1, Zenon DEF HInv, InUse
<1>6. Found' /\ Searching'
  <2>1. DOMAIN put' = {} /\ probing'.node = "none"
    BY <1>1, <1>2, Zenon
  <2> QED BY <2>1, Zenon DEF Found, Searching
<1> QED BY <1>1, <1>3, <1>4, <1>5, <1>6, Zenon DEF HInv

(* A search starts at the hash of its node.                                *)
LEMMA StartStep ==
  ASSUME HInv, NEW node \in HashNodes, NEW key \in HashKeys, StartPut(node, key)
  PROVE  HInv'
<1>1. /\ HTypes /\ fast_hasher # <<>> /\ fast_hasher' = fast_hasher
      /\ positions' = positions /\ current_timestamp' = current_timestamp /\ put' = put
      /\ probing' = [node |-> node, key |-> key, position |-> fast_hasher[node]]
  BY Zenon DEF HInv, StartPut
<1>2. fast_hasher[node] \in Cells
  BY <1>1, Zenon DEF HTypes
<1>3. /\ probing' \in [node : HashNodes, key : HashKeys, position : Cells]
      /\ probing'.node = node /\ probing'.position = fast_hasher[node]
  BY <1>1, <1>2, Zenon
<1>4. HTypes'
  BY <1>1, <1>3, Zenon DEF HTypes
<1>5. Times' /\ (current_timestamp # MaxTime => Found' /\ InUse')
  BY <1>1 DEF HInv, Times, Found, InUse, Passed, TakenByOther, At
<1>6. Searching'
  <2>1. 0 \in Cells /\ fast_hasher[node] = (fast_hasher[node] + 0) % Positions
    <3>1. PICK h \in Cells : h = fast_hasher[node]
      BY <1>2, Zenon
    <3>2. 0 \in Cells /\ h = (h + 0) % Positions
      BY ONLY h \in Cells, HashAssumption DEF Cells
    <3> QED BY <3>1, <3>2, Zenon
  <2>2. 0 .. 0 - 1 = {}
    OBVIOUS
  <2> QED BY <1>1, <1>3, <2>1, <2>2, Zenon DEF Searching, Passed, At
<1> QED BY <1>1, <1>4, <1>5, <1>6, Zenon DEF HInv

(* A search looks at one cell.                                             *)
LEMMA ProbeStep ==
  ASSUME HInv, Probe
  PROVE  HInv'
<1>1. /\ HTypes /\ probing.node # "none" /\ fast_hasher' = fast_hasher
      /\ positions' = positions /\ current_timestamp' = current_timestamp /\ put' = put
      /\ TakenByOther(probing.position, probing.node)
      /\ probing' = [probing EXCEPT !.position = (@ + 1) % Positions]
  BY Zenon DEF HInv, Probe
<1>2. /\ probing \in [node : HashNodes, key : HashKeys, position : Cells]
      /\ fast_hasher \in [HashNodes -> Cells] /\ fast_hasher # <<>>
  BY <1>1 DEF HTypes
<1>3. PICK n \in HashNodes : n = probing.node
  BY <1>2, Zenon
<1>4. PICK h \in Cells : h = fast_hasher[n]
  BY <1>2, Zenon
<1>5. PICK p \in Cells : p = probing.position
  BY <1>2, Zenon
<1>6. (p + 1) % Positions \in Cells
  BY HashAssumption DEF Cells
<1>7. /\ probing' \in [node : HashNodes, key : HashKeys, position : Cells]
      /\ probing'.node = n /\ probing'.position = (p + 1) % Positions
  BY <1>1, <1>2, <1>3, <1>5, <1>6, Zenon
<1>8. HTypes'
  BY <1>1, <1>2, <1>7, Zenon DEF HTypes
<1>9. Times' /\ (current_timestamp # MaxTime => Found' /\ InUse')
  BY <1>1 DEF HInv, Times, Found, InUse, Passed, TakenByOther, At
<1>10. ASSUME current_timestamp # MaxTime PROVE Searching'
  <2>1. PICK k \in Cells : p = At(n, k) /\ Passed(n, k)
    BY <1>1, <1>3, <1>5, <1>10, Zenon DEF HInv, Searching
  <2>2. \A j \in Nat : At(n, j)' = At(n, j)
    BY <1>1, Zenon DEF At
  <2>3. \A x : TakenByOther(x, n)' <=> TakenByOther(x, n)
    BY <1>1, Zenon DEF TakenByOther
  <2>4. CASE k + 1 \in Cells
    <3>1. probing'.position = At(n, k + 1)
      BY <1>4, <1>7, <2>1, <2>4, Around DEF At
    <3>2. \A j \in 0 .. (k + 1) - 1 : TakenByOther(At(n, j), n)
      <4> TAKE j \in 0 .. (k + 1) - 1
      <4>1. j = k \/ j \in 0 .. k - 1
        BY DEF Cells
      <4> QED BY <1>1, <1>3, <1>5, <2>1, <4>1, Zenon DEF Passed
    <3>3. \A j \in 0 .. (k + 1) - 1 : j \in Nat
      BY HashAssumption DEF Cells
    <3>4. Passed(n, k + 1)'
      BY <2>2, <2>3, <3>2, <3>3, Zenon DEF Passed
    <3>5. k + 1 \in Nat
      BY HashAssumption DEF Cells
    <3>6. probing'.position = At(n, k + 1)'
      BY <2>2, <3>1, <3>5, Zenon
    <3>7. \E i \in Cells : probing'.position = At(n, i)' /\ Passed(n, i)'
      BY <2>4, <3>4, <3>6, Zenon
    <3> QED BY <1>7, <3>7, Zenon DEF Searching
  <2>5. CASE k + 1 \notin Cells
    <3>1. probing'.position = h
      BY <1>4, <1>7, <2>1, <2>5, Around, Zenon DEF At
    <3>2. 0 \in Cells /\ At(n, 0)' = h
      BY <1>1, <1>4, Around, HashAssumption DEF At, Cells
    <3>3. Passed(n, 0)'
      BY DEF Passed
    <3>4. \E i \in Cells : probing'.position = At(n, i)' /\ Passed(n, i)'
      BY <3>1, <3>2, <3>3, Zenon
    <3> QED BY <1>7, <3>4 DEF Searching
  <2> QED BY <2>4, <2>5, Zenon
<1> QED BY <1>1, <1>8, <1>9, <1>10, Zenon DEF HInv


(* The node is written where its search has ended: another node's cell is    *)
(* not there, and its own is nowhere else.                                   *)
LEMMA PutStep ==
  ASSUME HInv, Put
  PROVE  HInv'
<1>1. /\ HTypes /\ Times /\ probing.node # "none" /\ fast_hasher' = fast_hasher
      /\ current_timestamp' = current_timestamp /\ probing' = [node |-> "none"]
  BY Zenon DEF HInv, Put
<1>2. /\ probing \in [node : HashNodes, key : HashKeys, position : Cells]
      /\ fast_hasher \in [HashNodes -> Cells] /\ fast_hasher # <<>>
  BY <1>1 DEF HTypes
<1>3. PICK n \in HashNodes, key \in HashKeys, p \in Cells :
        n = probing.node /\ key = probing.key /\ p = probing.position
  BY <1>2, Zenon
<1>4. PICK cell : cell = [time |-> current_timestamp, id |-> n, key |-> key]
  BY Zenon
<1>5. /\ ~TakenByOther(p, n)
      /\ positions' = [positions EXCEPT ![p] = cell]
      /\ put' = [x \in DOMAIN put \cup {n} |-> IF x = n THEN key ELSE put[x]]
  BY <1>3, <1>4, Zenon DEF Put
<1>6. /\ cell.time = current_timestamp /\ cell.id = n /\ cell.key = key
      /\ cell \in [time : 0 .. MaxTime, id : HashNodes \cup {Unset}, key : HashKeys \cup {Unset}]
  BY <1>1, <1>4, Zenon DEF HTypes
<1>7. positions'[p] = cell /\ \A q \in Cells : q # p => positions'[q] = positions[q]
  BY <1>1, <1>5, Zenon DEF HTypes
<1>8. DOMAIN put' = DOMAIN put \cup {n} /\ put'[n] = key /\ \A x \in DOMAIN put : x # n => put'[x] = put[x]
  BY <1>5, Zenon
<1>9. HTypes'
  <2>1. positions' \in [Cells -> [time : 0 .. MaxTime, id : HashNodes \cup {Unset},
                                  key : HashKeys \cup {Unset}]]
    BY <1>1, <1>5, <1>6, Zenon DEF HTypes
  <2>2. DOMAIN put' \subseteq HashNodes
    BY <1>1, <1>8, Zenon DEF HTypes
  <2> QED BY <1>1, <1>2, <2>1, <2>2, Zenon DEF HTypes
<1>10. current_timestamp # MaxTime
  <2> SUFFICES ASSUME current_timestamp = MaxTime PROVE FALSE
    BY Zenon
  <2>1. positions[p] = FreshCell
    BY <1>1, Zenon DEF Times
  <2>2. positions[p].time = MaxTime /\ positions[p].id = MaxTime
    BY <2>1 DEF FreshCell, Unset
  <2> QED BY <1>5, <2>2, HashAssumption, Zenon DEF TakenByOther
<1>11. Times'
  <2>1. current_timestamp \in Nat
    BY <1>1, HashAssumption DEF HTypes
  <2>2. \A q \in Cells : positions'[q].time = MaxTime \/ positions'[q].time <= current_timestamp
    BY <1>1, <1>6, <1>7, <2>1 DEF Times
  <2> QED BY <1>1, <1>10, <2>2, Zenon DEF Times
<1>12. Found /\ InUse /\ Searching
  BY <1>10, Zenon DEF HInv
<1>13. PICK k \in Cells : p = At(n, k) /\ Passed(n, k)
  BY <1>1, <1>3, <1>12, Zenon DEF Searching
<1>14. \A x \in HashNodes, j \in Nat : At(x, j) \in Cells /\ At(x, j)' = At(x, j)
  BY <1>1, <1>2, Around, Zenon DEF At
<1>15. ASSUME NEW x \in HashNodes, NEW q \in Cells, TakenByOther(q, x) PROVE q # p \/ x # n
  BY <1>5, <1>15, Zenon
<1>16. ASSUME NEW x \in HashNodes, NEW q \in Cells, TakenByOther(q, x) PROVE TakenByOther(q, x)'
  <2>1. CASE q = p
    <3>1. x # n
      BY <1>15, <1>16, <2>1, Zenon
    <3> QED BY <1>1, <1>6, <1>7, <2>1, <3>1, Zenon DEF TakenByOther
  <2>2. CASE q # p
    BY <1>1, <1>7, <1>16, <2>2, Zenon DEF TakenByOther
  <2> QED BY <2>1, <2>2, Zenon
<1>17. \A x \in HashNodes, i \in Cells : Passed(x, i) => Passed(x, i)'
  <2> SUFFICES ASSUME NEW x \in HashNodes, NEW i \in Cells, Passed(x, i),
                      NEW j \in 0 .. i - 1
               PROVE  TakenByOther(At(x, j), x)'
    BY Zenon DEF Passed
  <2>1. j \in Nat
    BY HashAssumption DEF Cells
  <2>2. PICK q \in Cells : q = At(x, j) /\ q = At(x, j)'
    BY <1>14, <2>1, Zenon
  <2>3. TakenByOther(q, x)
    BY <2>2, Zenon DEF Passed
  <2>4. TakenByOther(q, x)'
    BY <1>16, <2>3, Zenon
  <2> QED BY <2>2, <2>4, Zenon DEF TakenByOther
<1>18. \A i \in Cells : i \in Nat
  BY HashAssumption DEF Cells
<1>19. Found'
  <2> SUFFICES ASSUME NEW x \in DOMAIN put \cup {n}
               PROVE  \E i \in Cells :
                        /\ positions'[At(x, i)'].time = current_timestamp
                        /\ positions'[At(x, i)'].id = x /\ positions'[At(x, i)'].key = put'[x]
                        /\ Passed(x, i)'
    BY <1>1, <1>8, Zenon DEF Found
  <2>1. CASE x = n
    <3>1. At(n, k)' = p /\ Passed(n, k)'
      BY <1>13, <1>14, <1>17, <1>18, Zenon
    <3> QED BY <1>6, <1>7, <1>8, <2>1, <3>1, Zenon
  <2>2. CASE x # n
    <3>1. x \in DOMAIN put /\ x \in HashNodes
      BY <1>1, <2>2, Zenon DEF HTypes
    <3>2. PICK i \in Cells : /\ positions[At(x, i)].time = current_timestamp
                             /\ positions[At(x, i)].id = x /\ positions[At(x, i)].key = put[x]
                             /\ Passed(x, i)
      BY <1>12, <3>1, Zenon DEF Found
    <3>3. PICK q \in Cells : q = At(x, i) /\ q = At(x, i)'
      BY <1>14, <1>18, <3>1, Zenon
    <3>4. q # p
      BY <1>5, <2>2, <3>2, <3>3, Zenon DEF TakenByOther
    <3>5. positions'[q] = positions[q] /\ put'[x] = put[x] /\ Passed(x, i)'
      BY <1>7, <1>8, <1>17, <2>2, <3>1, <3>2, <3>4, Zenon
    <3> QED BY <3>2, <3>3, <3>5, Zenon
  <2> QED BY <2>1, <2>2, Zenon
\* A cell with the node's own name can only be the one that is written.
<1>20. ASSUME NEW q \in Cells, positions[q].time = current_timestamp, positions[q].id = n
       PROVE  q = p
  <2>1. n \in DOMAIN put
    BY <1>12, <1>20, Zenon DEF InUse
  <2>2. PICK i \in Cells : /\ positions[At(n, i)].time = current_timestamp
                           /\ positions[At(n, i)].id = n /\ Passed(n, i)
    BY <1>12, <2>1, Zenon DEF Found
  <2>3. At(n, i) = q
    BY <1>12, <1>14, <1>18, <1>20, <2>2, Zenon DEF InUse
  <2>4. ~(k < i)
    <3> SUFFICES ASSUME k < i PROVE FALSE
      BY Zenon
    <3>1. k \in 0 .. i - 1
      BY HashAssumption DEF Cells
    <3>2. TakenByOther(At(n, k), n)
      BY <2>2, <3>1, Zenon DEF Passed
    <3> QED BY <1>5, <1>13, <3>2, Zenon
  <2>5. ~(i < k)
    <3> SUFFICES ASSUME i < k PROVE FALSE
      BY Zenon
    <3>1. i \in 0 .. k - 1
      BY HashAssumption DEF Cells
    <3>2. TakenByOther(At(n, i), n)
      BY <1>13, <3>1, Zenon DEF Passed
    <3> QED BY <2>2, <3>2, Zenon DEF TakenByOther
  <2>6. i = k
    BY <2>4, <2>5, HashAssumption DEF Cells
  <2> QED BY <1>13, <2>3, <2>6, Zenon
<1>21. InUse'
  <2>1. \A q \in Cells : positions'[q].time = current_timestamp => positions'[q].id \in DOMAIN put \cup {n}
    BY <1>6, <1>7, <1>12, Zenon DEF InUse
  <2>2. ASSUME NEW q \in Cells, NEW r \in Cells,
               positions'[q].time = current_timestamp, positions'[r].time = current_timestamp,
               positions'[q].id = positions'[r].id
        PROVE  q = r
    <3>1. CASE q = p
      BY <1>6, <1>7, <1>20, <2>2, <3>1, Zenon
    <3>2. CASE r = p
      BY <1>6, <1>7, <1>20, <2>2, <3>2, Zenon
    <3>3. CASE q # p /\ r # p
      BY <1>7, <1>12, <2>2, <3>3, Zenon DEF InUse
    <3> QED BY <3>1, <3>2, <3>3, Zenon
  <2> QED BY <1>1, <1>8, <2>1, <2>2, Zenon DEF InUse
<1>22. Searching'
  BY <1>1, Zenon DEF Searching
<1> QED BY <1>9, <1>11, <1>19, <1>21, <1>22, Zenon DEF HInv


(* The clock moves past all cells, or all cells are made anew.               *)
LEMMA ClearStep ==
  ASSUME HInv, ClearStorage
  PROVE  HInv'
<1>1. /\ HTypes /\ Times /\ fast_hasher' = fast_hasher /\ probing' = probing
      /\ probing.node = "none" /\ DOMAIN put' = {}
      /\ current_timestamp' = (current_timestamp + 1) % (MaxTime + 1)
      /\ positions' = IF current_timestamp' = MaxTime
                      THEN [p \in Cells |-> FreshCell] ELSE positions
  BY Zenon DEF HInv, ClearStorage, Cells
<1>2. current_timestamp \in 0 .. MaxTime /\ MaxTime \in Nat \ {0}
  BY <1>1, HashAssumption, Zenon DEF HTypes
<1>3. \/ current_timestamp < MaxTime /\ current_timestamp' = current_timestamp + 1
      \/ current_timestamp = MaxTime /\ current_timestamp' = 0
  <2>1. \A M \in Nat : /\ \A t \in 0 .. M : t % (M + 1) = t
                       /\ (M + 1) % (M + 1) = 0
    OBVIOUS
  <2>2. CASE current_timestamp < MaxTime
    BY <1>1, <1>2, <2>1, <2>2
  <2>3. CASE current_timestamp = MaxTime
    BY <1>1, <1>2, <2>1, <2>3, Zenon
  <2> QED BY <1>2, <2>2, <2>3
<1>4. current_timestamp' \in 0 .. MaxTime
  BY <1>2, <1>3
<1>5. /\ FreshCell \in [time : 0 .. MaxTime, id : HashNodes \cup {Unset}, key : HashKeys \cup {Unset}]
      /\ FreshCell.time = MaxTime
  BY <1>2 DEF FreshCell, Unset
<1>6. HTypes'
  <2>1. positions' \in [Cells -> [time : 0 .. MaxTime, id : HashNodes \cup {Unset},
                                  key : HashKeys \cup {Unset}]]
    BY <1>1, <1>5, Zenon DEF HTypes
  <2> QED BY <1>1, <1>4, <2>1, Zenon DEF HTypes
<1>7. CASE current_timestamp' = MaxTime
  <2>1. \A p \in Cells : positions'[p] = FreshCell
    BY <1>1, <1>7, Zenon
  <2>2. Times'
    BY <1>5, <1>7, <2>1, Zenon DEF Times
  <2> QED BY <1>6, <1>7, <2>2, Zenon DEF HInv
<1>8. CASE current_timestamp' # MaxTime
  <2>1. positions' = positions
    BY <1>1, <1>8, Zenon
  <2>2. \A p \in Cells : positions[p].time \in 0 .. MaxTime
    BY <1>1, Zenon DEF HTypes
  <2>3. \A p \in Cells : positions[p].time # current_timestamp'
                         /\ (positions[p].time = MaxTime \/ positions[p].time <= current_timestamp')
    <3>1. CASE current_timestamp < MaxTime /\ current_timestamp' = current_timestamp + 1
      <4> TAKE p \in Cells
      <4>1. positions[p].time = MaxTime \/ positions[p].time <= current_timestamp
        BY <1>1, Zenon DEF Times
      <4> QED BY <1>2, <1>8, <2>2, <3>1, <4>1
    <3>2. CASE current_timestamp = MaxTime /\ current_timestamp' = 0
      <4>1. \A p \in Cells : positions[p].time = MaxTime
        BY <1>1, <1>5, <3>2, Zenon DEF Times
      <4> QED BY <1>2, <3>2, <4>1, Zenon
    <3> QED BY <1>3, <3>1, <3>2, Zenon
  <2>4. Times'
    BY <1>8, <2>1, <2>3, Zenon DEF Times
  <2>5. InUse'
    BY <2>1, <2>3, Zenon DEF InUse
  <2>6. Found' /\ Searching'
    BY <1>1, Zenon DEF Found, Searching
  <2> QED BY <1>6, <2>4, <2>5, <2>6, Zenon DEF HInv
<1> QED BY <1>7, <1>8, Zenon

-----------------------------------------------------------------------------
(* While there is a cell for the node that is put, the search for it ends:   *)
(* the cells in use belong to different nodes.                               *)
LEMMA Room ==
  ASSUME HInv, current_timestamp # MaxTime, Cardinality(DOMAIN put) < Positions, NEW n
  PROVE  \E p \in Cells : ~TakenByOther(p, n)
<1> SUFFICES ASSUME \A p \in Cells : TakenByOther(p, n) PROVE FALSE
  BY Zenon
<1>1. HTypes /\ InUse
  BY Zenon DEF HInv
<1>2. \A p \in Cells : positions[p].time = current_timestamp
  BY Zenon DEF TakenByOther
<1> DEFINE owner == [p \in Cells |-> positions[p].id]
<1>3. owner \in [Cells -> DOMAIN put] /\ \A p, q \in Cells : owner[p] = owner[q] => p = q
  BY <1>1, <1>2, Zenon DEF InUse
<1> HIDE DEF owner
<1>5. IsFiniteSet(DOMAIN put) /\ Cardinality(DOMAIN put) \in Nat
  BY <1>1, FS_Subset, FS_CardinalityType, HashAssumption, Zenon DEF HTypes
<1>6. IsFiniteSet(Cells) /\ Cardinality(Cells) = Positions
  <2>1. Positions \in Nat \ {0} /\ 0 \in Int /\ Positions - 1 \in Int
    BY HashAssumption
  <2>2. /\ IsFiniteSet(0 .. Positions - 1)
        /\ Cardinality(0 .. Positions - 1) = IF 0 > Positions - 1 THEN 0 ELSE Positions - 1 - 0 + 1
    BY <2>1, FS_Interval, Zenon
  <2> QED BY <2>1, <2>2 DEF Cells
<1>7. \E p, q \in Cells : p # q /\ owner[p] = owner[q]
  BY <1>3, <1>5, <1>6, FS_PigeonHole, Zenon
<1> QED BY <1>3, <1>7, Zenon

(* The invariant says what StorageFaithful does.                           *)
LEMMA FaithfulBase ==
  ASSUME HInv
  PROVE  StorageFaithful
<1>0. ASSUME current_timestamp = MaxTime, NEW n \in HashNodes, NEW p \in 0 .. Positions - 1
      PROVE  TakenByOther(p, n)
  <2>1. positions[p] = FreshCell /\ n # MaxTime
    BY <1>0, HashAssumption, Zenon DEF HInv, Times, Cells
  <2> QED BY <1>0, <2>1 DEF TakenByOther, FreshCell, Unset
<1> SUFFICES ASSUME current_timestamp # MaxTime
             PROVE  /\ \A n \in DOMAIN put : PeekIndex(n) = put[n]
                    /\ probing.node # "none" /\ Cardinality(DOMAIN put) < Positions =>
                         \E p \in 0 .. Positions - 1 : ~TakenByOther(p, probing.node)
  BY <1>0, Zenon DEF StorageFaithful
<1>1. ASSUME NEW n \in DOMAIN put PROVE PeekIndex(n) = put[n]
  <2>1. PICK k \in Cells : /\ positions[At(n, k)].time = current_timestamp
                           /\ positions[At(n, k)].id = n /\ positions[At(n, k)].key = put[n]
                           /\ Passed(n, k)
    BY Zenon DEF HInv, Found
  <2> DEFINE ends == {j \in 0 .. Positions - 1 : ~TakenByOther((fast_hasher[n] + j) % Positions, n)}
             first == CHOOSE j \in ends : \A i \in ends : j <= i
  <2>2. k \in ends
    BY <2>1, Zenon DEF TakenByOther, At, Cells
  <2>3. \A i \in ends : i \in Nat /\ k <= i
    <3> TAKE i \in ends
    <3>1. i \in Nat /\ k \in Nat /\ ~TakenByOther(At(n, i), n)
      BY HashAssumption DEF At, Cells
    <3>2. i \notin 0 .. k - 1
      BY <2>1, <3>1, Zenon DEF Passed
    <3> QED BY <3>1, <3>2
  <2>4. PeekIndex(n) = positions[(fast_hasher[n] + first) % Positions].key
    BY Zenon DEF PeekIndex
  <2> HIDE DEF ends
  <2>5. first \in ends /\ \A i \in ends : first <= i
    BY <2>2, <2>3, Zenon
  <2> HIDE DEF first
  <2>6. first = k
    BY <2>2, <2>3, <2>5
  <2> QED BY <2>1, <2>4, <2>6, Zenon DEF At
<1>2. Cardinality(DOMAIN put) < Positions => \E p \in Cells : ~TakenByOther(p, probing.node)
  BY Room, Zenon
<1> QED BY <1>1, <1>2, Zenon DEF Cells

(* XORFastHashStorage, for every size of the table, every hash function and  *)
(* every largest time: at all times but the largest a node put since the     *)
(* last Clear is found with its latest key, and a search ends while there is *)
(* a free cell; at the largest time every cell looks taken to every node, so *)
(* that no search ends.                                                      *)
THEOREM StorageKeeps == HashSpec => []StorageFaithful
<1>1. HashInit => HInv
  BY InitHInv, Zenon
<1>2. HInv /\ [HashStep]_hashVars => HInv'
  <2> SUFFICES ASSUME HInv, [HashStep]_hashVars PROVE HInv'
    BY Zenon
  <2>1. CASE UNCHANGED hashVars
    BY <2>1 DEF hashVars, HInv, HTypes, Times, Found, InUse, Searching, Passed, TakenByOther, At
  <2> QED BY <2>1, ShuffleStep, StartStep, ProbeStep, PutStep, ClearStep, Zenon DEF HashStep
<1>3. HInv => StorageFaithful
  BY FaithfulBase, Zenon
<1> QED BY <1>1, <1>2, <1>3, PTL DEF HashSpec
=============================================================================
