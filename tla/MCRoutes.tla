------------------------------ MODULE MCRoutes ------------------------------
(***************************************************************************)
(* Instances of the queries: small graphs, contracted in every way and in  *)
(* part, all direct queries between phantom nodes on one or two nodes, and *)
(* some routes over several stops.                                         *)
(***************************************************************************)
EXTENDS ViaRoute, ManyToMany, AlternativePath

Segment(u, v, w, twoway) ==
    [source |-> u, target |-> v, weight |-> w, forward |-> TRUE,
     backward |-> twoway]

\* A two-way ring with one long segment and a chord.
Ring == {Segment(u, (u + 1) % NumNodes, IF u = 1 THEN 3 ELSE 2, TRUE) :
         u \in Node}
          \cup {Segment(0, 2, 4, TRUE)}

\* One-way streets with two ways back and a dead end.
Oneway == {Segment(u, u + 1, 2, FALSE) : u \in 0 .. NumNodes - 2}
            \cup {Segment(2, 0, 2, FALSE), Segment(0, 2, 3, FALSE),
                  Segment(3, 1, 2, FALSE)}

\* Two ways of nearly the same weight after a common start.
Diamond == {Segment(0, 1, 4, TRUE), Segment(1, 2, 10, TRUE),
            Segment(2, 4, 10, TRUE), Segment(1, 3, 10, TRUE),
            Segment(3, 4, 11, TRUE)}

\* A detour a little longer than the road it leaves, and two one-way streets to
\* its end that nothing leads to.
Detour == {Segment(0, 4, 20, TRUE), Segment(0, 3, 11, TRUE), Segment(3, 4, 11, TRUE),
           Segment(1, 4, 10, FALSE), Segment(2, 4, 11, FALSE)}

Job(list, core_factor) ==
    [list |-> list, core_factor |-> core_factor, cached |-> FALSE,
     max_settled |-> 3]

MCJobs == {Job(list, part) : list \in {Ring, Oneway},
                             part \in {<<1, 1>>, <<2, 5>>, <<1, 5>>}}
            \cup {Job(list, <<1, 1>>) : list \in {Diamond, Detour}}

MCHash == [n \in Node |-> n]

One(n, w) == [m \in {n} |-> w]

\* No weight before the source exceeds that of an edge that leaves its node.
Sources == {One(n, w) : n \in Node, w \in {0, 2}}
             \cup {[n \in {0, 1} |-> 1 + n]}

Targets == {One(n, w) : n \in Node, w \in {0, 1}}
             \cup {[n \in {2, 3} |-> 3 - n]}

MCQueries == [source : Sources, target : Targets]

\* Stops of a route.
At(n, w) == [node |-> n, weight |-> w]

Single(n, w) == [s \in {"forward"} |-> At(n, w)]

Reversed(n, w) == [s \in {"reverse"} |-> At(n, w)]

Double(n, w, m, v) == [forward |-> At(n, w), reverse |-> At(m, v)]

Trips ==
    {[phantoms |-> <<a, b, c>>, uturns |-> <<FALSE, u, FALSE>>] :
       a \in {Double(0, 1, 1, 2), Single(3, 0)},
       b \in {Double(2, 1, 3, 0), Double(0, 0, 1, 3), Reversed(2, 1)},
       c \in {Double(0, 2, 1, 1), Double(2, 0, 3, 1), Single(4, 0), Single(2, 0)},
       u \in BOOLEAN}

\* Two places in the wrong order on a one-way node.
Loops == {[phantoms |-> <<Single(n, 2), Single(n, 0), Single((n + 1) % 4, 0)>>,
           uturns |-> <<FALSE, FALSE, FALSE>>] : n \in Node}

MCViaQueries == {q \in Trips \cup Loops : OnRoads(q)}

\* Tables; a place in a small component brings the nodes of two phantoms.
MCTableQueries ==
    {[sources |-> <<[n \in {0, 1} |-> 1 + n], One(3, 2), One(2, 0)>>,
      targets |-> <<One(4, 1), [n \in {0, 1, 3} |-> 2], One(2, 1)>>],
     [sources |-> <<One(1, 0), One(4, 1)>>,
      targets |-> <<One(0, 0), One(1, 2)>>]}

MCAlternativeQueries ==
    {[source |-> One(n, w), target |-> One(m, 1)] :
       n \in {0, 1}, w \in {0, 2}, m \in {2, 4}}
      \cup {[source |-> One(4, 0), target |-> One(0, 1)],
            [source |-> [n \in {1, 2} |-> n], target |-> One(4, 1)]}

RoutesInit == QueryInit /\ ViaInit /\ TableInit /\ AlternativeInit

RoutesNext ==
    \/ QueryNext /\ UNCHANGED <<viaVars, tableVars, alternativeVars>>
    \/ ViaStep /\ UNCHANGED <<tableVars, alternativeVars>>
    \/ TableStep /\ UNCHANGED <<viaVars, alternativeVars>>
    \/ AlternativeStep /\ UNCHANGED <<viaVars, tableVars>>

RoutesSpec ==
    RoutesInit
      /\ [][RoutesNext]_<<allVars, viaVars, tableVars, alternativeVars>>
=============================================================================
