---------------------------- MODULE MCContractor ----------------------------
(***************************************************************************)
(* Instances of Contractor: rings of NumNodes nodes whose segments are     *)
(* one-way or two-way and of length 1 or 2, with a chord, a parallel edge, *)
(* an eigenloop and an edge of weight 0 among them.                        *)
(***************************************************************************)
EXTENDS Contractor

Segment(u, v, w, twoway) ==
    [source |-> u, target |-> v, weight |-> w, forward |-> TRUE,
     backward |-> twoway]

Ring(weight, twoway) ==
    {Segment(u, (u + 1) % NumNodes, weight[u], twoway) : u \in Node}

Weights(ones) == [n \in Node |-> IF n \in ones THEN 1 ELSE 2]

Chord == NumNodes \div 2

\* Ties between the two ways round.
Even == Ring(Weights({}), TRUE)

Uneven == Ring(Weights({0, 2}), TRUE)

\* The two directions differ.
Directed ==
    Ring(Weights({0, 1}), FALSE)
      \cup {Segment((u + 1) % NumNodes, u, 1, FALSE) : u \in {2, 3}}
      \cup {Segment(0, Chord, 2, TRUE)}

\* A one-way ring with everything an edge list may hold besides.
Mixed ==
    Ring(Weights(Node), FALSE)
      \cup {Segment(0, Chord, 2, TRUE), Segment(0, 1, 2, FALSE),
            Segment(2, 2, 1, TRUE), Segment(3, 1, 0, FALSE),
            Segment(1, 4, 3, FALSE)}

Job(list, core_factor, cached, max_settled) ==
    [list |-> list, core_factor |-> core_factor, cached |-> cached,
     max_settled |-> max_settled]

MCJobs ==
    {Job(list, <<1, 1>>, FALSE, 5) : list \in {Even, Uneven, Directed, Mixed}}
      \cup {Job(list, <<2, 3>>, FALSE, 5) : list \in {Uneven, Directed, Mixed}}
      \cup {Job(list, <<2, 3>>, FALSE, 2) : list \in {Directed, Mixed}}
      \cup {Job(list, <<1, 2>>, FALSE, 1) : list \in {Uneven, Mixed}}
      \cup {Job(Even, <<1, 1>>, TRUE, 5)}

MCHash == [n \in Node |-> n % 2]
=============================================================================
