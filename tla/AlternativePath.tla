-------------------------- MODULE AlternativePath --------------------------
(***************************************************************************)
(* A route and an alternative to it: AlternativeRouting of                 *)
(* routing_algorithms/alternative_path.hpp.  Both searches run on past the *)
(* shortest path, up to 15% longer ways.  The nodes both have settled are  *)
(* candidates for a via node; those that pass a test on estimates, and     *)
(* then one on the real path over them, are ranked, and the first whose    *)
(* path is locally optimal around the via node (T-test) gives the          *)
(* alternative.                                                            *)
(*                                                                         *)
(* The main search takes one step at a time, in every order of equal keys. *)
(* The small searches of the selection take equal keys in order of the     *)
(* ids, and FindEdgeInEitherDirection takes some edge of several.          *)
(* The factors 1.15, 1.1 and 0.75 are exact fractions here.                *)
(***************************************************************************)
EXTENDS ChQuery, SequencesExt

CONSTANT AlternativeQueries

VARIABLES
    candidates,     \* via_node_candidate_list, then preselected_node_list, both sorted
    space,          \* forward_search_space, reverse_search_space
    ranked,         \* ranked_candidates_list, with their paths
    alternative     \* alternative_path_length

alternativeVars == <<candidates, space, ranked, alternative>>

AlternativeInit == /\ candidates = {} /\ space = [s \in Side |-> <<>>]
                   /\ ranked = {} /\ alternative = IntMax

AskAlternative(q) ==
    /\ at = "idle"
    /\ task' = "alternative" /\ query' = q
    /\ LET from == [n \in DOMAIN q.source |-> -q.source[n]]
       IN  /\ heaps' = [heaps EXCEPT !["hierarchy"] =
                          [forward |-> Filled(from), reverse |-> Filled(q.target)]]
           /\ offset' = Min({0} \cup {from[n] : n \in DOMAIN from})
    /\ at' = "hierarchy"
    /\ UNCHANGED <<vars, entry, middle, distance, turn, pathVars, alternativeVars>>

\* The search has left the paths at most 15% longer than the shortest.
BeyondStretch(key) == /\ distance # IntMax
                      /\ ((key + offset) * 100) \div 115 > distance

AlternativeRoutingStep(node) ==
    /\ at = "hierarchy" /\ task = "alternative"
    /\ node \in Mins(heaps[at][turn])
    /\ LET own   == [heaps[at][turn] EXCEPT !.waiting = @ \ {node}]
           other == heaps[at][Opposite(turn)]
           met   == Meeting(own, other, node, distance)
       IN  IF BeyondStretch(own.key[node])
           THEN /\ heaps' = [heaps EXCEPT ![at][turn] = [own EXCEPT !.waiting = {}]]
                /\ UNCHANGED <<middle, distance, candidates, space>>
           ELSE /\ space' = [space EXCEPT ![turn] =
                               Append(@, <<own.parent[node], node>>)]
                /\ candidates' = candidates \cup ({node} \cap DOMAIN other.key)
                /\ middle' = IF met = {} THEN middle ELSE node
                /\ distance' = Min({distance} \cup met)
                /\ heaps' = [heaps EXCEPT ![at][turn] = Relaxed(own, turn, node)]
    /\ turn' = Opposite(turn)
    /\ UNCHANGED <<vars, task, query, entry, offset, pathVars, at, ranked, alternative>>

\* The heaps ran empty without a meeting.
NoRoute ==
    /\ task = "alternative" /\ SearchEnds /\ middle = NumNodes
    /\ at' = "answered"
    /\ UNCHANGED <<vars, task, query, searchVars, pathVars, alternativeVars>>

-----------------------------------------------------------------------------
(* Preselection, on the estimates the two searches give. *)

\* approximated_*_sharing: the key up to which the way to a node stays on
\* the shortest path, swept over the search space in the order of settling.
\* What is noted first stays.
Sharing(side, onPath) ==
    LET Noted(known, n, key) == IF n \in DOMAIN known THEN known
                                ELSE [m \in DOMAIN known \cup {n} |->
                                        IF m = n THEN key ELSE known[m]]
        Sweep(known, edge) ==
          IF edge[2] \in onPath
          THEN Noted(known, edge[2], heaps["hierarchy"][side].key[edge[2]])
          ELSE IF edge[1] \in DOMAIN known THEN Noted(known, edge[2], known[edge[1]])
          ELSE known
    IN  FoldLeft(Sweep, <<>>, space[side])

\* length_passes, sharing_passes, stretch_passes.
Passes(length, sharing) ==
    /\ length * 100 < distance * 115
    /\ sharing * 100 <= distance * 75
    /\ (length - sharing) * 100 < 110 * (distance - sharing)

Preselected ==
    LET first == heaps["hierarchy"]
        known == [s \in Side |-> Sharing(s, ToSet(PackedPath))]
        Known(s, n) == IF n \in DOMAIN known[s] THEN known[s][n] ELSE 0
    IN  {n \in candidates :
           Passes(first["forward"].key[n] + first["reverse"].key[n],
                  Known("forward", n) + Known("reverse", n))}

-----------------------------------------------------------------------------
(* The path over a via node. *)

Nowhere == [middle |-> NumNodes, distance |-> IntMax]

Lowest(heap) == Min(Mins(heap))

\* One side searches alone from a node, against a heap that is complete.
HalfSearch(node, side, other) ==
    LET run[k \in 0 .. NumNodes] ==
          IF k = 0 THEN [heap |-> Filled([n \in {node} |-> 0]), bound |-> Nowhere]
          ELSE LET r == run[k - 1]
               IN  IF r.heap.waiting = {} THEN r
                   ELSE Stepped(r.heap, other, side, Lowest(r.heap), TRUE,
                                r.bound, offset)
    IN  run[NumNodes]

\* A mutation of ViaLength: the second half overwrites the first.
ViaLengthTail(before, after) == after.bound.distance

\* An int of the code, here with IntMax as the largest.
Wrapped(x) == ((x + IntMax + 1) % (2 * (IntMax + 1))) - IntMax - 1

\* A half that does not exist has length IntMax, and the sum overflows.
ViaLength(before, after) == Wrapped(before.bound.distance + after.bound.distance)

\* <s,..,v> and <v,..,t>, reusing the searches from s and t.
ViaPath(v) ==
    LET forward == heaps["hierarchy"]["forward"]
        reverse == heaps["hierarchy"]["reverse"]
        before  == HalfSearch(v, "reverse", forward)
        after   == HalfSearch(v, "forward", reverse)
        exists  == before.bound # Nowhere /\ after.bound # Nowhere
    IN  [exists |-> exists,
         length |-> ViaLength(before, after),
         sMiddle |-> before.bound.middle, tMiddle |-> after.bound.middle,
         s |-> IF exists THEN Joined(forward, before.heap, before.bound.middle)
               ELSE <<>>,
         t |-> IF exists THEN Joined(after.heap, reverse, after.bound.middle)
               ELSE <<>>]

FindEdgeInEitherDirection(u, v) ==
    CHOOSE e \in IF KeptAt(u, v) # {} THEN KeptAt(u, v) ELSE KeptAt(v, u) : TRUE

\* UnpackEdge, by the number of shortcuts within shortcuts.
UnpackEdge(u, v) ==
    LET open[k \in 0 .. NumNodes, a \in Node, b \in Node] ==
          LET e == CHOOSE e \in Unpacked(a, b) : TRUE
          IN  IF e.shortcut /\ k > 0
              THEN open[k - 1, a, e.id] \o open[k - 1, e.id, b]
              ELSE <<a>>
    IN  Append(open[NumNodes, u, v], v)

\* The steps along which two sequences of nodes, compared from one end,
\* go together.
Together(a, b) ==
    {i \in 1 .. Min({Len(a), Len(b)}) - 1 : a[i] = b[i] /\ a[i + 1] = b[i + 1]}

\* The length of some steps of a path, which may be given from its end.
Lengths(steps, path, back) ==
    LET Edge(i) == IF back THEN FindEdgeInEitherDirection(path[i + 1], path[i])
                   ELSE FindEdgeInEitherDirection(path[i], path[i + 1])
    IN  FoldSet(LAMBDA i, sum : sum + Edge(i).distance, 0, steps)

\* The common start of two sequences of nodes.
Prefix(a, b) == {i \in Together(a, b) : 1 .. i \subseteq Together(a, b)}

\* Where the packed paths part, if they do; edges before a node the paths do
\* not share are passed over.
Parting(a, b) ==
    LET splits == {i \in 1 .. Min({Len(a), Len(b)}) - 1 :
                     a[i] = b[i] /\ a[i + 1] # b[i + 1]}
    IN  IF splits = {} THEN 0 ELSE Min(splits)

\* ComputeLengthAndSharingOfViaPath: what the via path has in common with
\* the shortest one, packed edges first, then the edges at which they part.
SharingOf(via, shortest) ==
    LET Before(a, b) == {i \in Together(a, b) :
                           Parting(a, b) = 0 \/ i < Parting(a, b)}
        at1   == Parting(via.s, shortest)
        viaT  == Turned(via.t)
        shortT == Turned(shortest)
        at2   == Parting(viaT, shortT)
        u1 == IF at1 = 0 THEN <<>> ELSE UnpackEdge(via.s[at1], via.s[at1 + 1])
        w1 == IF at1 = 0 THEN <<>> ELSE UnpackEdge(shortest[at1], shortest[at1 + 1])
        u2 == u1 \o (IF at2 = 0 THEN <<>> ELSE UnpackEdge(viaT[at2 + 1], viaT[at2]))
        w2 == w1 \o (IF at2 = 0 THEN <<>>
                     ELSE UnpackEdge(shortT[at2 + 1], shortT[at2]))
    IN  Lengths(Before(via.s, shortest), via.s, FALSE)
          + Lengths(Prefix(u1, w1), u1, FALSE)
          + Lengths(Before(viaT, shortT), viaT, TRUE)
          + Lengths(Prefix(Turned(u2), Turned(w2)), Turned(u2), TRUE)

-----------------------------------------------------------------------------
(* The T-test. *)

\* From the via node along packed edges, given in the order of walking away
\* from it, until the threshold is passed; the edge that passes it is opened
\* down to an edge of the input.  The walk goes back along the edges to s, or
\* ahead along them to t: Far is the end away from the via node, Halves are the
\* near and the far half of a shortcut.
WalkAway(walk, start, back) ==
    LET Far(e) == IF back THEN e[1] ELSE e[2]
        Halves(e, m) == IF back THEN <<<<m, e[2]>>, <<e[1], m>>>>
                        ELSE <<<<e[1], m>>, <<m, e[2]>>>>
        threshold == (15 * distance) \div 100
        Length(e) == FindEdgeInEitherDirection(e[1], e[2]).distance
        Upto(j)   == FoldSet(LAMBDA i, sum : sum + Length(walk[i]), 0, 1 .. j)
        passing   == {j \in DOMAIN walk : Upto(j) >= threshold}
        open[k \in 0 .. NumNodes, e \in Node \X Node, until \in 0 .. IntMax] ==
          LET edge == FindEdgeInEitherDirection(e[1], e[2])
              half == Halves(e, edge.id)
          IN  IF ~edge.shortcut \/ k = 0
              THEN [node |-> Far(e), length |-> until + edge.distance]
              ELSE IF until + Length(half[1]) >= threshold
              THEN open[k - 1, half[1], until]
              ELSE open[k - 1, half[2], until + Length(half[1])]
    IN  IF passing # {}
        THEN open[NumNodes, walk[Min(passing)], Upto(Min(passing) - 1)]
        ELSE [node |-> IF walk = <<>> THEN start ELSE Far(walk[Len(walk)]),
              length |-> Upto(Len(walk))]

\* The distance between two nodes, by a search from both ends.
Between(u, v) ==
    LET Turn(r, side) ==
          IF r[side].waiting = {} THEN r
          ELSE LET step == Stepped(r[side], r[Opposite(side)], side,
                                   Lowest(r[side]), TRUE, r.bound, offset)
               IN  [r EXCEPT ![side] = step.heap, !.bound = step.bound]
        run[k \in 0 .. NumNodes] ==
          IF k = 0 THEN [forward |-> Filled([n \in {u} |-> 0]),
                         reverse |-> Filled([n \in {v} |-> 0]),
                         bound |-> Nowhere]
          ELSE Turn(Turn(run[k - 1], "forward"), "reverse")
    IN  run[NumNodes].bound.distance

\* ViaNodeCandidatePassesTTest.  A path over the via node is never shorter than
\* the distance, so only a path that does not exist is rejected.
PassesTTest(via) ==
    LET Pairs(p) == [i \in 1 .. Len(p) - 1 |-> <<p[i], p[i + 1]>>]
        s == WalkAway(Turned(Pairs(via.s)), via.sMiddle, TRUE)
        t == WalkAway(Pairs(via.t), via.tMiddle, FALSE)
    IN  via.exists /\ Between(s.node, t.node) <= s.length + t.length

-----------------------------------------------------------------------------
(* The choice. *)

\* Whether the real path over a via node may be ranked.
Admissible(via, sharing) ==
    /\ sharing <= (75 * distance) \div 100
    /\ via.length * 100 <= distance * 115

\* The via node, the last of one half and the first of the other, counts once.
RetrievePackedAlternatePath(via) == Front(via.s) \o via.t

Preselect ==
    /\ task = "alternative" /\ SearchEnds /\ middle # NumNodes
    /\ packed' = <<PackedPath>>
    /\ candidates' = Preselected
    /\ at' = "choice"
    /\ UNCHANGED <<vars, task, query, searchVars, stack, unpacked, driven, space, ranked,
                   alternative>>

\* One iteration of the loop over the preselected nodes.
InspectCandidate ==
    /\ at = "choice" /\ candidates # {}
    /\ \E via \in {ViaPath(Min(candidates))} :
         \E sharing \in {IF via.exists THEN SharingOf(via, packed[1]) ELSE 0} :
           ranked' = IF Admissible(via, sharing)
                     THEN ranked \cup {[via |-> via, rank |-> 2 * via.length + sharing]}
                     ELSE ranked
    /\ candidates' = candidates \ {Min(candidates)}
    /\ UNCHANGED <<vars, task, query, searchVars, pathVars, at, space, alternative>>

\* The loop over the ranked nodes, up to the first that passes.
TestCandidate ==
    /\ at = "choice" /\ candidates = {}
    /\ \E c \in {c \in ranked : \A o \in ranked : c.rank <= o.rank} :
         /\ ranked' = ranked \ {c}
         /\ IF PassesTTest(c.via)
            THEN /\ packed' = Append(packed, RetrievePackedAlternatePath(c.via))
                 /\ alternative' = c.via.length
                 /\ at' = "legs"
            ELSE UNCHANGED <<packed, alternative, at>>
    /\ UNCHANGED <<vars, task, query, searchVars, stack, unpacked, driven, candidates, space>>

NoAlternative ==
    /\ at = "choice" /\ candidates = {} /\ ranked = {}
    /\ at' = "legs"
    /\ UNCHANGED <<vars, task, query, searchVars, pathVars, alternativeVars>>

AlternativeStep ==
    \/ at = "idle" /\ \E q \in AlternativeQueries : AskAlternative(q)
    \/ \E node \in Node : AlternativeRoutingStep(node)
    \/ NoRoute
    \/ Preselect
    \/ InspectCandidate
    \/ TestCandidate
    \/ NoAlternative
-----------------------------------------------------------------------------
(* Properties. *)

\* The alternative AlternativeRouting returns is a drive from the source to
\* the target over edges of the input, as long as it says, not shorter than
\* the route and at most 15% longer, and it is another way than the route.
AlternativeSound ==
    at = "answered" /\ task = "alternative" /\ alternative # IntMax =>
      LET path == driven[2]
      IN  /\ path[1] \in DOMAIN query.source
          /\ path[Len(path)] \in DOMAIN query.target
          /\ alternative = Driven(path) - query.source[path[1]]
                             + query.target[path[Len(path)]]
          /\ distance <= alternative
          /\ alternative * 100 <= distance * 115
          /\ path # driven[1]
=============================================================================
