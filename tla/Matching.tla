------------------------------ MODULE Matching ------------------------------
(***************************************************************************)
(* Map matching: the checks and the candidates of the match plugin         *)
(* (plugins/match.hpp), the hidden Markov model                            *)
(* (data_structures/hidden_markov_model.hpp) and the Viterbi computation   *)
(* that splits a trace where it breaks                                     *)
(* (routing_algorithms/map_matching.hpp).                                  *)
(*                                                                         *)
(* Points and candidates lie on a line; the logarithm of a probability is  *)
(* the negated distance, and that of a transition has the constant         *)
(* -log(beta) added.  Points are numbered from 1.                          *)
(***************************************************************************)
EXTENDS Integers, Sequences, FiniteSets, FiniteSetsExt, SequencesExt

CONSTANTS Traces,              \* the requests
          max_locations_map_matching,
          MAX_BROKEN_STATES,
          MAX_SPEED,
          TimeWidth,           \* the number of values of a timestamp
          Never                \* farther than anything

\* A request has its points, whether they are valid, and the roads near each of
\* them in the bearing asked for; times; the number of bearings; and -log(beta).
ASSUME TracesAssumption ==
    /\ {MAX_BROKEN_STATES, MAX_SPEED, TimeWidth, Never} \subseteq Nat \ {0}
    /\ \A q \in Traces : /\ DOMAIN q = {"points", "valid", "times", "bearings", "bonus"}
                         /\ \A i \in DOMAIN q.points : DOMAIN q.points[i] = {"at", "near"}
                         /\ \A i \in DOMAIN q.times : q.times[i] \in 0 .. TimeWidth - 1

VARIABLES mmAt,              \* what the request is doing
          trace,             \* the request
          candidates_lists,  \* the candidates of the points so far
          viterbi,           \* of each point, of each candidate: value, parent, length, pruned
          breakage,          \* the points without a candidate that is reached
          t,                 \* the point at hand
          prev_unbroken,     \* prev_unbroken_timestamps
          breakage_begin, split_points,
          sub_matching_begin, sub_matchings

mmVars == <<mmAt, trace, candidates_lists, viterbi, breakage, t, prev_unbroken,
            breakage_begin, split_points, sub_matching_begin, sub_matchings>>

SPECIAL_NODEID == "none"
Impossible == 0 - Never
INVALID_STATE == Never

MatchInit ==
    /\ mmAt = "idle" /\ trace = <<>> /\ candidates_lists = <<>>
    /\ viterbi = <<>> /\ breakage = <<>> /\ t = 1
    /\ prev_unbroken = <<>> /\ breakage_begin = INVALID_STATE /\ split_points = <<>>
    /\ sub_matching_begin = 1 /\ sub_matchings = <<>>

Abs(x) == IF x < 0 THEN 0 - x ELSE x
Between(i, j) == Abs(trace.points[i].at - trace.points[j].at)  \* haversine_distance

-----------------------------------------------------------------------------
(* The request.                                                            *)

\* HandleRequest up to the candidates.  The limit is compared the wrong way
\* round: it refuses requests with fewer points.
Refuses(q) ==
    \/ ~q.valid
    \/ q.times # <<>> /\ Len(q.times) # Len(q.points)
    \/ q.bearings > 0 /\ q.bearings # Len(q.points)
    \/ max_locations_map_matching > 0 /\ Len(q.points) < max_locations_map_matching
    \/ Len(q.points) < 2

AskMatch(q) ==
    /\ mmAt = "idle"
    /\ trace' = q
    /\ mmAt' = IF Refuses(q) THEN "refused" ELSE "candidates"
    /\ UNCHANGED <<candidates_lists, viterbi, breakage, t, prev_unbroken, breakage_begin,
                   split_points, sub_matching_begin, sub_matchings>>

\* A sharp turn at a point between two others may be a turn back.
AllowUTurn(i) ==
    /\ 1 < i /\ i < Len(trace.points)
    /\ LET before == trace.points[i].at - trace.points[i - 1].at
           after == trace.points[i + 1].at - trace.points[i].at
       IN  before * after < 0

\* The candidates of a point: the nearest of those on the same road, and a road
\* that may be driven both ways split into its directions unless the trace may
\* turn there.
Found(i) ==
    LET near == {[c EXCEPT !.distance = Abs(c.at - trace.points[i].at)] : c \in trace.points[i].near}
        nearest == {c \in near : \A d \in near :
                      c.forward = d.forward /\ c.reverse = d.reverse => c.distance <= d.distance}
        single(c) == SPECIAL_NODEID \in {c.forward, c.reverse}
    IN  IF AllowUTurn(i) THEN nearest
        ELSE {c \in nearest : single(c)}
             \cup {[c EXCEPT !.reverse = SPECIAL_NODEID] : c \in {d \in nearest : ~single(d)}}
             \cup {[c EXCEPT !.forward = SPECIAL_NODEID] : c \in {d \in nearest : ~single(d)}}

\* getCandidates, one point: in the order of distance; candidates at the same
\* distance are in any order.
GetCandidates ==
    /\ mmAt = "candidates" /\ Len(candidates_lists) < Len(trace.points)
    /\ LET found == Found(Len(candidates_lists) + 1)
       IN  \/ /\ found = {}
              /\ mmAt' = "refused"
              /\ UNCHANGED candidates_lists
           \/ /\ found # {}
              /\ \E list \in SetToSeqs(found) :
                   /\ \A i, j \in DOMAIN list : i < j => list[i].distance <= list[j].distance
                   /\ candidates_lists' = Append(candidates_lists, list)
              /\ UNCHANGED mmAt
    /\ UNCHANGED <<trace, viterbi, breakage, t, prev_unbroken, breakage_begin, split_points,
                   sub_matching_begin, sub_matchings>>

-----------------------------------------------------------------------------
(* The model.                                                              *)

Emission(i, s) == 0 - candidates_lists[i][s].distance
Transition(d) == trace.bonus - d

\* get_network_distance: along a road with its direction, else with a detour.
NetworkDistance(c, d) ==
    LET apart == Abs(c.at - d.at)
        ahead == c.forward # SPECIAL_NODEID /\ d.forward # SPECIAL_NODEID /\ c.at <= d.at
        back == c.reverse # SPECIAL_NODEID /\ d.reverse # SPECIAL_NODEID /\ d.at <= c.at
    IN  IF c.island # d.island THEN Never
        ELSE IF ahead \/ back THEN apart ELSE apart + 2

\* d_t, the difference to the distance of the points.
Difference(i, s, j, r) ==
    LET network == NetworkDistance(candidates_lists[i][s], candidates_lists[j][r])
    IN  IF network = Never THEN Never ELSE Abs(network - Between(i, j))

Blank == [value |-> Impossible, parent |-> <<0, 0>>, length |-> 0, pruned |-> TRUE]

\* clear: everything from a point on is forgotten.
ClearFrom(columns, from) ==
    [i \in 1 .. Len(candidates_lists) |->
       IF i < from THEN columns[i] ELSE [s \in DOMAIN candidates_lists[i] |-> Blank]]

\* initialize: every point has a candidate, so the first one is the start; the
\* last point is none.
Start(columns, from) ==
    [columns EXCEPT ![from] = [s \in DOMAIN candidates_lists[from] |->
       [value |-> Emission(from, s), parent |-> <<from, s>>, length |-> 0, pruned |-> FALSE]]]

NewStart(from) == IF from < Len(candidates_lists) THEN from ELSE INVALID_STATE

Median == \* GetMedianSampleTime
    LET samples == [i \in 1 .. Len(trace.times) - 1 |->
                      (trace.times[i + 1] - trace.times[i]) % TimeWidth]
        sorted == SortSeq(samples, <)
    IN  sorted[Len(samples) \div 2 + 1]

Timed == Len(trace.times) > 1
MaxBrokenTime == IF Timed THEN (Median * MAX_BROKEN_STATES) % TimeWidth ELSE 0
MaxDistanceDelta == IF Timed THEN Median * MAX_SPEED ELSE Never

StartModel ==
    /\ mmAt = "candidates" /\ Len(candidates_lists) = Len(trace.points)
    /\ viterbi' = Start(ClearFrom(<<>>, 1), 1)
    /\ breakage' = [i \in DOMAIN candidates_lists |-> i # 1]
    /\ prev_unbroken' = <<1>>
    /\ t' = 2
    /\ mmAt' = "viterbi"
    /\ UNCHANGED <<trace, candidates_lists, breakage_begin, split_points,
                   sub_matching_begin, sub_matchings>>

\* A mutation of Reached: the distance of the points is not looked at.
ReachedFirst(columns, i, j, r) ==
    FoldLeft(LAMBDA best, s :
               LET value == columns[i][s].value + Emission(j, r)
                   d == Difference(i, s, j, r)
               IN  IF columns[i][s].pruned \/ best.value >= value \/ d >= MaxDistanceDelta THEN best
                   ELSE [value |-> value + Transition(d), parent |-> <<i, s>>, pruned |-> FALSE,
                         length |-> NetworkDistance(candidates_lists[i][s], candidates_lists[j][r])],
             Blank, [s \in DOMAIN columns[i] |-> s])

\* Candidate r of point j, reached from the candidates of point i in their
\* order: one that cannot improve on the best is passed over, and so is a
\* transition that is too long.
Reached(columns, i, j, r) ==
    FoldLeft(LAMBDA best, s :
               LET value == columns[i][s].value + Emission(j, r)
                   d == Difference(i, s, j, r)
               IN  IF \/ columns[i][s].pruned \/ best.value > value \/ d >= MaxDistanceDelta
                      \/ value + Transition(d) <= best.value
                   THEN best
                   ELSE [value |-> value + Transition(d), parent |-> <<i, s>>, pruned |-> FALSE,
                         length |-> NetworkDistance(candidates_lists[i][s], candidates_lists[j][r])],
             Blank, [s \in DOMAIN columns[i] |-> s])

\* The body of the loop for point j, with the columns and the unbroken points
\* that the split left.
Advance(columns, broken, unbroken, begin, j) ==
    LET column == [r \in DOMAIN candidates_lists[j] |-> Reached(columns, Last(unbroken), j, r)]
        breaks == \A r \in DOMAIN column : column[r].pruned
    IN  /\ viterbi' = [columns EXCEPT ![j] = column]
        /\ breakage' = [broken EXCEPT ![j] = breaks]
        /\ breakage_begin' = IF breaks THEN Min({begin, j}) ELSE begin
        /\ prev_unbroken' = IF breaks THEN Front(unbroken) ELSE Append(unbroken, j)
        /\ t' = j + 1

\* trace_split: no good point is left, or the last one is too long ago.
TraceSplit ==
    \/ prev_unbroken = <<>>
    \/ /\ prev_unbroken # <<>> /\ trace.times # <<>>
       /\ (trace.times[t] - trace.times[Last(prev_unbroken)]) % TimeWidth > MaxBrokenTime
    \/ /\ prev_unbroken # <<>> /\ trace.times = <<>>
       /\ t - Last(prev_unbroken) > MAX_BROKEN_STATES

ViterbiStep ==
    /\ mmAt = "viterbi" /\ t <= Len(trace.points) /\ ~TraceSplit
    /\ Advance(viterbi, breakage, prev_unbroken, breakage_begin, t)
    /\ UNCHANGED <<mmAt, trace, candidates_lists, split_points, sub_matching_begin, sub_matchings>>

\* The trace is split where it broke first, however far back that is.
SplitIndex == IF breakage_begin # INVALID_STATE THEN breakage_begin ELSE t

SplitStep ==
    /\ mmAt = "viterbi" /\ t <= Len(trace.points) /\ TraceSplit
    /\ split_points' = Append(split_points, SplitIndex)
    /\ LET columns == Start(ClearFrom(viterbi, SplitIndex), SplitIndex)
           broken == [i \in DOMAIN breakage |-> i > SplitIndex \/ (i < SplitIndex /\ breakage[i])]
           start == NewStart(SplitIndex)
       IN  \/ /\ start = INVALID_STATE
              /\ mmAt' = "ended"
              /\ viterbi' = columns /\ breakage' = broken
              /\ breakage_begin' = INVALID_STATE
              /\ UNCHANGED <<prev_unbroken, t>>
           \/ /\ start # INVALID_STATE
              /\ Advance(columns, broken, <<start>>, INVALID_STATE, start + 1)
              /\ UNCHANGED mmAt
    /\ UNCHANGED <<trace, candidates_lists, sub_matching_begin, sub_matchings>>

\* The end of the loop, by its condition or by the break.
EndViterbi ==
    /\ mmAt = "ended" \/ (mmAt = "viterbi" /\ t > Len(trace.points))
    /\ split_points' = IF prev_unbroken = <<>> THEN split_points
                       ELSE Append(split_points, Last(prev_unbroken) + 1)
    /\ mmAt' = "collect"
    /\ UNCHANGED <<trace, candidates_lists, viterbi, breakage, t, prev_unbroken, breakage_begin,
                   sub_matching_begin, sub_matchings>>

-----------------------------------------------------------------------------
(* The matchings, one for each split point.                                *)

Stuck == <<<<0, 0>>>>

\* The parents of a candidate, back to the first point of the matching.  At a
\* broken point the loop would not end.
Reconstructed(from, i, s) ==
    LET back[k \in 1 .. Len(viterbi), c \in 1 .. Max({Len(viterbi[j]) : j \in DOMAIN viterbi})] ==
          LET next == viterbi[k][c].parent
          IN  CASE k <= from      -> <<<<k, c>>>>
                [] breakage[k]    -> Stuck
                [] next[1] = k    -> <<<<k, c>>, <<k, c>>>>
                [] OTHER          -> Append(back[next[1], next[2]], <<k, c>>)
    IN  back[i, s]

\* One sub-matching: broken points at its ends are left out, and the best
\* candidate of its last point is followed back.
Collect ==
    /\ mmAt = "collect" /\ split_points # <<>>
    /\ LET end == Head(split_points)
           unbroken == {i \in sub_matching_begin .. end - 1 : ~breakage[i]}
           last == IF end - 1 < sub_matching_begin THEN end - 1
                   ELSE Max(unbroken \cup {sub_matching_begin - 1})
           first == IF end <= sub_matching_begin THEN sub_matching_begin
                    ELSE Min(unbroken \cup {end})
           size == last - first + 1
           best == CHOOSE s \in DOMAIN viterbi[last] :
                     /\ \A r \in DOMAIN viterbi[last] : viterbi[last][r].value <= viterbi[last][s].value
                     /\ \A r \in 1 .. s - 1 : viterbi[last][r].value < viterbi[last][s].value
           nodes == IF size \in {0, 1} THEN <<>> ELSE Reconstructed(first, last, best)
           lengths == [i \in DOMAIN nodes |-> viterbi[nodes[i][1]][nodes[i][2]].length]
       IN  /\ mmAt' = IF Len(nodes) > 1 /\ Head(nodes) = Head(Stuck) THEN "stuck" ELSE mmAt
           /\ sub_matchings' =
                IF Len(nodes) < 2 \/ Head(nodes) = Head(Stuck) THEN sub_matchings
                ELSE Append(sub_matchings, [nodes |-> nodes, length |-> FoldLeft(+, 0, lengths)])
           /\ sub_matching_begin' = end
    /\ split_points' = Tail(split_points)
    /\ UNCHANGED <<trace, candidates_lists, viterbi, breakage, t, prev_unbroken, breakage_begin>>

\* The reply: status 207 if there is no matching.
ReplyMatch ==
    /\ mmAt = "collect" /\ split_points = <<>>
    /\ mmAt' = IF sub_matchings = <<>> THEN "none" ELSE "matched"
    /\ UNCHANGED <<trace, candidates_lists, viterbi, breakage, t, prev_unbroken, breakage_begin,
                   split_points, sub_matching_begin, sub_matchings>>

MatchStep ==
    \/ mmAt = "idle" /\ \E q \in Traces : AskMatch(q)
    \/ GetCandidates
    \/ StartModel
    \/ ViterbiStep
    \/ SplitStep
    \/ EndViterbi
    \/ Collect
    \/ ReplyMatch

MatchSpec == MatchInit /\ [][MatchStep]_mmVars

-----------------------------------------------------------------------------
\* The likelihood of a sequence of candidates, and whether each of its
\* transitions is short enough.
Steps(nodes) == 1 .. Len(nodes) - 1
Apart(nodes, k) == Difference(nodes[k][1], nodes[k][2], nodes[k + 1][1], nodes[k + 1][2])
Feasible(nodes) == \A k \in Steps(nodes) : Apart(nodes, k) < MaxDistanceDelta
Likelihood(nodes) ==
    FoldLeft(+, 0, [k \in DOMAIN nodes |->
      Emission(nodes[k][1], nodes[k][2]) + IF k = 1 THEN 0 ELSE Transition(Apart(nodes, k - 1))])

\* The sequences of candidates for the points of a matching.
Alternatives(nodes) ==
    {[k \in DOMAIN nodes |-> <<nodes[k][1], pick[k]>>] :
       pick \in {p \in [DOMAIN nodes -> 1 .. Max({Len(candidates_lists[i]) : i \in DOMAIN candidates_lists})] :
                   \A k \in DOMAIN nodes : p[k] <= Len(candidates_lists[nodes[k][1]])}}

\* However often the trace was split and the computation went back, the
\* matchings are pieces of the trace in its order that do not overlap, no
\* transition in them is too long, the length is that of the drive, no other
\* choice of candidates for the same points is more likely, and following the
\* parents ends (MapMatching::operator()).  With beta below 1 a transition may
\* raise the likelihood and a better candidate be passed over; this is left out.
MatchingOptimal ==
    /\ mmAt # "stuck"
    /\ mmAt = "matched" /\ trace.bonus <= 0 =>
         /\ \A m \in DOMAIN sub_matchings :
              LET nodes == sub_matchings[m].nodes
                  step(k) == NetworkDistance(candidates_lists[nodes[k][1]][nodes[k][2]],
                                             candidates_lists[nodes[k + 1][1]][nodes[k + 1][2]])
              IN  /\ \A k \in Steps(nodes) : nodes[k][1] < nodes[k + 1][1]
                  /\ Feasible(nodes)
                  /\ sub_matchings[m].length = FoldLeft(+, 0, [k \in Steps(nodes) |-> step(k)])
                  /\ \A other \in Alternatives(nodes) :
                       Feasible(other) => Likelihood(other) <= Likelihood(nodes)
         /\ \A m \in 1 .. Len(sub_matchings) - 1 :
              Last(sub_matchings[m].nodes)[1] < Head(sub_matchings[m + 1].nodes)[1]

=============================================================================
